-------------------------- MODULE OutputReloadProofs --------------------------
(***************************************************************************)
(* However many rows are saved, in whatever order commands are queued,     *)
(* lost, passed over and handled, and however often the engine dies, it    *)
(* does not stay behind the database.                                      *)
(***************************************************************************)
EXTENDS OutputReload, TLAPS

SM == "studio_monitor"

(***************************************************************************)
(* The shape of the state, as far as the argument needs it.                *)
(***************************************************************************)
TypeInv ==
    /\ db \in [Kinds -> Row]
    /\ unpublished \subseteq [save : Nat, kind : Kinds]
    /\ saves \in Nat
    /\ commands \in Seq(Kinds)
    /\ identity \in [Kinds -> Identities \cup {Blank}]
    /\ engine.at = "idle" => ~engine.changed

(***************************************************************************)
(* A save of row k is still on its way to the engine.                      *)
(***************************************************************************)
OnItsWay(k) ==
    \/ \E s \in unpublished : s.kind = k
    \/ \E i \in DOMAIN commands : commands[i] = k
    \/ k \in lost

(***************************************************************************)
(* What differs from the database is on its way, or lost for now, or the   *)
(* engine is about to read it.                                             *)
(***************************************************************************)
StaleIsAnnounced ==
    /\ \A k \in Kinds : identity[k] # db[k].identity => OnItsWay(k) \/ engine.at = "build"
    /\ legacy_device # db[SM].device => OnItsWay(SM) \/ engine.at = "apply"

(***************************************************************************)
(* The live sink is where the slot's configuration says, or the handler is *)
(* about to send it there, or the slot is about to be built.               *)
(***************************************************************************)
SinkFollowsSlot ==
    \/ engine.at = "build"
    \/ crossed
    \/ engine.changed
    \/ live = resolve_runtime_device(identity[SM], legacy_device)

IInv == TypeInv /\ StaleIsAnnounced /\ SinkFollowsSlot
-----------------------------------------------------------------------------
(***************************************************************************)
(* The head of the queue is one of its elements, and the others stay.      *)
(***************************************************************************)
LEMMA HeadAndTail ==
    ASSUME NEW q \in Seq(Kinds), q # << >>
    PROVE  /\ Head(q) \in Kinds /\ Tail(q) \in Seq(Kinds)
           /\ \A i \in DOMAIN q : q[i] = Head(q) \/ \E n \in DOMAIN Tail(q) : Tail(q)[n] = q[i]
<1>1. Head(q) \in Kinds /\ Tail(q) \in Seq(Kinds)
  OBVIOUS
<1>2. ASSUME NEW i \in DOMAIN q, i # 1
      PROVE  i - 1 \in DOMAIN Tail(q) /\ Tail(q)[i - 1] = q[i]
  BY <1>2
<1>3. q[1] = Head(q)
  OBVIOUS
<1>4. QED
  BY <1>1, <1>2, <1>3

(***************************************************************************)
(* The engine starts from the committed configuration.                     *)
(***************************************************************************)
LEMMA InitIInv == Init => IInv
<1> SUFFICES ASSUME Init PROVE IInv
  OBVIOUS
<1>1. TypeInv
  BY DEF Init, TypeInv, Row
<1>2. StaleIsAnnounced
  BY DEF Init, StaleIsAnnounced, SM, Kinds
<1>3. SinkFollowsSlot
  BY DEF Init, SinkFollowsSlot, SM, Kinds
<1>4. QED
  BY <1>1, <1>2, <1>3 DEF IInv

(***************************************************************************)
(* A save makes its own row stale, and is unpublished.                     *)
(***************************************************************************)
LEMMA SaveIInv == ASSUME IInv, NEW k \in Kinds, Save(k) PROVE IInv'
<1> USE DEF IInv
<1> PICK row \in Row : row # db[k] /\ db' = [db EXCEPT ![k] = row]
  BY DEF Save
<1> DEFINE new == [save |-> saves + 1, kind |-> k]
<1>0. unpublished' = unpublished \cup {new} /\ saves' = saves + 1
  BY DEF Save
<1>1. TypeInv'
  BY <1>0, ReloadAssumption DEF Save, TypeInv, Row
<1>2. \A x \in Kinds : OnItsWay(x) => OnItsWay(x)'
  BY <1>0 DEF Save, OnItsWay
<1>3. OnItsWay(k)'
  <2>1. new \in unpublished' /\ new.kind = k
    BY <1>0
  <2>2. QED
    BY <2>1 DEF OnItsWay
<1>4. \A x \in Kinds : x # k => db'[x] = db[x]
  BY DEF TypeInv
<1>5. StaleIsAnnounced'
  BY <1>2, <1>3, <1>4 DEF Save, StaleIsAnnounced, SM, Kinds
<1>6. SinkFollowsSlot'
  BY DEF Save, SinkFollowsSlot
<1>7. QED
  BY <1>1, <1>5, <1>6

(***************************************************************************)
(* A command is queued, or is lost: its row stays announced either way.    *)
(***************************************************************************)
LEMMA PublishIInv ==
    ASSUME IInv, NEW s \in unpublished, PublishReload(s) \/ PublishFails(s)
    PROVE  IInv'
<1> USE DEF IInv
<1>0. s.kind \in Kinds
  BY DEF TypeInv
<1>1. TypeInv'
  <2>1. commands' \in Seq(Kinds)
    BY <1>0 DEF PublishReload, PublishFails, TypeInv
  <2>2. QED
    BY <2>1 DEF PublishReload, PublishFails, TypeInv
<1>2. ASSUME NEW x \in Kinds, OnItsWay(x) PROVE OnItsWay(x)'
  <2>1. CASE PublishReload(s)
    <3>1. commands' = Append(commands, s.kind) /\ unpublished' = unpublished \ {s} /\ lost' = lost
      BY <2>1 DEF PublishReload
    <3>2. \A i \in DOMAIN commands : i \in DOMAIN commands' /\ commands'[i] = commands[i]
      BY <3>1, <1>0 DEF TypeInv
    <3>3. Len(commands) + 1 \in DOMAIN commands' /\ commands'[Len(commands) + 1] = s.kind
      BY <3>1, <1>0 DEF TypeInv
    <3>4. QED
      BY <1>2, <3>1, <3>2, <3>3 DEF OnItsWay
  <2>2. CASE PublishFails(s)
    BY <1>2, <2>2 DEF PublishFails, OnItsWay
  <2>3. QED
    BY <2>1, <2>2
<1>3. StaleIsAnnounced'
  BY <1>2 DEF PublishReload, PublishFails, StaleIsAnnounced, SM, Kinds
<1>4. SinkFollowsSlot'
  BY DEF PublishReload, PublishFails, SinkFollowsSlot
<1>5. QED
  BY <1>1, <1>3, <1>4

(***************************************************************************)
(* A handler refreshes every identity.  The Studio Monitor's device stays  *)
(* announced by the rest of its handler.                                   *)
(***************************************************************************)
LEMMA ReloadIInv == ASSUME IInv, ReloadIdentity PROVE IInv'
<1> USE DEF IInv
<1> DEFINE k == Head(commands)
<1> PICK failed \in SUBSET Kinds :
         /\ identity' = [x \in Kinds |-> IF x \in failed THEN Blank ELSE db[x].identity]
         /\ lost' = failed \cup (IF k = "studio_monitor" THEN {} ELSE lost \ {k})
  BY DEF ReloadIdentity
<1>0. /\ engine.at = "idle" /\ commands # << >> /\ commands' = Tail(commands)
      /\ UNCHANGED <<db, saves, unpublished, legacy_device, live>>
      /\ engine' = IF k = SM THEN [at |-> "apply", changed |-> identity'[SM] # identity[SM]]
                   ELSE engine
      /\ failed \subseteq lost' /\ (k # SM => lost \ {k} \subseteq lost')
      /\ crossed' = (crossed \/ (k # SM /\ identity'[SM] # identity[SM]))
  BY DEF ReloadIdentity, SM
<1>1. /\ k \in Kinds /\ commands' \in Seq(Kinds)
      /\ \A i \in DOMAIN commands : commands[i] = k \/ \E n \in DOMAIN commands' : commands'[n] = commands[i]
  BY <1>0, HeadAndTail DEF TypeInv
<1>2. TypeInv'
  BY <1>0, <1>1 DEF TypeInv, Row
<1>3. k # SM /\ OnItsWay(SM) => OnItsWay(SM)'
  BY <1>0, <1>1 DEF OnItsWay
<1>4. k = SM => engine'.at = "apply"
  BY <1>0
<1>5. \A x \in Kinds : identity'[x] = db'[x].identity \/ OnItsWay(x)'
  BY <1>0 DEF OnItsWay
<1>6. StaleIsAnnounced'
  BY <1>0, <1>3, <1>4, <1>5 DEF StaleIsAnnounced
<1>7. SinkFollowsSlot'
  <2>1. CASE identity'[SM] # identity[SM]
    BY <1>0, <2>1 DEF SinkFollowsSlot, TypeInv
  <2>2. CASE identity'[SM] = identity[SM]
    BY <1>0, <2>2 DEF SinkFollowsSlot, TypeInv
  <2>3. QED
    BY <2>1, <2>2
<1>8. QED
  BY <1>2, <1>6, <1>7

(***************************************************************************)
(* The rest of the handler reads the device, and retargets if it must.     *)
(***************************************************************************)
LEMMA ApplyIInv == ASSUME IInv, ApplyDevice PROVE IInv'
<1> USE DEF IInv
<1>1. TypeInv'
  BY DEF ApplyDevice, TypeInv
<1>2. legacy_device' = db'[SM].device \/ OnItsWay(SM)'
  BY DEF ApplyDevice, SM, OnItsWay
<1>3. \A x \in Kinds : OnItsWay(x) => OnItsWay(x)'
  BY DEF ApplyDevice, OnItsWay
<1>4. StaleIsAnnounced'
  BY <1>2, <1>3 DEF ApplyDevice, StaleIsAnnounced
<1>5. SinkFollowsSlot'
  BY DEF ApplyDevice, SinkFollowsSlot, resolve_runtime_device, SM, TypeInv
<1>6. QED
  BY <1>1, <1>4, <1>5

(***************************************************************************)
(* A command that is not dispatched is lost, or stays queued: its row stays*)
(* announced.                                                              *)
(***************************************************************************)
LEMMA NotDispatchedIInv ==
    ASSUME IInv, CommandUnreadable \/ CommandPassedOver
    PROVE  IInv'
<1> USE DEF IInv
<1>1. commands' \in Seq(Kinds) /\ \A x \in Kinds : OnItsWay(x) => OnItsWay(x)'
  <2>1. CASE CommandUnreadable
    <3>1. commands # << >> /\ commands' = Tail(commands) /\ lost' = lost \cup {Head(commands)}
          /\ unpublished' = unpublished
      BY <2>1 DEF CommandUnreadable
    <3>2. /\ commands' \in Seq(Kinds)
          /\ \A i \in DOMAIN commands : commands[i] = Head(commands)
                 \/ \E n \in DOMAIN commands' : commands'[n] = commands[i]
      BY <3>1, HeadAndTail DEF TypeInv
    <3>3. QED
      BY <3>1, <3>2 DEF OnItsWay
  <2>2. CASE CommandPassedOver
    <3>1. PICK n \in 2 .. Len(commands) :
             commands' = [i \in DOMAIN commands |->
                             IF i < n THEN commands[i + 1]
                             ELSE IF i = n THEN commands[1] ELSE commands[i]]
      BY <2>2 DEF CommandPassedOver
    <3>2. /\ commands \in Seq(Kinds) /\ DOMAIN commands = 1 .. Len(commands)
          /\ Len(commands) \in Nat /\ \A i \in 1 .. Len(commands) : commands[i] \in Kinds
      BY DEF TypeInv
    <3>3. commands' \in [1 .. Len(commands) -> Kinds]
      <4>1. \A i \in 1 .. Len(commands) : (i < n => i + 1 \in 1 .. Len(commands))
        BY <3>1, <3>2
      <4>2. QED
        BY <3>1, <3>2, <4>1
    <3>4. commands' \in Seq(Kinds)
      BY <3>2, <3>3
    <3>5. ASSUME NEW i \in DOMAIN commands
          PROVE  \E j \in DOMAIN commands' : commands'[j] = commands[i]
      <4>1. DOMAIN commands' = DOMAIN commands
        BY <3>1
      <4>2. CASE i = 1
        BY <3>1, <3>2, <4>1, <4>2
      <4>3. CASE i # 1 /\ i <= n
        <5>1. i - 1 \in DOMAIN commands /\ i - 1 < n /\ (i - 1) + 1 = i
          BY <3>1, <3>2, <4>3
        <5>2. commands'[i - 1] = commands[i]
          BY <3>1, <5>1
        <5>3. QED
          BY <4>1, <5>1, <5>2
      <4>4. CASE i > n
        BY <3>1, <3>2, <4>1, <4>4
      <4>5. QED
        BY <3>1, <3>2, <4>2, <4>3, <4>4
    <3>6. QED
      BY <2>2, <3>4, <3>5 DEF CommandPassedOver, OnItsWay
  <2>3. QED
    BY <2>1, <2>2
<1>2. TypeInv'
  BY <1>1 DEF CommandUnreadable, CommandPassedOver, TypeInv
<1>3. StaleIsAnnounced'
  BY <1>1 DEF CommandUnreadable, CommandPassedOver, StaleIsAnnounced, SM, Kinds
<1>4. SinkFollowsSlot'
  BY DEF CommandUnreadable, CommandPassedOver, SinkFollowsSlot
<1>5. QED
  BY <1>2, <1>3, <1>4

(***************************************************************************)
(* A restarted engine reads everything, the device before the identities.  *)
(***************************************************************************)
LEMMA RestartIInv == ASSUME IInv, EngineRestart PROVE IInv'
<1> USE DEF IInv
<1>1. TypeInv'
  BY DEF EngineRestart, TypeInv
<1>2. engine'.at = "build" /\ legacy_device' = db'[SM].device
  BY DEF EngineRestart, SM
<1>3. QED
  BY <1>1, <1>2 DEF StaleIsAnnounced, SinkFollowsSlot

(***************************************************************************)
(* The slots are built from what it has read.                              *)
(***************************************************************************)
LEMMA BuildIInv == ASSUME IInv, BuildSlots PROVE IInv'
<1> USE DEF IInv
<1>1. TypeInv'
  BY DEF BuildSlots, TypeInv, Row
<1>2. \A x \in Kinds : identity'[x] = db'[x].identity /\ (OnItsWay(x) => OnItsWay(x)')
  BY DEF BuildSlots, OnItsWay
<1>3. engine.at = "build" /\ UNCHANGED <<legacy_device, db>>
  BY DEF BuildSlots
<1>4. StaleIsAnnounced'
  BY <1>2, <1>3 DEF StaleIsAnnounced, SM, Kinds
<1>5. SinkFollowsSlot'
  BY DEF BuildSlots, SinkFollowsSlot, SM
<1>6. QED
  BY <1>1, <1>4, <1>5

(***************************************************************************)
(* Every step of the specification preserves the invariant.                *)
(***************************************************************************)
LEMMA NextIInv == IInv /\ [Next]_vars => IInv'
<1> SUFFICES ASSUME IInv, [Next]_vars PROVE IInv'
  OBVIOUS
<1>1. CASE \E k \in Kinds : Save(k)
  BY <1>1, SaveIInv
<1>2. CASE \E s \in unpublished : PublishReload(s) \/ PublishFails(s)
  BY <1>2, PublishIInv
<1>3. CASE ReloadIdentity
  BY <1>3, ReloadIInv
<1>4. CASE ApplyDevice
  BY <1>4, ApplyIInv
<1>5. CASE CommandUnreadable \/ CommandPassedOver
  BY <1>5, NotDispatchedIInv
<1>6. CASE EngineRestart
  BY <1>6, RestartIInv
<1>7. CASE BuildSlots
  BY <1>7, BuildIInv
<1>8. CASE UNCHANGED vars
  BY <1>8 DEF vars, IInv, TypeInv, StaleIsAnnounced, OnItsWay, SinkFollowsSlot
<1>9. QED
  BY <1>1, <1>2, <1>3, <1>4, <1>5, <1>6, <1>7, <1>8 DEF Next

(***************************************************************************)
(* When nothing is under way, only a lost command leaves a row unread.     *)
(***************************************************************************)
LEMMA QuietIsCurrent == IInv => QuietSlotsAreCurrent
<1> SUFFICES ASSUME IInv, Quiet
             PROVE  /\ \A k \in Kinds \ lost : identity[k] = db[k].identity
                    /\ SM \notin lost => legacy_device = db[SM].device
  BY DEF QuietSlotsAreCurrent, SM
<1>1. \A k \in Kinds : OnItsWay(k) => k \in lost
  BY DEF Quiet, OnItsWay
<1>2. QED
  BY <1>1 DEF IInv, StaleIsAnnounced, Quiet, SM, Kinds

(***************************************************************************)
(* For any number of saves, identities, devices, lost or overtaken         *)
(* commands, failed reads and engine restarts: once every published save is*)
(* handled and every row that was missed has been read,                    *)
(* _build_output_slot, _reload_output_recovery_identity and                *)
(* _apply_audio_output_device have left no slot with an old configuration. *)
(***************************************************************************)
THEOREM SlotsBecomeCurrent == Spec => []QuietSlotsAreCurrent
<1>1. Spec => []IInv
  BY InitIInv, NextIInv, PTL DEF Spec
<1>2. QED
  BY <1>1, QuietIsCurrent, PTL

(***************************************************************************)
(* And the live sink is on the configured device, unless the other row's   *)
(* command has absorbed the change.                                        *)
(***************************************************************************)
THEOREM SinkBecomesCurrent == Spec => []LiveSinkFollowsUncrossed
<1>1. Spec => []IInv
  BY InitIInv, NextIInv, PTL DEF Spec
<1>2. IInv => LiveSinkFollowsUncrossed
  <2> SUFFICES ASSUME IInv, ~crossed, Quiet, lost = {}
               PROVE  live = resolve_runtime_device(db[SM].identity, db[SM].device)
    BY DEF LiveSinkFollowsUncrossed, LiveSinkFollowsSaves, SM
  <2>1. identity[SM] = db[SM].identity /\ legacy_device = db[SM].device
    BY QuietIsCurrent DEF QuietSlotsAreCurrent, SM, Kinds
  <2>2. ~engine.changed /\ engine.at # "build"
    BY DEF IInv, TypeInv, Quiet
  <2>3. QED
    BY <2>1, <2>2 DEF IInv, SinkFollowsSlot
<1>3. QED
  BY <1>1, <1>2, PTL
=============================================================================
