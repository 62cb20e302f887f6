------------------------ MODULE SlotCoordinatorProofs ------------------------
(***************************************************************************)
(* The safety properties of SlotCoordinator, proved for every number of    *)
(* operations.  The run of SlotCoordinator checks the same properties on   *)
(* behaviours of at most four operations.                                  *)
(***************************************************************************)
EXTENDS SlotCoordinator, TLAPS

(***************************************************************************)
(* A record's flags agree with its thread: a running operation has no      *)
(* result, a filed result was never abandoned, and an operation that ended *)
(* without a result was abandoned.                                         *)
(***************************************************************************)
RecordsConsistent ==
    \A o \in DOMAIN rec :
        /\ rec[o].thread = "running" => ~rec[o].done
        /\ rec[o].thread = "resolving" => rec[o].done
        /\ rec[o].done => ~rec[o].abandoned
        /\ rec[o].thread = "ended" => rec[o].done \/ rec[o].abandoned

(***************************************************************************)
(* The current operation carries the current generation.                   *)
(***************************************************************************)
CurrentGeneration == op # 0 => rec[op].generation = generation

IInv ==
    /\ TypeOK
    /\ RecordsConsistent
    /\ CurrentGeneration
    /\ OneLiveOperation
    /\ RecoveringHasOwner
    /\ OkIsEarned
    /\ RestartIffAbandoned

-----------------------------------------------------------------------------
(***************************************************************************)
(* What garbage collection keeps: every record that is current or whose    *)
(* thread has not ended, unchanged.                                        *)
(***************************************************************************)
LEMMA CollectedKeeps ==
    ASSUME NEW r, NEW current
    PROVE  /\ DOMAIN Collected(r, current) \subseteq DOMAIN r
           /\ \A o \in DOMAIN Collected(r, current) : Collected(r, current)[o] = r[o]
           /\ \A o \in DOMAIN r : (o = current \/ r[o].thread # "ended")
                                    => o \in DOMAIN Collected(r, current)
BY DEF Collected

(***************************************************************************)
(* Dispatching an operation when none is in flight keeps the invariant.    *)
(***************************************************************************)
LEMMA DispatchKeepsIInv ==
    ASSUME IInv, NEW bump \in BOOLEAN, ~InFlight, state # "OK", _dispatch_locked(bump)
    PROVE  IInv'
<1> DEFINE new == [generation |-> generation', done |-> FALSE, succeeded |-> FALSE,
                   abandoned |-> FALSE, thread |-> "running"]
           kept == Collected(rec, next_op_id)
<1>1. /\ generation \in Nat /\ op \in Nat /\ next_op_id \in Nat \ {0}
      /\ rec \in [DOMAIN rec -> OperationRecord]
      /\ DOMAIN rec \subseteq 1 .. (next_op_id - 1)
      /\ op = 0 \/ op \in DOMAIN rec
  BY DEF IInv, TypeOK
<1>2. /\ op' = next_op_id /\ next_op_id' = next_op_id + 1
      /\ state' = "RECOVERING" /\ again' = FALSE
      /\ generation' \in Nat
      /\ abandoned_generations' = abandoned_generations
  BY <1>1 DEF _dispatch_locked
<1>3. rec' = [o \in DOMAIN kept \cup {next_op_id} |-> IF o = next_op_id THEN new ELSE kept[o]]
  BY DEF _dispatch_locked
<1>4. /\ DOMAIN kept \subseteq DOMAIN rec
      /\ \A o \in DOMAIN kept : kept[o] = rec[o]
  BY CollectedKeeps
<1> HIDE DEF kept
<1>5. next_op_id \notin DOMAIN rec
  BY <1>1
<1>6. /\ DOMAIN rec' = DOMAIN kept \cup {next_op_id}
      /\ rec'[next_op_id] = new
      /\ \A o \in DOMAIN rec' : o # next_op_id => o \in DOMAIN rec /\ rec'[o] = rec[o]
  BY <1>3, <1>4, <1>5
<1>7. TypeOK'
  <2>1. new \in OperationRecord
    BY <1>2 DEF OperationRecord
  <2>2. \A o \in DOMAIN rec' : rec'[o] \in OperationRecord
    BY <1>1, <1>6, <2>1
  <2>3. rec' \in [DOMAIN rec' -> OperationRecord]
    BY <1>3, <1>6, <2>2
  <2>4. DOMAIN rec' \subseteq 1 .. (next_op_id' - 1)
    BY <1>1, <1>2, <1>4, <1>6
  <2>5. op' = 0 \/ op' \in DOMAIN rec'
    BY <1>2, <1>6
  <2>6. /\ op' \in Nat /\ next_op_id' \in Nat \ {0}
        /\ state' \in SlotState
    BY <1>1, <1>2 DEF SlotState
  <2>7. again' \in BOOLEAN /\ abandoned_generations' \in Seq(Nat)
    BY <1>2 DEF IInv, TypeOK
  <2> QED BY <1>2, <2>3, <2>4, <2>5, <2>6, <2>7 DEF TypeOK
<1>8. RecordsConsistent'
  BY <1>6 DEF RecordsConsistent, IInv
<1>9. CurrentGeneration'
  BY <1>2, <1>6 DEF CurrentGeneration
<1>10. OneLiveOperation'
  <2> SUFFICES ASSUME NEW o \in DOMAIN rec', rec'[o].thread = "running",
                      ~rec'[o].abandoned, o # next_op_id
               PROVE  FALSE
    BY <1>2 DEF OneLiveOperation
  <2>1. o \in DOMAIN rec /\ rec[o].thread = "running" /\ ~rec[o].abandoned
    BY <1>6
  <2>2. o = op /\ ~rec[o].done
    BY <2>1 DEF IInv, OneLiveOperation, RecordsConsistent
  <2> QED BY <1>1, <2>1, <2>2 DEF InFlight
<1>11. RecoveringHasOwner' /\ OkIsEarned' /\ RestartIffAbandoned'
  BY <1>1, <1>2, <1>6 DEF RecoveringHasOwner, OkIsEarned, RestartIffAbandoned
<1> QED BY <1>7, <1>8, <1>9, <1>10, <1>11 DEF IInv

(***************************************************************************)
(* The timeout abandons the operation in flight and nothing else.          *)
(***************************************************************************)
LEMMA TickKeepsIInv == ASSUME IInv, tick PROVE IInv'
<1>1. /\ op # 0 /\ op \in DOMAIN rec /\ ~rec[op].done /\ ~rec[op].abandoned
      /\ rec \in [DOMAIN rec -> OperationRecord]
  BY DEF IInv, TypeOK, tick, InFlight
<1>2. /\ DOMAIN rec' = DOMAIN rec
      /\ rec'[op] = [rec[op] EXCEPT !.abandoned = TRUE]
      /\ \A o \in DOMAIN rec : o # op => rec'[o] = rec[o]
      /\ rec' \in [DOMAIN rec' -> OperationRecord]
  BY <1>1 DEF tick, OperationRecord
<1>3. /\ rec'[op].abandoned /\ ~rec'[op].done
      /\ rec'[op].thread = rec[op].thread /\ rec'[op].generation = rec[op].generation
  BY <1>1, <1>2 DEF OperationRecord
<1>4. /\ state' = "RESTART_REQUIRED" /\ again' = FALSE /\ op' = op
      /\ next_op_id' = next_op_id /\ generation' = generation
  BY DEF tick
<1>5. TypeOK'
  <2>1. abandoned_generations' \in Seq(Nat)
    BY <1>1 DEF tick, IInv, TypeOK, OperationRecord
  <2>2. again' \in BOOLEAN /\ state' \in SlotState
    BY <1>4 DEF SlotState
  <2> QED BY <1>2, <1>4, <2>1, <2>2 DEF IInv, TypeOK
<1>6. RecordsConsistent'
  BY <1>1, <1>2, <1>3 DEF IInv, RecordsConsistent
<1>7. CurrentGeneration' /\ OneLiveOperation'
  BY <1>1, <1>2, <1>3, <1>4 DEF IInv, CurrentGeneration, OneLiveOperation
<1>8. RecoveringHasOwner' /\ OkIsEarned' /\ RestartIffAbandoned'
  BY <1>1, <1>3, <1>4 DEF RecoveringHasOwner, OkIsEarned, RestartIffAbandoned
<1> QED BY <1>5, <1>6, <1>7, <1>8 DEF IInv

(***************************************************************************)
(* A thread that files its result, or finds itself abandoned, touches only *)
(* its own record.                                                         *)
(***************************************************************************)
LEMMA WorkerReturnsKeepsIInv ==
    ASSUME IInv, NEW o \in DOMAIN rec, NEW ok \in BOOLEAN, WorkerReturns(o, ok)
    PROVE  IInv'
<1>1. /\ rec \in [DOMAIN rec -> OperationRecord]
      /\ rec[o].thread = "running" /\ ~rec[o].done
  BY DEF IInv, TypeOK, RecordsConsistent, WorkerReturns
<1>2. UNCHANGED <<generation, state, op, next_op_id, again, abandoned_generations>>
  BY DEF WorkerReturns
<1>3. CASE rec[o].abandoned
  <2> DEFINE ended == [rec EXCEPT ![o].thread = "ended"]
  <2>1. rec' = Collected(ended, op)
    BY <1>3 DEF WorkerReturns
  <2>2. /\ DOMAIN ended = DOMAIN rec
        /\ \A x \in DOMAIN rec : x # o => ended[x] = rec[x]
        /\ ended[o] = [rec[o] EXCEPT !.thread = "ended"]
    BY <1>1 DEF OperationRecord
  <2>3. /\ ended[o] \in OperationRecord
        /\ ended[o].abandoned /\ ~ended[o].done
        /\ ended[o].generation = rec[o].generation /\ ended[o].thread = "ended"
    BY <1>1, <1>3, <2>2 DEF OperationRecord
  <2> HIDE DEF ended
  <2>4. /\ DOMAIN rec' \subseteq DOMAIN rec
        /\ \A x \in DOMAIN rec' : rec'[x] = ended[x]
        /\ op \in DOMAIN rec => op \in DOMAIN rec'
    BY <2>1, <2>2, CollectedKeeps
  <2>5. rec' \in [DOMAIN rec' -> OperationRecord]
    <3>1. rec' = [x \in DOMAIN rec' |-> rec'[x]]
      BY <2>1 DEF Collected
    <3>2. \A x \in DOMAIN rec' : rec'[x] \in OperationRecord
      BY <1>1, <2>2, <2>3, <2>4
    <3> QED BY <3>1, <3>2
  <2>6. TypeOK'
    BY <1>2, <2>4, <2>5 DEF IInv, TypeOK
  <2>7. RecordsConsistent'
    BY <1>3, <2>2, <2>3, <2>4 DEF IInv, RecordsConsistent
  <2>8. op # 0 => /\ op \in DOMAIN rec /\ op \in DOMAIN rec'
                  /\ op # o => rec'[op] = rec[op]
    BY <2>2, <2>4 DEF IInv, TypeOK
  <2>9. CurrentGeneration'
    BY <1>2, <2>3, <2>4, <2>8 DEF IInv, CurrentGeneration
  <2>10. OneLiveOperation'
    BY <1>2, <1>3, <2>2, <2>3, <2>4 DEF IInv, OneLiveOperation
  <2>11. RecoveringHasOwner'
    BY <1>2, <1>3, <2>8 DEF IInv, RecoveringHasOwner
  <2>12. OkIsEarned'
    BY <1>1, <1>2, <2>8 DEF IInv, OkIsEarned
  <2>13. RestartIffAbandoned'
    BY <1>2, <1>3, <2>3, <2>4, <2>8 DEF IInv, RestartIffAbandoned
  <2> QED BY <2>6, <2>7, <2>9, <2>10, <2>11, <2>12, <2>13 DEF IInv
<1>4. CASE ~rec[o].abandoned
  <2>1. rec' = [rec EXCEPT ![o] = [@ EXCEPT !.done = TRUE, !.succeeded = ok,
                                           !.thread = "resolving"]]
    BY <1>4 DEF WorkerReturns
  <2>2. /\ DOMAIN rec' = DOMAIN rec
        /\ \A x \in DOMAIN rec : x # o => rec'[x] = rec[x]
        /\ rec'[o] = [rec[o] EXCEPT !.done = TRUE, !.succeeded = ok, !.thread = "resolving"]
    BY <2>1
  <2>3. /\ rec'[o] \in OperationRecord
        /\ ~rec'[o].abandoned /\ rec'[o].done
        /\ rec'[o].generation = rec[o].generation /\ rec'[o].thread = "resolving"
    BY <1>1, <1>4, <2>2 DEF OperationRecord
  <2>4. rec' \in [DOMAIN rec' -> OperationRecord]
    BY <1>1, <2>1, <2>2, <2>3
  <2>5. TypeOK'
    BY <1>2, <2>2, <2>4 DEF IInv, TypeOK
  <2>6. RecordsConsistent' /\ OneLiveOperation'
    <3>1. RecordsConsistent'
      <4> SUFFICES ASSUME NEW x \in DOMAIN rec'
                   PROVE  /\ rec'[x].thread = "running" => ~rec'[x].done
                          /\ rec'[x].thread = "resolving" => rec'[x].done
                          /\ rec'[x].done => ~rec'[x].abandoned
                          /\ rec'[x].thread = "ended" => rec'[x].done \/ rec'[x].abandoned
        BY DEF RecordsConsistent
      <4>1. CASE x = o
        BY <2>3, <4>1
      <4>2. CASE x # o
        BY <2>2, <4>2 DEF IInv, RecordsConsistent
      <4> QED BY <4>1, <4>2
    <3>2. OneLiveOperation'
      BY <1>2, <1>4, <2>2, <2>3 DEF IInv, OneLiveOperation
    <3> QED BY <3>1, <3>2
  <2>7. op # 0 => op \in DOMAIN rec
    BY DEF IInv, TypeOK
  <2>8. CurrentGeneration' /\ RecoveringHasOwner'
    BY <1>2, <1>4, <2>2, <2>3, <2>7 DEF IInv, CurrentGeneration, RecoveringHasOwner
  <2>9. OkIsEarned' /\ RestartIffAbandoned'
    BY <1>1, <1>2, <1>4, <2>2, <2>3, <2>7 DEF IInv, OkIsEarned, RestartIffAbandoned
  <2> QED BY <2>5, <2>6, <2>8, <2>9 DEF IInv
<1> QED BY <1>3, <1>4

(***************************************************************************)
(* Applying a filed result: it is the slot's own and moves RECOVERING to OK*)
(* or DEGRADED, or it is a superseded one and moves nothing.               *)
(***************************************************************************)
LEMMA ResolvedKeepsIInv ==
    ASSUME IInv, NEW o \in DOMAIN rec, _on_worker_resolved(o)
    PROVE  IInv'
<1> DEFINE ended == [rec EXCEPT ![o].thread = "ended"]
<1>1. /\ rec \in [DOMAIN rec -> OperationRecord]
      /\ rec[o].thread = "resolving" /\ rec[o].done /\ ~rec[o].abandoned
      /\ op # 0 => op \in DOMAIN rec
  BY DEF IInv, TypeOK, RecordsConsistent, _on_worker_resolved
<1>2. /\ UNCHANGED <<generation, op, next_op_id, abandoned_generations>>
      /\ rec' = Collected(ended, op)
  BY DEF _on_worker_resolved
<1>3. /\ DOMAIN ended = DOMAIN rec
      /\ \A x \in DOMAIN rec : x # o => ended[x] = rec[x]
      /\ ended[o] = [rec[o] EXCEPT !.thread = "ended"]
  BY <1>1 DEF OperationRecord
<1>4. /\ ended[o] \in OperationRecord
      /\ ~ended[o].abandoned /\ ended[o].done /\ ended[o].thread = "ended"
      /\ ended[o].succeeded = rec[o].succeeded /\ ended[o].generation = rec[o].generation
  BY <1>1, <1>3 DEF OperationRecord
<1> HIDE DEF ended
<1>5. /\ DOMAIN rec' \subseteq DOMAIN rec
      /\ \A x \in DOMAIN rec' : rec'[x] = ended[x]
      /\ op # 0 => op \in DOMAIN rec'
  BY <1>1, <1>2, <1>3, CollectedKeeps
<1>6. rec' \in [DOMAIN rec' -> OperationRecord]
  <2>1. rec' = [x \in DOMAIN rec' |-> rec'[x]]
    BY <1>2 DEF Collected
  <2>2. \A x \in DOMAIN rec' : rec'[x] \in OperationRecord
    BY <1>1, <1>3, <1>4, <1>5
  <2> QED BY <2>1, <2>2
<1>7. RecordsConsistent' /\ OneLiveOperation'
  <2>1. RecordsConsistent'
    BY <1>3, <1>4, <1>5 DEF IInv, RecordsConsistent
  <2>2. OneLiveOperation'
    <3> SUFFICES ASSUME NEW x \in DOMAIN rec', rec'[x].thread = "running", ~rec'[x].abandoned
                 PROVE  x = op
      BY <1>2 DEF OneLiveOperation
    <3>1. x # o
      BY <1>4, <1>5
    <3> QED BY <1>3, <1>5, <3>1 DEF IInv, OneLiveOperation
  <2> QED BY <2>1, <2>2
<1>8. CurrentGeneration'
  BY <1>1, <1>2, <1>3, <1>4, <1>5 DEF IInv, CurrentGeneration
<1>9. CASE o = op
  <2>1. op # 0 /\ rec'[op] = ended[o]
    BY <1>5, <1>9 DEF IInv, TypeOK
  <2>2. ResultAccepted(o)
    BY <1>1, <1>9, <2>1 DEF ResultAccepted, IInv, CurrentGeneration
  <2>3. /\ state' = IF rec[o].succeeded THEN "OK" ELSE "DEGRADED"
        /\ again' = FALSE
    BY <2>2 DEF _on_worker_resolved
  <2>4. again' \in BOOLEAN /\ state' \in SlotState
    BY <2>3 DEF SlotState
  <2>5. TypeOK'
    BY <1>2, <1>5, <1>6, <2>4 DEF IInv, TypeOK
  <2>6. RecoveringHasOwner' /\ RestartIffAbandoned'
    BY <1>2, <1>4, <2>1, <2>3 DEF RecoveringHasOwner, RestartIffAbandoned
  <2>7. OkIsEarned'
    BY <1>2, <1>4, <1>8, <2>1, <2>3 DEF OkIsEarned, CurrentGeneration
  <2> QED BY <1>7, <1>8, <2>5, <2>6, <2>7 DEF IInv
<1>10. CASE o # op
  <2>1. UNCHANGED <<state, again>>
    BY <1>10 DEF _on_worker_resolved, ResultAccepted
  <2>2. op # 0 => op \in DOMAIN rec' /\ rec'[op] = rec[op]
    BY <1>1, <1>3, <1>5, <1>10
  <2>3. TypeOK'
    BY <1>2, <1>5, <1>6, <2>1 DEF IInv, TypeOK
  <2>4. RecoveringHasOwner' /\ RestartIffAbandoned' /\ OkIsEarned'
    BY <1>2, <2>1, <2>2 DEF IInv, RecoveringHasOwner, RestartIffAbandoned, OkIsEarned
  <2> QED BY <1>7, <1>8, <2>3, <2>4 DEF IInv
<1> QED BY <1>9, <1>10
-----------------------------------------------------------------------------
(***************************************************************************)
(* A new SlotCoordinator (__init__) satisfies the invariant.               *)
(***************************************************************************)
LEMMA InitIInv == Init => IInv
<1> SUFFICES ASSUME Init PROVE IInv
  OBVIOUS
<1>1. /\ generation = 0 /\ state = "OK" /\ op = 0 /\ next_op_id = 1 /\ again = FALSE
      /\ abandoned_generations = << >> /\ DOMAIN rec = {}
  BY DEF Init
<1>2. rec \in [DOMAIN rec -> OperationRecord]
  BY DEF Init
<1>3. TypeOK
  <2>1. again \in BOOLEAN
    BY <1>1
  <2>2. abandoned_generations \in Seq(Nat)
    BY <1>1
  <2> QED BY <1>1, <1>2, <2>1, <2>2 DEF TypeOK, SlotState
<1>4. /\ RecordsConsistent /\ CurrentGeneration /\ OneLiveOperation
      /\ RecoveringHasOwner /\ OkIsEarned /\ RestartIffAbandoned
  BY <1>1 DEF RecordsConsistent, CurrentGeneration, OneLiveOperation,
              RecoveringHasOwner, OkIsEarned, RestartIffAbandoned
<1> QED BY <1>3, <1>4 DEF IInv

(***************************************************************************)
(* Every method and every step of a worker thread keeps the invariant.     *)
(***************************************************************************)
LEMMA NextIInv == IInv /\ [Next]_vars => IInv'
<1> SUFFICES ASSUME IInv, [Next]_vars PROVE IInv'
  OBVIOUS
<1> USE DEF IInv
<1>1. CASE mark_degraded
  <2>1. UNCHANGED <<generation, op, next_op_id, again, abandoned_generations, rec>>
    BY <1>1 DEF mark_degraded
  <2>2. state' = state \/ (state = "OK" /\ state' = "DEGRADED")
    BY <1>1 DEF mark_degraded
  <2>3. TypeOK'
    BY <2>1, <2>2 DEF TypeOK, SlotState
  <2>4. RecordsConsistent' /\ CurrentGeneration' /\ OneLiveOperation'
    BY <2>1 DEF RecordsConsistent, CurrentGeneration, OneLiveOperation
  <2>5. RecoveringHasOwner' /\ OkIsEarned' /\ RestartIffAbandoned'
    BY <2>1, <2>2 DEF RecoveringHasOwner, OkIsEarned, RestartIffAbandoned
  <2> QED BY <2>3, <2>4, <2>5
<1>2. ASSUME again' \in BOOLEAN,
             UNCHANGED <<generation, state, op, next_op_id, abandoned_generations, rec>>
      PROVE  IInv'
  BY <1>2 DEF TypeOK, RecordsConsistent, CurrentGeneration, OneLiveOperation,
              RecoveringHasOwner, OkIsEarned, RestartIffAbandoned
<1>3. CASE request_recovery
  <2>1. CASE RequestResult = "dispatched" /\ _dispatch_locked(TRUE)
    <3>1. ~InFlight /\ state # "OK"
      BY <2>1 DEF RequestResult, TypeOK, SlotState
    <3> QED BY <2>1, <3>1, DispatchKeepsIInv
  <2>2. CASE /\ again' = (again \/ RequestResult \in {"ignored_restart_required", "coalesced"})
             /\ UNCHANGED <<generation, state, op, next_op_id, abandoned_generations, rec>>
    <3>1. again' \in BOOLEAN
      BY <2>2 DEF TypeOK
    <3> QED BY <1>2, <2>2, <3>1
  <2> QED BY <1>3, <2>1, <2>2 DEF request_recovery
<1>4. CASE retry_now
  <2>1. CASE /\ again' = TRUE
             /\ UNCHANGED <<generation, state, op, next_op_id, abandoned_generations, rec>>
    BY <1>2, <2>1
  <2>2. CASE ~InFlight /\ state # "OK" /\ _dispatch_locked(state = "RESTART_REQUIRED")
    <3>1. (state = "RESTART_REQUIRED") \in BOOLEAN
      OBVIOUS
    <3> QED BY <2>2, <3>1, DispatchKeepsIInv
  <2> QED BY <1>4, <2>1, <2>2 DEF retry_now
<1>5. CASE tick
  BY <1>5, TickKeepsIInv
<1>6. CASE WorkerStep
  BY <1>6, WorkerReturnsKeepsIInv, ResolvedKeepsIInv DEF WorkerStep
<1>7. CASE UNCHANGED vars
  BY <1>7 DEF vars, TypeOK, RecordsConsistent, CurrentGeneration, OneLiveOperation,
              RecoveringHasOwner, OkIsEarned, RestartIffAbandoned
<1> QED BY <1>1, <1>3, <1>4, <1>5, <1>6, <1>7 DEF Next

(***************************************************************************)
(* However many operations are dispatched, coalesced, superseded, retried  *)
(* or abandoned: one live operation per slot, RECOVERING always has a      *)
(* thread that will end it, OK is earned by the current operation and      *)
(* RESTART_REQUIRED means that the current operation was given up.         *)
(***************************************************************************)
THEOREM SlotSafety ==
    Spec => [](TypeOK /\ OneLiveOperation /\ RecoveringHasOwner
                      /\ OkIsEarned /\ RestartIffAbandoned)
<1>1. IInv => TypeOK /\ OneLiveOperation /\ RecoveringHasOwner
                     /\ OkIsEarned /\ RestartIffAbandoned
  BY DEF IInv
<1> QED BY InitIInv, NextIInv, <1>1, PTL DEF Spec

(***************************************************************************)
(* Failure bursts, probes and operator retries never put two running       *)
(* operations on one slot, however many are requested.                     *)
(***************************************************************************)
THEOREM OneOperationAtATime == Spec => []OneLiveOperation
BY SlotSafety, PTL

(***************************************************************************)
(* RESTART_REQUIRED is reported exactly while the slot's last operation is *)
(* one that tick() gave up, however late its thread answers.               *)
(***************************************************************************)
THEOREM RestartMeansAbandoned == Spec => []RestartIffAbandoned
BY SlotSafety, PTL

(***************************************************************************)
(* No method and no step of a worker thread rewrites a filed result.       *)
(***************************************************************************)
LEMMA StepIsFinal == IInv /\ [Next]_vars => [FinalStep]_vars
<1> SUFFICES ASSUME IInv, Next PROVE FinalStep
  BY DEF vars
<1>1. /\ generation \in Nat /\ next_op_id \in Nat
      /\ rec \in [DOMAIN rec -> OperationRecord]
      /\ DOMAIN rec \subseteq 1 .. (next_op_id - 1)
      /\ \A o \in DOMAIN rec : /\ rec[o].abandoned => ~rec[o].done
                               /\ rec[o].done => ~rec[o].abandoned
  BY DEF IInv, TypeOK, RecordsConsistent
<1>2. ASSUME UNCHANGED <<generation, rec>> PROVE FinalStep
  BY <1>1, <1>2 DEF FinalStep
<1>3. ASSUME NEW bump \in BOOLEAN, _dispatch_locked(bump) PROVE FinalStep
  <2>1. generation' >= generation
    BY <1>1, <1>3 DEF _dispatch_locked
  <2>2. \A o \in DOMAIN rec \cap DOMAIN rec' : rec'[o] = rec[o]
    BY <1>1, <1>3 DEF _dispatch_locked, Collected
  <2> QED BY <1>1, <2>1, <2>2 DEF FinalStep
<1>4. CASE tick
  <2>1. ~rec[op].done /\ generation' = generation
    BY <1>4 DEF tick, InFlight
  <2>2. \A o \in DOMAIN rec \cap DOMAIN rec' :
          o # op => rec'[o] = rec[o]
    BY <1>1, <1>4 DEF tick
  <2>3. op \in DOMAIN rec => rec'[op].abandoned /\ ~rec'[op].done
    BY <1>1, <1>4, <2>1 DEF tick, OperationRecord
  <2> QED BY <1>1, <2>1, <2>2, <2>3 DEF FinalStep
<1>5. ASSUME NEW o \in DOMAIN rec, NEW ok \in BOOLEAN, WorkerReturns(o, ok) PROVE FinalStep
  <2>1. ~rec[o].done /\ generation' = generation
    BY <1>5 DEF WorkerReturns, IInv, RecordsConsistent
  <2>2. \A x \in DOMAIN rec \cap DOMAIN rec' : x # o => rec'[x] = rec[x]
    BY <1>1, <1>5 DEF WorkerReturns, Collected
  <2>3. rec[o].abandoned /\ o \in DOMAIN rec' => rec'[o].abandoned /\ ~rec'[o].done
    BY <1>1, <1>5, <2>1 DEF WorkerReturns, Collected, OperationRecord
  <2> QED BY <1>1, <2>1, <2>2, <2>3 DEF FinalStep
<1>6. ASSUME NEW o \in DOMAIN rec, _on_worker_resolved(o) PROVE FinalStep
  <2>1. generation' = generation /\ rec[o].done /\ ~rec[o].abandoned
    BY <1>6 DEF _on_worker_resolved, IInv, RecordsConsistent
  <2>2. \A x \in DOMAIN rec \cap DOMAIN rec' : x # o => rec'[x] = rec[x]
    BY <1>1, <1>6 DEF _on_worker_resolved, Collected
  <2>3. o \in DOMAIN rec' => rec'[o] = [rec[o] EXCEPT !.thread = "ended"]
    BY <1>1, <1>6 DEF _on_worker_resolved, Collected
  <2>4. o \in DOMAIN rec' => /\ rec'[o].done /\ ~rec'[o].abandoned
                             /\ rec'[o].succeeded = rec[o].succeeded
    BY <1>1, <2>1, <2>3 DEF OperationRecord
  <2> QED BY <1>1, <2>1, <2>2, <2>4 DEF FinalStep
<1>7. CASE mark_degraded
  BY <1>2, <1>7 DEF mark_degraded
<1>8. CASE request_recovery
  BY <1>2, <1>3, <1>8 DEF request_recovery
<1>9. CASE retry_now
  <2>1. (state = "RESTART_REQUIRED") \in BOOLEAN
    OBVIOUS
  <2> QED BY <1>2, <1>3, <1>9, <2>1 DEF retry_now
<1>10. CASE WorkerStep
  BY <1>5, <1>6, <1>10 DEF WorkerStep
<1> QED BY <1>4, <1>7, <1>8, <1>9, <1>10 DEF Next

(***************************************************************************)
(* The generation never moves back, and a filed or abandoned result is     *)
(* never rewritten, for every number of operations.                        *)
(***************************************************************************)
THEOREM ResultsAreFinal == Spec => FiledResultsAreFinal
BY InitIInv, NextIInv, StepIsFinal, PTL DEF Spec, FiledResultsAreFinal
=============================================================================
