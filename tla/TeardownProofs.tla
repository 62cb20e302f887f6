---------------------------- MODULE TeardownProofs ----------------------------
(***************************************************************************)
(* TeardownCoordinator keeps its accounts and implements TeardownContract, *)
(* for every set of generations, every queue capacity and every number of  *)
(* teardowns.                                                              *)
(***************************************************************************)
EXTENDS TeardownCoordinator, TLAPS

Finished == {"completed", "failed"}

\* The number of accepted teardowns that are no longer queued.
Taken == Len(gen) - Len(pending)

(***************************************************************************)
(* The queue holds the latest accepted teardowns, in the order accepted.   *)
(***************************************************************************)
QueueIsSuffix ==
    /\ Len(pending) <= Len(gen)
    /\ \A i \in 1 .. Len(pending) : pending[i] = Taken + i /\ fate[Taken + i] = "queued"

(***************************************************************************)
(* A healthy coordinator: everything taken has ended, except the active    *)
(* teardown, which is the last one taken and which the thread works on.    *)
(***************************************************************************)
HealthyShape ==
    ~poisoned =>
        /\ \A t \in 1 .. Taken : t # active => fate[t] \in Finished
        /\ active # 0 => active = Taken /\ fate[active] = "started" /\ worker = "running"
        /\ active = 0 => worker # "running"

(***************************************************************************)
(* A poisoned one: nothing is queued or unfinished, and the teardown that  *)
(* hung stays the active one for ever.                                     *)
(***************************************************************************)
PoisonedShape ==
    poisoned =>
        /\ pending = << >>
        /\ active # 0 /\ fate[active] = "abandoned" /\ worker \in {"running", "exited"}
        /\ \A t \in DOMAIN fate : fate[t] \notin Unfinished

(***************************************************************************)
(* The thread exists once something was accepted, and ends only when it is *)
(* told to stop, or in a poisoned coordinator.                             *)
(***************************************************************************)
ThreadShape ==
    /\ worker = "none" => gen = << >>
    /\ worker = "exited" /\ ~poisoned => stopping /\ pending = << >>

IInv ==
    /\ TypeOK
    /\ QueueIsSuffix
    /\ HealthyShape
    /\ PoisonedShape
    /\ ThreadShape
    /\ Accounted
-----------------------------------------------------------------------------
(***************************************************************************)
(* What the type invariant says about the sequences, in the form the steps *)
(* below use.                                                              *)
(***************************************************************************)
LEMMA TypeFacts ==
    ASSUME TypeOK
    PROVE  /\ gen \in Seq(Generations) /\ fate \in Seq(Fate) /\ pending \in Seq(DOMAIN gen)
           /\ Len(gen) \in Nat /\ Len(fate) = Len(gen) /\ Len(pending) \in Nat
           /\ DOMAIN gen = 1 .. Len(gen) /\ DOMAIN fate = 1 .. Len(gen)
           /\ DOMAIN pending = 1 .. Len(pending)
           /\ active \in Nat /\ active <= Len(gen)
           /\ completed \in Nat
           /\ abandoned_generations \in Seq(Generations)
           /\ Len(abandoned_generations) \in Nat
           /\ queue_capacity \in Nat
<1>1. /\ gen \in Seq(Generations) /\ fate \in Seq(Fate) /\ pending \in Seq(DOMAIN gen)
      /\ Len(fate) = Len(gen) /\ abandoned_generations \in Seq(Generations)
      /\ completed \in Nat /\ active \in {0} \cup DOMAIN gen
  BY DEF TypeOK
<1>2. queue_capacity \in Nat
  BY CapacityAssumption
<1> QED BY <1>1, <1>2

(***************************************************************************)
(* A new coordinator (__init__) satisfies the invariant.                   *)
(***************************************************************************)
LEMMA InitIInv == Init => IInv
<1> SUFFICES ASSUME Init PROVE IInv
  OBVIOUS
<1>1. TypeOK
  <2>1. /\ << >> \in Seq(Generations) /\ << >> \in Seq(Fate) /\ << >> \in Seq(DOMAIN gen)
        /\ Len(<< >>) = 0 /\ 0 <= queue_capacity
    BY CapacityAssumption
  <2> QED BY <2>1 DEF Init, TypeOK
<1>2. QueueIsSuffix
  BY DEF Init, QueueIsSuffix, Taken
<1>3. HealthyShape /\ PoisonedShape /\ ThreadShape
  BY DEF Init, HealthyShape, PoisonedShape, ThreadShape, Taken
<1>4. Accounted
  BY DEF Init, Accounted
<1> QED BY <1>1, <1>2, <1>3, <1>4 DEF IInv

(***************************************************************************)
(* submit(): an accepted record goes to the end of the queue of a healthy  *)
(* coordinator; a rejected one changes only the events.                    *)
(***************************************************************************)
LEMMA SubmitKeepsIInv == ASSUME IInv, NEW g \in Generations, submit(g) PROVE IInv'
<1> USE TypeFacts
<1>0. TypeOK
  BY DEF IInv
<1>1. CASE SubmitResult(g) = "queued"
  <2>1. /\ ~stopping /\ ~poisoned /\ Len(pending) < queue_capacity
    BY <1>0, <1>1 DEF SubmitResult
  <2>2. /\ gen' = Append(gen, g) /\ fate' = Append(fate, "queued")
        /\ pending' = Append(pending, Len(gen) + 1)
        /\ worker' = IF worker = "none" THEN "idle" ELSE worker
        /\ UNCHANGED <<active, stopping, poisoned, completed, abandoned_generations,
                       restart_required>>
    BY <1>1 DEF submit
  <2>3. /\ Len(gen') = Len(gen) + 1 /\ Len(fate') = Len(gen) + 1
        /\ Len(pending') = Len(pending) + 1 /\ DOMAIN gen' = 1 .. (Len(gen) + 1)
        /\ DOMAIN fate' = 1 .. (Len(gen) + 1)
        /\ \A t \in 1 .. Len(gen) : fate'[t] = fate[t]
        /\ fate'[Len(gen) + 1] = "queued"
        /\ \A i \in 1 .. Len(pending) : pending'[i] = pending[i]
        /\ pending'[Len(pending) + 1] = Len(gen) + 1
    BY <1>0, <2>2
  <2>4. Taken' = Taken
    BY <1>0, <2>3 DEF Taken
  <2>5. TypeOK'
    <3>1. gen' \in Seq(Generations) /\ fate' \in Seq(Fate)
      BY <1>0, <2>2 DEF Fate
    <3>2. pending' \in Seq(DOMAIN gen')
      <4>1. pending \in Seq(DOMAIN gen')
        BY <1>0, <2>3
      <4> QED BY <1>0, <4>1, <2>2, <2>3
    <3>3. Len(fate') = Len(gen') /\ Len(pending') <= queue_capacity
      BY <1>0, <2>1, <2>3
    <3>4. active' \in {0} \cup DOMAIN gen'
      BY <1>0, <2>2, <2>3
    <3>5. worker' \in {"none", "idle", "running", "exited"}
      BY <1>0, <2>2 DEF TypeOK
    <3>6. events' \subseteq EventKind
      BY <1>0, <1>1 DEF submit, _event_locked, EventKind, TypeOK
    <3>7. reported' \in BOOLEAN
      BY <1>0, <1>1, <2>2 DEF submit, TypeOK
    <3> QED BY <1>0, <2>2, <3>1, <3>2, <3>3, <3>4, <3>5, <3>6, <3>7 DEF TypeOK
  <2>6. QueueIsSuffix'
    <3>1. Len(pending') <= Len(gen')
      BY <1>0, <2>3 DEF IInv, QueueIsSuffix
    <3>2. ASSUME NEW i \in 1 .. Len(pending')
          PROVE  pending'[i] = Taken' + i /\ fate'[Taken' + i] = "queued"
      <4>1. CASE i <= Len(pending)
        <5>1. i \in 1 .. Len(pending) /\ Taken + i \in 1 .. Len(gen)
          BY <1>0, <4>1, <2>3 DEF Taken, IInv, QueueIsSuffix
        <5> QED BY <5>1, <2>3, <2>4 DEF IInv, QueueIsSuffix
      <4>2. CASE i = Len(pending) + 1
        BY <1>0, <4>2, <2>3, <2>4 DEF Taken
      <4> QED BY <1>0, <2>3, <4>1, <4>2
    <3> QED BY <3>1, <3>2 DEF QueueIsSuffix
  <2>7. HealthyShape'
    BY <1>0, <2>1, <2>2, <2>3, <2>4 DEF IInv, HealthyShape, QueueIsSuffix, Taken
  <2>8. PoisonedShape'
    BY <2>1, <2>2 DEF PoisonedShape
  <2>9. ThreadShape'
    BY <1>0, <2>1, <2>2 DEF IInv, ThreadShape, TypeOK
  <2>10. Accounted'
    <3>1. active # 0 => fate'[active] = fate[active]
      BY <1>0, <2>3
    <3> QED BY <1>0, <2>2, <2>3, <3>1 DEF IInv, Accounted
  <2> QED BY <2>5, <2>6, <2>7, <2>8, <2>9, <2>10 DEF IInv
<1>2. CASE SubmitResult(g) # "queued"
  <2>1. /\ UNCHANGED <<gen, fate, pending, worker, active, stopping, poisoned, completed,
                       abandoned_generations, restart_required>>
    BY <1>2 DEF submit
  <2>2. events' \subseteq EventKind /\ reported' \in BOOLEAN
    BY <1>0, <1>2 DEF submit, _event_locked, EventKind, SubmitResult, TypeOK
  <2>3. TypeOK'
    BY <1>0, <2>1, <2>2 DEF TypeOK
  <2> QED BY <2>1, <2>3 DEF IInv, QueueIsSuffix, HealthyShape, PoisonedShape, ThreadShape,
                            Accounted, Taken
<1> QED BY <1>1, <1>2

(***************************************************************************)
(* _run() takes a record: the coordinator is healthy and idle, the record  *)
(* is the oldest one queued and becomes the last one taken.                *)
(***************************************************************************)
LEMMA TakesFacts ==
    ASSUME IInv, WorkerTakes
    PROVE  /\ ~poisoned /\ active = 0 /\ Head(pending) = Taken + 1
           /\ Taken + 1 \in 1 .. Len(gen) /\ fate[Taken + 1] = "queued"
           /\ fate' = [fate EXCEPT ![Taken + 1] = "started"]
           /\ active' = Taken + 1 /\ worker' = "running"
           /\ Len(pending') = Len(pending) - 1
           /\ \A i \in 1 .. (Len(pending) - 1) : pending'[i] = pending[i + 1]
           /\ pending' = Tail(pending)
           /\ UNCHANGED abandoned_generations
<1>1. TypeOK /\ QueueIsSuffix /\ HealthyShape /\ PoisonedShape
  BY DEF IInv
<1>2. worker = "idle" /\ pending # << >> /\ pending' = Tail(pending)
  BY DEF WorkerTakes
<1>3. ~poisoned /\ active = 0
  BY <1>1, <1>2 DEF PoisonedShape, HealthyShape
<1>4. 1 \in 1 .. Len(pending)
  BY <1>1, <1>2, TypeFacts
<1>5. Head(pending) = Taken + 1 /\ fate[Taken + 1] = "queued"
  BY <1>1, <1>2, <1>4, TypeFacts DEF QueueIsSuffix
<1>6. Taken + 1 \in 1 .. Len(gen)
  BY <1>1, <1>4, TypeFacts DEF QueueIsSuffix, Taken
<1>7. /\ Len(pending') = Len(pending) - 1
      /\ \A i \in 1 .. (Len(pending) - 1) : pending'[i] = pending[i + 1]
  BY <1>1, <1>2, TypeFacts
<1>8. /\ fate' = [fate EXCEPT ![Taken + 1] = "started"]
      /\ active' = Taken + 1 /\ worker' = "running"
      /\ UNCHANGED abandoned_generations
  BY <1>3, <1>5 DEF WorkerTakes
<1> QED BY <1>2, <1>3, <1>5, <1>6, <1>7, <1>8

(***************************************************************************)
(* Taking a record keeps the invariant.                                    *)
(***************************************************************************)
LEMMA TakesKeepsIInv == ASSUME IInv, WorkerTakes PROVE IInv'
<1> USE TypeFacts
<1>1. TypeOK /\ QueueIsSuffix /\ HealthyShape /\ Accounted
  BY DEF IInv
<1>2. /\ ~poisoned /\ active = 0
      /\ Taken + 1 \in 1 .. Len(gen) /\ fate[Taken + 1] = "queued"
      /\ fate' = [fate EXCEPT ![Taken + 1] = "started"]
      /\ active' = Taken + 1 /\ worker' = "running"
      /\ Len(pending') = Len(pending) - 1
      /\ \A i \in 1 .. (Len(pending) - 1) : pending'[i] = pending[i + 1]
      /\ pending' = Tail(pending) /\ pending # << >>
      /\ UNCHANGED <<gen, stopping, poisoned, reported, completed, abandoned_generations,
                     restart_required>>
  BY TakesFacts DEF WorkerTakes
<1>3. Taken' = Taken + 1 /\ Taken \in Nat
  BY <1>1, <1>2 DEF Taken, QueueIsSuffix
<1>4. /\ Len(fate') = Len(gen) /\ DOMAIN fate' = 1 .. Len(gen) /\ fate' \in Seq(Fate)
      /\ fate'[Taken + 1] = "started"
      /\ \A t \in 1 .. Len(gen) : t # Taken + 1 => fate'[t] = fate[t]
  BY <1>1, <1>2 DEF Fate
<1>5. TypeOK'
  <2>1. pending' \in Seq(DOMAIN gen') /\ Len(pending') <= queue_capacity
    BY <1>1, <1>2 DEF TypeOK
  <2>2. active' \in {0} \cup DOMAIN gen'
    BY <1>1, <1>2
  <2>3. events' \subseteq EventKind
    BY <1>1, <1>2 DEF WorkerTakes, _event_locked, EventKind, TypeOK
  <2> QED BY <1>1, <1>2, <1>4, <2>1, <2>2, <2>3 DEF TypeOK
<1>6. QueueIsSuffix'
  <2>1. Len(pending') <= Len(gen')
    BY <1>1, <1>2 DEF QueueIsSuffix
  <2>2. ASSUME NEW i \in 1 .. Len(pending')
        PROVE  pending'[i] = Taken' + i /\ fate'[Taken' + i] = "queued"
    <3>1. /\ i \in 1 .. (Len(pending) - 1) /\ i + 1 \in 1 .. Len(pending)
          /\ Taken + (i + 1) \in 1 .. Len(gen) /\ Taken + (i + 1) # Taken + 1
          /\ Taken' + i = Taken + (i + 1)
      BY <1>1, <1>2, <1>3 DEF Taken, QueueIsSuffix
    <3>2. pending[i + 1] = Taken + (i + 1) /\ fate[Taken + (i + 1)] = "queued"
      BY <1>1, <3>1 DEF QueueIsSuffix
    <3> QED BY <1>2, <1>4, <3>1, <3>2
  <2> QED BY <2>1, <2>2 DEF QueueIsSuffix
<1>7. HealthyShape'
  <2>1. \A t \in 1 .. Taken' : t # active' => fate'[t] \in Finished
    BY <1>1, <1>2, <1>3, <1>4 DEF HealthyShape
  <2> QED BY <1>2, <1>3, <1>4, <2>1 DEF HealthyShape
<1>8. PoisonedShape' /\ ThreadShape'
  BY <1>2 DEF PoisonedShape, ThreadShape
<1>9. Accounted'
  BY <1>1, <1>2, <1>3, <1>4 DEF Accounted
<1> QED BY <1>5, <1>6, <1>7, <1>8, <1>9 DEF IInv

(***************************************************************************)
(* _run() files the result of the active record of a healthy coordinator,  *)
(* or ends the thread of a poisoned one.                                   *)
(***************************************************************************)
LEMMA FinishesKeepsIInv ==
    ASSUME IInv, NEW result \in {"completed", "failed"}, WorkerFinishes(result)
    PROVE  IInv'
<1> USE TypeFacts
<1>1. TypeOK /\ QueueIsSuffix /\ HealthyShape /\ PoisonedShape /\ ThreadShape /\ Accounted
  BY DEF IInv
<1>2. /\ worker = "running"
      /\ UNCHANGED <<gen, pending, stopping, poisoned, reported, abandoned_generations,
                     restart_required>>
  BY DEF WorkerFinishes
<1>3. active # 0 /\ active \in 1 .. Len(gen)
  BY <1>1, <1>2 DEF HealthyShape, PoisonedShape
<1>4. Taken' = Taken /\ Taken \in Nat /\ Taken <= Len(gen)
  BY <1>1, <1>2 DEF Taken, QueueIsSuffix
<1>5. events' \subseteq EventKind
  BY <1>1 DEF WorkerFinishes, _event_locked, EventKind, TypeOK
<1>6. CASE poisoned
  <2>1. worker' = "exited" /\ UNCHANGED <<fate, active, completed>>
    BY <1>1, <1>6 DEF WorkerFinishes, PoisonedShape
  <2>2. TypeOK'
    BY <1>1, <1>2, <1>5, <2>1 DEF TypeOK
  <2> QED BY <1>1, <1>2, <1>4, <1>6, <2>1, <2>2
      DEF IInv, QueueIsSuffix, HealthyShape, PoisonedShape, ThreadShape, Accounted
<1>7. CASE ~poisoned
  <2>1. fate[active] = "started" /\ active = Taken
    BY <1>1, <1>3, <1>7 DEF HealthyShape
  <2>2. /\ fate' = [fate EXCEPT ![active] = result]
        /\ completed' = completed + 1 /\ active' = 0 /\ worker' = "idle"
    BY <2>1 DEF WorkerFinishes
  <2>3. /\ Len(fate') = Len(gen) /\ DOMAIN fate' = 1 .. Len(gen) /\ fate' \in Seq(Fate)
        /\ fate'[active] = result
        /\ \A t \in 1 .. Len(gen) : t # active => fate'[t] = fate[t]
    BY <1>1, <1>3, <2>2 DEF Fate
  <2>4. TypeOK'
    BY <1>1, <1>2, <1>5, <2>2, <2>3 DEF TypeOK
  <2>5. QueueIsSuffix'
    <3>1. ASSUME NEW i \in 1 .. Len(pending)
          PROVE  pending[i] = Taken + i /\ fate'[Taken + i] = "queued"
      <4>0. Taken + i <= Len(gen)
        BY <1>1 DEF Taken
      <4>1. Taken + i \in 1 .. Len(gen) /\ Taken + i # active
        BY <1>1, <1>4, <2>1, <4>0
      <4> QED BY <1>1, <4>1, <2>3 DEF QueueIsSuffix
    <3> QED BY <1>1, <1>2, <1>4, <3>1 DEF QueueIsSuffix
  <2>6. HealthyShape'
    <3>1. \A t \in 1 .. Taken' : t # active' => fate'[t] \in Finished
      BY <1>1, <1>4, <1>7, <2>1, <2>2, <2>3 DEF HealthyShape, Finished
    <3> QED BY <2>2, <3>1 DEF HealthyShape
  <2>7. PoisonedShape' /\ ThreadShape'
    BY <1>1, <1>2, <1>7, <2>2 DEF PoisonedShape, ThreadShape
  <2>8. Accounted'
    BY <1>1, <1>2, <1>3, <2>1, <2>2 DEF Accounted
  <2> QED BY <2>4, <2>5, <2>6, <2>7, <2>8 DEF IInv
<1> QED BY <1>6, <1>7

(***************************************************************************)
(* tick() abandons the active record and everything queued: the healthy    *)
(* shape becomes the poisoned one.                                         *)
(***************************************************************************)
LEMMA TickFacts ==
    ASSUME IInv, tick
    PROVE  /\ ~poisoned /\ active = Taken /\ active \in 1 .. Len(gen)
           /\ fate[active] = "started" /\ worker = "running"
           /\ fate' \in [1 .. Len(gen) -> Fate]
           /\ \A t \in 1 .. Len(gen) :
                 fate'[t] = IF fate[t] \in Unfinished THEN "abandoned" ELSE fate[t]
<1>1. TypeOK /\ QueueIsSuffix /\ HealthyShape /\ PoisonedShape
  BY DEF IInv
<1>2. active # 0 /\ fate[active] # "abandoned"
  BY DEF tick
<1>3. ~poisoned
  BY <1>1, <1>2 DEF PoisonedShape
<1>4. active = Taken /\ fate[active] = "started" /\ worker = "running"
  BY <1>1, <1>2, <1>3 DEF HealthyShape
<1>5. active \in 1 .. Len(gen)
  BY <1>1, <1>2, TypeFacts
<1>6. ASSUME NEW t \in 1 .. Len(gen)
      PROVE  (t = active \/ \E i \in DOMAIN pending : pending[i] = t)
                <=> fate[t] \in Unfinished
  <2>1. CASE t < active
    <3>1. t \in 1 .. Taken /\ t # active
      BY <1>4, <1>5, <2>1, <1>1, TypeFacts
    <3>2. fate[t] \notin Unfinished
      BY <1>1, <1>3, <3>1 DEF HealthyShape, Finished, Unfinished
    <3>3. \A i \in DOMAIN pending : pending[i] # t
      <4>1. \A i \in 1 .. Len(pending) : pending[i] = Taken + i
        BY <1>1 DEF QueueIsSuffix
      <4> QED BY <1>1, <1>4, <1>5, <2>1, <4>1, TypeFacts
    <3> QED BY <3>1, <3>2, <3>3
  <2>2. CASE t = active
    BY <1>4, <2>2 DEF Unfinished
  <2>3. CASE t > active
    <3>0. t - Taken \in 1 .. Len(pending) /\ Taken + (t - Taken) = t
      <4>1. Taken \in Int
        BY <1>4, <1>5
      <4>2. t - Taken <= Len(pending)
        BY <1>1, TypeFacts DEF Taken
      <4>3. t - Taken >= 1
        BY <1>4, <1>5, <2>3
      <4> QED BY <4>1, <4>2, <4>3, <1>1, TypeFacts
    <3>1. pending[t - Taken] = t /\ fate[t] = "queued"
      BY <1>1, <3>0 DEF QueueIsSuffix
    <3> QED BY <1>1, <3>0, <3>1, TypeFacts DEF Unfinished
  <2> QED BY <1>5, <2>1, <2>2, <2>3
<1>7. DOMAIN fate = 1 .. Len(gen) /\ \A t \in 1 .. Len(gen) : fate[t] \in Fate
  BY <1>1, TypeFacts
<1>8. fate' = [t \in DOMAIN fate |->
                 IF t = active \/ \E i \in DOMAIN pending : pending[i] = t
                 THEN "abandoned" ELSE fate[t]]
  BY DEF tick
<1>9. \A t \in 1 .. Len(gen) :
          fate'[t] = IF fate[t] \in Unfinished THEN "abandoned" ELSE fate[t]
  BY <1>6, <1>7, <1>8
<1>10. fate' \in [1 .. Len(gen) -> Fate]
  BY <1>7, <1>8 DEF Fate
<1> QED BY <1>3, <1>4, <1>5, <1>9, <1>10

(***************************************************************************)
(* The timeout keeps the invariant.                                        *)
(***************************************************************************)
LEMMA TickKeepsIInv == ASSUME IInv, tick PROVE IInv'
<1> USE TypeFacts
<1>1. TypeOK /\ QueueIsSuffix /\ Accounted
  BY DEF IInv
<1>2. /\ ~poisoned /\ active = Taken /\ active \in 1 .. Len(gen)
      /\ fate[active] = "started" /\ worker = "running"
      /\ fate' \in [1 .. Len(gen) -> Fate]
      /\ \A t \in 1 .. Len(gen) :
             fate'[t] = IF fate[t] \in Unfinished THEN "abandoned" ELSE fate[t]
  BY TickFacts
<1>3. /\ poisoned' = TRUE /\ pending' = << >>
      /\ abandoned_generations' = abandoned_generations \o <<gen[active]>>
                                     \o [i \in DOMAIN pending |-> gen[pending[i]]]
      /\ UNCHANGED <<gen, active, worker, stopping, reported, completed, restart_required>>
  BY DEF tick
<1>4. fate' \in Seq(Fate) /\ Len(fate') = Len(gen) /\ DOMAIN fate' = 1 .. Len(gen)
  BY <1>1, <1>2
<1>5. /\ abandoned_generations' \in Seq(Generations)
      /\ Len(abandoned_generations') = Len(abandoned_generations) + 1 + Len(pending)
  <2> DEFINE queued == [i \in DOMAIN pending |-> gen[pending[i]]]
             one == <<gen[active]>>
             first == abandoned_generations \o one
  <2>1. queued \in Seq(Generations) /\ Len(queued) = Len(pending)
    <3>1. \A i \in 1 .. Len(pending) : pending[i] \in 1 .. Len(gen)
      BY <1>1
    <3>2. \A i \in 1 .. Len(pending) : gen[pending[i]] \in Generations
      BY <1>1, <3>1
    <3> QED BY <1>1, <3>2
  <2>2. one \in Seq(Generations) /\ Len(one) = 1
    BY <1>1, <1>2
  <2>3. first \in Seq(Generations) /\ Len(first) = Len(abandoned_generations) + 1
    BY <1>1, <2>2
  <2>4. abandoned_generations' = first \o queued
    BY <1>3
  <2> HIDE DEF queued, one, first
  <2>5. first \o queued \in Seq(Generations) /\ Len(first \o queued) = Len(first) + Len(queued)
    BY <2>1, <2>3
  <2> QED BY <2>1, <2>3, <2>4, <2>5
<1>6. TypeOK'
  <2>1. pending' \in Seq(DOMAIN gen') /\ Len(pending') <= queue_capacity
    BY <1>1, <1>3
  <2>2. events' \subseteq EventKind
    BY <1>1 DEF tick, EventKind, TypeOK
  <2> QED BY <1>1, <1>3, <1>4, <1>5, <2>1, <2>2 DEF TypeOK
<1>7. QueueIsSuffix'
  BY <1>1, <1>3 DEF QueueIsSuffix
<1>8. HealthyShape' /\ ThreadShape'
  BY <1>2, <1>3 DEF HealthyShape, ThreadShape
<1>9. PoisonedShape'
  <2>1. \A t \in DOMAIN fate' : fate'[t] \notin Unfinished
    BY <1>2, <1>4 DEF Unfinished
  <2>2. fate'[active'] = "abandoned" /\ active' # 0
    BY <1>1, <1>2, <1>3 DEF Unfinished
  <2> QED BY <1>2, <1>3, <2>1, <2>2 DEF PoisonedShape
<1>10. Accounted'
  <2>1. fate'[active'] # "started" /\ Len(pending') = 0
    BY <1>2, <1>3 DEF Unfinished
  <2> QED BY <1>1, <1>2, <1>3, <1>5, <2>1 DEF Accounted
<1> QED BY <1>6, <1>7, <1>8, <1>9, <1>10 DEF IInv

(***************************************************************************)
(* Every method and every step of the thread keeps the invariant.          *)
(***************************************************************************)
LEMMA NextIInv == IInv /\ [Next]_vars => IInv'
<1> SUFFICES ASSUME IInv, [Next]_vars PROVE IInv'
  OBVIOUS
<1>1. TypeOK /\ QueueIsSuffix /\ HealthyShape /\ PoisonedShape /\ ThreadShape /\ Accounted
  BY DEF IInv
<1>2. CASE \E g \in Generations : submit(g)
  BY <1>2, SubmitKeepsIInv
<1>3. CASE WorkerTakes
  BY <1>3, TakesKeepsIInv
<1>4. CASE WorkerStops
  <2>1. TypeOK'
    BY <1>1, <1>4 DEF WorkerStops, TypeOK
  <2>2. QueueIsSuffix' /\ Accounted'
    BY <1>1, <1>4 DEF WorkerStops, QueueIsSuffix, Accounted, Taken
  <2>3. HealthyShape' /\ PoisonedShape' /\ ThreadShape'
    BY <1>1, <1>4 DEF WorkerStops, HealthyShape, PoisonedShape, ThreadShape, Taken
  <2> QED BY <2>1, <2>2, <2>3 DEF IInv
<1>5. CASE \E result \in {"completed", "failed"} : WorkerFinishes(result)
  BY <1>5, FinishesKeepsIInv
<1>6. CASE tick
  BY <1>6, TickKeepsIInv
<1>7. CASE drain_events
  <2>1. TypeOK'
    BY <1>1, <1>7 DEF drain_events, TypeOK
  <2> QED BY <1>1, <1>7, <2>1 DEF drain_events, IInv, QueueIsSuffix, HealthyShape,
                                  PoisonedShape, ThreadShape, Accounted, Taken
<1>8. CASE stop
  <2>1. TypeOK'
    BY <1>1, <1>8 DEF stop, TypeOK
  <2> QED BY <1>1, <1>8, <2>1 DEF stop, IInv, QueueIsSuffix, HealthyShape,
                                  PoisonedShape, ThreadShape, Accounted, Taken
<1>9. CASE UNCHANGED vars
  <2>1. TypeOK'
    BY <1>1, <1>9 DEF vars, TypeOK
  <2> QED BY <1>1, <1>9, <2>1 DEF vars, IInv, QueueIsSuffix, HealthyShape,
                                  PoisonedShape, ThreadShape, Accounted, Taken
<1> QED BY <1>2, <1>3, <1>4, <1>5, <1>6, <1>7, <1>8, <1>9 DEF Next

(***************************************************************************)
(* The invariant implies what the runs check: a queued teardown has a      *)
(* thread, and an available slot has no unfinished teardown.               *)
(***************************************************************************)
LEMMA IInvImplies == IInv => PendingHasWorker /\ AvailableIsQuiet
<1> SUFFICES ASSUME IInv PROVE PendingHasWorker /\ AvailableIsQuiet
  OBVIOUS
<1>1. TypeOK /\ QueueIsSuffix /\ HealthyShape /\ PoisonedShape /\ ThreadShape
  BY DEF IInv
<1>2. PendingHasWorker
  <2> SUFFICES ASSUME pending # << >> PROVE worker \in {"idle", "running"} /\ ~poisoned
    BY DEF PendingHasWorker
  <2>1. ~poisoned
    BY <1>1 DEF PoisonedShape
  <2>2. gen # << >>
    BY <1>1, TypeFacts DEF QueueIsSuffix
  <2> QED BY <1>1, <2>1, <2>2 DEF ThreadShape, TypeOK
<1>3. AvailableIsQuiet
  <2> SUFFICES ASSUME _deck_slot_available
               PROVE  /\ worker \in {"none", "idle"}
                      /\ \A t \in DOMAIN fate : fate[t] \in {"completed", "failed"}
    BY DEF AvailableIsQuiet
  <2>1. ~poisoned /\ ~stopping /\ active = 0 /\ pending = << >>
    BY DEF _deck_slot_available
  <2>2. worker \in {"none", "idle"}
    BY <1>1, <2>1 DEF ThreadShape, HealthyShape, TypeOK
  <2>3. Taken = Len(gen) /\ DOMAIN fate = 1 .. Len(gen)
    BY <1>1, <2>1, TypeFacts DEF Taken
  <2>4. \A t \in 1 .. Taken : t # active => fate[t] \in Finished
    BY <1>1, <2>1 DEF HealthyShape
  <2>5. \A t \in DOMAIN fate : fate[t] \in {"completed", "failed"}
    BY <2>1, <2>3, <2>4, <1>1, TypeFacts DEF Finished
  <2> QED BY <2>2, <2>5
<1> QED BY <1>2, <1>3

(***************************************************************************)
(* For every queue capacity and every number of deck retirements: no queued*)
(* teardown is left without a thread, a slot the engine may reuse has no   *)
(* teardown of an earlier generation still running, and the coordinator's  *)
(* own counters account for every accepted teardown.                       *)
(***************************************************************************)
THEOREM TeardownSafety ==
    Spec => [](TypeOK /\ PendingHasWorker /\ AvailableIsQuiet /\ Accounted)
<1>1. IInv => TypeOK /\ Accounted
  BY DEF IInv
<1> QED BY InitIInv, NextIInv, IInvImplies, <1>1, PTL DEF Spec

(***************************************************************************)
(* No accepted teardown vanishes: completed, abandoned, queued and active  *)
(* ones add up to what submit() accepted, for every capacity.              *)
(***************************************************************************)
THEOREM NothingVanishes == Spec => []Accounted
BY TeardownSafety, PTL
-----------------------------------------------------------------------------
(***************************************************************************)
(* Every step of the coordinator is a step of the contract or leaves its   *)
(* two variables alone.                                                    *)
(***************************************************************************)
LEMMA StepKeepsContract == IInv /\ [Next]_vars => [Contract!Next]_(Contract!vars)
<1> SUFFICES ASSUME IInv, [Next]_vars PROVE Contract!Next \/ UNCHANGED <<fate, poisoned>>
  BY DEF Contract!vars
<1>1. TypeOK /\ QueueIsSuffix /\ HealthyShape /\ PoisonedShape
  BY DEF IInv
<1>2. ASSUME NEW g \in Generations, submit(g)
      PROVE  Contract!Accept \/ UNCHANGED <<fate, poisoned>>
  <2>1. CASE SubmitResult(g) = "queued"
    BY <1>2, <2>1 DEF submit, SubmitResult, Contract!Accept
  <2>2. CASE SubmitResult(g) # "queued"
    BY <1>2, <2>2 DEF submit
  <2> QED BY <2>1, <2>2
<1>3. CASE WorkerTakes
  <2>1. /\ ~poisoned /\ active = 0
        /\ Taken + 1 \in 1 .. Len(gen) /\ fate[Taken + 1] = "queued"
        /\ fate' = [fate EXCEPT ![Taken + 1] = "started"]
    BY <1>3, TakesFacts
  <2>2. UNCHANGED poisoned
    BY <1>3 DEF WorkerTakes
  <2>3. Taken + 1 \in DOMAIN fate
    BY <1>1, <2>1, TypeFacts
  <2>4. ASSUME NEW u \in 1 .. ((Taken + 1) - 1) PROVE fate[u] \notin Contract!Unfinished
    <3>1. u \in 1 .. Taken /\ u # active
      BY <1>1, <2>1, TypeFacts DEF Taken
    <3> QED BY <1>1, <2>1, <3>1 DEF HealthyShape, Finished, Contract!Unfinished
  <2>5. Contract!Start
    BY <2>1, <2>2, <2>3, <2>4 DEF Contract!Start
  <2> QED BY <2>5 DEF Contract!Next
<1>4. ASSUME NEW result \in {"completed", "failed"}, WorkerFinishes(result)
      PROVE  Contract!Finish \/ UNCHANGED <<fate, poisoned>>
  <2>1. UNCHANGED poisoned
    BY <1>4 DEF WorkerFinishes
  <2>2. CASE fate[active] = "abandoned"
    BY <1>4, <2>1, <2>2 DEF WorkerFinishes
  <2>3. CASE fate[active] # "abandoned"
    <3>1. ~poisoned /\ worker = "running"
      BY <1>1, <1>4, <2>3 DEF PoisonedShape, WorkerFinishes
    <3>2. active # 0 /\ fate[active] = "started"
      BY <1>1, <3>1 DEF HealthyShape
    <3>3. active \in DOMAIN fate
      BY <1>1, <3>2, TypeFacts
    <3>4. fate' = [fate EXCEPT ![active] = result]
      BY <1>4, <2>3 DEF WorkerFinishes
    <3> QED BY <2>1, <3>2, <3>3, <3>4 DEF Contract!Finish
  <2> QED BY <2>2, <2>3
<1>5. CASE tick
  <2>1. /\ active \in 1 .. Len(gen) /\ fate[active] = "started"
        /\ fate' \in [1 .. Len(gen) -> Fate]
        /\ \A t \in 1 .. Len(gen) :
              fate'[t] = IF fate[t] \in Unfinished THEN "abandoned" ELSE fate[t]
    BY <1>5, TickFacts
  <2>2. DOMAIN fate = 1 .. Len(gen)
    BY <1>1, TypeFacts
  <2>3. fate' = [t \in DOMAIN fate |-> IF fate[t] \in Contract!Unfinished
                                       THEN "abandoned" ELSE fate[t]]
    BY <2>1, <2>2 DEF Unfinished, Contract!Unfinished
  <2>4. Contract!GiveUp
    BY <1>5, <2>1, <2>2, <2>3 DEF tick, Contract!GiveUp
  <2> QED BY <2>4 DEF Contract!Next
<1>6. CASE WorkerStops \/ drain_events \/ stop \/ UNCHANGED vars
  BY <1>6 DEF WorkerStops, drain_events, stop, vars
<1> QED BY <1>2, <1>3, <1>4, <1>5, <1>6 DEF Next, Contract!Next

(***************************************************************************)
(* BoundedTeardownCoordinator implements its contract: accepted order, one *)
(* teardown at a time, one end each, and nothing started after a timeout.  *)
(***************************************************************************)
THEOREM TeardownImplementsContract == Spec => ImplementsContract
<1>1. Init => Contract!Init
  BY DEF Init, Contract!Init
<1> QED BY <1>1, InitIInv, NextIInv, StepKeepsContract, PTL
    DEF Spec, ImplementsContract, Contract!Spec
=============================================================================
