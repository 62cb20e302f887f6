------------------------- MODULE TeardownCoordinator -------------------------
(***************************************************************************)
(* class BoundedTeardownCoordinator of library/services/audio_recovery.py: *)
(* it carries out the one call of a deck's retirement that may hang, the   *)
(* set_state(NULL), on a single daemon thread per deck slot.  Each method  *)
(* is one critical section of self._condition.  The owner is the engine's  *)
(* _deck_teardown_tick (library/services/engine.py), which polls tick(),   *)
(* drains the events and asks for a policy restart on a timeout.           *)
(***************************************************************************)
EXTENDS Integers, Sequences, FiniteSets

CONSTANTS
    Generations,     \* deck generations handed to submit()
    queue_capacity,  \* self.queue_capacity
    MaxSubmits       \* bound: teardowns accepted in one behaviour

ASSUME CapacityAssumption == queue_capacity \in Nat \ {0} /\ MaxSubmits \in Nat

VARIABLES
    gen,        \* gen[t] is the generation of the t-th accepted record
    fate,       \* fate[t] is what has become of that record
    pending,    \* self._pending: accepted records not yet started
    active,     \* self._active; 0 is None
    worker,     \* self._worker: "none", "idle" (at the condition), "running", "exited"
    stopping,   \* self._stopping
    poisoned,   \* self._poisoned
    reported,   \* self._poison_rejection_reported
    completed,  \* self._completed
    abandoned_generations, \* self._abandoned_generations
    events,     \* self._events: the kinds waiting to be drained (the owner's
                \* reaction depends neither on their order nor on their number)
    restart_required       \* the engine's restart_required

vars == <<gen, fate, pending, active, worker, stopping, poisoned, reported,
          completed, abandoned_generations, events, restart_required>>

Fate == {"queued", "started", "completed", "failed", "abandoned"}
Unfinished == {"queued", "started"}

EventKind == {"queued", "started", "completed", "failed", "duplicate_ignored", "timed_out",
              "rejected_stopping", "rejected_poisoned", "rejected_full",
              "abandoned_without_start", "late_result_discarded"}

Init ==
    /\ gen = << >> /\ fate = << >> /\ pending = << >>
    /\ active = 0
    /\ worker = "none"
    /\ stopping = FALSE /\ poisoned = FALSE /\ reported = FALSE
    /\ completed = 0
    /\ abandoned_generations = << >>
    /\ events = {}
    /\ restart_required = FALSE

_event_locked(kind) == events' = events \cup {kind}

(***************************************************************************)
(* submit(generation, worker_fn) and its result.                           *)
(***************************************************************************)
BusyGenerations ==
    {gen[t] : t \in {pending[i] : i \in DOMAIN pending} \cup ({active} \ {0})}

SubmitResult(g) ==
    IF stopping THEN "rejected_stopping"
    ELSE IF poisoned THEN "rejected_poisoned"
    ELSE IF g \in BusyGenerations THEN "duplicate"
    ELSE IF Len(pending) >= queue_capacity THEN "rejected_full"
    ELSE "queued"

submit(g) ==
    LET result == SubmitResult(g) IN
    /\ Len(gen) < MaxSubmits
    /\ IF result = "queued"
       THEN /\ gen' = Append(gen, g)
            /\ fate' = Append(fate, "queued")
            /\ pending' = Append(pending, Len(gen) + 1)
            /\ worker' = IF worker = "none" THEN "idle" ELSE worker
       ELSE UNCHANGED <<gen, fate, pending, worker>>
    /\ reported' = (reported \/ result = "rejected_poisoned")
    /\ IF result = "rejected_poisoned" /\ reported
       THEN UNCHANGED events
       ELSE _event_locked(IF result = "duplicate" THEN "duplicate_ignored" ELSE result)
    /\ UNCHANGED <<active, stopping, poisoned, completed, abandoned_generations,
                   restart_required>>

\* Mutant: the thread starts the call without publishing self._active.
WorkerTakes_Mutant ==
    /\ worker = "idle" /\ pending # << >>
    /\ pending' = Tail(pending)
    /\ fate' = [fate EXCEPT ![Head(pending)] = "started"]
    /\ worker' = "running"
    /\ _event_locked("started")
    /\ UNCHANGED <<gen, active, stopping, poisoned, reported, completed,
                   abandoned_generations, restart_required>>

(***************************************************************************)
(* _run(): the wait loop, and the record the thread takes off the queue.   *)
(***************************************************************************)
WorkerTakes ==
    /\ worker = "idle" /\ pending # << >>
    /\ pending' = Tail(pending)
    /\ LET t == Head(pending) IN
       IF poisoned
       THEN /\ fate' = [fate EXCEPT ![t] = "abandoned"]
            /\ abandoned_generations' = Append(abandoned_generations, gen[t])
            /\ _event_locked("abandoned_without_start")
            /\ UNCHANGED <<active, worker>>
       ELSE /\ fate' = [fate EXCEPT ![t] = "started"]
            /\ active' = t
            /\ worker' = "running"
            /\ _event_locked("started")
            /\ UNCHANGED abandoned_generations
    /\ UNCHANGED <<gen, stopping, poisoned, reported, completed, restart_required>>

WorkerStops ==
    /\ worker = "idle" /\ pending = << >> /\ stopping
    /\ worker' = "exited"
    /\ UNCHANGED <<gen, fate, pending, active, stopping, poisoned, reported,
                   completed, abandoned_generations, events, restart_required>>

\* Mutant: the thread files its result without looking at record.abandoned.
WorkerFinishes_Mutant(result) ==
    /\ worker = "running"
    /\ fate' = [fate EXCEPT ![active] = result]
    /\ completed' = completed + 1
    /\ active' = 0
    /\ worker' = "idle"
    /\ _event_locked(result)
    /\ UNCHANGED <<gen, pending, stopping, poisoned, reported, abandoned_generations,
                   restart_required>>

(***************************************************************************)
(* _run(): worker_fn has returned, or raised; its record is filed unless   *)
(* tick() gave it up meanwhile, in which case the thread ends.             *)
(***************************************************************************)
WorkerFinishes(result) ==
    /\ worker = "running"
    /\ IF fate[active] = "abandoned"
       THEN /\ worker' = "exited"
            /\ _event_locked("late_result_discarded")
            /\ UNCHANGED <<fate, active, completed>>
       ELSE /\ fate' = [fate EXCEPT ![active] = result]
            /\ completed' = completed + 1
            /\ active' = 0
            /\ worker' = "idle"
            /\ _event_locked(result)
    /\ UNCHANGED <<gen, pending, stopping, poisoned, reported, abandoned_generations,
                   restart_required>>

\* Mutant: the timeout gives up the queue without listing it.
tick_MutantUnlisted ==
    /\ active # 0 /\ fate[active] # "abandoned"
    /\ poisoned' = TRUE
    /\ fate' = [t \in DOMAIN fate |-> IF fate[t] \in Unfinished THEN "abandoned" ELSE fate[t]]
    /\ abandoned_generations' = Append(abandoned_generations, gen[active])
    /\ events' = events \cup {"timed_out"}
    /\ pending' = << >>
    /\ UNCHANGED <<gen, active, worker, stopping, reported, completed, restart_required>>

\* Mutant: the timeout leaves the queue to a thread that hangs.
tick_MutantKeepsQueue ==
    /\ active # 0 /\ fate[active] # "abandoned"
    /\ poisoned' = TRUE
    /\ fate' = [fate EXCEPT ![active] = "abandoned"]
    /\ abandoned_generations' = Append(abandoned_generations, gen[active])
    /\ events' = events \cup {"timed_out"}
    /\ UNCHANGED <<gen, pending, active, worker, stopping, reported, completed,
                   restart_required>>

(***************************************************************************)
(* tick(): the active record has run for timeout_s.  The clock is          *)
(* abstracted: a running record may have reached it or not.                *)
(***************************************************************************)
tick ==
    /\ active # 0 /\ fate[active] # "abandoned"
    /\ poisoned' = TRUE
    /\ fate' = [t \in DOMAIN fate |->
                   IF t = active \/ \E i \in DOMAIN pending : pending[i] = t
                   THEN "abandoned" ELSE fate[t]]
    /\ abandoned_generations' =
           abandoned_generations \o <<gen[active]>> \o [i \in DOMAIN pending |-> gen[pending[i]]]
    /\ events' = events \cup {"timed_out"}
                  \cup (IF pending = << >> THEN {} ELSE {"abandoned_without_start"})
    /\ pending' = << >>
    /\ UNCHANGED <<gen, active, worker, stopping, reported, completed, restart_required>>

\* Mutant: only a rejected teardown, not the timeout itself, asks for a restart.
drain_events_Mutant ==
    /\ events # {}
    /\ events' = {}
    /\ restart_required' = (restart_required \/ "rejected_poisoned" \in events)
    /\ UNCHANGED <<gen, fate, pending, active, worker, stopping, poisoned, reported,
                   completed, abandoned_generations>>

(***************************************************************************)
(* drain_events() and what _deck_teardown_tick does with them: a timeout   *)
(* reaches _request_restart, which is idempotent.                          *)
(***************************************************************************)
drain_events ==
    /\ events # {}
    /\ events' = {}
    /\ restart_required' = (restart_required \/ "timed_out" \in events)
    /\ UNCHANGED <<gen, fate, pending, active, worker, stopping, poisoned, reported,
                   completed, abandoned_generations>>

stop ==
    /\ stopping' = TRUE
    /\ UNCHANGED <<gen, fate, pending, active, worker, poisoned, reported, completed,
                   abandoned_generations, events, restart_required>>

Next ==
    \/ \E g \in Generations : submit(g)
    \/ WorkerTakes
    \/ WorkerStops
    \/ \E result \in {"completed", "failed"} : WorkerFinishes(result)
    \/ tick
    \/ drain_events
    \/ stop

(***************************************************************************)
(* The owner's 300 ms timer keeps polling and draining, and a thread that  *)
(* is not inside worker_fn gets the condition.  worker_fn may hang.        *)
(***************************************************************************)
Fairness == WF_vars(tick) /\ WF_vars(drain_events) /\ WF_vars(WorkerTakes)

Spec == Init /\ [][Next]_vars /\ Fairness
-----------------------------------------------------------------------------
(***************************************************************************)
(* Types; and submit() never lets self._pending grow beyond                *)
(* queue_capacity.                                                         *)
(***************************************************************************)
TypeOK ==
    /\ gen \in Seq(Generations)
    /\ fate \in Seq(Fate) /\ Len(fate) = Len(gen)
    /\ pending \in Seq(DOMAIN gen) /\ Len(pending) <= queue_capacity
    /\ active \in {0} \cup DOMAIN gen
    /\ worker \in {"none", "idle", "running", "exited"}
    /\ stopping \in BOOLEAN /\ poisoned \in BOOLEAN /\ reported \in BOOLEAN
    /\ restart_required \in BOOLEAN
    /\ completed \in Nat
    /\ abandoned_generations \in Seq(Generations)
    /\ events \subseteq EventKind

(***************************************************************************)
(* _start_worker_locked never replaces a thread that was created once, so a*)
(* queued teardown behind a thread that has returned would never be done.  *)
(***************************************************************************)
PendingHasWorker == pending # << >> => worker \in {"idle", "running"} /\ ~poisoned

(***************************************************************************)
(* _deck_slot_available(): what lets the engine build a new generation in  *)
(* the slot.  Then no teardown of an earlier generation is still running.  *)
(***************************************************************************)
_deck_slot_available == ~poisoned /\ ~stopping /\ active = 0 /\ pending = << >>

(***************************************************************************)
(* A slot that _deck_slot_available() offers has no thread inside a NULL   *)
(* call and no accepted teardown that has not ended.                       *)
(***************************************************************************)
AvailableIsQuiet ==
    _deck_slot_available => /\ worker \in {"none", "idle"}
                            /\ \A t \in DOMAIN fate : fate[t] \in {"completed", "failed"}

(***************************************************************************)
(* No accepted teardown vanishes from the coordinator's own accounts: each *)
(* is counted completed, listed abandoned, queued or active, exactly once. *)
(***************************************************************************)
Accounted ==
    Len(gen) = completed + Len(abandoned_generations) + Len(pending)
                 + (IF active # 0 /\ fate[active] = "started" THEN 1 ELSE 0)

Contract == INSTANCE TeardownContract WITH fate <- fate, poisoned <- poisoned

(***************************************************************************)
(* The coordinator keeps its contract: accepted order, one at a time, one  *)
(* end each, nothing after a timeout.                                      *)
(***************************************************************************)
ImplementsContract == Contract!Spec

(***************************************************************************)
(* A teardown that was accepted ends, also behind a hung one and also after*)
(* stop().                                                                 *)
(***************************************************************************)
AcceptedEnds ==
    \A t \in 1 .. MaxSubmits :
        (t \in DOMAIN fate /\ fate[t] \in Unfinished)
            ~> (t \in DOMAIN fate /\ fate[t] \notin Unfinished)

(***************************************************************************)
(* A slot lost to a hung teardown always leads to the policy restart that  *)
(* reclaims it.                                                            *)
(***************************************************************************)
PoisonLeadsToRestart == poisoned ~> restart_required
=============================================================================
