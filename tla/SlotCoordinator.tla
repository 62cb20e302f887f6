--------------------------- MODULE SlotCoordinator ---------------------------
(***************************************************************************)
(* The per-slot recovery coordinator of library/services/audio_recovery.py *)
(* (class SlotCoordinator).  One instance guards one hardware slot.  The   *)
(* owner (the GLib thread) reports failures, asks for recovery operations  *)
(* and polls for timeouts; every operation runs on a daemon thread of its  *)
(* own, which Python cannot kill.  Every method body is one critical       *)
(* section of self._lock, hence one action, except the thread's runner():  *)
(* it takes the lock twice, once to file its result in its record and once *)
(* to apply that record to the slot, and other calls may come in between.  *)
(***************************************************************************)
EXTENDS Integers, Sequences

CONSTANT
    MaxOps      \* bound: operations dispatched in one behaviour

ASSUME MaxOpsAssumption == MaxOps \in Nat

VARIABLES
    generation,           \* self.generation
    state,                \* self.state
    op,                   \* self._op, as the op_id of its record; 0 is None
    next_op_id,           \* self._next_op_id
    again,                \* self._recovery_requested_again
    abandoned_generations,\* self._abandoned_generations
    rec                   \* the OperationRecords still referenced, by op_id

vars == <<generation, state, op, next_op_id, again, abandoned_generations, rec>>

SlotState == {"OK", "DEGRADED", "RECOVERING", "RESTART_REQUIRED"}

(***************************************************************************)
(* An OperationRecord with the position of the thread that runs it:        *)
(* "running" inside worker_fn, "resolving" between its two critical        *)
(* sections, "ended" after runner() has returned.                          *)
(***************************************************************************)
OperationRecord == [generation : Nat, done : BOOLEAN, succeeded : BOOLEAN,
                    abandoned : BOOLEAN, thread : {"running", "resolving", "ended"}]

(***************************************************************************)
(* A record is reachable while it is self._op or its thread still has it.  *)
(***************************************************************************)
Collected(r, current) ==
    [o \in {x \in DOMAIN r : x = current \/ r[x].thread # "ended"} |-> r[o]]

\* Mutant: the coalescing test forgets the "not" before self._op.done.
InFlight_Mutant == op # 0 /\ rec[op].done /\ ~rec[op].abandoned

(***************************************************************************)
(* "self._op is not None and not self._op.done and not self._op.abandoned" *)
(***************************************************************************)
InFlight == op # 0 /\ ~rec[op].done /\ ~rec[op].abandoned

Init ==
    /\ generation = 0
    /\ state = "OK"
    /\ op = 0
    /\ next_op_id = 1
    /\ again = FALSE
    /\ abandoned_generations = << >>
    /\ rec = [o \in {} |-> [generation |-> 0, done |-> FALSE, succeeded |-> FALSE,
                            abandoned |-> FALSE, thread |-> "ended"]]

\* Mutant: the early return for a slot that is not OK is dropped.
mark_degraded_Mutant ==
    /\ state' = "DEGRADED"
    /\ UNCHANGED <<generation, op, next_op_id, again, abandoned_generations, rec>>

(***************************************************************************)
(* mark_degraded(): its Boolean result is whether the slot was OK.         *)
(***************************************************************************)
mark_degraded ==
    /\ state' = IF state = "OK" THEN "DEGRADED" ELSE state
    /\ UNCHANGED <<generation, op, next_op_id, again, abandoned_generations, rec>>

_dispatch_locked(bump_generation) ==
    /\ next_op_id <= MaxOps
    /\ generation' = IF bump_generation THEN generation + 1 ELSE generation
    /\ op' = next_op_id
    /\ next_op_id' = next_op_id + 1
    /\ state' = "RECOVERING"
    /\ again' = FALSE
    /\ rec' = LET new == [generation |-> generation', done |-> FALSE, succeeded |-> FALSE,
                          abandoned |-> FALSE, thread |-> "running"]
                  kept == Collected(rec, next_op_id)
              IN  [o \in DOMAIN kept \cup {next_op_id} |->
                      IF o = next_op_id THEN new ELSE kept[o]]
    /\ UNCHANGED abandoned_generations

(***************************************************************************)
(* request_recovery(worker_fn) and the value it returns in each case.      *)
(***************************************************************************)
RequestResult ==
    CASE state = "OK"               -> "ignored_ok"
      [] state = "RESTART_REQUIRED" -> "ignored_restart_required"
      [] state \notin {"OK", "RESTART_REQUIRED"} /\ InFlight  -> "coalesced"
      [] state \notin {"OK", "RESTART_REQUIRED"} /\ ~InFlight -> "dispatched"

request_recovery ==
    \/ /\ RequestResult = "dispatched"
       /\ _dispatch_locked(TRUE)
    \/ /\ RequestResult # "dispatched"
       /\ again' = (again \/ RequestResult \in {"ignored_restart_required", "coalesced"})
       /\ UNCHANGED <<generation, state, op, next_op_id, abandoned_generations, rec>>

(***************************************************************************)
(* retry_now(worker_fn), the operator's explicit retry: the only way out   *)
(* of RESTART_REQUIRED, and the only dispatch that may keep the generation.*)
(***************************************************************************)
retry_now ==
    \/ /\ InFlight
       /\ again' = TRUE
       /\ UNCHANGED <<generation, state, op, next_op_id, abandoned_generations, rec>>
    \/ /\ ~InFlight /\ state # "OK"
       /\ _dispatch_locked(state = "RESTART_REQUIRED")

(***************************************************************************)
(* tick(): the current operation has been in flight for timeout_s.  The    *)
(* clock is abstracted: an operation in flight may have reached it or not. *)
(***************************************************************************)
tick ==
    /\ InFlight
    /\ rec' = [rec EXCEPT ![op].abandoned = TRUE]
    /\ abandoned_generations' = Append(abandoned_generations, rec[op].generation)
    /\ state' = "RESTART_REQUIRED"
    /\ again' = FALSE
    /\ UNCHANGED <<generation, op, next_op_id>>

\* Mutant: runner() files its result without looking at record.abandoned.
WorkerReturns_Mutant(o, ok) ==
    /\ o \in DOMAIN rec /\ rec[o].thread = "running"
    /\ rec' = [rec EXCEPT ![o] = [@ EXCEPT !.done = TRUE, !.succeeded = ok,
                                           !.thread = "resolving"]]
    /\ UNCHANGED <<generation, state, op, next_op_id, again, abandoned_generations>>

(***************************************************************************)
(* runner(), first critical section: worker_fn of operation o has returned *)
(* ok, or has raised (ok = FALSE).  A record abandoned meanwhile is left   *)
(* alone and the thread ends.                                              *)
(***************************************************************************)
WorkerReturns(o, ok) ==
    /\ o \in DOMAIN rec /\ rec[o].thread = "running"
    /\ rec' = IF rec[o].abandoned
              THEN Collected([rec EXCEPT ![o].thread = "ended"], op)
              ELSE [rec EXCEPT ![o] = [@ EXCEPT !.done = TRUE, !.succeeded = ok,
                                                !.thread = "resolving"]]
    /\ UNCHANGED <<generation, state, op, next_op_id, again, abandoned_generations>>

\* Mutant: staleness is decided by the generation alone.
ResultAccepted_Mutant(o) ==
    rec[o].generation = generation /\ ~rec[o].abandoned

(***************************************************************************)
(* _on_worker_resolved(record): whether the result is still this slot's.   *)
(***************************************************************************)
ResultAccepted(o) ==
    /\ o = op
    /\ rec[o].generation = generation
    /\ ~rec[o].abandoned

\* Mutant: a failed operation is only logged.
_on_worker_resolved_Mutant(o) ==
    /\ o \in DOMAIN rec /\ rec[o].thread = "resolving"
    /\ rec' = Collected([rec EXCEPT ![o].thread = "ended"], op)
    /\ IF ResultAccepted(o) /\ rec[o].succeeded
       THEN state' = "OK" /\ again' = FALSE
       ELSE UNCHANGED <<state, again>>
    /\ UNCHANGED <<generation, op, next_op_id, abandoned_generations>>

_on_worker_resolved(o) ==
    /\ o \in DOMAIN rec /\ rec[o].thread = "resolving"
    /\ rec' = Collected([rec EXCEPT ![o].thread = "ended"], op)
    /\ IF ResultAccepted(o)
       THEN /\ state' = IF rec[o].succeeded THEN "OK" ELSE "DEGRADED"
            /\ again' = FALSE
       ELSE UNCHANGED <<state, again>>
    /\ UNCHANGED <<generation, op, next_op_id, abandoned_generations>>

WorkerStep ==
    \E o \in DOMAIN rec :
        \/ \E ok \in BOOLEAN : WorkerReturns(o, ok)
        \/ _on_worker_resolved(o)

Next ==
    \/ mark_degraded
    \/ request_recovery
    \/ retry_now
    \/ tick
    \/ WorkerStep

(***************************************************************************)
(* The owner polls tick() from a GLib timer for as long as the engine runs,*)
(* and the clock moves, so an operation that stays in flight times out; a  *)
(* thread that has filed its result takes the free lock to apply it.  That *)
(* worker_fn ever returns is NOT assumed.                                  *)
(***************************************************************************)
Fairness ==
    /\ WF_vars(tick)
    /\ WF_vars(\E o \in DOMAIN rec : _on_worker_resolved(o))

Spec == Init /\ [][Next]_vars /\ Fairness
-----------------------------------------------------------------------------
(***************************************************************************)
(* Types; and self._op is a record that was dispatched and is still there, *)
(* with an op_id below self._next_op_id.                                   *)
(***************************************************************************)
TypeOK ==
    /\ generation \in Nat
    /\ state \in SlotState
    /\ op \in Nat
    /\ next_op_id \in Nat \ {0}
    /\ again \in BOOLEAN
    /\ abandoned_generations \in Seq(Nat)
    /\ rec \in [DOMAIN rec -> OperationRecord]
    /\ DOMAIN rec \subseteq 1 .. (next_op_id - 1)
    /\ op = 0 \/ op \in DOMAIN rec

(***************************************************************************)
(* At most one operation that anybody still waits for runs on the hardware *)
(* at a time, and it is the slot's own: request coalescing works, and a    *)
(* second thread exists only next to threads that were given up.           *)
(***************************************************************************)
OneLiveOperation ==
    \A o \in DOMAIN rec : rec[o].thread = "running" /\ ~rec[o].abandoned => o = op

(***************************************************************************)
(* A slot in RECOVERING always has a thread that will end the recovery:    *)
(* no interleaving of a result with a new request leaves it there for good.*)
(***************************************************************************)
RecoveringHasOwner ==
    state = "RECOVERING" => /\ op # 0
                            /\ rec[op].thread # "ended"
                            /\ ~rec[op].abandoned

(***************************************************************************)
(* OK after any dispatch means the current operation itself succeeded in   *)
(* time: neither a superseded nor an abandoned operation's late success    *)
(* ever makes the slot healthy.                                            *)
(***************************************************************************)
OkIsEarned ==
    state = "OK" /\ op # 0 => /\ rec[op].done /\ rec[op].succeeded
                              /\ ~rec[op].abandoned
                              /\ rec[op].generation = generation

(***************************************************************************)
(* RESTART_REQUIRED exactly when the slot's current operation was given    *)
(* up: a late failure never downgrades it to an ordinary DEGRADED, which   *)
(* would restart automatic rebuilding behind a thread that still hangs.    *)
(***************************************************************************)
RestartIffAbandoned ==
    state = "RESTART_REQUIRED" <=> (op # 0 /\ rec[op].abandoned)

(***************************************************************************)
(* No step moves the generation back, completes an operation that was given*)
(* up, gives up one whose result is filed, or alters a filed result.       *)
(***************************************************************************)
FinalStep ==
    /\ generation' >= generation
    /\ \A o \in DOMAIN rec \cap DOMAIN rec' :
          /\ rec[o].abandoned => rec'[o].abandoned /\ ~rec'[o].done
          /\ rec[o].done => /\ rec'[o].done /\ ~rec'[o].abandoned
                            /\ rec'[o].succeeded = rec[o].succeeded

FiledResultsAreFinal == [][FinalStep]_vars

(***************************************************************************)
(* Every recovery ends: in OK, in DEGRADED or, at the latest when the      *)
(* timeout is noticed, in RESTART_REQUIRED, even if worker_fn never returns*)
(***************************************************************************)
RecoveryEnds == (state = "RECOVERING") ~> (state # "RECOVERING")
=============================================================================
