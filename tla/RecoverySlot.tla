----------------------------- MODULE RecoverySlot -----------------------------
(***************************************************************************)
(* What the hotplug recovery of an output (module OutputRecovery) and of   *)
(* the studio microphone (module MicRecovery) have in common: a slot of    *)
(* replaceable generations of hardware, its SlotCoordinator, the GLib      *)
(* thread that runs its callbacks and the threads of its operations.  A    *)
(* generation is numbered when it is built.                                *)
(***************************************************************************)
EXTENDS Integers, Sequences, FiniteSets

CONSTANTS
    MaxBins,     \* bound: generations built
    MaxOps,      \* bound: coordinator operations
    MaxFaults    \* bound: the steps of a behaviour that its owner counts as faults

ASSUME SlotAssumption == MaxBins \in Nat \ {0} /\ MaxOps \in Nat /\ MaxFaults \in Nat

VARIABLES
    \* the slot's SlotCoordinator
    generation, state, op, next_op_id, again, abandoned_generations, rec,
    \* the slot
    pending,       \* the candidate, slot.pending_bin or _mic_pending_hw_bin; 0 is None
    last_observed, \* the coordinator's state as the recovery tick has last taken note of it
    dispatched,    \* the dispatch serial has advanced since the handler was entered
    backoff,       \* the time of the next retry lies in the future
    linked,        \* the generation linked to the permanent part; 0 is none
    \* threads
    glib,          \* where the GLib thread is; "idle" between callbacks
    task,          \* what the thread of each operation does, and where it is
    \* environment
    present,       \* what is plugged in
    dead,          \* generations whose device is gone
    lost_seen,     \* generations a device-loss error has been handled for
    faults

sc_vars == <<generation, state, op, next_op_id, again, abandoned_generations, rec>>

SC == INSTANCE SlotCoordinator

NoBin == 0

(***************************************************************************)
(* The thread of operation o runs its worker and has come to a place in it.*)
(***************************************************************************)
At(o, place) == o \in DOMAIN task /\ rec[o].thread = "running" /\ task[o].at = place

Moves(o, place) == task' = [task EXCEPT ![o].at = place]

(***************************************************************************)
(* The slot is healthy and the recovery tick has taken note of it.         *)
(***************************************************************************)
Settled == glib = "idle" /\ state = "OK" /\ last_observed = "OK"
=============================================================================
