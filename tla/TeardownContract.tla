--------------------------- MODULE TeardownContract ---------------------------
(***************************************************************************)
(* What library/services/audio_recovery.py's BoundedTeardownCoordinator    *)
(* promises the owner of a deck slot, without queue, thread or lock: the   *)
(* accepted teardowns are carried out one at a time in the order they were *)
(* accepted, each of them ends once, and when one is given up everything   *)
(* unfinished is given up with it and nothing is ever started again.       *)
(***************************************************************************)
EXTENDS Integers, Sequences

VARIABLES
    fate,      \* fate[t] is what has become of the t-th accepted teardown
    poisoned   \* one was given up: the slot is lost to this process

vars == <<fate, poisoned>>

Fate == {"queued", "started", "completed", "failed", "abandoned"}
Unfinished == {"queued", "started"}

Init == fate = << >> /\ poisoned = FALSE

Accept ==
    /\ ~poisoned
    /\ fate' = Append(fate, "queued")
    /\ UNCHANGED poisoned

Start ==
    \E t \in DOMAIN fate :
        /\ ~poisoned
        /\ fate[t] = "queued"
        /\ \A u \in 1 .. (t - 1) : fate[u] \notin Unfinished
        /\ fate' = [fate EXCEPT ![t] = "started"]
        /\ UNCHANGED poisoned

Finish ==
    \E t \in DOMAIN fate :
        /\ fate[t] = "started"
        /\ \E result \in {"completed", "failed"} : fate' = [fate EXCEPT ![t] = result]
        /\ UNCHANGED poisoned

GiveUp ==
    /\ \E t \in DOMAIN fate : fate[t] = "started"
    /\ poisoned' = TRUE
    /\ fate' = [t \in DOMAIN fate |-> IF fate[t] \in Unfinished THEN "abandoned" ELSE fate[t]]

Next == Accept \/ Start \/ Finish \/ GiveUp

Spec == Init /\ [][Next]_vars
=============================================================================
