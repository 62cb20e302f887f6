--------------------------- MODULE CommandContract ----------------------------
(***************************************************************************)
(* What the command transport (isadoraair/engine_commands.py, module       *)
(* EngineCommands) promises the engine that polls it, without files, lock, *)
(* clock or batches: commands are delivered first in first out and at most *)
(* once.  A command that cannot be taken at its turn is passed over, once, *)
(* and comes at some later time; one can be lost at its turn, or with the  *)
(* engine that has taken it.  Nothing else is ever lost or overtaken.      *)
(***************************************************************************)
EXTENDS Integers, Sequences

VARIABLES
    published,   \* number of commands published, which numbers them
    waiting,     \* commands that wait for their turn
    late,        \* commands that were passed over at their turn
    in_hand,     \* the command that is taken and not delivered; 0 is none
    delivered,   \* commands delivered, in order
    losses       \* commands lost at their turn, and deaths of the engine

vars == <<published, waiting, late, in_hand, delivered, losses>>

Init ==
    /\ published = 0 /\ waiting = {} /\ late = {}
    /\ in_hand = 0 /\ delivered = << >> /\ losses = 0

First(n) == n \in waiting /\ \A m \in waiting : n <= m

Publish ==
    /\ published' = published + 1
    /\ waiting' = waiting \cup {published + 1}
    /\ UNCHANGED <<late, in_hand, delivered, losses>>

(***************************************************************************)
(* Command n leaves the queue, at its turn or after it.                    *)
(***************************************************************************)
Leaves(n) ==
    /\ in_hand = 0
    /\ First(n) \/ n \in late
    /\ waiting' = waiting \ {n}
    /\ late' = late \ {n}
    /\ UNCHANGED <<published, delivered>>

Take(n) == Leaves(n) /\ in_hand' = n /\ UNCHANGED losses

Lose(n) == Leaves(n) /\ losses' = losses + 1 /\ UNCHANGED in_hand

PassOver(n) ==
    /\ in_hand = 0 /\ First(n)
    /\ waiting' = waiting \ {n}
    /\ late' = late \cup {n}
    /\ UNCHANGED <<published, in_hand, delivered, losses>>

Deliver ==
    /\ in_hand # 0
    /\ delivered' = Append(delivered, in_hand)
    /\ in_hand' = 0
    /\ UNCHANGED <<published, waiting, late, losses>>

(***************************************************************************)
(* The engine dies, with the command it has taken if there is one.         *)
(***************************************************************************)
Die ==
    /\ in_hand' = 0
    /\ losses' = losses + 1
    /\ UNCHANGED <<published, waiting, late, delivered>>

Next ==
    \/ Publish
    \/ \E n \in waiting \cup late : Take(n) \/ Lose(n) \/ PassOver(n)
    \/ Deliver
    \/ Die

Spec == Init /\ [][Next]_vars
=============================================================================
