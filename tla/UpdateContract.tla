---------------------------- MODULE UpdateContract ----------------------------
(***************************************************************************)
(* What the protected updater promises about the host it updates, whatever *)
(* jobs, crashes and retries it takes: the target's migrations are applied *)
(* by the updater one at a time, in order, on top of nothing but its own   *)
(* work; the source advances once, behind the complete schema; services    *)
(* restart only on the new source.  Somebody else may change the migration *)
(* records at any time, and is then answerable for the schema.             *)
(***************************************************************************)
EXTENDS Integers

CONSTANTS
    Migrations,   \* number of migrations of the transition
    Services      \* services the plan restarts

VARIABLES
    applied,      \* who applied each migration of the transition
    head,         \* the live checkout: "installed" or "target"
    restarted,    \* services restarted since the update began
    disturbances  \* how often somebody else has changed the migration records
vars == <<applied, head, restarted, disturbances>>

Maker == {"nobody", "updater", "outside"}

Init ==
    /\ applied = [m \in 1 .. Migrations |-> "nobody"]
    /\ head = "installed"
    /\ restarted = {}
    /\ disturbances = 0

Migrate ==
    /\ disturbances > 0 \/ head = "installed"
    /\ \E m \in 1 .. Migrations :
          /\ \A i \in 1 .. Migrations : applied[i] = IF i < m THEN "updater" ELSE "nobody"
          /\ applied' = [applied EXCEPT ![m] = "updater"]
    /\ UNCHANGED <<head, restarted, disturbances>>

Advance ==
    /\ head = "installed"
    /\ disturbances > 0 \/ \A m \in 1 .. Migrations : applied[m] = "updater"
    /\ head' = "target"
    /\ UNCHANGED <<applied, restarted, disturbances>>

Restart(s) ==
    /\ head = "target"
    /\ restarted' = restarted \cup {s}
    /\ UNCHANGED <<applied, head, disturbances>>

Disturb ==
    /\ applied' \in [1 .. Migrations -> Maker]
    /\ disturbances' = disturbances + 1
    /\ UNCHANGED <<head, restarted>>

Next == Migrate \/ Advance \/ (\E s \in Services : Restart(s)) \/ Disturb

Spec == Init /\ [][Next]_vars
=============================================================================
