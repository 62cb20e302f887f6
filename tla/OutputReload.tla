----------------------------- MODULE OutputReload -----------------------------
(***************************************************************************)
(* Live reload of the audio outputs' configuration.  An administrator's    *)
(* save of an AudioOutput row commits to the database and then, on commit, *)
(* publishes one command for the engine (hardware/signals.py).  The engine *)
(* takes commands in publication order, except for one it loses or has to  *)
(* pass over (modules EngineCommands and CommandContract), and reads the   *)
(* database itself: a command only says that there is something to read.   *)
(* Its handlers (library/services/engine.py) refresh the identities of     *)
(* both output slots and, for the Studio Monitor, retarget the live sink   *)
(* (module OutputRecovery takes over from there).  An engine that is       *)
(* started again builds its slots from the database, and finds the         *)
(* commands that were waiting.                                             *)
(***************************************************************************)
EXTENDS Integers, Sequences

CONSTANTS
    Identities,   \* ALSA card identities
    RawDevices,   \* raw device paths
    Fallback,     \* STUDIO_MONITOR_FALLBACK_DEVICE
    Blank,        \* no stable identity configured
    MaxSaves      \* bound: saves

Kinds == {"studio_monitor", "stereotool"}

ASSUME ReloadAssumption ==
    /\ Blank \notin Identities \cup RawDevices
    /\ Fallback \in RawDevices
    /\ MaxSaves \in Nat

VARIABLES
    db,            \* the committed row of each output
    saves,         \* number of saves so far
    unpublished,   \* saves that are committed and whose command is not queued yet
    commands,      \* the engine's command queue: the row each command is for
    identity,      \* slot.identity of each output slot
    legacy_device, \* the Studio Monitor slot's legacy_device
    live,          \* the device the Studio Monitor's sink was last sent to
    engine,        \* what the engine's thread is doing
    lost,          \* history: rows the engine has missed and not read since: a command
                   \* was not queued or not read, or the database did not answer
    crossed        \* history: a change of the Studio Monitor's identity was read for
                   \* another row's command

vars == <<db, saves, unpublished, commands, identity, legacy_device, live, engine,
          lost, crossed>>

Row == [identity : Identities \cup {Blank}, device : RawDevices]

(***************************************************************************)
(* resolve_runtime_device: a card identity, if there is one, else the path.*)
(***************************************************************************)
resolve_runtime_device(id, raw) == IF id # Blank THEN id ELSE raw

(***************************************************************************)
(* _build_output_slot: the engine starts from the committed configuration. *)
(***************************************************************************)
Init ==
    /\ db \in [Kinds -> Row]
    /\ saves = 0 /\ unpublished = {} /\ commands = << >>
    /\ identity = [k \in Kinds |-> db[k].identity]
    /\ legacy_device = db["studio_monitor"].device
    /\ live = resolve_runtime_device(identity["studio_monitor"], legacy_device)
    /\ engine = [at |-> "idle", changed |-> FALSE]
    /\ lost = {} /\ crossed = FALSE

(***************************************************************************)
(* A save commits; reload_engine_on_audio_output_change has registered the *)
(* publication of its command with transaction.on_commit.                  *)
(***************************************************************************)
Save(k) ==
    /\ saves < MaxSaves
    /\ \E row \in Row : row # db[k] /\ db' = [db EXCEPT ![k] = row]
    /\ saves' = saves + 1
    /\ unpublished' = unpublished \cup {[save |-> saves + 1, kind |-> k]}
    /\ UNCHANGED <<commands, identity, legacy_device, live, engine, lost, crossed>>

(***************************************************************************)
(* _write_engine_command, in the web process of that save.                 *)
(***************************************************************************)
PublishReload(s) ==
    /\ s \in unpublished
    /\ unpublished' = unpublished \ {s}
    /\ commands' = Append(commands, s.kind)
    /\ UNCHANGED <<db, saves, identity, legacy_device, live, engine, lost, crossed>>

(***************************************************************************)
(* enqueue_engine_command refuses (a full queue, an I/O error): the save   *)
(* stays committed, and the engine is not told of it.                      *)
(***************************************************************************)
PublishFails(s) ==
    /\ s \in unpublished
    /\ unpublished' = unpublished \ {s}
    /\ lost' = lost \cup {s.kind}
    /\ UNCHANGED <<db, saves, commands, identity, legacy_device, live, engine, crossed>>
-----------------------------------------------------------------------------
(***************************************************************************)
(* consume_engine_command_file cannot read the file, and unlinks it.       *)
(***************************************************************************)
CommandUnreadable ==
    /\ engine.at = "idle" /\ commands # << >>
    /\ commands' = Tail(commands)
    /\ lost' = lost \cup {Head(commands)}
    /\ UNCHANGED <<db, saves, unpublished, identity, legacy_device, live, engine, crossed>>

(***************************************************************************)
(* It cannot unlink the file, which has to wait for a later poll: the rest *)
(* of the batch goes first.                                                *)
(***************************************************************************)
CommandPassedOver ==
    /\ engine.at = "idle"
    /\ \E n \in 2 .. Len(commands) :
          commands' = [i \in DOMAIN commands |->
                          IF i < n THEN commands[i + 1]
                          ELSE IF i = n THEN commands[1] ELSE commands[i]]
    /\ UNCHANGED <<db, saves, unpublished, identity, legacy_device, live, engine, lost, crossed>>

(***************************************************************************)
(* The engine dies and is started again.  It reads the device of the Studio*)
(* Monitor's row first (_resolve_studio_monitor_device), and in            *)
(* _build_output_slot the identities, before it takes a command.           *)
(***************************************************************************)
EngineRestart ==
    /\ legacy_device' = db["studio_monitor"].device
    /\ engine' = [at |-> "build", changed |-> FALSE]
    /\ lost' = {}
    /\ UNCHANGED <<db, saves, unpublished, commands, identity, live, crossed>>

BuildSlots ==
    /\ engine.at = "build"
    /\ identity' = [k \in Kinds |-> db[k].identity]
    /\ live' = resolve_runtime_device(identity'["studio_monitor"], legacy_device)
    /\ engine' = [at |-> "idle", changed |-> FALSE]
    /\ crossed' = FALSE
    /\ UNCHANGED <<db, saves, unpublished, commands, legacy_device, lost>>
-----------------------------------------------------------------------------
\* Mutant: the identities are compared after they have been overwritten.
ReloadIdentity_Mutant ==
    LET k == Head(commands) IN
    /\ engine.at = "idle" /\ commands # << >>
    /\ commands' = Tail(commands)
    /\ identity' = [x \in Kinds |-> db[x].identity]
    /\ engine' = IF k = "studio_monitor" THEN [at |-> "apply", changed |-> FALSE] ELSE engine
    /\ lost' = IF k = "studio_monitor" THEN {} ELSE lost \ {k}
    /\ UNCHANGED <<db, saves, unpublished, legacy_device, live, crossed>>

(***************************************************************************)
(* _reload_output_recovery_identity, called by either command: every built *)
(* slot takes its identity from the database, and a blank one if the read  *)
(* fails.  "reload_audio_output" keeps the kinds that changed,             *)
(* "reload_audio_output_recovery_config" does not.                         *)
(***************************************************************************)
ReloadIdentity ==
    LET k == Head(commands) IN
    /\ engine.at = "idle" /\ commands # << >>
    /\ commands' = Tail(commands)
    /\ \E failed \in SUBSET Kinds :
          /\ identity' = [x \in Kinds |-> IF x \in failed THEN Blank ELSE db[x].identity]
          /\ lost' = failed \cup (IF k = "studio_monitor" THEN {} ELSE lost \ {k})
    /\ engine' = IF k = "studio_monitor"
                 THEN [at |-> "apply",
                       changed |-> identity'["studio_monitor"] # identity["studio_monitor"]]
                 ELSE engine
    /\ crossed' = (crossed \/ (/\ k # "studio_monitor"
                               /\ identity'["studio_monitor"] # identity["studio_monitor"]))
    /\ UNCHANGED <<db, saves, unpublished, legacy_device, live>>

\* Mutant: the return for a stable identity comes before the path is recorded.
ApplyDevice_Mutant ==
    LET device == db["studio_monitor"].device
        id == identity["studio_monitor"]
    IN
    /\ engine.at = "apply"
    /\ IF engine.changed \/ id = Blank
       THEN /\ legacy_device' = device
            /\ live' = resolve_runtime_device(id, device)
       ELSE UNCHANGED <<legacy_device, live>>
    /\ engine' = [at |-> "idle", changed |-> FALSE]
    /\ UNCHANGED <<db, saves, unpublished, commands, identity, lost, crossed>>

(***************************************************************************)
(* _resolve_studio_monitor_device reads the row once more, or takes a fixed*)
(* device if it cannot, and _apply_audio_output_device decides: nothing    *)
(* new, a raw path edited under a stable identity (recorded as fallback    *)
(* only), or a retarget.                                                   *)
(***************************************************************************)
ApplyDevice ==
    LET id == identity["studio_monitor"] IN
    /\ engine.at = "apply"
    /\ \/ legacy_device' = db["studio_monitor"].device /\ UNCHANGED lost
       \/ legacy_device' = Fallback /\ lost' = lost \cup {"studio_monitor"}
    /\ live' = IF engine.changed \/ (legacy_device' # legacy_device /\ id = Blank)
               THEN resolve_runtime_device(id, legacy_device')
               ELSE live
    /\ engine' = [at |-> "idle", changed |-> FALSE]
    /\ crossed' = (crossed /\ ~engine.changed)
    /\ UNCHANGED <<db, saves, unpublished, commands, identity>>

Next ==
    \/ \E k \in Kinds : Save(k)
    \/ \E s \in unpublished : PublishReload(s) \/ PublishFails(s)
    \/ CommandUnreadable
    \/ CommandPassedOver
    \/ ReloadIdentity
    \/ ApplyDevice
    \/ EngineRestart
    \/ BuildSlots

Spec == Init /\ [][Next]_vars
-----------------------------------------------------------------------------
(***************************************************************************)
(* Every save has been published and handled.                              *)
(***************************************************************************)
Quiet == unpublished = {} /\ commands = << >> /\ engine.at = "idle"

(***************************************************************************)
(* What recovery will use is never left stale: after the last save has been*)
(* handled, the slots hold the identities of the database and the Studio   *)
(* Monitor its fallback path, in whatever order the commands came and      *)
(* whenever the engine died.  Only a row whose command was lost or whose   *)
(* read failed may differ, and only until the engine reads again.          *)
(***************************************************************************)
QuietSlotsAreCurrent ==
    Quiet => /\ \A k \in Kinds \ lost : identity[k] = db[k].identity
             /\ "studio_monitor" \notin lost => legacy_device = db["studio_monitor"].device

(***************************************************************************)
(* The live sink follows the configuration: "an actual Studio Monitor      *)
(* identity change is an explicit branch-local live retarget"              *)
(* (hardware/signals.py).                                                  *)
(***************************************************************************)
LiveSinkFollowsSaves ==
    Quiet /\ lost = {} =>
        live = resolve_runtime_device(db["studio_monitor"].identity,
                                      db["studio_monitor"].device)

(***************************************************************************)
(* The same, unless the other row's command has read the change.           *)
(***************************************************************************)
LiveSinkFollowsUncrossed == ~crossed => LiveSinkFollowsSaves
=============================================================================
