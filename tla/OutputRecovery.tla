---------------------------- MODULE OutputRecovery ----------------------------
(***************************************************************************)
(* Hotplug recovery of one physical audio output of the playback engine    *)
(* (library/services/engine.py, OutputRecoverySlot and the _output_*       *)
(* methods), on top of its SlotCoordinator.                                *)
(*                                                                         *)
(* The slot is a permanent queue, errorignore and valve in the main        *)
(* pipeline, followed by a replaceable generation: a Gst bin with the      *)
(* alsasink of one device.  The GLib thread runs every callback (bus error,*)
(* 300 ms recovery tick, 2 s presence probe, operator retarget) to its end;*)
(* worker threads run next to it, so a callback is cut into steps wherever *)
(* a worker may interfere: at each of the coordinator's critical sections  *)
(* and at each write of the valve or of the device-loss epoch.             *)
(***************************************************************************)
EXTENDS RecoverySlot

\* MaxFaults bounds unplugs, spurious failures, repeated errors, retargets and
\* probes that overtake the recovery tick.
CONSTANTS
    Devices,     \* runtime devices a generation may be built for
    Stable       \* those named by a stable ALSA card identity

ASSUME OutputAssumption == Stable \subseteq Devices /\ Devices # {}

VARIABLES
    \* the OutputRecoverySlot
    target,        \* resolve_runtime_device(identity_kind, identity, legacy_device)
    current,       \* slot.current_bin; 0 is None
    pending_validation_epoch,
    epoch,         \* slot._device_loss_epoch
    retarget_requested,
    \* GStreamer
    valve_open,    \* the valve's drop property is False
    in_pipeline,   \* generations that are children of main_pipeline
    device_of      \* device_of[b] is the device generation b was built for

slot_vars == <<target, current, pending, pending_validation_epoch, epoch,
               retarget_requested, last_observed, dispatched, backoff>>
gst_vars == <<valve_open, linked, in_pipeline, device_of>>
env_vars == <<present, dead, lost_seen, faults>>
vars == <<sc_vars, slot_vars, gst_vars, glib, task, env_vars>>

Bins == 1 .. Len(device_of)

(***************************************************************************)
(* _build_output_slot: cold start with a first generation, valve open.     *)
(***************************************************************************)
Init ==
    /\ SC!Init
    /\ target \in Devices
    /\ current = 1 /\ pending = NoBin /\ pending_validation_epoch = -1
    /\ epoch = 0
    /\ retarget_requested = FALSE
    /\ last_observed = "OK" /\ dispatched = FALSE /\ backoff = FALSE
    /\ valve_open = TRUE /\ linked = 1 /\ in_pipeline = {1} /\ device_of = <<target>>
    /\ glib = "idle"
    /\ task = << >>
    /\ present = Devices /\ dead = {} /\ lost_seen = {}
    /\ faults = 0
-----------------------------------------------------------------------------
(***************************************************************************)
(* _output_request_recovery(slot, worker): t is the worker.  A dispatch is *)
(* recorded at once in last_observed_slot_state and in the serial.         *)
(***************************************************************************)
_output_request_recovery(t) ==
    /\ SC!request_recovery
    /\ IF SC!RequestResult = "dispatched"
       THEN /\ last_observed' = "RECOVERING"
            /\ dispatched' = TRUE
            /\ task' = [o \in DOMAIN rec' |-> IF o = op' THEN t ELSE task[o]]
       ELSE UNCHANGED <<last_observed, dispatched, task>>

NullTask(b) == [kind |-> "null", bin |-> b, epoch |-> 0, at |-> "null"]
RebuildTask(b) == [kind |-> "rebuild", bin |-> b, epoch |-> epoch, at |-> "sync"]

(***************************************************************************)
(* Unlink from the valve and Bin.remove.                                   *)
(***************************************************************************)
Detach(b) ==
    /\ linked' = IF linked = b THEN NoBin ELSE linked
    /\ in_pipeline' = in_pipeline \ {b}

(***************************************************************************)
(* _output_quiesce_current_generation: detach and retire the current       *)
(* generation, then hand its NULL to a worker.  With no current generation *)
(* the detach raises and is caught, and so will the worker.                *)
(***************************************************************************)
_output_quiesce_current_generation ==
    /\ Detach(current)
    /\ current' = NoBin
    /\ _output_request_recovery(NullTask(current))
    /\ UNCHANGED <<target, pending, pending_validation_epoch, epoch, retarget_requested,
                   backoff, valve_open, device_of, env_vars>>

(***************************************************************************)
(* _output_dispatch_rebuild: build a generation for the target, add it to  *)
(* the pipeline, link it, make it the pending one, verify it in a worker.  *)
(* Pad.link raises when the valve is still linked (external: the bindings' *)
(* Gst.LinkError), and the callback ends there.                            *)
(***************************************************************************)
_output_dispatch_rebuild ==
    LET b == Len(device_of) + 1 IN
    /\ b <= MaxBins
    /\ device_of' = Append(device_of, target)
    /\ in_pipeline' = in_pipeline \cup {b}
    /\ IF linked # NoBin
       THEN UNCHANGED <<sc_vars, linked, pending, pending_validation_epoch, last_observed,
                        dispatched, task>>
       ELSE /\ linked' = b
            /\ pending' = b
            /\ pending_validation_epoch' = epoch
            /\ _output_request_recovery(RebuildTask(b))
    /\ UNCHANGED <<target, current, epoch, valve_open, present, dead, lost_seen>>

(***************************************************************************)
(* _output_discard_pending_bin: forget and detach the candidate; its NULL  *)
(* goes to a worker unless the coordinator has given up on a thread that   *)
(* may still hold it.                                                      *)
(***************************************************************************)
_output_discard_pending_bin(abandoned) ==
    /\ Detach(pending)
    /\ pending' = NoBin
    /\ pending_validation_epoch' = -1
    /\ IF abandoned
       THEN UNCHANGED <<sc_vars, last_observed, dispatched, task>>
       ELSE _output_request_recovery(NullTask(pending))
    /\ UNCHANGED <<target, current, epoch, retarget_requested, backoff, valve_open,
                   device_of, env_vars>>
-----------------------------------------------------------------------------
(***************************************************************************)
(* _on_output_error for a device_lost error that the bus delivers from     *)
(* generation b; _output_slot_owns_message_src drops it unless b is the    *)
(* current or the pending generation.                                      *)
(***************************************************************************)
_output_slot_owns_message_src(b) == b \in {current, pending}

OnOutputError(b) ==
    /\ glib = "idle"
    /\ b \in dead /\ _output_slot_owns_message_src(b)
    /\ b \in lost_seen => faults < MaxFaults
    /\ faults' = IF b \in lost_seen THEN faults + 1 ELSE faults
    /\ epoch' = epoch + 1
    /\ lost_seen' = lost_seen \cup {b}
    /\ glib' = "error_close"
    /\ UNCHANGED <<sc_vars, target, current, pending, pending_validation_epoch,
                   retarget_requested, last_observed, dispatched, backoff, gst_vars, task,
                   present, dead>>

\* Mutant: a failing slot's valve is left as it is.
CloseValve_Mutant(from, to) ==
    /\ glib = from
    /\ glib' = to
    /\ UNCHANGED <<sc_vars, slot_vars, gst_vars, task, env_vars>>

CloseValve(from, to) ==
    /\ glib = from
    /\ valve_open' = FALSE
    /\ glib' = to
    /\ UNCHANGED <<sc_vars, slot_vars, linked, in_pipeline, device_of, task, env_vars>>

OnOutputErrorMark ==
    /\ glib = "error_mark"
    /\ SC!mark_degraded
    /\ IF state = "OK"
       THEN glib' = "quiesce" /\ backoff' = FALSE
       ELSE glib' = "idle" /\ UNCHANGED backoff
    /\ UNCHANGED <<target, current, pending, pending_validation_epoch, epoch,
                   retarget_requested, last_observed, dispatched, gst_vars, task, env_vars>>

Quiesce ==
    /\ glib = "quiesce"
    /\ _output_quiesce_current_generation
    /\ glib' = "idle"
-----------------------------------------------------------------------------
(***************************************************************************)
(* _output_recovery_tick: coordinator.tick(), then the snapshot.           *)
(***************************************************************************)
RecoveryTick ==
    /\ glib = "idle"
    /\ \/ SC!tick
       \/ last_observed # state /\ UNCHANGED sc_vars
    /\ glib' = "snapshot"
    /\ UNCHANGED <<slot_vars, gst_vars, task, env_vars>>

\* A tick that finds neither a timeout nor a change.
QuietTick ==
    /\ glib = "idle"
    /\ last_observed = state
    /\ UNCHANGED vars

(***************************************************************************)
(* _output_handle_slot_transition, OK with a verified candidate whose epoch*)
(* is still the one it was validated under: promotion.                     *)
(***************************************************************************)
Promote ==
    /\ current' = pending
    /\ pending' = NoBin
    /\ pending_validation_epoch' = -1
    /\ backoff' = FALSE
    /\ UNCHANGED <<target, epoch, retarget_requested, last_observed>>

\* Mutant: a candidate is promoted without looking at the epoch again.
HandlerEntry_Mutant ==
    IF state = "OK" THEN (IF pending # NoBin THEN "promote" ELSE "redegrade")
    ELSE IF state = "DEGRADED" /\ pending # NoBin THEN "discard"
    ELSE IF state = "RESTART_REQUIRED" /\ pending # NoBin THEN "discard_abandoned"
    ELSE "handled"

(***************************************************************************)
(* Entering the handler with the snapshot's state: which branch it takes.  *)
(***************************************************************************)
HandlerEntry ==
    IF state = "OK" /\ pending # NoBin
    THEN IF epoch # pending_validation_epoch THEN "stale_close" ELSE "promote"
    ELSE IF state = "OK" THEN "redegrade"
    ELSE IF state = "DEGRADED" /\ pending # NoBin THEN "discard"
    ELSE IF state = "RESTART_REQUIRED" /\ pending # NoBin THEN "discard_abandoned"
    ELSE "handled"

Snapshot ==
    /\ glib = "snapshot"
    /\ dispatched' = FALSE
    /\ IF state = last_observed
       THEN /\ glib' = "idle"
            /\ UNCHANGED <<target, current, pending, pending_validation_epoch, epoch,
                           retarget_requested, last_observed, backoff>>
       ELSE IF HandlerEntry = "promote"
       THEN Promote /\ glib' = "handled"
       ELSE /\ glib' = HandlerEntry
            /\ UNCHANGED <<target, current, pending, pending_validation_epoch, epoch,
                           retarget_requested, last_observed, backoff>>
    /\ UNCHANGED <<sc_vars, gst_vars, task, env_vars>>

\* Mutant: the OK of a finished teardown is taken for a recovered output.
HandlerMark_Mutant ==
    /\ glib \in {"stale_mark", "redegrade"}
    /\ UNCHANGED sc_vars
    /\ glib' = IF glib = "stale_mark" THEN "discard"
               ELSE IF retarget_requested THEN "rebuild" ELSE "handled"
    /\ UNCHANGED <<slot_vars, gst_vars, task, env_vars>>

(***************************************************************************)
(* The mismatch branch after the valve is shut, and the branch in which the*)
(* coordinator's OK only means that a teardown is done.                    *)
(***************************************************************************)
HandlerMark ==
    /\ glib \in {"stale_mark", "redegrade"}
    /\ SC!mark_degraded
    /\ glib' = IF glib = "stale_mark" THEN "discard"
               ELSE IF retarget_requested THEN "rebuild" ELSE "handled"
    /\ UNCHANGED <<slot_vars, gst_vars, task, env_vars>>

HandlerDiscard ==
    /\ glib \in {"discard", "discard_abandoned"}
    /\ _output_discard_pending_bin(glib = "discard_abandoned")
    /\ glib' = "handled"

HandlerRebuild ==
    /\ glib = "rebuild"
    /\ retarget_requested' = FALSE
    /\ _output_dispatch_rebuild
    /\ glib' = IF linked # NoBin THEN "idle" ELSE "handled"
    /\ UNCHANGED <<backoff, faults>>

\* Mutant: the state is read again even if the handler dispatched a worker.
HandlerReturns_Mutant ==
    /\ glib = "handled"
    /\ last_observed' = state
    /\ glib' = "idle"
    /\ UNCHANGED <<sc_vars, target, current, pending, pending_validation_epoch, epoch,
                   retarget_requested, dispatched, backoff, gst_vars, task, env_vars>>

(***************************************************************************)
(* After the handler: last_observed_slot_state follows the coordinator only*)
(* if the handler has dispatched nothing.                                  *)
(***************************************************************************)
HandlerReturns ==
    /\ glib = "handled"
    /\ last_observed' = IF dispatched THEN last_observed ELSE state
    /\ glib' = "idle"
    /\ UNCHANGED <<sc_vars, target, current, pending, pending_validation_epoch, epoch,
                   retarget_requested, dispatched, backoff, gst_vars, task, env_vars>>

(***************************************************************************)
(* _output_presence_probe_tick for a slot with a stable identity.  A probe *)
(* that overtakes the recovery tick after a failed attempt, while its      *)
(* candidate is still linked, counts as a fault: the tick is six times as  *)
(* frequent, so this does not happen forever.                              *)
(***************************************************************************)
ProbeMayRebuild == state = "DEGRADED"

_output_presence_probe_tick ==
    /\ glib = "idle"
    /\ target \in Stable
    /\ ProbeMayRebuild
    /\ target \in present
    /\ ~backoff
    /\ linked # NoBin => faults < MaxFaults
    /\ faults' = IF linked # NoBin THEN faults + 1 ELSE faults
    /\ backoff' = TRUE
    /\ _output_dispatch_rebuild
    /\ UNCHANGED <<retarget_requested, glib>>

BackoffExpires ==
    /\ backoff
    /\ backoff' = FALSE
    /\ UNCHANGED <<sc_vars, target, current, pending, pending_validation_epoch, epoch,
                   retarget_requested, last_observed, dispatched, gst_vars, glib, task,
                   env_vars>>
-----------------------------------------------------------------------------
\* Mutant: a retarget does not count as an invalidation.
Invalidated_Mutant == epoch

(***************************************************************************)
(* _apply_audio_output_device of the Studio Monitor for a changed identity *)
(* or raw path that resolves to d (module OutputReload has what precedes   *)
(* it).  The coordinator's state is read three times without its lock.     *)
(***************************************************************************)
Invalidated == epoch + 1

Retarget(d) ==
    /\ glib = "idle" /\ faults < MaxFaults
    /\ target' = d
    /\ epoch' = Invalidated
    /\ retarget_requested' = TRUE
    /\ backoff' = FALSE
    /\ faults' = faults + 1
    /\ glib' = "retarget_close"
    /\ UNCHANGED <<sc_vars, current, pending, pending_validation_epoch, last_observed,
                   dispatched, gst_vars, task, present, dead, lost_seen>>

RetargetCurrent ==
    /\ glib = "retarget_1"
    /\ IF current # NoBin /\ state = "OK"
       THEN SC!mark_degraded /\ glib' = "quiesce"
       ELSE UNCHANGED sc_vars /\ glib' = "retarget_2"
    /\ UNCHANGED <<slot_vars, gst_vars, task, env_vars>>

RetargetMark ==
    /\ glib = "retarget_2"
    /\ IF state = "OK" THEN SC!mark_degraded ELSE UNCHANGED sc_vars
    /\ glib' = "retarget_3"
    /\ UNCHANGED <<slot_vars, gst_vars, task, env_vars>>

RetargetRebuild ==
    /\ glib = "retarget_3"
    /\ glib' = "idle"
    /\ UNCHANGED backoff
    /\ IF state = "DEGRADED" /\ pending = NoBin
       THEN retarget_requested' = FALSE /\ _output_dispatch_rebuild /\ UNCHANGED faults
       ELSE UNCHANGED <<sc_vars, target, current, pending, pending_validation_epoch, epoch,
                        retarget_requested, last_observed, dispatched, gst_vars, task,
                        env_vars>>
-----------------------------------------------------------------------------
(***************************************************************************)
(* The rebuild worker.  Each step reads or writes one thing the GLib thread*)
(* shares: the valve, the epoch.  A failed wait is spurious, and counted,  *)
(* unless the device is gone or no buffer can reach the sink.              *)
(***************************************************************************)
CanPlay(b) == b \notin dead /\ device_of[b] \in present

\* sync_state_with_parent() and the wait for a stable PLAYING.
WorkerSync(o) ==
    /\ At(o, "sync")
    /\ \/ /\ CanPlay(task[o].bin)
          /\ Moves(o, "open")
          /\ UNCHANGED <<dead, faults>>
       \/ /\ ~CanPlay(task[o].bin)
          /\ Moves(o, "failed")
          /\ dead' = dead \cup {task[o].bin}
          /\ UNCHANGED faults
       \/ /\ CanPlay(task[o].bin) /\ faults < MaxFaults
          /\ Moves(o, "failed")
          /\ faults' = faults + 1
          /\ UNCHANGED dead
    /\ UNCHANGED <<sc_vars, slot_vars, gst_vars, glib, present, lost_seen>>

WorkerOpens(o) ==
    /\ At(o, "open")
    /\ valve_open' = TRUE
    /\ Moves(o, "verify")
    /\ UNCHANGED <<sc_vars, slot_vars, linked, in_pipeline, device_of, glib, env_vars>>

\* The rendered count rises, or a new loss is seen, or the deadline passes.
WorkerVerifies(o) ==
    LET b == task[o].bin
        renders == CanPlay(b) /\ valve_open /\ linked = b
    IN
    /\ At(o, "verify")
    /\ \/ renders /\ Moves(o, "gate") /\ UNCHANGED faults
       \/ /\ ~renders \/ epoch # task[o].epoch
          /\ Moves(o, "close")
          /\ UNCHANGED faults
       \/ /\ renders /\ faults < MaxFaults
          /\ Moves(o, "close")
          /\ faults' = faults + 1
    /\ UNCHANGED <<sc_vars, slot_vars, gst_vars, glib, present, dead, lost_seen>>

\* The epoch check right before success.
WorkerGate(o) ==
    /\ At(o, "gate")
    /\ Moves(o, IF epoch = task[o].epoch THEN "succeeded" ELSE "close")
    /\ UNCHANGED <<sc_vars, slot_vars, gst_vars, glib, env_vars>>

WorkerCloses(o) ==
    /\ At(o, "close")
    /\ valve_open' = FALSE
    /\ Moves(o, "failed")
    /\ UNCHANGED <<sc_vars, slot_vars, linked, in_pipeline, device_of, glib, env_vars>>

(***************************************************************************)
(* The worker returns to the coordinator's runner(): a NULL has succeeded  *)
(* unless there was no bin to set to NULL.                                 *)
(***************************************************************************)
WorkerReturns(o) ==
    /\ \/ At(o, "succeeded") /\ SC!WorkerReturns(o, TRUE)
       \/ At(o, "failed") /\ SC!WorkerReturns(o, FALSE)
       \/ At(o, "null") /\ SC!WorkerReturns(o, task[o].bin # NoBin)
    /\ task' = [x \in DOMAIN rec' |-> task[x]]
    /\ UNCHANGED <<slot_vars, gst_vars, glib, env_vars>>

WorkerResolved(o) ==
    /\ SC!_on_worker_resolved(o)
    /\ task' = [x \in DOMAIN rec' |-> task[x]]
    /\ UNCHANGED <<slot_vars, gst_vars, glib, env_vars>>
-----------------------------------------------------------------------------
Unplug(d) ==
    /\ d \in present /\ faults < MaxFaults
    /\ present' = present \ {d}
    /\ dead' = dead \cup {b \in Bins : device_of[b] = d}
    /\ faults' = faults + 1
    /\ UNCHANGED <<sc_vars, slot_vars, gst_vars, glib, task, lost_seen>>

Plug(d) ==
    /\ d \notin present
    /\ present' = present \cup {d}
    /\ UNCHANGED <<sc_vars, slot_vars, gst_vars, glib, task, dead, lost_seen, faults>>

Callback ==
    \/ CloseValve("error_close", "error_mark")
    \/ OnOutputErrorMark
    \/ Quiesce
    \/ Snapshot
    \/ CloseValve("stale_close", "stale_mark")
    \/ HandlerMark
    \/ HandlerDiscard
    \/ HandlerRebuild
    \/ HandlerReturns
    \/ CloseValve("retarget_close", "retarget_1")
    \/ RetargetCurrent
    \/ RetargetMark
    \/ RetargetRebuild

Worker(o) ==
    \/ WorkerSync(o)
    \/ WorkerOpens(o)
    \/ WorkerVerifies(o)
    \/ WorkerGate(o)
    \/ WorkerCloses(o)
    \/ WorkerReturns(o)
    \/ WorkerResolved(o)

Next ==
    \/ \E b \in {current, pending} \ {NoBin} : OnOutputError(b)
    \/ RecoveryTick
    \/ QuietTick
    \/ _output_presence_probe_tick
    \/ \E d \in Devices : Retarget(d)
    \/ Callback
    \/ BackoffExpires
    \/ \E o \in DOMAIN rec : Worker(o)
    \/ \E d \in Devices : Unplug(d) \/ Plug(d)

(***************************************************************************)
(* The GLib main loop runs its timers and finishes its callbacks; a dead   *)
(* generation that is playing posts at least one error; backoff is bounded;*)
(* a filed result is applied.  Workers may hang.                           *)
(***************************************************************************)
Fairness ==
    /\ WF_vars(Callback)
    /\ WF_vars(RecoveryTick)
    /\ WF_vars(_output_presence_probe_tick)
    /\ WF_vars(BackoffExpires)
    /\ WF_vars(current # NoBin /\ OnOutputError(current))
    /\ WF_vars(\E o \in DOMAIN rec : WorkerResolved(o))

Spec == Init /\ [][Next]_vars /\ Fairness
-----------------------------------------------------------------------------
(***************************************************************************)
(* A settled slot really plays: its generation is linked behind an open    *)
(* valve, belongs to the device now configured, and no device-loss error of*)
(* it has been handled, neither while it was verified nor in the window    *)
(* between the worker's success and the promotion.                         *)
(***************************************************************************)
SettledPlays ==
    Settled => /\ current # NoBin /\ pending = NoBin
               /\ valve_open /\ linked = current
               /\ current \notin lost_seen

(***************************************************************************)
(* "An identity edit racing recovery can never promote a generation built  *)
(* for the previous identity" (_apply_audio_output_device).                *)
(***************************************************************************)
SettledOnTarget == Settled => device_of[current] = target

(***************************************************************************)
(* No completion is lost between two polls: between callbacks a candidate  *)
(* whose verification has ended, and an OK that only means "torn down",    *)
(* still differ from what the tick has observed, however fast the workers  *)
(* of nested operations were.                                              *)
(***************************************************************************)
CompletionNeverLost ==
    glib = "idle" =>
        /\ pending # NoBin /\ state # "RECOVERING" => last_observed # state
        /\ state = "OK" /\ current = NoBin => last_observed # "OK"

(***************************************************************************)
(* Audio reaches hardware only where recovery vouches for it: a generation *)
(* behind an open valve is the healthy current one, or the candidate that a*)
(* worker is verifying or has just verified.                               *)
(***************************************************************************)
FlowIsVouchedFor ==
    valve_open /\ linked # NoBin =>
        \/ linked = current
        \/ /\ linked = pending
           /\ \/ \E o \in DOMAIN task :
                     /\ task[o].kind = "rebuild" /\ task[o].bin = linked
                     /\ task[o].at \in {"verify", "gate", "close", "succeeded"}
              \/ state = "OK"

(***************************************************************************)
(* Every generation in the pipeline is the slot's current or its candidate;*)
(* a failed attempt is discarded "before the next presence-probe-triggered *)
(* attempt ... tries a genuinely fresh generation".                        *)
(***************************************************************************)
NoOrphanGeneration == glib = "idle" => in_pipeline \subseteq {current, pending}

(***************************************************************************)
(* Once the configured device, known by a stable identity, stays plugged   *)
(* in, the output comes back for good, unless a worker had to be abandoned.*)
(***************************************************************************)
OutputComesBack ==
    <>[](target \in Stable /\ target \in present)
        => <>[]((Settled /\ current # NoBin /\ linked = current) \/ state = "RESTART_REQUIRED")
=============================================================================
