------------------------------ MODULE MicRecovery ------------------------------
(***************************************************************************)
(* Hotplug recovery of the studio microphone (library/services/engine.py,  *)
(* the _mic_* methods), on top of its SlotCoordinator.                     *)
(*                                                                         *)
(* Inside a permanent bin, a replaceable hardware generation feeds a       *)
(* quarantine queue, and an input-selector takes either the queue or       *)
(* silence.  Unlike an output (module OutputRecovery) the slot has no valve*)
(* and no device-loss epoch; a candidate is judged by a stable PLAYING and *)
(* by the age of the last buffer that left the queue.  The GLib thread's   *)
(* callbacks are cut into steps at the coordinator's critical sections,    *)
(* where the workers may interfere.                                        *)
(***************************************************************************)
EXTENDS RecoverySlot

\* MaxFaults bounds unplugs, spurious failures, repeated errors, PTT presses and
\* probes that overtake the recovery tick.
VARIABLES
    \* the engine
    hw,            \* _mic_hw_bin; 0 is None
    mic_ok,        \* mic_ok, and the selector's active pad: the device or silence
    mic_live,      \* mic_live, and the push-to-talk volume
    \* GStreamer and GLib
    in_bin,        \* generations that are children of _mic_bin
    probe_armed,   \* the presence probe's timer is still scheduled
    \* environment
    built,         \* generations built so far
    fresh          \* a buffer left the queue within the last 250 ms

mic_slot_vars == <<hw, pending, last_observed, dispatched, backoff, mic_ok, mic_live>>
mic_gst_vars == <<linked, in_bin, probe_armed, built>>
mic_env_vars == <<present, dead, lost_seen, fresh, faults>>
mic_vars == <<sc_vars, mic_slot_vars, mic_gst_vars, glib, task, mic_env_vars>>

MicBins == 1 .. built

(***************************************************************************)
(* _build_mic_chain: cold start with a first generation.                   *)
(***************************************************************************)
MicInit ==
    /\ SC!Init
    /\ hw = 1 /\ pending = NoBin
    /\ last_observed = "OK" /\ dispatched = FALSE /\ backoff = FALSE
    /\ mic_ok = TRUE /\ mic_live = FALSE
    /\ linked = 1 /\ in_bin = {1} /\ probe_armed = TRUE /\ built = 1
    /\ glib = "idle"
    /\ task = << >>
    /\ present = TRUE /\ dead = {} /\ lost_seen = {} /\ fresh = TRUE
    /\ faults = 0

\* A step that uses up one of the MaxFaults, if it is one.
Counts(is_fault) ==
    /\ is_fault => faults < MaxFaults
    /\ faults' = IF is_fault THEN faults + 1 ELSE faults
-----------------------------------------------------------------------------
\* Mutant: the observer is not told of the operation.
_mic_request_recovery_Mutant(t) ==
    /\ SC!request_recovery
    /\ dispatched' = (SC!RequestResult = "dispatched")
    /\ task' = [o \in DOMAIN rec' |->
                   IF SC!RequestResult = "dispatched" /\ o = op' THEN t ELSE task[o]]
    /\ UNCHANGED last_observed

(***************************************************************************)
(* _mic_request_recovery(worker): t is the worker.                         *)
(***************************************************************************)
_mic_request_recovery(t) ==
    /\ SC!request_recovery
    /\ IF SC!RequestResult = "dispatched"
       THEN /\ last_observed' = "RECOVERING"
            /\ dispatched' = TRUE
            /\ task' = [o \in DOMAIN rec' |-> IF o = op' THEN t ELSE task[o]]
       ELSE UNCHANGED <<last_observed, dispatched, task>>

MicNullTask(b) == [bin |-> b, at |-> "null"]
MicRebuildTask(b) == [bin |-> b, at |-> "sync"]

(***************************************************************************)
(* Unlink from the quarantine queue and Bin.remove.                        *)
(***************************************************************************)
MicDetach(b) ==
    /\ linked' = IF linked = b THEN NoBin ELSE linked
    /\ in_bin' = in_bin \ {b}

(***************************************************************************)
(* _mic_quiesce_current_generation.  Without a current generation nothing  *)
(* is detached and nothing is requested.                                   *)
(***************************************************************************)
_mic_quiesce_current_generation ==
    /\ hw' = NoBin
    /\ IF hw = NoBin
       THEN UNCHANGED <<sc_vars, last_observed, dispatched, task, linked, in_bin>>
       ELSE MicDetach(hw) /\ _mic_request_recovery(MicNullTask(hw))
    /\ UNCHANGED <<pending, backoff, mic_ok, mic_live, probe_armed, built, mic_env_vars>>

(***************************************************************************)
(* _mic_dispatch_rebuild.  Pad.link raises when the queue is still linked  *)
(* (external: the bindings' Gst.LinkError); the exception leaves the timer *)
(* callback, which _glib_safe does not guard here, and GLib unschedules it.*)
(***************************************************************************)
_mic_dispatch_rebuild ==
    LET b == built + 1 IN
    /\ b <= MaxBins
    /\ built' = b
    /\ in_bin' = in_bin \cup {b}
    /\ IF linked # NoBin
       THEN /\ probe_armed' = FALSE
            /\ UNCHANGED <<sc_vars, linked, pending, last_observed, dispatched, task, fresh>>
       ELSE /\ linked' = b
            /\ pending' = b
            /\ fresh' = FALSE
            /\ _mic_request_recovery(MicRebuildTask(b))
            /\ UNCHANGED probe_armed
    /\ UNCHANGED <<hw, mic_ok, mic_live, present, dead, lost_seen>>

(***************************************************************************)
(* _mic_discard_pending_hw_bin(abandoned).                                 *)
(***************************************************************************)
_mic_discard_pending_hw_bin(abandoned) ==
    /\ MicDetach(pending)
    /\ pending' = NoBin
    /\ IF abandoned
       THEN UNCHANGED <<sc_vars, last_observed, dispatched, task>>
       ELSE _mic_request_recovery(MicNullTask(pending))
    /\ UNCHANGED <<hw, backoff, mic_ok, mic_live, probe_armed, built, mic_env_vars>>
-----------------------------------------------------------------------------
(***************************************************************************)
(* _on_mic_error for a device_lost error that the bus delivers from        *)
(* generation b, any child of _mic_bin.  The microphone is switched off and*)
(* silence selected every time; only a first failure is torn down.         *)
(***************************************************************************)
OnMicError(b) ==
    /\ glib = "idle"
    /\ b \in dead \cap in_bin
    /\ Counts(b \in lost_seen)
    /\ lost_seen' = lost_seen \cup {b}
    /\ mic_ok' = FALSE /\ mic_live' = FALSE
    /\ SC!mark_degraded
    /\ IF state = "OK"
       THEN glib' = "quiesce" /\ backoff' = FALSE
       ELSE glib' = "idle" /\ UNCHANGED backoff
    /\ UNCHANGED <<hw, pending, last_observed, dispatched, mic_gst_vars, task, present, dead,
                   fresh>>

MicQuiesce ==
    /\ glib = "quiesce"
    /\ _mic_quiesce_current_generation
    /\ glib' = "idle"

(***************************************************************************)
(* _set_mic_ptt, on the operator's mic_ptt command: it does not ask whether*)
(* there is a microphone.                                                  *)
(***************************************************************************)
SetMicPtt(active) ==
    /\ glib = "idle" /\ mic_live # active
    /\ Counts(active)
    /\ mic_live' = active
    /\ UNCHANGED <<sc_vars, hw, pending, last_observed, dispatched, backoff, mic_ok,
                   mic_gst_vars, glib, task, present, dead, lost_seen, fresh>>
-----------------------------------------------------------------------------
(***************************************************************************)
(* _mic_recovery_tick: tick(), snapshot(), and the branch of               *)
(* _mic_handle_slot_transition that the snapshot selects.                  *)
(***************************************************************************)
MicRecoveryTick ==
    /\ glib = "idle"
    /\ \/ SC!tick
       \/ last_observed # state /\ UNCHANGED sc_vars
    /\ glib' = "snapshot"
    /\ UNCHANGED <<mic_slot_vars, mic_gst_vars, task, mic_env_vars>>

MicQuietTick ==
    /\ glib = "idle" /\ last_observed = state
    /\ UNCHANGED mic_vars

MicHandlerEntry ==
    CASE state = "OK" -> IF pending # NoBin THEN "handled" ELSE "redegrade"
      [] state = "DEGRADED" /\ pending # NoBin -> "discard"
      [] state = "RESTART_REQUIRED" /\ pending # NoBin -> "discard_abandoned"
      [] OTHER -> "handled"

(***************************************************************************)
(* OK with a candidate: it becomes the microphone.  PTT is left alone.     *)
(***************************************************************************)
MicPromote ==
    /\ hw' = pending
    /\ pending' = NoBin
    /\ mic_ok' = TRUE
    /\ backoff' = FALSE

MicSnapshot ==
    /\ glib = "snapshot"
    /\ dispatched' = FALSE
    /\ glib' = IF state = last_observed THEN "idle" ELSE MicHandlerEntry
    /\ IF state # last_observed /\ state = "OK" /\ pending # NoBin
       THEN MicPromote
       ELSE UNCHANGED <<hw, pending, mic_ok, backoff>>
    /\ UNCHANGED <<sc_vars, last_observed, mic_live, mic_gst_vars, task, mic_env_vars>>

\* Mutant: the OK of a finished teardown is left as it is.
MicHandlerMark_Mutant ==
    /\ glib = "redegrade"
    /\ glib' = "handled"
    /\ UNCHANGED <<sc_vars, mic_slot_vars, mic_gst_vars, task, mic_env_vars>>

MicHandlerMark ==
    /\ glib = "redegrade"
    /\ SC!mark_degraded
    /\ glib' = "handled"
    /\ UNCHANGED <<mic_slot_vars, mic_gst_vars, task, mic_env_vars>>

MicHandlerDiscard ==
    /\ glib \in {"discard", "discard_abandoned"}
    /\ _mic_discard_pending_hw_bin(glib = "discard_abandoned")
    /\ glib' = "handled"

\* Mutant: the observer follows the coordinator even if the handler has
\* dispatched an operation of its own.
MicHandlerReturns_Mutant ==
    /\ glib = "handled"
    /\ last_observed' = state
    /\ glib' = "idle"
    /\ UNCHANGED <<sc_vars, hw, pending, dispatched, backoff, mic_ok, mic_live, mic_gst_vars, task,
                   mic_env_vars>>

MicHandlerReturns ==
    /\ glib = "handled"
    /\ last_observed' = IF dispatched THEN last_observed ELSE state
    /\ glib' = "idle"
    /\ UNCHANGED <<sc_vars, hw, pending, dispatched, backoff, mic_ok, mic_live, mic_gst_vars, task,
                   mic_env_vars>>

(***************************************************************************)
(* _mic_presence_probe_tick with a stable identity.  It looks at the state *)
(* alone, not at a failed candidate the recovery tick has yet to discard.  *)
(***************************************************************************)
_mic_presence_probe_tick ==
    /\ glib = "idle" /\ probe_armed
    /\ state = "DEGRADED" /\ present /\ ~backoff
    /\ Counts(linked # NoBin)
    /\ backoff' = TRUE
    /\ _mic_dispatch_rebuild
    /\ UNCHANGED glib

MicBackoffExpires ==
    /\ backoff
    /\ backoff' = FALSE
    /\ UNCHANGED <<sc_vars, hw, pending, last_observed, dispatched, mic_ok, mic_live, mic_gst_vars,
                   glib, task, mic_env_vars>>
-----------------------------------------------------------------------------
(***************************************************************************)
(* The rebuild worker: sync_state_with_parent() opens the device, and      *)
(* PLAYING has to last half a second.  A generation whose device goes away *)
(* after that stays PLAYING.                                               *)
(***************************************************************************)
MicWorkerSync(o) ==
    LET b == task[o].bin IN
    /\ At(o, "sync")
    /\ \/ /\ present /\ Moves(o, "age")
          /\ fresh' = (fresh \/ linked = b)
          /\ UNCHANGED <<dead, faults>>
       \/ /\ ~present /\ Moves(o, "failed")
          /\ dead' = dead \cup {b}
          /\ UNCHANGED <<fresh, faults>>
       \/ /\ Counts(TRUE) /\ Moves(o, "failed")
          /\ UNCHANGED <<fresh, dead>>
    /\ UNCHANGED <<sc_vars, mic_slot_vars, mic_gst_vars, glib, present, lost_seen>>

(***************************************************************************)
(* "age is not None and age <= 250"                                        *)
(***************************************************************************)
MicWorkerAge(o) ==
    /\ At(o, "age")
    /\ Moves(o, IF fresh THEN "succeeded" ELSE "failed")
    /\ UNCHANGED <<sc_vars, mic_slot_vars, mic_gst_vars, glib, mic_env_vars>>

MicWorkerReturns(o) ==
    /\ \/ At(o, "succeeded") /\ SC!WorkerReturns(o, TRUE)
       \/ At(o, "failed") /\ SC!WorkerReturns(o, FALSE)
       \/ At(o, "null") /\ SC!WorkerReturns(o, TRUE)
    /\ task' = [x \in DOMAIN rec' |-> task[x]]
    /\ UNCHANGED <<mic_slot_vars, mic_gst_vars, glib, mic_env_vars>>

MicWorkerResolved(o) ==
    /\ SC!_on_worker_resolved(o)
    /\ task' = [x \in DOMAIN rec' |-> task[x]]
    /\ UNCHANGED <<mic_slot_vars, mic_gst_vars, glib, mic_env_vars>>
-----------------------------------------------------------------------------
MicUnplug ==
    /\ present /\ Counts(TRUE)
    /\ present' = FALSE
    /\ dead' = dead \cup {b \in MicBins : \A o \in DOMAIN task : task[o] # MicRebuildTask(b)}
    /\ UNCHANGED <<sc_vars, mic_slot_vars, mic_gst_vars, glib, task, lost_seen, fresh>>

MicPlug ==
    /\ ~present
    /\ present' = TRUE
    /\ UNCHANGED <<sc_vars, mic_slot_vars, mic_gst_vars, glib, task, dead, lost_seen, fresh,
                   faults>>

\* A quarter of a second without a buffer: the linked generation is dead, or
\* there is none.
BuffersStop ==
    /\ fresh /\ (linked = NoBin \/ linked \in dead)
    /\ fresh' = FALSE
    /\ UNCHANGED <<sc_vars, mic_slot_vars, mic_gst_vars, glib, task, present, dead, lost_seen,
                   faults>>

MicCallback ==
    \/ MicQuiesce
    \/ MicSnapshot
    \/ MicHandlerMark
    \/ MicHandlerDiscard
    \/ MicHandlerReturns

MicWorker(o) ==
    \/ MicWorkerSync(o)
    \/ MicWorkerAge(o)
    \/ MicWorkerReturns(o)
    \/ MicWorkerResolved(o)

MicNext ==
    \/ \E b \in in_bin : OnMicError(b)
    \/ \E active \in BOOLEAN : SetMicPtt(active)
    \/ MicRecoveryTick
    \/ MicQuietTick
    \/ _mic_presence_probe_tick
    \/ MicCallback
    \/ MicBackoffExpires
    \/ \E o \in DOMAIN rec : MicWorker(o)
    \/ MicUnplug \/ MicPlug \/ BuffersStop

(***************************************************************************)
(* As for the outputs: timers fire while they are scheduled, callbacks run *)
(* to their end, backoff is bounded, a dead generation in use posts an     *)
(* error, a filed result is applied.  Workers may hang.                    *)
(***************************************************************************)
MicFairness ==
    /\ WF_mic_vars(MicCallback)
    /\ WF_mic_vars(MicRecoveryTick)
    /\ WF_mic_vars(_mic_presence_probe_tick)
    /\ WF_mic_vars(MicBackoffExpires)
    /\ WF_mic_vars(hw \notin lost_seen /\ hw \in in_bin /\ OnMicError(hw))
    /\ WF_mic_vars(\E o \in DOMAIN rec : MicWorkerResolved(o))

MicSpec == MicInit /\ [][MicNext]_mic_vars /\ MicFairness
-----------------------------------------------------------------------------
(***************************************************************************)
(* What the engine reports is what the slot is: between callbacks mic_ok   *)
(* (and the device pad of the selector) holds exactly while the slot is    *)
(* healthy and noted as such, and then the microphone is the linked        *)
(* generation, alone.                                                      *)
(***************************************************************************)
MicOkIsTrue ==
    /\ glib = "idle" => (mic_ok <=> Settled)
    /\ Settled => hw # NoBin /\ linked = hw /\ pending = NoBin

(***************************************************************************)
(* No completion is lost between two polls of _mic_recovery_tick, however  *)
(* fast the worker of a nested discard was.                                *)
(***************************************************************************)
MicCompletionNeverLost ==
    glib = "idle" =>
        /\ pending # NoBin /\ state # "RECOVERING" => last_observed # state
        /\ state = "OK" /\ hw = NoBin => last_observed # "OK"

(***************************************************************************)
(* Once the microphone stays plugged in, mic_ok comes back for good, unless*)
(* a worker was given up or the probe's timer is gone.                     *)
(***************************************************************************)
MicComesBackWhileProbed ==
    <>[]present => <>[](mic_ok \/ state = "RESTART_REQUIRED" \/ ~probe_armed)

=============================================================================
