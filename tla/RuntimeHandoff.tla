---------------------------- MODULE RuntimeHandoff ----------------------------
(***************************************************************************)
(* The handoff of one update job from the installed updater runtime to the *)
(* generation that the update needs: the bootstrap supervisor              *)
(* (deploy/updater_bootstrap/isadoraair_updater_bootstrap) with its poll   *)
(* loop and its IPC thread, the worker processes that it launches          *)
(* (deploy/updater_runtime), and the two durable records, the runtime state*)
(* and the job.                                                            *)
(*                                                                         *)
(* The poll loop's rollback does not take the IPC thread's lock, so in both*)
(* threads reading the runtime state and writing it back are steps of their*)
(* own, and either may overwrite what the other has written meanwhile.     *)
(* Requests to the supervisor are queued in its socket and outlive the     *)
(* process that sent them.  Clocks are left out: a bound may have passed at*)
(* any time.                                                               *)
(***************************************************************************)
EXTENDS Integers, Sequences

CONSTANTS
    MaxAttempts,  \* max_consecutive_restart_attempts
    MaxCrashes,   \* bound: deaths of a worker process or of the supervisor
    MaxFaults     \* bound: failing steps, lost answers, bounds that pass too early

ASSUME HandoffAssumption == MaxAttempts \in Nat \ {0} /\ {MaxCrashes, MaxFaults} \subseteq Nat

VARIABLES
    job,      \* the durable job record
    rt,       \* RuntimeState: the active generation, the transaction's phase
    proc,     \* self.active_worker and self.candidate_worker
    sup,      \* the supervisor's poll loop and its in-memory state
    calls,    \* requests to the IPC thread, the one that it handles first
    ipc,      \* how far it is with that one, the state to be written, the answer
    crashes, faults

vars == <<job, rt, proc, sup, calls, ipc, crashes, faults>>

Old == 1        \* the installed generation
Target == 2     \* the generation that the job needs
Tracked == {"active", "candidate"}
Phases == {"none", "candidate_staged", "activation_requested", "candidate_starting",
           "candidate_ready", "rollback_requested"}
PhasesWithALiveCandidate == {"candidate_starting", "candidate_ready"}

NoProcess == [life |-> "none", gen |-> 0, candidate |-> FALSE, main |-> "recover", at |-> "none"]
Process(g, is_candidate) ==
    [NoProcess EXCEPT !.life = "alive", !.gen = g, !.candidate = is_candidate]
Alive(w) == proc[w].life = "alive"
NoCall == [at |-> "idle", state |-> [gen |-> Old, phase |-> "none"], ok |-> FALSE]

(***************************************************************************)
(* A station whose supervisor has started its active worker, which finds   *)
(* the accepted job.  The target generation may be installed already.      *)
(***************************************************************************)
Init ==
    /\ job = [state |-> "running", milestones |-> {}]
    /\ rt \in [gen : {Old, Target}, phase : {"none"}]
    /\ proc = [w \in Tracked |-> IF w = "active" THEN Process(rt.gen, FALSE) ELSE NoProcess]
    /\ sup = [at |-> "loop", snapshot |-> rt, deadline |-> FALSE, attempts |-> 1,
              lifecycle |-> "running"]
    /\ calls = << >>
    /\ ipc = NoCall
    /\ crashes = 0 /\ faults = 0

Counts(is_fault) ==
    /\ is_fault => faults < MaxFaults
    /\ faults' = IF is_fault THEN faults + 1 ELSE faults

Reached(m) == m \in job.milestones
Milestone(m) == job' = [job EXCEPT !.milestones = @ \cup {m}]
-----------------------------------------------------------------------------
(***************************************************************************)
(* The worker process w: its main thread, and its thread for the job.      *)
(***************************************************************************)
Runs(w, place) == Alive(w) /\ proc[w].at = place
Goes(w, place) == proc' = [proc EXCEPT ![w].at = place]
Exits(w) == proc' = [proc EXCEPT ![w].life = "dead", ![w].at = "none"]
Fails(w) == job' = [job EXCEPT !.state = "failed"] /\ Goes(w, "none")

(***************************************************************************)
(* serve_forever: recover_jobs starts the job's thread before readiness is *)
(* reported.  With a single job both of its rules select that job.         *)
(***************************************************************************)
recover_jobs(w) ==
    /\ Alive(w) /\ proc[w].main = "recover"
    /\ proc' = [proc EXCEPT
          ![w].main = IF proc[w].candidate THEN "report" ELSE "serving",
          ![w].at = IF job.state = "running" THEN "execute" ELSE "none"]
    /\ UNCHANGED <<job, rt, sup, calls, ipc, crashes, faults>>

report_candidate_readiness(w) ==
    /\ Alive(w) /\ proc[w].main = "report"
    /\ calls' = Append(calls, [action |-> "REPORT_READINESS", from |-> w])
    /\ proc' = [proc EXCEPT ![w].main = "reporting"]
    /\ UNCHANGED <<job, rt, sup, ipc, crashes, faults>>

(***************************************************************************)
(* _is_authorized_candidate_for: the identity given at launch.             *)
(***************************************************************************)
IsAuthorizedCandidate(w) == proc[w].candidate /\ proc[w].gen = Target

(***************************************************************************)
(* execute(), after the plan was derived: the three-way branch.  A process *)
(* that is not the candidate of a job that has yielded returns, and the    *)
(* daemon stops (_shutdown_if_old_worker_just_yielded).                    *)
(***************************************************************************)
execute(w) ==
    /\ Runs(w, "execute")
    /\ \/ Counts(TRUE) /\ Fails(w)
       \/ /\ Counts(FALSE) /\ UNCHANGED job
          /\ IF Reached("runtime_activation_accepted") \/ Reached("runtime_already_authoritative")
             THEN Goes(w, "gate")
             ELSE IF ~Reached("runtime_activation_requested") THEN Goes(w, "handoff")
             ELSE IF IsAuthorizedCandidate(w) THEN Goes(w, "accept")
             ELSE Exits(w)
    /\ UNCHANGED <<rt, sup, calls, ipc, crashes>>

(***************************************************************************)
(* A resumed job passes the gate; an already authoritative runtime is      *)
(* proved again.  Reading the runtime state queues behind other calls.     *)
(***************************************************************************)
Gate(w) ==
    /\ Runs(w, "gate") /\ calls = << >>
    /\ IF Reached("runtime_already_authoritative") /\ (rt.gen # Target \/ rt.phase # "none")
       THEN Fails(w)
       ELSE Goes(w, "mutate") /\ UNCHANGED job
    /\ UNCHANGED <<rt, sup, calls, ipc, crashes, faults>>

(***************************************************************************)
(* _execute_runtime_handoff: the first reading of the runtime state.       *)
(***************************************************************************)
StagedMilestones == {"runtime_candidate_staged", "runtime_candidate_verified",
                     "runtime_activation_requested"}

_execute_runtime_handoff(w) ==
    /\ Runs(w, "handoff") /\ calls = << >>
    /\ IF rt.phase # "none" \/ (rt.gen = Target /\ StagedMilestones \cap job.milestones # {})
       THEN Fails(w)
       ELSE IF rt.gen = Target
       THEN Milestone("runtime_already_authoritative") /\ Goes(w, "mutate")
       ELSE /\ UNCHANGED job
            /\ Goes(w, IF ~Reached("runtime_candidate_staged") THEN "stage"
                       ELSE IF ~Reached("runtime_candidate_verified") THEN "verify"
                       ELSE "request")
    /\ UNCHANGED <<rt, sup, calls, ipc, crashes, faults>>

(***************************************************************************)
(* Stage and verify the candidate, publish it to the free slot after a     *)
(* second reading of the runtime state, and record it.                     *)
(***************************************************************************)
StageCandidate(w) ==
    /\ Runs(w, "stage") /\ calls = << >>
    /\ \/ Counts(TRUE) /\ Fails(w)
       \/ /\ Counts(FALSE)
          /\ IF rt # [gen |-> Old, phase |-> "none"]
             THEN Fails(w)
             ELSE Milestone("runtime_candidate_staged") /\ Goes(w, "verify")
    /\ UNCHANGED <<rt, sup, calls, ipc, crashes>>

VerifyCandidate(w) ==
    /\ Runs(w, "verify")
    /\ \/ Counts(TRUE) /\ Fails(w)
       \/ Counts(FALSE) /\ Milestone("runtime_candidate_verified") /\ Goes(w, "request")
    /\ UNCHANGED <<rt, sup, calls, ipc, crashes>>

RequestActivation(w) ==
    /\ Runs(w, "request")
    /\ calls' = Append(calls, [action |-> "REQUEST_ACTIVATION", from |-> w])
    /\ Goes(w, "requesting")
    /\ UNCHANGED <<job, rt, sup, ipc, crashes, faults>>

(***************************************************************************)
(* The safe-yield milestone; then the store is closed and the daemon stops.*)
(***************************************************************************)
RecordRequest(w) ==
    /\ Runs(w, "requested")
    /\ Milestone("runtime_activation_requested")
    /\ Goes(w, "yield")
    /\ UNCHANGED <<rt, sup, calls, ipc, crashes, faults>>

Yield(w) ==
    /\ Runs(w, "yield")
    /\ Exits(w)
    /\ UNCHANGED <<job, rt, sup, calls, ipc, crashes, faults>>

\* Mutant: the acceptance is not made durable.
Accept_Mutant(w) ==
    /\ Runs(w, "accept")
    /\ Goes(w, "confirm")
    /\ UNCHANGED <<job, rt, sup, calls, ipc, crashes, faults>>

(***************************************************************************)
(* _accept_runtime_as_candidate: durable first, the supervisor is told     *)
(* next, and what it answers changes nothing.                              *)
(***************************************************************************)
Accept(w) ==
    /\ Runs(w, "accept")
    /\ Milestone("runtime_activation_accepted")
    /\ Goes(w, "confirm")
    /\ UNCHANGED <<rt, sup, calls, ipc, crashes, faults>>

ConfirmAcceptance(w) ==
    /\ Runs(w, "confirm")
    /\ calls' = Append(calls, [action |-> "CONFIRM_RUNTIME_ACCEPTANCE", from |-> w])
    /\ Goes(w, "confirming")
    /\ UNCHANGED <<job, rt, sup, ipc, crashes, faults>>

(***************************************************************************)
(* The mutation pipeline, which ends the job one way or the other.         *)
(***************************************************************************)
Mutate(w) ==
    /\ Runs(w, "mutate")
    /\ \E s \in {"succeeded", "failed"} : job' = [job EXCEPT !.state = s]
    /\ Goes(w, "none")
    /\ UNCHANGED <<rt, sup, calls, ipc, crashes, faults>>

(***************************************************************************)
(* What process w does with the answer, or after its ten seconds without   *)
(* one.  A refused readiness report ends the process.                      *)
(***************************************************************************)
Hears(w, action, ok) ==
    CASE action = "REQUEST_ACTIVATION" /\ Runs(w, "requesting") ->
             IF ok THEN Goes(w, "requested") /\ UNCHANGED job ELSE Fails(w)
      [] action = "CONFIRM_RUNTIME_ACCEPTANCE" /\ Runs(w, "confirming") ->
             Goes(w, "mutate") /\ UNCHANGED job
      [] action = "REPORT_READINESS" /\ Alive(w) /\ proc[w].main = "reporting" ->
             /\ UNCHANGED job
             /\ IF ok THEN proc' = [proc EXCEPT ![w].main = "serving"] ELSE Exits(w)
      [] OTHER -> UNCHANGED <<job, proc>>

GivesUp(w) ==
    /\ Counts(TRUE)
    /\ \E c \in {calls[i] : i \in DOMAIN calls} :
          c.from = w /\ Hears(w, c.action, FALSE) /\ proc' # proc
    /\ UNCHANGED <<rt, sup, calls, ipc, crashes>>

WorkerStep(w) ==
    \/ recover_jobs(w)
    \/ report_candidate_readiness(w)
    \/ execute(w)
    \/ Gate(w)
    \/ _execute_runtime_handoff(w)
    \/ StageCandidate(w)
    \/ VerifyCandidate(w)
    \/ RequestActivation(w)
    \/ RecordRequest(w)
    \/ Yield(w)
    \/ Accept(w)
    \/ ConfirmAcceptance(w)
    \/ Mutate(w)
-----------------------------------------------------------------------------
(***************************************************************************)
(* IPCServer: one call at a time, under its lock.  The call stays at the   *)
(* head of the queue until Answer(ok) answers it.                          *)
(***************************************************************************)
Handles(action) == calls # << >> /\ Head(calls).action = action /\ ipc.at = "idle"
Answer(ok) ==
    /\ Hears(Head(calls).from, Head(calls).action, ok)
    /\ calls' = Tail(calls)
    /\ ipc' = NoCall
    /\ UNCHANGED <<sup, crashes>>

(***************************************************************************)
(* The new state is computed from the one just read; _persist writes it.   *)
(* A begun transaction is written before the candidate is verified.        *)
(***************************************************************************)
Computes(state, ok) ==
    /\ ipc' = [at |-> "persist", state |-> state, ok |-> ok]
    /\ UNCHANGED <<job, rt, proc, sup, calls, crashes>>

_persist ==
    /\ ipc.at = "persist" /\ rt' = ipc.state
    /\ IF ipc.state.phase = "candidate_staged"
       THEN ipc' = [ipc EXCEPT !.at = "verify"] /\ UNCHANGED <<job, proc, sup, calls, crashes>>
       ELSE Answer(ipc.ok)
    /\ UNCHANGED faults

(***************************************************************************)
(* The same job's repeated request is only a status query, and the active  *)
(* slot is no candidate.                                                   *)
(***************************************************************************)
_handle_request_activation ==
    /\ Handles("REQUEST_ACTIVATION")
    /\ IF rt = [gen |-> Old, phase |-> "none"]
       THEN Computes([rt EXCEPT !.phase = "candidate_staged"], TRUE)
       ELSE Answer(rt.phase # "none") /\ UNCHANGED rt
    /\ UNCHANGED faults

(***************************************************************************)
(* Verification may refuse the candidate and then leaves no transaction.   *)
(***************************************************************************)
verify_candidate_bundle ==
    /\ ipc.at = "verify"
    /\ \E ok \in BOOLEAN :
          /\ Counts(~ok)
          /\ Computes([rt EXCEPT !.phase = IF ok THEN "activation_requested" ELSE "none"], ok)

(***************************************************************************)
(* An incompatible candidate fails the transaction, one that is not ready  *)
(* yet changes nothing.                                                    *)
(***************************************************************************)
_handle_report_readiness ==
    /\ Handles("REPORT_READINESS")
    /\ \/ rt.phase # "candidate_starting" /\ UNCHANGED rt /\ Counts(FALSE) /\ Answer(FALSE)
       \/ /\ rt.phase = "candidate_starting"
          /\ \/ Computes([rt EXCEPT !.phase = "candidate_ready"], TRUE) /\ Counts(FALSE)
             \/ UNCHANGED rt /\ Counts(TRUE) /\ Answer(TRUE)
             \/ Computes([rt EXCEPT !.phase = "none"], FALSE) /\ Counts(TRUE)

_handle_confirm_runtime_acceptance ==
    /\ Handles("CONFIRM_RUNTIME_ACCEPTANCE")
    /\ IF rt.phase = "candidate_ready"
       THEN Computes([gen |-> Target, phase |-> "none"], TRUE)
       ELSE Answer(FALSE) /\ UNCHANGED rt
    /\ UNCHANGED faults

IPCStep ==
    \/ _handle_request_activation
    \/ verify_candidate_bundle
    \/ _handle_report_readiness
    \/ _handle_confirm_runtime_acceptance
    \/ _persist
-----------------------------------------------------------------------------
(***************************************************************************)
(* SupervisorDaemon.  require_can_launch: the previous exit is acknowledged*)
(* and the restart window has room.                                        *)
(***************************************************************************)
MayLaunch(s) == s.lifecycle = "none" /\ s.attempts < MaxAttempts

(***************************************************************************)
(* _restart_active_worker_if_needed, from processes p and loop state s;    *)
(* g is the active generation.                                             *)
(***************************************************************************)
WithActiveWorker(p, s, g) ==
    IF p["active"].life # "alive" /\ MayLaunch(s)
    THEN /\ proc' = [p EXCEPT !["active"] = Process(g, FALSE)]
         /\ sup' = [s EXCEPT !.attempts = @ + 1, !.lifecycle = "running"]
    ELSE proc' = p /\ sup' = s

(***************************************************************************)
(* _adopt_promoted_candidate_if_any: processes and loop state after it.    *)
(***************************************************************************)
Adopted ==
    IF proc["candidate"].life = "none" THEN <<proc, sup>>
    ELSE <<[active |-> proc["candidate"], candidate |-> NoProcess],
           [sup EXCEPT !.deadline = FALSE, !.attempts = 0, !.lifecycle = "running"]>>


(***************************************************************************)
(* _tick without a transaction: adopt, then _check_active_worker_liveness. *)
(***************************************************************************)
IdleTick ==
    LET p == Adopted[1]
        s == Adopted[2]
    IN
    /\ sup.at = "loop" /\ rt.phase = "none"
    /\ CASE p["active"].life = "alive" -> proc' = p /\ sup' = s
         [] p["active"].life = "none" -> WithActiveWorker(p, s, rt.gen)
         [] p["active"].life = "dead" ->
                WithActiveWorker([p EXCEPT !["active"] = NoProcess],
                                 [s EXCEPT !.lifecycle = "none"], rt.gen)
    /\ UNCHANGED <<job, rt, calls, ipc, crashes, faults>>

(***************************************************************************)
(* A bound may pass on a process that has work left: a counted fault.      *)
(***************************************************************************)
Busy(w) == Alive(w) /\ (proc[w].at # "none" \/ proc[w].main # "serving")

\* Mutant: the candidate is launched without waiting for the old worker.
HasYielded_Mutant(forced) == TRUE

(***************************************************************************)
(* _old_worker_has_yielded: gone, or terminated at its bound.              *)
(***************************************************************************)
HasYielded(forced) == forced \/ ~Alive("active")

(***************************************************************************)
(* _begin_candidate_launch: under the IPC thread's lock the phase is made  *)
(* durable before the launch, which may raise; the deadline is set after.  *)
(***************************************************************************)
_begin_candidate_launch(forced) ==
    /\ sup.at = "loop" /\ rt.phase = "activation_requested" /\ ipc.at = "idle"
    /\ proc["candidate"].life = "none" /\ HasYielded(forced)
    /\ rt' = [rt EXCEPT !.phase = "candidate_starting"]
    /\ \E launched \in BOOLEAN :
          /\ Counts(~launched \/ (forced /\ Busy("active")))
          /\ sup' = [sup EXCEPT !.lifecycle = "none", !.deadline = launched]
          /\ proc' = [active |-> IF Alive("active") /\ ~forced THEN proc["active"] ELSE NoProcess,
                      candidate |-> IF launched THEN Process(Target, TRUE) ELSE NoProcess]
    /\ UNCHANGED <<job, calls, ipc, crashes>>


(***************************************************************************)
(* The candidate is found dead, or one of its two bounds has passed: the   *)
(* decision to roll back, and its steps.                                   *)
(***************************************************************************)
CandidateIsLate ==
    /\ sup.at = "loop"
    /\ \/ rt.phase = "candidate_starting" /\ sup.deadline
       \/ rt.phase = "candidate_ready"
       \/ rt.phase \in PhasesWithALiveCandidate /\ proc["candidate"].life = "dead"
    /\ Counts(Busy("candidate"))
    /\ sup' = [sup EXCEPT !.at = "terminate"]
    /\ UNCHANGED <<job, rt, proc, calls, ipc, crashes>>

TerminateCandidate ==
    /\ sup.at = "terminate"
    /\ proc' = [proc EXCEPT !["candidate"] = NoProcess]
    /\ sup' = [sup EXCEPT !.at = "rollback", !.deadline = FALSE]
    /\ UNCHANGED <<job, rt, calls, ipc, crashes, faults>>

(***************************************************************************)
(* request_rollback.  Without a transaction it and fail_transaction raise, *)
(* and the tick is abandoned.                                              *)
(***************************************************************************)
ReadForRollback ==
    /\ sup.at = "rollback"
    /\ sup' = IF rt.phase \in PhasesWithALiveCandidate
              THEN [sup EXCEPT !.at = "persist",
                               !.snapshot = [rt EXCEPT !.phase = "rollback_requested"]]
              ELSE [sup EXCEPT !.at = "loop"]
    /\ UNCHANGED <<job, rt, proc, calls, ipc, crashes, faults>>

PersistRollback ==
    /\ sup.at = "persist"
    /\ rt' = sup.snapshot
    /\ sup' = [sup EXCEPT !.at = "loop"]
    /\ UNCHANGED <<job, proc, calls, ipc, crashes, faults>>

(***************************************************************************)
(* _finish_rollback: idle again, with a worker of the active generation.   *)
(***************************************************************************)
ReadToFinish ==
    /\ sup.at = "loop" /\ rt.phase = "rollback_requested"
    /\ sup' = [sup EXCEPT !.at = "finish", !.snapshot = [rt EXCEPT !.phase = "none"]]
    /\ UNCHANGED <<job, rt, proc, calls, ipc, crashes, faults>>

_finish_rollback ==
    /\ sup.at = "finish"
    /\ rt' = sup.snapshot
    /\ WithActiveWorker(proc, [sup EXCEPT !.at = "loop"], sup.snapshot.gen)
    /\ UNCHANGED <<job, calls, ipc, crashes, faults>>

(***************************************************************************)
(* An attempt leaves the restart window.                                   *)
(***************************************************************************)
_prune_old_attempts ==
    /\ sup.at # "down" /\ sup.attempts > 0
    /\ sup' = [sup EXCEPT !.attempts = @ - 1]
    /\ UNCHANGED <<job, rt, proc, calls, ipc, crashes, faults>>

LoopStep ==
    \/ IdleTick
    \/ _begin_candidate_launch(FALSE)
    \/ TerminateCandidate
    \/ ReadForRollback
    \/ PersistRollback
    \/ ReadToFinish
    \/ _finish_rollback
-----------------------------------------------------------------------------
WorkerCrash(w) ==
    /\ Alive(w) /\ crashes < MaxCrashes
    /\ crashes' = crashes + 1
    /\ Exits(w)
    /\ UNCHANGED <<job, rt, sup, calls, ipc, faults>>

(***************************************************************************)
(* The supervisor dies, and systemd ends its control group with it.        *)
(***************************************************************************)
SupervisorCrash ==
    /\ sup.at # "down" /\ crashes < MaxCrashes
    /\ crashes' = crashes + 1
    /\ sup' = [sup EXCEPT !.at = "down", !.deadline = FALSE, !.attempts = 0, !.lifecycle = "none"]
    /\ proc' = [w \in Tracked |-> NoProcess]
    /\ calls' = << >> /\ ipc' = NoCall
    /\ UNCHANGED <<job, rt, faults>>

(***************************************************************************)
(* start(): _recover_initial_state discards a transaction and keeps the    *)
(* active generation, whose worker is launched.                            *)
(***************************************************************************)
start ==
    /\ sup.at = "down"
    /\ rt' = [rt EXCEPT !.phase = "none"]
    /\ WithActiveWorker(proc, [sup EXCEPT !.at = "loop"], rt.gen)
    /\ UNCHANGED <<job, calls, ipc, crashes, faults>>

Next ==
    \/ \E w \in Tracked : WorkerStep(w) \/ GivesUp(w) \/ WorkerCrash(w)
    \/ IPCStep
    \/ LoopStep
    \/ _begin_candidate_launch(TRUE)
    \/ CandidateIsLate
    \/ _prune_old_attempts
    \/ SupervisorCrash
    \/ start

(***************************************************************************)
(* Threads and processes run, bounds and the restart window pass, and      *)
(* systemd restarts the supervisor.                                        *)
(***************************************************************************)
Fairness ==
    /\ \A w \in Tracked : WF_vars(WorkerStep(w))
    /\ WF_vars(IPCStep)
    /\ WF_vars(LoopStep)
    /\ WF_vars(_begin_candidate_launch(TRUE))
    /\ WF_vars(CandidateIsLate)
    /\ WF_vars(_prune_old_attempts)
    /\ WF_vars(start)

Spec == Init /\ [][Next]_vars /\ Fairness
-----------------------------------------------------------------------------
(***************************************************************************)
(* Never two worker processes, and the lifecycle tracks the one there is:  *)
(* the old worker is gone before the candidate starts, the candidate before*)
(* the old generation is restarted, and a promoted candidate is adopted    *)
(* rather than doubled.                                                    *)
(***************************************************************************)
OneWorker ==
    /\ ~(Alive("active") /\ Alive("candidate"))
    /\ (sup.lifecycle = "running") <=> (proc["active"].life # "none")

(***************************************************************************)
(* The order of D4-J (docs/UPDATE_CENTER_PHASE_D.md 900-905,               *)
(* _accept_runtime_as_candidate): "writes runtime_activation_accepted      *)
(* durably FIRST, then informs the supervisor".  The supervisor promotes a *)
(* generation for a job only behind that job's durable acceptance, and only*)
(* a job that has yielded is ever accepted, whoever crashes and whatever is*)
(* delivered late.  The older texts, activation.py 5-11 and D3-L (709-715),*)
(* give the converse order, which the code does not follow: the milestone  *)
(* is durable while the transaction is still candidate_starting or         *)
(* candidate_ready, and it alone opens the gate to the mutation; see       *)
(* NoDowngradeAfterAcceptance.                                             *)
(***************************************************************************)
CommitIsAccepted ==
    /\ (rt.gen = Target /\ ~Reached("runtime_already_authoritative")
        /\ Reached("runtime_candidate_staged")) => Reached("runtime_activation_accepted")
    /\ Reached("runtime_activation_accepted") => Reached("runtime_activation_requested")

(***************************************************************************)
(* A transaction never stays in flight, but for the one hole in the bounds:*)
(* a launch that raises after the phase was made durable sets no deadline. *)
(***************************************************************************)
LaunchRaised == rt.phase = "candidate_starting" /\ proc["candidate"].life = "none" /\ ~sup.deadline


(***************************************************************************)
(* Every job ends, but for that hole and for a job whose handoff was rolled*)
(* back or lost between its yield and its acceptance: no process may take  *)
(* it up again.  Once accepted it ends, although its worker or the         *)
(* supervisor die or the candidate is rolled back.                         *)
(***************************************************************************)
Stranded ==
    /\ Reached("runtime_activation_requested") /\ ~Reached("runtime_activation_accepted")
    /\ rt.phase = "none"


(***************************************************************************)
(* "Never automatic after runtime_activation_accepted" (_rollback): whoever*)
(* mutates the host for the job runs the generation that the job needs.    *)
(***************************************************************************)
NoDowngradeAfterAcceptance ==
    \A w \in Tracked : Runs(w, "mutate") => proc[w].gen = Target
=============================================================================
