----------------------------- MODULE HandoffProofs -----------------------------
(***************************************************************************)
(* Proofs about the runtime handoff (RuntimeHandoff): there is never more  *)
(* than one worker process, and a generation is promoted for a job only    *)
(* behind the job's own acceptance.  Both hold for any number of crashes,  *)
(* of lost or late answers and of restart attempts.                        *)
(***************************************************************************)
EXTENDS RuntimeHandoff, SequenceTheorems, TLAPS

Places == {"none", "execute", "gate", "handoff", "stage", "verify", "request", "requesting",
           "requested", "yield", "accept", "confirm", "confirming", "mutate"}
Milestones == {"runtime_candidate_staged", "runtime_candidate_verified",
               "runtime_activation_requested", "runtime_activation_accepted",
               "runtime_already_authoritative"}
Jobs == [state : {"running", "succeeded", "failed"}, milestones : SUBSET Milestones]
Runtimes == [gen : {Old, Target}, phase : Phases]
Processes == [life : {"none", "alive", "dead"}, gen : {0, Old, Target}, candidate : BOOLEAN,
              main : {"recover", "report", "reporting", "serving"}, at : Places]
Supervisors == [at : {"loop", "terminate", "rollback", "persist", "finish", "down"},
                snapshot : Runtimes, deadline : BOOLEAN, attempts : Nat,
                lifecycle : {"none", "running"}]
Actions == {"REPORT_READINESS", "REQUEST_ACTIVATION", "CONFIRM_RUNTIME_ACCEPTANCE"}
Calls == [action : Actions, from : Tracked]
Handlers == [at : {"idle", "verify", "persist"}, ok : BOOLEAN,
             state : [gen : {Old, Target}, phase : Phases \ {"rollback_requested"}]]

TypeInv ==
    /\ job \in Jobs /\ rt \in Runtimes
    /\ proc \in [Tracked -> Processes]
    /\ sup \in Supervisors
    /\ calls \in Seq(Calls)
    /\ ipc \in Handlers /\ (ipc.at # "idle" => calls # << >>)
    /\ crashes \in Nat /\ faults \in Nat

(***************************************************************************)
(* What OneWorker rests on.  A candidate is tracked only next to an empty  *)
(* active slot.  A rollback, from the end of the candidate to the restart  *)
(* of the active generation, and a supervisor that is down have none.      *)
(***************************************************************************)
Alone ==
    /\ (sup.lifecycle = "running") <=> (proc["active"].life # "none")
    /\ proc["candidate"].life # "none" => proc["active"].life = "none"
    /\ sup.at \in {"rollback", "persist", "finish", "down"} \/ rt.phase = "rollback_requested"
          => proc["candidate"].life = "none"
    /\ sup.at = "down" => proc["active"].life = "none"

(***************************************************************************)
(* What CommitIsAccepted rests on.  A process that is about to accept knows*)
(* of the request, one that is about to confirm, and a confirmation that is*)
(* still queued, of the acceptance.  A transaction is in flight only from  *)
(* the old generation, so a stale reading that the rollback or a handler   *)
(* writes back is never ahead of the acceptance.                           *)
(***************************************************************************)
Accounted ==
    /\ CommitIsAccepted
    /\ \A w \in Tracked :
         /\ proc[w].at = "accept" => Reached("runtime_activation_requested")
         /\ proc[w].at = "confirm" => Reached("runtime_activation_accepted")
    /\ \A i \in DOMAIN calls :
         calls[i].action = "CONFIRM_RUNTIME_ACCEPTANCE" => Reached("runtime_activation_accepted")
    /\ rt.phase # "none" \/ ipc.at = "verify" => rt.gen = Old
    /\ sup.at \in {"persist", "finish"} => sup.snapshot.gen = Old
    /\ ipc.at = "persist" =>
         \/ ipc.state.gen = Old
         \/ ipc.state.phase = "none" /\ Reached("runtime_activation_accepted")
-----------------------------------------------------------------------------
(***************************************************************************)
(* A step of process w changes no other process, and starts none.          *)
(***************************************************************************)
Own(w) ==
    /\ proc' \in [Tracked -> Processes]
    /\ \A v \in Tracked : v # w => proc'[v] = proc[v]
    /\ proc'[w].life = proc[w].life \/ (proc[w].life = "alive" /\ proc'[w].life = "dead")

(***************************************************************************)
(* The thread of the job goes on to another place, or its process ends.    *)
(***************************************************************************)
LEMMA Moves ==
    ASSUME TypeInv, NEW w \in Tracked
    PROVE  /\ \A p \in Places : Goes(w, p) => Own(w) /\ proc'[w].at = p
           /\ Alive(w) /\ Exits(w) => Own(w) /\ proc'[w].at = "none"
           /\ Fails(w) => /\ Own(w) /\ proc'[w].at = "none"
                          /\ job' \in Jobs /\ job'.milestones = job.milestones
<1>1. proc \in [Tracked -> Processes] /\ proc[w] \in Processes /\ job \in Jobs
  BY DEF TypeInv
<1>2. ASSUME NEW p \in Places, Goes(w, p) PROVE Own(w) /\ proc'[w].at = p
  BY <1>1, <1>2 DEF Goes, Own, Processes
<1>3. ASSUME Alive(w), Exits(w) PROVE Own(w) /\ proc'[w].at = "none"
  <2>1. "none" \in Places
    BY DEF Places
  <2> QED
    BY <1>1, <1>3, <2>1 DEF Exits, Own, Processes, Alive
<1>4. ASSUME Fails(w) PROVE /\ Own(w) /\ proc'[w].at = "none"
                            /\ job' \in Jobs /\ job'.milestones = job.milestones
  <2>1. Own(w) /\ proc'[w].at = "none"
    BY <1>2, <1>4 DEF Fails, Places
  <2> QED
    BY <1>1, <1>4, <2>1 DEF Fails, Jobs
<1> QED
  BY <1>2, <1>3, <1>4

(***************************************************************************)
(* A milestone is added to those that the job has.                         *)
(***************************************************************************)
LEMMA MilestoneKept ==
    ASSUME TypeInv, NEW m \in Milestones, Milestone(m)
    PROVE  job' \in Jobs /\ job'.milestones = job.milestones \cup {m}
BY DEF TypeInv, Milestone, Jobs

(***************************************************************************)
(* An answer, or the lack of one, moves only the process that called: it   *)
(* leads to no acceptance and no milestone.                                *)
(***************************************************************************)
LEMMA Heard ==
    ASSUME TypeInv, NEW w \in Tracked, NEW a \in Actions, NEW ok \in BOOLEAN, Hears(w, a, ok)
    PROVE  /\ Own(w) /\ job' \in Jobs /\ job'.milestones = job.milestones
           /\ proc'[w].at \in {proc[w].at, "none", "requested", "mutate"}
<1>1. job \in Jobs /\ proc \in [Tracked -> Processes] /\ proc[w] \in Processes
  BY DEF TypeInv
<1>2. CASE UNCHANGED job /\ \E p \in {"requested", "mutate"} : Goes(w, p)
  <2>1. {"requested", "mutate"} \subseteq Places
    BY DEF Places
  <2> QED
    BY <1>1, <1>2, <2>1, Moves
<1>3. CASE Fails(w)
  BY <1>3, Moves
<1>4. CASE UNCHANGED job /\ Alive(w) /\ Exits(w)
  BY <1>1, <1>4, Moves
<1>5. CASE UNCHANGED job /\ proc' = [proc EXCEPT ![w].main = "serving"]
  BY <1>1, <1>5 DEF Own, Processes
<1>6. CASE UNCHANGED <<job, proc>>
  BY <1>1, <1>6 DEF Own
<1> QED
  BY <1>2, <1>3, <1>4, <1>5, <1>6 DEF Hears

(***************************************************************************)
(* What a process may do to the job and to the queue: stage only what is   *)
(* not active yet, accept only from the place that the request leads to,   *)
(* confirm only what it has accepted.                                      *)
(***************************************************************************)
Durable(w) ==
    /\ job' \in Jobs /\ job.milestones \subseteq job'.milestones
    /\ "runtime_candidate_staged" \in job'.milestones
          => Reached("runtime_candidate_staged") \/ rt.gen # Target
    /\ "runtime_activation_accepted" \in job'.milestones
          => Reached("runtime_activation_accepted") \/ proc[w].at = "accept"
    /\ proc'[w].at = "accept" => proc[w].at = "accept" \/ Reached("runtime_activation_requested")
    /\ proc'[w].at = "confirm"
          => proc[w].at = "confirm" \/ "runtime_activation_accepted" \in job'.milestones

Queued(w) ==
    \/ calls' = calls
    \/ \E c \in Calls : /\ calls' = Append(calls, c)
                        /\ c.action = "CONFIRM_RUNTIME_ACCEPTANCE" => proc[w].at = "confirm"

(***************************************************************************)
(* A process acts on the records only as Durable and Queued say, whatever  *)
(* step it takes, and leaves the supervisor alone.                         *)
(***************************************************************************)
LEMMA WorkerFrame ==
    ASSUME TypeInv, NEW w \in Tracked, WorkerStep(w) \/ GivesUp(w) \/ WorkerCrash(w)
    PROVE  /\ Own(w) /\ Durable(w) /\ Queued(w)
           /\ rt' = rt /\ sup' = sup /\ ipc' = ipc /\ crashes' \in Nat /\ faults' \in Nat
<1> USE DEF Queued
<1>t. /\ job \in Jobs /\ proc \in [Tracked -> Processes] /\ proc[w] \in Processes
      /\ crashes \in Nat /\ faults \in Nat
  BY DEF TypeInv
<1>n. \A b \in BOOLEAN : Counts(b) => faults' \in Nat
  BY <1>t DEF Counts
<1>g. ASSUME NEW p \in Places \ {"accept", "confirm"}, Goes(w, p), UNCHANGED job
      PROVE  Own(w) /\ Durable(w)
  BY <1>t, <1>g, Moves DEF Durable, Reached
<1>f. ASSUME Fails(w) PROVE Own(w) /\ Durable(w)
  BY <1>f, Moves DEF Durable, Reached
<1>e. ASSUME Alive(w), Exits(w), UNCHANGED job PROVE Own(w) /\ Durable(w)
  BY <1>t, <1>e, Moves DEF Durable, Reached
<1>m. ASSUME NEW m \in Milestones \ {"runtime_activation_accepted"}, Milestone(m),
             NEW p \in Places \ {"accept", "confirm"}, Goes(w, p),
             m = "runtime_candidate_staged" => rt.gen # Target
      PROVE  Own(w) /\ Durable(w)
  BY <1>m, Moves, MilestoneKept DEF Durable, Reached
<1>1. CASE recover_jobs(w)
  <2>1. Own(w) /\ proc'[w].at \in {"execute", "none"}
    BY <1>1, <1>t DEF recover_jobs, Own, Processes, Places
  <2> QED
    BY <1>1, <1>t, <2>1 DEF recover_jobs, Durable, Reached
<1>2. CASE report_candidate_readiness(w)
  <2>1. Own(w) /\ proc'[w].at = proc[w].at
    BY <1>2, <1>t DEF report_candidate_readiness, Own, Processes
  <2> QED
    BY <1>2, <1>t, <2>1 DEF report_candidate_readiness, Durable, Reached, Calls, Actions
<1>3. CASE execute(w)
  <2>1. Alive(w) /\ {"gate", "handoff"} \subseteq Places \ {"accept", "confirm"}
    BY <1>3 DEF execute, Runs, Places
  <2>2. ASSUME Goes(w, "accept"), UNCHANGED job, Reached("runtime_activation_requested")
        PROVE  Own(w) /\ Durable(w)
    <3>1. "accept" \in Places
      BY DEF Places
    <3> QED
      BY <1>t, <2>2, <3>1, Moves DEF Durable, Reached
  <2> QED
    BY <1>3, <1>t, <1>n, <1>g, <1>f, <1>e, <2>1, <2>2 DEF execute
<1>4. CASE Gate(w)
  BY <1>4, <1>t, <1>g, <1>f DEF Gate, Places
<1>5. CASE _execute_runtime_handoff(w)
  BY <1>5, <1>t, <1>g, <1>f, <1>m DEF _execute_runtime_handoff, Places, Milestones
<1>6. CASE StageCandidate(w)
  <2>1. rt = [gen |-> Old, phase |-> "none"] => rt.gen # Target
    BY DEF Old, Target
  <2> QED
    BY <1>6, <1>t, <1>n, <1>f, <1>m, <2>1 DEF StageCandidate, Places, Milestones
<1>7. CASE VerifyCandidate(w)
  <2>1. /\ "runtime_candidate_verified" \in Milestones \ {"runtime_activation_accepted"}
        /\ "request" \in Places \ {"accept", "confirm"}
    BY DEF Places, Milestones
  <2> QED
    BY <1>7, <1>t, <1>n, <1>f, <1>m, <2>1 DEF VerifyCandidate
<1>8. CASE RequestActivation(w)
  BY <1>8, <1>t, <1>g DEF RequestActivation, Places, Calls, Actions
<1>9. CASE RecordRequest(w)
  BY <1>9, <1>t, <1>m DEF RecordRequest, Places, Milestones
<1>10. CASE Yield(w)
  BY <1>10, <1>t, <1>e DEF Yield, Runs
<1>11. CASE Accept(w)
  <2>1. "confirm" \in Places /\ "runtime_activation_accepted" \in Milestones
    BY DEF Places, Milestones
  <2> QED
    BY <1>11, <1>t, <2>1, Moves, MilestoneKept DEF Accept, Runs, Durable, Reached
<1>12. CASE ConfirmAcceptance(w)
  BY <1>12, <1>t, <1>g DEF ConfirmAcceptance, Places, Calls, Actions, Runs
<1>13. CASE Mutate(w)
  <2>1. Own(w) /\ proc'[w].at = "none"
    BY <1>13, Moves DEF Mutate, Places
  <2>2. job' \in Jobs /\ job'.milestones = job.milestones
    BY <1>13, <1>t DEF Mutate, Jobs
  <2> QED
    BY <1>13, <1>t, <2>1, <2>2 DEF Mutate, Durable, Reached
<1>14. CASE GivesUp(w)
  <2>1. PICK i \in DOMAIN calls : calls[i].from = w /\ Hears(w, calls[i].action, FALSE)
    BY <1>14 DEF GivesUp
  <2>2. calls[i].action \in Actions
    <3>1. calls \in Seq(Calls)
      BY DEF TypeInv
    <3>2. calls[i] \in Calls
      BY <3>1
    <3> QED
      BY <3>2 DEF Calls
  <2>3. /\ Own(w) /\ job' \in Jobs /\ job'.milestones = job.milestones
        /\ proc'[w].at \in {proc[w].at, "none", "requested", "mutate"}
    BY <2>1, <2>2, Heard
  <2>4. Durable(w)
    BY <2>3 DEF Durable, Reached
  <2> QED
    BY <1>14, <1>t, <1>n, <2>3, <2>4 DEF GivesUp
<1>15. CASE WorkerCrash(w)
  BY <1>15, <1>t, <1>e DEF WorkerCrash
<1> QED
  BY <1>1, <1>2, <1>3, <1>4, <1>5, <1>6, <1>7, <1>8, <1>9, <1>10, <1>11, <1>12, <1>13, <1>14,
     <1>15 DEF WorkerStep

(***************************************************************************)
(* What a step of the IPC thread does: it answers the call, after writing  *)
(* the state that it has computed or none; or it begins the verification of*)
(* the transaction that it has just written; or it computes a state from   *)
(* its reading, with another generation only for a queued confirmation.    *)
(***************************************************************************)
Answers ==
    /\ calls' = Tail(calls) /\ ipc' = NoCall
    /\ Own(Head(calls).from) /\ job' \in Jobs /\ job'.milestones = job.milestones
    /\ proc'[Head(calls).from].at
          \in {proc[Head(calls).from].at, "none", "requested", "mutate"}
    /\ rt' = rt \/ (ipc.at = "persist" /\ rt' = ipc.state)

Begins ==
    /\ UNCHANGED <<job, proc, calls>>
    /\ ipc.at = "persist" /\ ipc.state.phase # "none" /\ rt' = ipc.state
    /\ ipc' \in Handlers /\ ipc'.at = "verify"

Prepares ==
    /\ UNCHANGED <<job, proc, calls, rt>>
    /\ ipc' \in Handlers /\ ipc'.at = "persist"
    /\ \/ /\ ipc'.state.gen = rt.gen
          /\ rt.gen = Old \/ rt.phase # "none" \/ ipc.at = "verify"
       \/ /\ ipc'.state.phase = "none"
          /\ Head(calls).action = "CONFIRM_RUNTIME_ACCEPTANCE"

(***************************************************************************)
(* The IPC thread leaves the supervisor's loop alone, and has a call at the*)
(* head of the queue whatever step it takes.                               *)
(***************************************************************************)
LEMMA IPCFrame ==
    ASSUME TypeInv, IPCStep
    PROVE  /\ calls # << >> /\ Head(calls) \in Calls
           /\ Answers \/ Begins \/ Prepares
           /\ sup' = sup /\ crashes' \in Nat /\ faults' \in Nat
<1>t. rt \in Runtimes /\ ipc \in Handlers /\ crashes \in Nat /\ faults \in Nat
  BY DEF TypeInv
<1>1. calls # << >>
  BY DEF IPCStep, _handle_request_activation, _handle_report_readiness, TypeInv, Handles,
         _handle_confirm_runtime_acceptance, verify_candidate_bundle, _persist
<1>2. Head(calls) \in Calls /\ Head(calls).from \in Tracked /\ Head(calls).action \in Actions
  <2>1. Head(calls) \in Calls
    BY <1>1 DEF TypeInv
  <2> QED
    BY <2>1 DEF Calls
<1>a. ASSUME NEW ok \in BOOLEAN, Answer(ok), rt' = rt \/ (ipc.at = "persist" /\ rt' = ipc.state)
      PROVE  Answers /\ sup' = sup /\ crashes' \in Nat
  BY <1>t, <1>2, <1>a, Heard DEF Answer, Answers
<1>c. ASSUME NEW state, NEW ok \in BOOLEAN, Computes(state, ok),
             state.gen \in {Old, Target}, state.phase \in Phases \ {"rollback_requested"},
             state = [gen |-> state.gen, phase |-> state.phase]
      PROVE  /\ UNCHANGED <<job, proc, calls, rt>> /\ sup' = sup /\ crashes' \in Nat
             /\ ipc' \in Handlers /\ ipc'.at = "persist" /\ ipc'.state = state
  BY <1>t, <1>c DEF Computes, Handlers
<1>n. \A b \in BOOLEAN : Counts(b) => faults' \in Nat
  BY <1>t DEF Counts
<1>p. ASSUME NEW ph \in Phases \ {"rollback_requested"}, NEW ok \in BOOLEAN,
             Computes([rt EXCEPT !.phase = ph], ok),
             rt.gen = Old \/ rt.phase # "none" \/ ipc.at = "verify"
      PROVE  Prepares /\ sup' = sup /\ crashes' \in Nat
  <2> DEFINE state == [rt EXCEPT !.phase = ph]
  <2>1. state = [gen |-> state.gen, phase |-> state.phase] /\ state.gen = rt.gen
        /\ state.gen \in {Old, Target} /\ state.phase \in Phases \ {"rollback_requested"}
    BY <1>t DEF Runtimes
  <2>2. Computes(state, ok)
    BY <1>p
  <2> HIDE DEF state
  <2> QED
    BY <1>c, <1>p, <2>1, <2>2 DEF Prepares
<1>3. CASE _handle_request_activation
  <2>1. faults' = faults
    BY <1>3 DEF _handle_request_activation
  <2>2. CASE rt = [gen |-> Old, phase |-> "none"]
    <3>1. Computes([rt EXCEPT !.phase = "candidate_staged"], TRUE)
      BY <1>3, <2>2 DEF _handle_request_activation
    <3>2. "candidate_staged" \in Phases \ {"rollback_requested"} /\ rt.gen = Old
      BY <2>2 DEF Phases
    <3> QED
      BY <1>t, <1>1, <1>2, <1>p, <2>1, <3>1, <3>2
  <2>3. CASE rt # [gen |-> Old, phase |-> "none"]
    <3>1. Answer(rt.phase # "none") /\ rt' = rt
      BY <1>3, <2>3 DEF _handle_request_activation
    <3>2. (rt.phase # "none") \in BOOLEAN
      OBVIOUS
    <3> QED
      BY <1>t, <1>1, <1>2, <1>a, <2>1, <3>1, <3>2
  <2> QED
    BY <2>2, <2>3
<1>4. CASE verify_candidate_bundle
  <2>1. PICK ok \in BOOLEAN :
          /\ Counts(~ok)
          /\ Computes([rt EXCEPT !.phase = IF ok THEN "activation_requested" ELSE "none"], ok)
    BY <1>4 DEF verify_candidate_bundle
  <2>2. (IF ok THEN "activation_requested" ELSE "none") \in Phases \ {"rollback_requested"}
    BY DEF Phases
  <2>3. ipc.at = "verify" /\ (~ok) \in BOOLEAN
    BY <1>4 DEF verify_candidate_bundle
  <2> QED
    BY <1>1, <1>2, <1>n, <1>p, <2>1, <2>2, <2>3
<1>5. CASE _handle_report_readiness
  <2>1. {"candidate_ready", "none"} \subseteq Phases \ {"rollback_requested"}
    BY DEF Phases
  <2>2. CASE UNCHANGED rt /\ \E b, ok \in BOOLEAN : Counts(b) /\ Answer(ok)
    BY <1>1, <1>2, <1>a, <1>n, <2>2
  <2>3. CASE /\ rt.phase = "candidate_starting"
             /\ \E b \in BOOLEAN : Counts(b)
             /\ \/ Computes([rt EXCEPT !.phase = "candidate_ready"], TRUE)
                \/ Computes([rt EXCEPT !.phase = "none"], FALSE)
    BY <1>1, <1>2, <1>n, <1>p, <2>1, <2>3
  <2> QED
    BY <1>5, <2>2, <2>3 DEF _handle_report_readiness
<1>6. CASE _handle_confirm_runtime_acceptance
  <2>1. faults' = faults /\ Head(calls).action = "CONFIRM_RUNTIME_ACCEPTANCE"
    BY <1>6 DEF _handle_confirm_runtime_acceptance, Handles
  <2>2. CASE Computes([gen |-> Target, phase |-> "none"], TRUE)
    <3> DEFINE state == [gen |-> Target, phase |-> "none"]
    <3>1. /\ state.gen \in {Old, Target} /\ state.phase \in Phases \ {"rollback_requested"}
          /\ state.phase = "none" /\ state = [gen |-> state.gen, phase |-> state.phase]
      BY DEF Phases
    <3>2. Computes(state, TRUE)
      BY <2>2
    <3> HIDE DEF state
    <3> QED
      BY <1>t, <1>1, <1>2, <1>c, <2>1, <3>1, <3>2 DEF Prepares
  <2>3. CASE Answer(FALSE) /\ rt' = rt
    BY <1>t, <1>1, <1>2, <1>a, <2>1, <2>3
  <2> QED
    BY <1>6, <2>2, <2>3 DEF _handle_confirm_runtime_acceptance
<1>7. CASE _persist
  <2>1. faults' = faults /\ ipc.at = "persist" /\ rt' = ipc.state
    BY <1>7 DEF _persist
  <2>2. CASE ipc.state.phase = "candidate_staged"
    <3>1. ipc' = [ipc EXCEPT !.at = "verify"] /\ UNCHANGED <<job, proc, sup, calls, crashes>>
      BY <1>7, <2>2 DEF _persist
    <3>2. ipc' \in Handlers /\ ipc'.at = "verify"
      BY <1>t, <3>1 DEF Handlers
    <3> QED
      BY <1>t, <1>1, <1>2, <2>1, <2>2, <3>1, <3>2 DEF Begins
  <2>3. CASE ipc.state.phase # "candidate_staged"
    <3>1. Answer(ipc.ok)
      BY <1>7, <2>3 DEF _persist
    <3>2. ipc.ok \in BOOLEAN
      BY <1>t DEF Handlers
    <3> QED
      BY <1>t, <1>1, <1>2, <1>a, <2>1, <3>1, <3>2
  <2> QED
    BY <2>2, <2>3
<1> QED
  BY <1>3, <1>4, <1>5, <1>6, <1>7 DEF IPCStep
-----------------------------------------------------------------------------
(***************************************************************************)
(* The processes and the loop's state that a launch of the active worker   *)
(* leaves, from processes p and loop state s that are in step.             *)
(***************************************************************************)
LEMMA ActiveLaunched ==
    ASSUME NEW p \in [Tracked -> Processes], NEW s \in Supervisors,
           NEW g \in {Old, Target}, WithActiveWorker(p, s, g),
           (s.lifecycle = "running") <=> (p["active"].life # "none")
    PROVE  /\ proc' \in [Tracked -> Processes] /\ sup' \in Supervisors
           /\ (sup'.lifecycle = "running") <=> (proc'["active"].life # "none")
           /\ proc'["candidate"] = p["candidate"]
           /\ sup'.at = s.at /\ sup'.snapshot = s.snapshot
           /\ proc'["active"].at \in {p["active"].at, "none"}
<1>1. CASE proc' = p /\ sup' = s
  BY <1>1
<1>2. CASE /\ proc' = [p EXCEPT !["active"] = Process(g, FALSE)]
           /\ sup' = [s EXCEPT !.attempts = @ + 1, !.lifecycle = "running"]
  <2>1. /\ Process(g, FALSE) \in Processes /\ Process(g, FALSE).life = "alive"
        /\ Process(g, FALSE).at = "none"
    BY DEF Process, NoProcess, Processes, Places
  <2>2. sup' \in Supervisors /\ sup'.lifecycle = "running"
        /\ sup'.at = s.at /\ sup'.snapshot = s.snapshot
    <3>1. s.attempts + 1 \in Nat
      BY DEF Supervisors
    <3> QED
      BY <1>2, <3>1 DEF Supervisors
  <2>3. "active" \in Tracked /\ "candidate" \in Tracked
    BY DEF Tracked
  <2> QED
    BY <1>2, <2>1, <2>2, <2>3
<1> QED
  BY <1>1, <1>2 DEF WithActiveWorker

(***************************************************************************)
(* What the supervisor tracks after adoption: at most the active worker.   *)
(***************************************************************************)
LEMMA AdoptedType ==
    ASSUME TypeInv, Alone
    PROVE  /\ Adopted[1] \in [Tracked -> Processes] /\ Adopted[2] \in Supervisors
           /\ Adopted[1]["candidate"].life = "none"
           /\ (Adopted[2].lifecycle = "running") <=> (Adopted[1]["active"].life # "none")
           /\ Adopted[2].at = sup.at /\ Adopted[2].snapshot = sup.snapshot
           /\ \A w \in Tracked :
                 Adopted[1][w].at \in {proc["active"].at, proc["candidate"].at, "none"}
<1> USE DEF Tracked
<1>1. proc \in [Tracked -> Processes] /\ sup \in Supervisors
  BY DEF TypeInv
<1>2. CASE proc["candidate"].life = "none"
  BY <1>1, <1>2 DEF Adopted, Alone
<1>3. CASE proc["candidate"].life # "none"
  <2>1. Adopted[1] = [active |-> proc["candidate"], candidate |-> NoProcess]
    BY <1>3 DEF Adopted
  <2>2. Adopted[2] = [sup EXCEPT !.deadline = FALSE, !.attempts = 0, !.lifecycle = "running"]
    BY <1>3 DEF Adopted
  <2>3. NoProcess \in Processes /\ NoProcess.life = "none" /\ NoProcess.at = "none"
    BY DEF NoProcess, Processes, Places
  <2>4. /\ Adopted[1] \in [Tracked -> Processes]
        /\ Adopted[1]["active"] = proc["candidate"] /\ Adopted[1]["candidate"] = NoProcess
    BY <1>1, <2>1, <2>3
  <2>5. /\ Adopted[2] \in Supervisors /\ Adopted[2].lifecycle = "running"
        /\ Adopted[2].at = sup.at /\ Adopted[2].snapshot = sup.snapshot
    <3> DEFINE s == [sup EXCEPT !.deadline = FALSE, !.attempts = 0, !.lifecycle = "running"]
    <3>1. /\ s \in Supervisors /\ s.lifecycle = "running"
          /\ s.at = sup.at /\ s.snapshot = sup.snapshot
      BY <1>1 DEF Supervisors
    <3> QED
      BY <2>2, <3>1
  <2> QED
    BY <1>3, <2>3, <2>4, <2>5
<1> QED
  BY <1>2, <1>3

(***************************************************************************)
(* The rest of what a step of the supervisor does: it leaves the job alone,*)
(* makes no call, moves no thread of a process, and writes back the reading*)
(* of its rollback or keeps the active generation.  A reading is of a      *)
(* transaction in flight.                                                  *)
(***************************************************************************)
Supervises ==
    /\ job' = job
    /\ (calls' = calls /\ ipc' = ipc) \/ (calls' = << >> /\ ipc' = NoCall)
    /\ \A w \in Tracked : proc'[w].at \in {proc["active"].at, proc["candidate"].at, "none"}
    /\ \/ rt'.gen = rt.gen /\ (rt'.phase # "none" => rt.phase # "none")
       \/ sup.at \in {"persist", "finish"} /\ rt'.gen = sup.snapshot.gen
    /\ sup'.at \in {"persist", "finish"} =>
          \/ sup'.snapshot.gen = rt.gen /\ rt.phase # "none"
          \/ sup.at \in {"persist", "finish"} /\ sup'.snapshot = sup.snapshot

SupervisorStep ==
    \/ LoopStep \/ _begin_candidate_launch(TRUE) \/ CandidateIsLate
    \/ _prune_old_attempts \/ SupervisorCrash \/ start

(***************************************************************************)
(* Every step of the supervisor keeps its processes apart.                 *)
(***************************************************************************)
LEMMA SupervisorFrame ==
    ASSUME TypeInv, Alone, SupervisorStep
    PROVE  TypeInv' /\ Alone' /\ Supervises
<1>t. /\ job \in Jobs /\ rt \in Runtimes /\ proc \in [Tracked -> Processes]
      /\ sup \in Supervisors /\ calls \in Seq(Calls) /\ crashes \in Nat /\ faults \in Nat
      /\ ipc \in Handlers /\ (ipc.at # "idle" => calls # << >>) /\ rt.gen \in {Old, Target}
  BY DEF TypeInv, Runtimes
<1>w. "active" \in Tracked /\ "candidate" \in Tracked
      /\ \A w \in Tracked : w = "active" \/ w = "candidate"
  BY DEF Tracked
<1>p. NoProcess \in Processes /\ NoProcess.life = "none" /\ NoProcess.at = "none"
  BY DEF NoProcess, Processes, Places
<1>n. \A b \in BOOLEAN : Counts(b) => faults' \in Nat
  BY <1>t DEF Counts
<1>1. CASE IdleTick
  <2> DEFINE p == Adopted[1]
             s == Adopted[2]
             q == [p EXCEPT !["active"] = NoProcess]
             u == [s EXCEPT !.lifecycle = "none"]
  <2>1. /\ p \in [Tracked -> Processes] /\ s \in Supervisors
        /\ p["candidate"].life = "none"
        /\ (s.lifecycle = "running") <=> (p["active"].life # "none")
        /\ s.at = sup.at /\ s.snapshot = sup.snapshot
        /\ \A w \in Tracked : p[w].at \in {proc["active"].at, proc["candidate"].at, "none"}
    BY AdoptedType
  <2>2. /\ sup.at = "loop" /\ UNCHANGED <<job, rt, calls, ipc, crashes, faults>>
        /\ \/ proc' = p /\ sup' = s
           \/ WithActiveWorker(p, s, rt.gen)
           \/ WithActiveWorker(q, u, rt.gen)
    <3> HIDE DEF p, s
    <3>1. p["active"] \in Processes
      BY <1>w, <2>1
    <3>2. p["active"].life \in {"none", "alive", "dead"}
      BY <3>1 DEF Processes
    <3> QED
      BY <1>1, <3>2 DEF IdleTick, p, s
  <2>3. /\ q \in [Tracked -> Processes] /\ q["active"] = NoProcess
        /\ q["candidate"] = p["candidate"]
    BY <1>w, <1>p, <2>1
  <2>4. u \in Supervisors /\ u.lifecycle = "none" /\ u.at = s.at /\ u.snapshot = s.snapshot
    BY <2>1 DEF Supervisors
  <2> HIDE DEF p, s, q, u
  <2>5. /\ proc' \in [Tracked -> Processes] /\ sup' \in Supervisors
        /\ (sup'.lifecycle = "running") <=> (proc'["active"].life # "none")
        /\ proc'["candidate"] = p["candidate"]
        /\ sup'.at = sup.at /\ sup'.snapshot = sup.snapshot
        /\ proc'["active"].at \in {p["active"].at, "none"}
    <3>1. CASE proc' = p /\ sup' = s
      BY <2>1, <3>1
    <3>2. CASE WithActiveWorker(p, s, rt.gen)
      BY <1>t, <2>1, <3>2, ActiveLaunched
    <3>3. CASE WithActiveWorker(q, u, rt.gen)
      <4>1. (u.lifecycle = "running") <=> (q["active"].life # "none")
        BY <1>p, <2>3, <2>4
      <4> QED
        BY <1>t, <1>p, <2>1, <2>3, <2>4, <3>3, <4>1, ActiveLaunched
    <3> QED
      BY <2>2, <3>1, <3>2, <3>3
  <2> QED
    BY <1>t, <1>w, <2>1, <2>2, <2>5 DEF TypeInv, Alone, Supervises
<1>2. ASSUME NEW forced \in BOOLEAN, _begin_candidate_launch(forced)
      PROVE  TypeInv' /\ Alone' /\ Supervises
  <2>1. PICK launched \in BOOLEAN :
          /\ Counts(~launched \/ (forced /\ Busy("active")))
          /\ sup' = [sup EXCEPT !.lifecycle = "none", !.deadline = launched]
          /\ proc' = [active |-> IF Alive("active") /\ ~forced THEN proc["active"] ELSE NoProcess,
                      candidate |-> IF launched THEN Process(Target, TRUE) ELSE NoProcess]
    BY <1>2 DEF _begin_candidate_launch
  <2>2. proc' = [active |-> NoProcess,
                 candidate |-> IF launched THEN Process(Target, TRUE) ELSE NoProcess]
    BY <1>2, <2>1 DEF _begin_candidate_launch, HasYielded
  <2>3. Process(Target, TRUE) \in Processes /\ Process(Target, TRUE).at = "none"
    BY DEF Process, NoProcess, Processes, Places
  <2>4. /\ proc' \in [Tracked -> Processes] /\ proc'["active"] = NoProcess
        /\ proc'["candidate"].at = "none"
    <3> DEFINE c == IF launched THEN Process(Target, TRUE) ELSE NoProcess
    <3>1. c \in Processes /\ c.at = "none"
      BY <1>p, <2>3
    <3>2. proc' = [active |-> NoProcess, candidate |-> c]
      BY <2>2
    <3> HIDE DEF c
    <3> QED
      BY <1>p, <3>1, <3>2 DEF Tracked
  <2>5. sup' \in Supervisors /\ sup'.lifecycle = "none" /\ sup'.at = sup.at
    BY <1>t, <2>1 DEF Supervisors
  <2>6. rt' \in Runtimes /\ rt'.gen = rt.gen /\ rt'.phase = "candidate_starting"
    BY <1>2, <1>t DEF _begin_candidate_launch, Runtimes, Phases
  <2>7. faults' \in Nat
    BY <1>t, <2>1 DEF Counts
  <2> QED
    BY <1>2, <1>t, <1>p, <1>w, <2>4, <2>5, <2>6, <2>7
       DEF _begin_candidate_launch, TypeInv, Alone, Supervises
<1>3. CASE TerminateCandidate
  <2>1. /\ proc' \in [Tracked -> Processes] /\ proc'["candidate"] = NoProcess
        /\ proc'["active"] = proc["active"]
    BY <1>3, <1>t, <1>p, <1>w DEF TerminateCandidate
  <2>2. sup' \in Supervisors /\ sup'.at = "rollback" /\ sup'.lifecycle = sup.lifecycle
    BY <1>3, <1>t DEF TerminateCandidate, Supervisors
  <2> QED
    BY <1>3, <1>t, <1>p, <1>w, <2>1, <2>2 DEF TerminateCandidate, TypeInv, Alone, Supervises
<1>4. CASE ReadForRollback
  <2> DEFINE r == [rt EXCEPT !.phase = "rollback_requested"]
  <2>1. r \in Runtimes /\ r.gen = rt.gen
    BY <1>t DEF Runtimes, Phases
  <2>2. \/ sup' = [sup EXCEPT !.at = "persist", !.snapshot = r]
        \/ sup' = [sup EXCEPT !.at = "loop"]
    BY <1>4 DEF ReadForRollback
  <2>p. rt.phase # "none" \/ sup' = [sup EXCEPT !.at = "loop"]
    BY <1>4 DEF ReadForRollback, PhasesWithALiveCandidate
  <2> HIDE DEF r
  <2>3. /\ sup' \in Supervisors /\ sup'.lifecycle = sup.lifecycle
        /\ \/ sup'.at = "persist" /\ sup'.snapshot = r /\ rt.phase # "none"
           \/ sup'.at = "loop"
    BY <1>t, <2>1, <2>2, <2>p DEF Supervisors
  <2> QED
    BY <1>4, <1>t, <1>w, <2>1, <2>3 DEF ReadForRollback, TypeInv, Alone, Supervises
<1>5. CASE PersistRollback
  <2>1. sup' \in Supervisors /\ sup'.lifecycle = sup.lifecycle /\ sup'.at = "loop"
    BY <1>5, <1>t DEF PersistRollback, Supervisors
  <2>2. rt' \in Runtimes
    BY <1>5, <1>t DEF PersistRollback, Supervisors
  <2> QED
    BY <1>5, <1>t, <1>w, <2>1, <2>2 DEF PersistRollback, TypeInv, Alone, Supervises
<1>r. CASE ReadToFinish
  <2> DEFINE r == [rt EXCEPT !.phase = "none"]
  <2>1. r \in Runtimes /\ r.gen = rt.gen
    BY <1>t DEF Runtimes, Phases
  <2>2. sup' = [sup EXCEPT !.at = "finish", !.snapshot = r]
    BY <1>r DEF ReadToFinish
  <2> HIDE DEF r
  <2>3. /\ sup' \in Supervisors /\ sup'.lifecycle = sup.lifecycle
        /\ sup'.at = "finish" /\ sup'.snapshot = r
    BY <1>t, <2>1, <2>2 DEF Supervisors
  <2> QED
    BY <1>r, <1>t, <1>w, <2>1, <2>3 DEF ReadToFinish, TypeInv, Alone, Supervises
<1>6. CASE _finish_rollback
  <2> DEFINE s == [sup EXCEPT !.at = "loop"]
  <2>1. rt' \in Runtimes /\ rt' = sup.snapshot /\ sup.snapshot.gen \in {Old, Target}
    BY <1>6, <1>t DEF _finish_rollback, Supervisors, Runtimes
  <2>2. s \in Supervisors /\ s.at = "loop" /\ s.lifecycle = sup.lifecycle
    BY <1>t DEF Supervisors
  <2> HIDE DEF s
  <2>3. WithActiveWorker(proc, s, sup.snapshot.gen)
    BY <1>6 DEF _finish_rollback, s
  <2>4. /\ proc' \in [Tracked -> Processes] /\ sup' \in Supervisors
        /\ (sup'.lifecycle = "running") <=> (proc'["active"].life # "none")
        /\ proc'["candidate"] = proc["candidate"] /\ sup'.at = "loop"
        /\ proc'["active"].at \in {proc["active"].at, "none"}
    BY <1>t, <2>1, <2>2, <2>3, ActiveLaunched DEF Alone
  <2> QED
    BY <1>6, <1>t, <1>w, <2>1, <2>4 DEF _finish_rollback, TypeInv, Alone, Supervises
<1>7. CASE CandidateIsLate
  <2>1. sup' \in Supervisors /\ sup'.lifecycle = sup.lifecycle /\ sup'.at = "terminate"
    BY <1>7, <1>t DEF CandidateIsLate, Supervisors
  <2>2. faults' \in Nat
    BY <1>7, <1>t DEF CandidateIsLate, Counts
  <2> QED
    BY <1>7, <1>t, <1>w, <2>1, <2>2 DEF CandidateIsLate, TypeInv, Alone, Supervises
<1>8. CASE _prune_old_attempts
  <2>1. sup.attempts - 1 \in Nat
    BY <1>8, <1>t DEF _prune_old_attempts, Supervisors
  <2>2. /\ sup' \in Supervisors /\ sup'.lifecycle = sup.lifecycle /\ sup'.at = sup.at
        /\ sup'.snapshot = sup.snapshot
    BY <1>8, <1>t, <2>1 DEF _prune_old_attempts, Supervisors
  <2> QED
    BY <1>8, <1>t, <1>w, <2>2 DEF _prune_old_attempts, TypeInv, Alone, Supervises
<1>9. CASE SupervisorCrash
  <2>1. sup' \in Supervisors /\ sup'.lifecycle = "none" /\ sup'.at = "down"
    BY <1>9, <1>t DEF SupervisorCrash, Supervisors
  <2>2. proc' \in [Tracked -> Processes] /\ \A w \in Tracked : proc'[w] = NoProcess
    BY <1>9, <1>p DEF SupervisorCrash
  <2>3. NoCall \in Handlers /\ NoCall.at = "idle"
    BY DEF NoCall, Handlers, Phases
  <2> QED
    BY <1>9, <1>t, <1>p, <1>w, <2>1, <2>2, <2>3 DEF SupervisorCrash, TypeInv, Alone, Supervises
<1>10. CASE start
  <2> DEFINE s == [sup EXCEPT !.at = "loop"]
  <2>1. rt' \in Runtimes /\ rt'.gen = rt.gen /\ rt'.phase = "none"
    BY <1>10, <1>t DEF start, Runtimes, Phases
  <2>2. s \in Supervisors /\ s.at = "loop" /\ s.lifecycle = sup.lifecycle
    BY <1>t DEF Supervisors
  <2> HIDE DEF s
  <2>3. WithActiveWorker(proc, s, rt.gen)
    BY <1>10 DEF start, s
  <2>4. /\ proc' \in [Tracked -> Processes] /\ sup' \in Supervisors
        /\ (sup'.lifecycle = "running") <=> (proc'["active"].life # "none")
        /\ proc'["candidate"] = proc["candidate"] /\ sup'.at = "loop"
        /\ proc'["active"].at \in {proc["active"].at, "none"}
    BY <1>t, <2>2, <2>3, ActiveLaunched DEF Alone
  <2> QED
    BY <1>10, <1>t, <1>w, <2>1, <2>4 DEF start, TypeInv, Alone, Supervises
<1> QED
  BY <1>1, <1>2, <1>3, <1>4, <1>5, <1>r, <1>6, <1>7, <1>8, <1>9, <1>10 DEF SupervisorStep, LoopStep
-----------------------------------------------------------------------------
(***************************************************************************)
(* A step is one of a process, of the IPC thread or of the supervisor.     *)
(***************************************************************************)
LEMMA StepFrame ==
    ASSUME [Next]_vars
    PROVE  \/ \E w \in Tracked : WorkerStep(w) \/ GivesUp(w) \/ WorkerCrash(w)
           \/ IPCStep
           \/ SupervisorStep
           \/ UNCHANGED vars
BY DEF Next, SupervisorStep

(***************************************************************************)
(* A station that starts has one worker, and no call is under way.         *)
(***************************************************************************)
LEMMA InitInv == Init => TypeInv /\ Alone /\ Accounted
<1> SUFFICES ASSUME Init PROVE TypeInv /\ Alone /\ Accounted
  OBVIOUS
<1>1. job \in Jobs /\ job.milestones = {} /\ crashes \in Nat /\ faults \in Nat
  BY DEF Init, Jobs
<1>2. rt \in Runtimes /\ rt.phase = "none"
  BY DEF Init, Runtimes, Phases
<1>3. /\ Process(rt.gen, FALSE) \in Processes /\ Process(rt.gen, FALSE).life = "alive"
      /\ Process(rt.gen, FALSE).at = "none"
      /\ NoProcess \in Processes /\ NoProcess.life = "none" /\ NoProcess.at = "none"
  BY <1>2 DEF Process, NoProcess, Processes, Runtimes, Places
<1>4. /\ proc \in [Tracked -> Processes]
      /\ proc["active"] = Process(rt.gen, FALSE) /\ proc["candidate"] = NoProcess
      /\ \A w \in Tracked : proc[w].at = "none"
  BY <1>3 DEF Init, Tracked
<1>5. sup \in Supervisors /\ sup.at = "loop" /\ sup.lifecycle = "running"
  BY <1>2 DEF Init, Supervisors
<1>6. /\ calls \in Seq(Calls) /\ calls = << >>
      /\ ipc \in Handlers /\ ipc.at = "idle"
  BY DEF Init, NoCall, Handlers, Phases
<1>7. TypeInv
  BY <1>1, <1>2, <1>4, <1>5, <1>6 DEF TypeInv
<1>8. Alone
  BY <1>2, <1>3, <1>4, <1>5 DEF Alone
<1>9. DOMAIN calls = {}
  BY <1>6
<1> QED
  BY <1>1, <1>2, <1>4, <1>5, <1>6, <1>7, <1>8, <1>9 DEF Accounted, CommitIsAccepted, Reached

(***************************************************************************)
(* Every step keeps the types, and the supervisor's processes apart.       *)
(***************************************************************************)
LEMMA NextAlone == TypeInv /\ Alone /\ [Next]_vars => TypeInv' /\ Alone'
<1> SUFFICES ASSUME TypeInv, Alone, [Next]_vars PROVE TypeInv' /\ Alone'
  OBVIOUS
<1>t. /\ rt \in Runtimes /\ proc \in [Tracked -> Processes]
      /\ sup \in Supervisors /\ calls \in Seq(Calls) /\ ipc \in Handlers
      /\ "active" \in Tracked /\ "candidate" \in Tracked
  BY DEF TypeInv, Tracked
<1>1. ASSUME NEW w \in Tracked, Own(w), sup' = sup,
             rt'.phase = "rollback_requested" => rt.phase = "rollback_requested"
      PROVE  Alone'
  <2>1. \A v \in Tracked : proc'[v].life = "none" <=> proc[v].life = "none"
    BY <1>1 DEF Own
  <2> QED
    BY <1>t, <1>1, <2>1 DEF Alone
<1>2. CASE \E w \in Tracked : WorkerStep(w) \/ GivesUp(w) \/ WorkerCrash(w)
  <2>1. PICK w \in Tracked : WorkerStep(w) \/ GivesUp(w) \/ WorkerCrash(w)
    BY <1>2
  <2>2. /\ Own(w) /\ Durable(w) /\ Queued(w)
        /\ rt' = rt /\ sup' = sup /\ ipc' = ipc /\ crashes' \in Nat /\ faults' \in Nat
    BY <2>1, WorkerFrame
  <2>3. calls' \in Seq(Calls) /\ (calls # << >> => calls' # << >>)
    BY <1>t, <2>2 DEF Queued
  <2> QED
    BY <1>t, <1>1, <2>2, <2>3 DEF TypeInv, Own, Durable
<1>3. CASE IPCStep
  <2>1. /\ calls # << >> /\ Head(calls).from \in Tracked
        /\ Answers \/ Begins \/ Prepares
        /\ sup' = sup /\ crashes' \in Nat /\ faults' \in Nat
    BY <1>3, IPCFrame DEF Calls
  <2>2. Tail(calls) \in Seq(Calls)
    BY <1>t, <2>1
  <2>3. ipc.state \in Runtimes /\ ipc.state.phase # "rollback_requested"
    BY <1>t DEF Handlers, Runtimes
  <2>4. NoCall \in Handlers /\ NoCall.at = "idle"
    BY DEF NoCall, Handlers, Phases
  <2>5. CASE Answers
    <3>1. rt' \in Runtimes /\ (rt'.phase = "rollback_requested" => rt.phase = "rollback_requested")
      BY <1>t, <2>3, <2>5 DEF Answers
    <3> QED
      BY <1>t, <1>1, <2>1, <2>2, <2>4, <2>5, <3>1 DEF Answers, TypeInv, Own
  <2>6. CASE /\ UNCHANGED <<job, proc, calls>> /\ ipc' \in Handlers
             /\ rt' \in Runtimes
             /\ rt'.phase = "rollback_requested" => rt.phase = "rollback_requested"
    <3>1. TypeInv'
      BY <2>1, <2>6 DEF TypeInv
    <3>2. Alone'
      BY <2>1, <2>6 DEF Alone
    <3> QED
      BY <3>1, <3>2
  <2> QED
    BY <1>t, <2>1, <2>3, <2>5, <2>6 DEF Begins, Prepares
<1>4. CASE SupervisorStep
  BY <1>4, SupervisorFrame
<1>5. CASE UNCHANGED vars
  BY <1>5 DEF vars, TypeInv, Alone
<1> QED
  BY <1>2, <1>3, <1>4, <1>5, StepFrame

(***************************************************************************)
(* Every step keeps the account of the acceptance.                         *)
(***************************************************************************)
LEMMA NextAccounted == TypeInv /\ Alone /\ Accounted /\ [Next]_vars => Accounted'
<1> SUFFICES ASSUME TypeInv, Alone, Accounted, [Next]_vars PROVE Accounted'
  OBVIOUS
<1>t. /\ calls \in Seq(Calls) /\ "active" \in Tracked /\ "candidate" \in Tracked
  BY DEF TypeInv, Tracked
<1>1. CASE \E w \in Tracked : WorkerStep(w) \/ GivesUp(w) \/ WorkerCrash(w)
  <2>1. PICK w \in Tracked : WorkerStep(w) \/ GivesUp(w) \/ WorkerCrash(w)
    BY <1>1
  <2>2. Own(w) /\ Durable(w) /\ Queued(w) /\ rt' = rt /\ sup' = sup /\ ipc' = ipc
    BY <2>1, WorkerFrame
  <2>3. CommitIsAccepted'
    BY <2>2 DEF Durable, Accounted, CommitIsAccepted, Reached
  <2>4. \A v \in Tracked :
          /\ proc'[v].at = "accept" => "runtime_activation_requested" \in job'.milestones
          /\ proc'[v].at = "confirm" => "runtime_activation_accepted" \in job'.milestones
    BY <2>2 DEF Own, Durable, Accounted, Reached
  <2>5. \A i \in DOMAIN calls' :
          calls'[i].action = "CONFIRM_RUNTIME_ACCEPTANCE"
          => "runtime_activation_accepted" \in job'.milestones
    <3>1. CASE calls' = calls
      BY <2>2, <3>1 DEF Durable, Accounted, Reached
    <3>2. ASSUME NEW c \in Calls, calls' = Append(calls, c),
                 c.action = "CONFIRM_RUNTIME_ACCEPTANCE" => proc[w].at = "confirm",
                 NEW i \in DOMAIN calls', calls'[i].action = "CONFIRM_RUNTIME_ACCEPTANCE"
          PROVE  "runtime_activation_accepted" \in job'.milestones
      <4>1. (i \in DOMAIN calls /\ calls'[i] = calls[i]) \/ calls'[i] = c
        BY <1>t, <3>2
      <4> QED
        BY <2>2, <3>2, <4>1 DEF Durable, Accounted, Reached
    <3> QED
      BY <2>2, <3>1, <3>2 DEF Queued
  <2> QED
    BY <2>2, <2>3, <2>4, <2>5 DEF Accounted, Reached, Durable
<1>2. CASE IPCStep
  <2> DEFINE w == Head(calls).from
  <2>1. /\ calls # << >> /\ Head(calls) \in Calls /\ sup' = sup
        /\ Answers \/ Begins \/ Prepares
    BY <1>2, IPCFrame
  <2>2. w \in Tracked
    BY <2>1 DEF Calls
  <2>3. 1 \in DOMAIN calls /\ Head(calls) = calls[1]
    BY <1>t, <2>1
  <2>i. rt.gen \in {Old, Target} /\ NoCall.at = "idle" /\ Old # Target
    BY DEF TypeInv, Runtimes, NoCall, Old, Target
  <2>4. CASE Answers
    <3>1. \A i \in DOMAIN calls' : i + 1 \in DOMAIN calls /\ calls'[i] = calls[i + 1]
      BY <1>t, <2>1, <2>4 DEF Answers
    <3>2. /\ CommitIsAccepted'
          /\ rt'.phase # "none" => rt'.gen = Old
      BY <2>4, <2>i DEF Answers, Accounted, CommitIsAccepted, Reached
    <3>3. \A v \in Tracked :
            /\ proc'[v].at = "accept" => "runtime_activation_requested" \in job'.milestones
            /\ proc'[v].at = "confirm" => "runtime_activation_accepted" \in job'.milestones
      <4>1. /\ \A v \in Tracked : v # w => proc'[v] = proc[v]
            /\ proc'[w].at \in {proc[w].at, "none", "requested", "mutate"}
            /\ job'.milestones = job.milestones
        BY <2>4 DEF Answers, Own
      <4> HIDE DEF w
      <4> QED
        BY <2>2, <4>1 DEF Accounted, Reached
    <3>4. \A i \in DOMAIN calls' :
            calls'[i].action = "CONFIRM_RUNTIME_ACCEPTANCE"
            => "runtime_activation_accepted" \in job'.milestones
      BY <2>4, <3>1 DEF Answers, Accounted, Reached
    <3>5. /\ sup'.at \in {"persist", "finish"} => sup'.snapshot.gen = Old
          /\ ipc'.at = "idle"
      BY <2>1, <2>4, <2>i DEF Accounted, Answers
    <3> QED
      BY <3>2, <3>3, <3>4, <3>5 DEF Accounted, Reached
  <2>5. CASE Begins
    <3>1. rt'.gen = Old
      BY <2>5 DEF Begins, Accounted
    <3> QED
      BY <2>1, <2>5, <2>i, <3>1 DEF Begins, Accounted, CommitIsAccepted, Reached
  <2>6. CASE Prepares
    <3>1. \/ ipc'.state.gen = Old
          \/ ipc'.state.phase = "none" /\ Reached("runtime_activation_accepted")
      BY <2>3, <2>6 DEF Prepares, Accounted
    <3> QED
      BY <2>1, <2>6, <3>1 DEF Prepares, Accounted, CommitIsAccepted, Reached
  <2> QED
    BY <2>1, <2>4, <2>5, <2>6
<1>3. CASE SupervisorStep
  <2>1. Supervises
    BY <1>3, SupervisorFrame
  <2>2. rt'.gen = Target => rt.gen = Target
    BY <2>1 DEF Supervises, Accounted, Old, Target
  <2>3. CommitIsAccepted'
    BY <2>1, <2>2 DEF Supervises, Accounted, CommitIsAccepted, Reached
  <2>4. \A v \in Tracked :
          /\ proc'[v].at = "accept" => "runtime_activation_requested" \in job'.milestones
          /\ proc'[v].at = "confirm" => "runtime_activation_accepted" \in job'.milestones
    BY <1>t, <2>1 DEF Supervises, Accounted, Reached
  <2>5. \A i \in DOMAIN calls' :
          calls'[i].action = "CONFIRM_RUNTIME_ACCEPTANCE"
          => "runtime_activation_accepted" \in job'.milestones
    BY <2>1 DEF Supervises, Accounted, Reached
  <2>6. /\ rt'.phase # "none" \/ ipc'.at = "verify" => rt'.gen = Old
        /\ sup'.at \in {"persist", "finish"} => sup'.snapshot.gen = Old
        /\ ipc'.at = "persist" => ipc' = ipc
    BY <2>1 DEF Supervises, Accounted, NoCall
  <2> QED
    BY <2>1, <2>3, <2>4, <2>5, <2>6 DEF Accounted, Reached, Supervises
<1>4. CASE UNCHANGED vars
  BY <1>4 DEF vars, Accounted, CommitIsAccepted, Reached
<1> QED
  BY <1>1, <1>2, <1>3, <1>4, StepFrame

(***************************************************************************)
(* The supervisor never runs two workers, and its lifecycle record agrees  *)
(* with the one it runs, whenever it and its workers die.                  *)
(***************************************************************************)
THEOREM NeverTwoWorkers == Spec => []OneWorker
<1>1. TypeInv /\ Alone => OneWorker
  BY DEF Alone, OneWorker, Alive
<1> QED
  BY <1>1, InitInv, NextAlone, PTL DEF Spec

(***************************************************************************)
(* A generation is promoted for a job only behind the job's durable        *)
(* acceptance, and accepted only for a job that has yielded, although      *)
(* confirmations arrive late and a rollback or a handler of the IPC thread *)
(* writes back a stale reading.                                            *)
(***************************************************************************)
THEOREM PromotionIsAccepted == Spec => []CommitIsAccepted
<1>1. Accounted => CommitIsAccepted
  BY DEF Accounted
<1> QED
  BY <1>1, InitInv, NextAlone, NextAccounted, PTL DEF Spec
=============================================================================
