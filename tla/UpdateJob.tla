------------------------------- MODULE UpdateJob -------------------------------
(***************************************************************************)
(* The protected updater's execution of update jobs                        *)
(* (deploy/updater_runtime/isadoraair_updater: executor.py, jobs.py,       *)
(* daemon.py) for one release transition, with the guarded one-migration   *)
(* apply it runs in PostgreSQL (updatecenter_apply_migration_guarded.py).  *)
(*                                                                         *)
(* A job's state file is written atomically and is all that survives; the  *)
(* worker process may die between any two writes, and is started again. Its*)
(* migration records which of the migrations the updater itself applied    *)
(* (the evidence), so that a later job may continue after a failure without*)
(* ever adopting somebody else's work.  A step that reads the database and *)
(* then writes the job is one action: the write depends on nothing that    *)
(* others change.                                                          *)
(***************************************************************************)
EXTENDS Integers, Sequences, FiniteSets

CONSTANTS
    Migrations,     \* number of migrations of the transition; 1, 2, ... is their order
    Services,       \* services_requiring_restart
    NoService,      \* a value outside Services
    MaxJobs,        \* bound: jobs accepted
    MaxCrashes,     \* bound: deaths of the worker process
    MaxFaults,      \* bound: failing steps
    MaxDisturbs     \* bound: changes of the migration records by somebody else

ASSUME UpdateAssumption ==
    /\ Migrations \in Nat \ {0} /\ NoService \notin Services
    /\ {MaxJobs, MaxCrashes, MaxFaults, MaxDisturbs} \subseteq Nat

VARIABLES
    job,        \* the job state files, in the order of acceptance
    worker,     \* the worker thread and its local variables
    rows,       \* django_migrations: the row of each migration; 0 is none
    receipts,   \* the guarded applies' receipts: nonce and row
    children,   \* the guarded apply commands that run, and where each is
    next_id,    \* the next row id, and the next nonce
    head,       \* the live checkout
    restarts,   \* restarts[j][s]: how often job j restarted service s
    orphaned,   \* history: a command has outlived its worker
    crashes, faults, disturbs

vars == <<job, worker, rows, receipts, children, next_id, head, restarts, orphaned, crashes,
          faults, disturbs>>
db_vars == <<rows, receipts, next_id>>

Refs == 1 .. Migrations
Job == DOMAIN job
Terminal == {"succeeded", "failed", "manual_intervention_required"}

(***************************************************************************)
(* migration_recovery: prefix_records is the sequence of the rows that the *)
(* updater owns, which also gives successful_prefix; nonce is that of the  *)
(* in-flight migration, the next one, or 0.                                *)
(***************************************************************************)
NoEvidence == [written |-> FALSE, prefix_records |-> << >>, nonce |-> 0, finalized |-> FALSE]

NoWorker == [at |-> "none", job |-> 0, milestones |-> {}, seen |-> {}, recovery |-> NoEvidence,
             todo |-> {}, service |-> NoService, manual |-> FALSE]

Init ==
    /\ job = << >>
    /\ worker = NoWorker
    /\ rows = [m \in Refs |-> 0] /\ receipts = {} /\ next_id = 1
    /\ children = {}
    /\ head = "installed"
    /\ restarts = << >>
    /\ orphaned = FALSE
    /\ crashes = 0 /\ faults = 0 /\ disturbs = 0

\* The worker moves on; it fails, and will finalize its evidence first.
Goes(place) == worker' = [worker EXCEPT !.at = place]
Fails(is_manual) == worker' = [worker EXCEPT !.at = "finalizing", !.manual = is_manual]
Counts(is_fault) ==
    /\ is_fault => faults < MaxFaults
    /\ faults' = IF is_fault THEN faults + 1 ELSE faults

me == worker.job
Evidence(j) == job[j].evidence
Passed(m) == m \in worker.milestones

(***************************************************************************)
(* JobStore.milestone and JobStore.update for the worker's job.            *)
(***************************************************************************)
Milestone(m) == job' = [job EXCEPT ![me].milestones = @ \cup {m}, ![me].state = "running"]
WriteEvidence(e) == job' = [job EXCEPT ![me].evidence = e]
-----------------------------------------------------------------------------
(***************************************************************************)
(* JobStore.active: any state that is not terminal.                        *)
(***************************************************************************)
Active(j) == job[j].state \notin Terminal

(***************************************************************************)
(* START_UPDATE: JobStore.accept refuses while a job is active.            *)
(***************************************************************************)
accept ==
    /\ worker.at # "down"
    /\ Len(job) < MaxJobs
    /\ \A j \in Job : ~Active(j)
    /\ job' = Append(job, [state |-> "accepted", milestones |-> {}, evidence |-> NoEvidence,
                             started |-> {}, restarted |-> {}])
    /\ restarts' = Append(restarts, [s \in Services |-> 0])
    /\ worker' = [NoWorker EXCEPT !.at = "execute", !.job = Len(job) + 1]
    /\ UNCHANGED <<db_vars, children, head, orphaned, crashes, faults, disturbs>>

(***************************************************************************)
(* The worker process dies.  Its command, in a session of its own          *)
(* (start_new_session), dies with it only when the whole service is killed;*)
(* a COMMIT on its way arrives in any case.                                *)
(***************************************************************************)
Crash ==
    /\ crashes < MaxCrashes /\ worker.at \notin {"none", "down"}
    /\ crashes' = crashes + 1
    /\ worker' = [NoWorker EXCEPT !.at = "down"]
    /\ \E survives \in BOOLEAN :
          /\ children' = {c \in children : survives \/ c.at = "committing"}
          /\ orphaned' = (orphaned \/ (survives /\ \E c \in children : c.at = "starting"))
    /\ UNCHANGED <<job, db_vars, head, restarts, faults, disturbs>>

\* Mutant: only a job that never began is executed again.
recover_jobs_Mutant ==
    /\ worker.at = "down"
    /\ worker' = IF \E j \in Job : job[j].state = "accepted"
                 THEN [NoWorker EXCEPT !.at = "execute", !.job = Len(job)]
                 ELSE NoWorker
    /\ UNCHANGED <<job, db_vars, children, head, restarts, orphaned, crashes, faults, disturbs>>

(***************************************************************************)
(* recover_jobs: the one active job is executed again.                     *)
(***************************************************************************)
recover_jobs ==
    /\ worker.at = "down"
    /\ worker' = IF \E j \in Job : Active(j)
                 THEN [NoWorker EXCEPT !.at = "execute", !.job = CHOOSE j \in Job : Active(j)]
                 ELSE NoWorker
    /\ UNCHANGED <<job, db_vars, children, head, restarts, orphaned, crashes, faults, disturbs>>
-----------------------------------------------------------------------------
(***************************************************************************)
(* Reading django_migrations waits for the guarded apply's ACCESS EXCLUSIVE*)
(* lock; Observed is what is read then.                                    *)
(***************************************************************************)
Readable == \A c \in children : c.at # "committing"
ObservedRefs == {m \in Refs : rows[m] # 0}
ExactlyOwned(records) ==
    /\ ObservedRefs = 1 .. Len(records)
    /\ \A m \in 1 .. Len(records) : rows[m] = records[m]

\* Mutant: the in-flight migration is claimed without its receipt.
Claimable_Mutant(e) ==
    LET m == Len(e.prefix_records) + 1 IN e.nonce # 0 /\ m \in ObservedRefs

(***************************************************************************)
(* _receipt_proves, for the in-flight migration of evidence e.             *)
(***************************************************************************)
Claimable(e) ==
    LET m == Len(e.prefix_records) + 1 IN
    /\ e.nonce # 0 /\ m \in ObservedRefs
    /\ [nonce |-> e.nonce, row |-> rows[m]] \in receipts

(***************************************************************************)
(* _finalize_recovery_from_observation: the evidence it leaves.  Nothing   *)
(* but the recorded prefix, or that with the one in-flight migration, may  *)
(* be applied, and the recorded rows must be unchanged.                    *)
(***************************************************************************)
Finalized(e) ==
    LET k == Len(e.prefix_records)
        n == IF Claimable(e) /\ ObservedRefs = 1 .. (k + 1) THEN k + 1 ELSE k
    IN  IF /\ e.written /\ ~e.finalized
           /\ n > 0 /\ ObservedRefs = 1 .. n
           /\ \A m \in 1 .. k : rows[m] = e.prefix_records[m]
        THEN [written |-> TRUE, prefix_records |-> [m \in 1 .. n |-> rows[m]], nonce |-> 0,
              finalized |-> TRUE]
        ELSE e

\* Mutant: the finalization that follows a failed observation keeps the
\* recorded prefix and drops the in-flight migration.
FinalizeInto_Mutant(j) ==
    \/ /\ Readable
       /\ job' = [job EXCEPT ![j].evidence = Finalized(@)]
       /\ Counts(FALSE)
    \/ /\ job' = [job EXCEPT ![j].evidence = IF @.written THEN [@ EXCEPT !.nonce = 0] ELSE @]
       /\ Counts(Readable)

FinalizeInto(j) ==
    \/ /\ Readable
       /\ job' = [job EXCEPT ![j].evidence = Finalized(@)]
       /\ Counts(FALSE)
    \/ UNCHANGED job /\ Counts(Readable)    \* the observation times out or fails

(***************************************************************************)
(* The end of a failing execution: finalize, then JobStore.fail.           *)
(***************************************************************************)
Finalizing ==
    /\ worker.at = "finalizing"
    /\ FinalizeInto(me)
    /\ Goes("failing")
    /\ UNCHANGED <<db_vars, children, head, restarts, orphaned, crashes, disturbs>>

fail ==
    /\ worker.at = "failing"
    /\ job' = [job EXCEPT ![me].state =
                  IF worker.manual THEN "manual_intervention_required" ELSE "failed"]
    /\ worker' = NoWorker
    /\ UNCHANGED <<db_vars, children, head, restarts, orphaned, crashes, faults, disturbs>>

Ambiguous(ms) == "migration_started" \in ms /\ "database_verified" \notin ms

(***************************************************************************)
(* execute(): an interrupted migration is finalized and given up, anything *)
(* else starts from the top.  A new job for a host that is already at the  *)
(* target has another plan fingerprint.                                    *)
(***************************************************************************)
execute ==
    LET ms == job[me].milestones
        resumes_target == {"source_advanced", "database_verified"} \cap ms # {}
    IN
    /\ worker.at = "execute"
    /\ IF Ambiguous(ms)
       THEN UNCHANGED job /\ Fails(TRUE)
       ELSE /\ job' = [job EXCEPT ![me].state = "running"]
            /\ worker' = [worker EXCEPT
                  !.milestones = ms, !.manual = FALSE,
                  !.at = IF head = "target" /\ ~resumes_target THEN "finalizing" ELSE "probe"]
    /\ UNCHANGED <<db_vars, children, head, restarts, orphaned, crashes, faults, disturbs>>

(***************************************************************************)
(* The probe of the staged target, and the jobs whose finalization is tried*)
(* again.  With the target already live there is no transition left.       *)
(***************************************************************************)
Unfinalized ==
    {j \in Job : /\ job[j].state \in {"failed", "manual_intervention_required"}
                 /\ "migration_started" \in job[j].milestones
                 /\ Evidence(j).written /\ ~Evidence(j).finalized}

Probe ==
    /\ worker.at = "probe" /\ Readable
    /\ worker' = [worker EXCEPT
          !.at = "recovery", !.seen = ObservedRefs,
          !.todo = IF head = "installed" /\ ObservedRefs # {} THEN Unfinalized ELSE {}]
    /\ UNCHANGED <<job, db_vars, children, head, restarts, orphaned, crashes, faults, disturbs>>

Refinalize(j) ==
    /\ worker.at = "recovery" /\ j \in worker.todo
    /\ FinalizeInto(j)
    /\ worker' = [worker EXCEPT !.todo = @ \ {j}]
    /\ UNCHANGED <<db_vars, children, head, restarts, orphaned, crashes, disturbs>>

(***************************************************************************)
(* _assert_owned_prefix.                                                   *)
(***************************************************************************)
OwnershipHolds(records) == ExactlyOwned(records)

(***************************************************************************)
(* _find_partial_recovery: finalized evidence of a failed job whose prefix *)
(* is exactly what the probe saw (the one updated last; any of them here). *)
(***************************************************************************)
Candidates(applied) ==
    {j \in Job : /\ job[j].state \in {"failed", "manual_intervention_required"}
                 /\ Evidence(j).finalized
                 /\ applied = 1 .. Len(Evidence(j).prefix_records)}

_find_partial_recovery ==
    LET found == IF head = "installed" /\ worker.seen # {} THEN Candidates(worker.seen) ELSE {}
    IN
    /\ worker.at = "recovery" /\ worker.todo = {} /\ Readable
    /\ \/ /\ found = {}
          /\ worker' = [worker EXCEPT !.at = "schema", !.recovery = NoEvidence]
       \/ \E j \in found :
             IF OwnershipHolds(Evidence(j).prefix_records)
             THEN worker' = [worker EXCEPT !.at = "schema", !.recovery = Evidence(j)]
             ELSE Fails(TRUE)
    /\ UNCHANGED <<job, db_vars, children, head, restarts, orphaned, crashes, faults, disturbs>>

(***************************************************************************)
(* _validate_target_schema: what is applied already must be this job's own *)
(* work or proved by the recovery, which is probed and asserted once more. *)
(* Approval gates and preflights count as a failing step.                  *)
(***************************************************************************)
_validate_target_schema ==
    LET r == worker.recovery IN
    /\ worker.at = "schema" /\ Readable
    /\ \/ /\ Counts(FALSE)
          /\ IF r.written
             THEN IF OwnershipHolds(r.prefix_records)
                  THEN worker' = [worker EXCEPT !.at = "record", !.seen = ObservedRefs]
                  ELSE Fails(TRUE)
             ELSE IF head = "installed" /\ worker.seen # {} /\ ~Passed("migration_started")
             THEN Fails(TRUE)
             ELSE Goes("record")
       \/ Counts(TRUE) /\ \E m \in BOOLEAN : Fails(m)
    /\ UNCHANGED <<job, db_vars, children, head, restarts, orphaned, crashes, disturbs>>
-----------------------------------------------------------------------------
(***************************************************************************)
(* Migrations to run: the evidence is written before migration_started.  A *)
(* complete prefix is asserted again instead; a resumed job has nothing to *)
(* do here.                                                                *)
(***************************************************************************)
Record ==
    LET r == worker.recovery
        pending == Refs \ worker.seen
    IN
    /\ worker.at = "record" /\ Readable
    /\ IF Passed("database_verified")
       THEN UNCHANGED job /\ Goes("verified")
       ELSE IF r.written /\ ~OwnershipHolds(r.prefix_records)
       THEN UNCHANGED job /\ Fails(TRUE)
       ELSE IF pending = {}
       THEN UNCHANGED job /\ Goes("verified")
       ELSE /\ WriteEvidence([written |-> TRUE, prefix_records |-> r.prefix_records,
                              nonce |-> 0, finalized |-> FALSE])
            /\ Goes("start")
    /\ UNCHANGED <<db_vars, children, head, restarts, orphaned, crashes, faults, disturbs>>

MigrationStarted ==
    /\ worker.at = "start"
    /\ Milestone("migration_started")
    /\ Goes("migrate")
    /\ UNCHANGED <<db_vars, children, head, restarts, orphaned, crashes, faults, disturbs>>

(***************************************************************************)
(* One migration: its nonce is durable before the guarded apply starts.    *)
(***************************************************************************)
InFlight ==
    LET e == Evidence(me) IN
    /\ worker.at = "migrate" /\ Len(e.prefix_records) < Migrations
    /\ WriteEvidence([e EXCEPT !.nonce = next_id])
    /\ next_id' = next_id + 1
    /\ Goes("apply")
    /\ UNCHANGED <<rows, receipts, children, head, restarts, orphaned, crashes, faults, disturbs>>

Apply ==
    /\ worker.at = "apply"
    /\ children' = children \cup {[at |-> "starting", nonce |-> Evidence(me).nonce,
                                   owned |-> Evidence(me).prefix_records]}
    /\ Goes("applying")
    /\ UNCHANGED <<job, db_vars, head, restarts, orphaned, crashes, faults, disturbs>>

\* The worker waits for command c, and hears of its end.
WaitsFor(c) == worker.at = "applying" /\ Evidence(me).nonce = c.nonce
Hears(c, place, is_manual) ==
    worker' = IF WaitsFor(c) THEN [worker EXCEPT !.at = place, !.manual = is_manual] ELSE worker

\* Mutant: the guard looks for the requested migration only.
GuardAccepts_Mutant(owned) == Len(owned) + 1 \notin ObservedRefs

(***************************************************************************)
(* apply_guarded, under the lock: the live rows are exactly the owned ones.*)
(***************************************************************************)
GuardAccepts(owned) == ExactlyOwned(owned)

GuardedLock(c) ==
    /\ c.at = "starting" /\ Readable
    /\ IF GuardAccepts(c.owned)
       THEN /\ children' = (children \ {c}) \cup {[c EXCEPT !.at = "committing"]}
            /\ UNCHANGED worker
       ELSE children' = children \ {c} /\ Hears(c, "finalizing", TRUE)
    /\ UNCHANGED <<job, db_vars, head, restarts, orphaned, crashes, faults, disturbs>>

(***************************************************************************)
(* The schema change, the recorder row and the receipt commit together, or *)
(* not at all.  A lost lock wait may be retried, any other failure is      *)
(* manual.                                                                 *)
(***************************************************************************)
GuardedCommit(c) ==
    /\ c.at = "committing"
    /\ rows' = [rows EXCEPT ![Len(c.owned) + 1] = next_id]
    /\ receipts' = receipts \cup {[nonce |-> c.nonce, row |-> next_id]}
    /\ next_id' = next_id + 1
    /\ children' = children \ {c}
    /\ Hears(c, "observe", FALSE)
    /\ UNCHANGED <<job, head, restarts, orphaned, crashes, faults, disturbs>>

GuardedRollback(c) ==
    /\ Counts(TRUE)
    /\ children' = children \ {c}
    /\ \E m \in BOOLEAN : Hears(c, "finalizing", m)
    /\ UNCHANGED <<job, db_vars, head, restarts, orphaned, crashes, disturbs>>

(***************************************************************************)
(* CommandRunner.run times out: the command is killed, but not a COMMIT on *)
(* its way.                                                                *)
(***************************************************************************)
ApplyTimesOut(c) ==
    /\ WaitsFor(c) /\ Counts(TRUE)
    /\ children' = IF c.at = "committing" THEN children ELSE children \ {c}
    /\ Fails(TRUE)
    /\ UNCHANGED <<job, db_vars, head, restarts, orphaned, crashes, disturbs>>

(***************************************************************************)
(* Recorder and receipt are read again, and one write extends the prefix.  *)
(***************************************************************************)
Observe ==
    LET e == Evidence(me)
        m == Len(e.prefix_records) + 1
    IN
    /\ worker.at = "observe" /\ Readable
    /\ IF /\ ObservedRefs = 1 .. m
          /\ \A i \in 1 .. (m - 1) : rows[i] = e.prefix_records[i]
          /\ [nonce |-> e.nonce, row |-> rows[m]] \in receipts
       THEN /\ WriteEvidence([e EXCEPT !.prefix_records = Append(@, rows[m]), !.nonce = 0])
            /\ Goes("migrate")
       ELSE UNCHANGED job /\ Fails(TRUE)
    /\ UNCHANGED <<db_vars, children, head, restarts, orphaned, crashes, faults, disturbs>>

Verify ==
    /\ worker.at = "migrate" /\ Len(Evidence(me).prefix_records) = Migrations /\ Readable
    /\ IF ObservedRefs = Refs
       THEN WriteEvidence([Evidence(me) EXCEPT !.finalized = TRUE]) /\ Goes("verified")
       ELSE UNCHANGED job /\ Fails(TRUE)
    /\ UNCHANGED <<db_vars, children, head, restarts, orphaned, crashes, faults, disturbs>>

DatabaseVerified ==
    /\ worker.at = "verified"
    /\ Milestone("database_verified")
    /\ Goes("advance")
    /\ UNCHANGED <<db_vars, children, head, restarts, orphaned, crashes, faults, disturbs>>
-----------------------------------------------------------------------------
(***************************************************************************)
(* _advance_source, unless a resumed job finds the target live already.    *)
(***************************************************************************)
_advance_source ==
    /\ worker.at = "advance"
    /\ \/ /\ head' = "target" /\ Goes("advanced") /\ Counts(FALSE)
       \/ head = "installed" /\ UNCHANGED head /\ Counts(TRUE) /\ \E m \in BOOLEAN : Fails(m)
    /\ UNCHANGED <<job, db_vars, children, restarts, orphaned, crashes, disturbs>>

SourceAdvanced ==
    /\ worker.at = "advanced"
    /\ Milestone("source_advanced")
    /\ Goes("reconcile")
    /\ UNCHANGED <<db_vars, children, head, restarts, orphaned, crashes, faults, disturbs>>

(***************************************************************************)
(* collectstatic and the systemd units: repeatable, each with a milestone. *)
(***************************************************************************)
Reconcile ==
    /\ worker.at = "reconcile"
    /\ \/ Milestone("systemd_reconciled") /\ Goes("services") /\ Counts(FALSE)
       \/ UNCHANGED job /\ Fails(TRUE) /\ Counts(TRUE)
    /\ UNCHANGED <<db_vars, children, head, restarts, orphaned, crashes, disturbs>>

(***************************************************************************)
(* A restart that began without a durable end is not repeated.             *)
(***************************************************************************)
MayRestart(s) == s \notin job[me].started

\* Mutant: a restart that was begun counts as done.
StartService_Mutant(s) ==
    /\ worker.at = "services" /\ s \notin job[me].restarted
    /\ IF MayRestart(s)
       THEN /\ job' = [job EXCEPT ![me].started = @ \cup {s}]
            /\ worker' = [worker EXCEPT !.at = "restart", !.service = s]
       ELSE job' = [job EXCEPT ![me].restarted = @ \cup {s}] /\ UNCHANGED worker
    /\ UNCHANGED <<db_vars, children, head, restarts, orphaned, crashes, faults, disturbs>>

StartService(s) ==
    /\ worker.at = "services" /\ s \notin job[me].restarted
    /\ IF MayRestart(s)
       THEN /\ job' = [job EXCEPT ![me].started = @ \cup {s}]
            /\ worker' = [worker EXCEPT !.at = "restart", !.service = s]
       ELSE UNCHANGED job /\ Fails(TRUE)
    /\ UNCHANGED <<db_vars, children, head, restarts, orphaned, crashes, faults, disturbs>>

RestartService(s) ==
    /\ worker.at = "restart" /\ worker.service = s
    /\ \/ /\ restarts' = [restarts EXCEPT ![me][s] = @ + 1]
          /\ Goes("restarted") /\ Counts(FALSE)
       \/ UNCHANGED restarts /\ Fails(TRUE) /\ Counts(TRUE)
    /\ UNCHANGED <<job, db_vars, children, head, orphaned, crashes, disturbs>>

ServiceRestarted(s) ==
    /\ worker.at = "restarted" /\ worker.service = s
    /\ job' = [job EXCEPT ![me].restarted = @ \cup {s}]
    /\ Goes("services")
    /\ UNCHANGED <<db_vars, children, head, restarts, orphaned, crashes, faults, disturbs>>

(***************************************************************************)
(* The postflight: live source, clean schema, health; then success.        *)
(***************************************************************************)
Postflight ==
    /\ worker.at = "services" /\ job[me].restarted = Services /\ Readable
    /\ \/ /\ head = "target" /\ ObservedRefs = Refs
          /\ Goes("succeed") /\ Counts(FALSE)
       \/ ObservedRefs # Refs /\ Fails(TRUE) /\ Counts(FALSE)
       \/ Fails(TRUE) /\ Counts(TRUE)
    /\ UNCHANGED <<job, db_vars, children, head, restarts, orphaned, crashes, disturbs>>

succeed ==
    /\ worker.at = "succeed"
    /\ job' = [job EXCEPT ![me].state = "succeeded"]
    /\ worker' = NoWorker
    /\ UNCHANGED <<db_vars, children, head, restarts, orphaned, crashes, faults, disturbs>>
-----------------------------------------------------------------------------
(***************************************************************************)
(* Somebody else migrates a migration forwards or backwards; the guarded   *)
(* apply's lock keeps them out.                                            *)
(***************************************************************************)
Disturb(m) ==
    /\ disturbs < MaxDisturbs /\ Readable
    /\ disturbs' = disturbs + 1
    /\ rows' = [rows EXCEPT ![m] = IF @ = 0 THEN next_id ELSE 0]
    /\ next_id' = next_id + 1
    /\ UNCHANGED <<job, worker, receipts, children, head, restarts, orphaned, crashes, faults>>

Child(c) ==
    \/ GuardedLock(c)
    \/ GuardedCommit(c)
    \/ GuardedRollback(c)

Worker ==
    \/ execute
    \/ Probe
    \/ (\E j \in worker.todo : Refinalize(j))
    \/ _find_partial_recovery
    \/ _validate_target_schema
    \/ Record
    \/ MigrationStarted
    \/ InFlight
    \/ Apply
    \/ (\E c \in children : ApplyTimesOut(c))
    \/ Observe
    \/ Verify
    \/ DatabaseVerified
    \/ _advance_source
    \/ SourceAdvanced
    \/ Reconcile
    \/ (\E s \in Services : StartService(s) \/ RestartService(s) \/ ServiceRestarted(s))
    \/ Postflight
    \/ succeed
    \/ Finalizing
    \/ fail

Next ==
    \/ accept
    \/ Worker
    \/ (\E c \in children : Child(c))
    \/ Crash
    \/ recover_jobs
    \/ (\E m \in Refs : Disturb(m))

(***************************************************************************)
(* The worker process is restarted after it has died, its thread runs, and *)
(* a command or the database ends what it has begun.                       *)
(***************************************************************************)
Fairness ==
    /\ WF_vars(Worker)
    /\ WF_vars(recover_jobs)
    /\ WF_vars(\E c \in children : Child(c))

Spec == Init /\ [][Next]_vars /\ Fairness
-----------------------------------------------------------------------------
(***************************************************************************)
(* Evidence never claims what the updater has not applied: every row in the*)
(* evidence of any job was committed by a guarded apply, under crashes at  *)
(* every point and with somebody else migrating in between.                *)
(***************************************************************************)
OwnRow(r) == \E x \in receipts : x.row = r

EvidenceIsOwn == \A j \in Job : \A m \in DOMAIN Evidence(j).prefix_records :
                     OwnRow(Evidence(j).prefix_records[m])

(***************************************************************************)
(* "A fresh exact retry is not stranded" (execute, interrupted migration): *)
(* whenever no job is active and nobody else has touched the records,      *)
(* whatever is applied on a host still at the installed source is proved by*)
(* the evidence of some failed job, as it is or as the retry finalizes it. *)
(* A command that outlives its worker is the exception: it may commit after*)
(* the evidence was finalized.                                             *)
(***************************************************************************)
RetryIsNotStranded ==
    /\ \A j \in Job : ~Active(j)
    /\ children = {} /\ ~orphaned /\ disturbs = 0 /\ head = "installed" /\ ObservedRefs # {}
    => \/ \E j \in Candidates(ObservedRefs) : ExactlyOwned(Evidence(j).prefix_records)
       \/ \E j \in Unfinalized : Finalized(Evidence(j)).finalized

(***************************************************************************)
(* What "succeeded" promises: the target source is live, each service was  *)
(* restarted exactly once by this job, and, unless somebody else interfered*)
(* every migration of the transition is applied, by the updater.  No job   *)
(* restarts a service twice, however often the worker dies around it.      *)
(***************************************************************************)
SuccessIsComplete ==
    \A j \in Job :
        /\ \A s \in Services : restarts[j][s] <= 1
        /\ job[j].state = "succeeded" =>
              /\ head = "target"
              /\ \A s \in Services : restarts[j][s] = 1
              /\ disturbs = 0 => \A m \in Refs : OwnRow(rows[m])

(***************************************************************************)
(* Every accepted job ends although the worker may die repeatedly.         *)
(***************************************************************************)
JobsEnd == \A j \in 1 .. MaxJobs :
               (j \in Job /\ Active(j)) ~> (j \in Job /\ ~Active(j))

(***************************************************************************)
(* The jobs together keep the contract of one update.                      *)
(***************************************************************************)
AppliedBy == [m \in Refs |-> IF rows[m] = 0 THEN "nobody"
                             ELSE IF OwnRow(rows[m]) THEN "updater" ELSE "outside"]

Contract == INSTANCE UpdateContract
    WITH applied <- AppliedBy,
         restarted <- {s \in Services : \E j \in Job : restarts[j][s] > 0},
         disturbances <- disturbs

ImplementsContract == Contract!Spec
=============================================================================
