---------------------------- MODULE UpdateJobProofs ----------------------------
(***************************************************************************)
(* The protected updater, for every number of migrations, services, jobs,  *)
(* crashes, failing steps and changes by somebody else: what its jobs do   *)
(* together is an update in the sense of UpdateContract, and their evidence*)
(* is neither more nor less than what they have applied.                   *)
(***************************************************************************)
EXTENDS UpdateJob, TLAPS

Evidences == [written : BOOLEAN, prefix_records : Seq(Nat), nonce : Nat, finalized : BOOLEAN]

States == Terminal \cup {"accepted", "running"}
Milestones == {"migration_started", "database_verified", "source_advanced", "systemd_reconciled"}
Places == {"none", "down", "execute", "probe", "recovery", "schema", "record", "start", "migrate",
           "apply", "applying", "observe", "verified", "advance", "advanced", "reconcile",
           "services", "restart", "restarted", "succeed", "finalizing", "failing"}

JobRecords == [state : States, milestones : SUBSET Milestones, evidence : Evidences,
               started : SUBSET Services, restarted : SUBSET Services]

Workers == [at : Places, job : Nat, milestones : SUBSET Milestones, seen : SUBSET Refs,
            recovery : Evidences, todo : SUBSET Nat, service : Services \cup {NoService},
            manual : BOOLEAN]

Commands == [at : {"starting", "committing"}, nonce : Nat, owned : Seq(Nat)]

Idle == {"none", "down"}

(***************************************************************************)
(* The shape of the state.                                                 *)
(***************************************************************************)
TypeInv ==
    /\ job \in Seq(JobRecords)
    /\ worker \in Workers
    /\ worker.at \notin Idle => me \in Job
    /\ worker.todo \subseteq Job
    /\ rows \in [Refs -> Nat]
    /\ receipts \subseteq [nonce : Nat, row : Nat]
    /\ children \subseteq Commands
    /\ next_id \in Nat \ {0}
    /\ head \in {"installed", "target"}
    /\ restarts \in Seq([Services -> Nat]) /\ Len(restarts) = Len(job)
    /\ disturbs \in Nat

(***************************************************************************)
(* Whatever is recorded or passed on as the updater's own has a receipt.   *)
(***************************************************************************)
OwnRecords(records) == \A m \in DOMAIN records : OwnRow(records[m])

Owned ==
    /\ EvidenceIsOwn
    /\ OwnRecords(worker.recovery.prefix_records)
    /\ \A c \in children : OwnRecords(c.owned)

(***************************************************************************)
(* The lock on the migration records: the one command that holds it has    *)
(* seen its owned rows under it, and there is a migration left to apply.   *)
(***************************************************************************)
Locked ==
    /\ \A c \in children :
         /\ Len(c.owned) < Migrations
         /\ c.at = "committing" =>
               ExactlyOwned(c.owned) /\ \A d \in children : d.at = "committing" => d = c
    /\ worker.at = "apply" => Len(Evidence(me).prefix_records) < Migrations

(***************************************************************************)
(* As long as nobody else interferes, what is applied is the updater's, and*)
(* a schema that was once found complete stays complete.                   *)
(***************************************************************************)
Complete == ObservedRefs = Refs

Undisturbed ==
    disturbs = 0 =>
        /\ \A m \in ObservedRefs : OwnRow(rows[m])
        /\ worker.seen \subseteq ObservedRefs
        /\ \/ Complete
           \/ /\ \A j \in Job : "database_verified" \notin job[j].milestones
              /\ ~Passed("database_verified")
              /\ worker.at \notin {"verified", "advance"}
              /\ head = "installed"

(***************************************************************************)
(* Behind the advance of the source, the source is the target's.           *)
(***************************************************************************)
BehindAdvance == {"advanced", "reconcile", "services", "restart", "restarted", "succeed"}

Advanced == worker.at \in BehindAdvance => head = "target"

(***************************************************************************)
(* The durable markers of a restart bound how often it has happened.       *)
(***************************************************************************)
RestartsAreMarked ==
    /\ \A j \in Job : \A s \in Services :
         /\ s \notin job[j].started => restarts[j][s] = 0
         /\ s \in job[j].restarted => restarts[j][s] = 1
         /\ restarts[j][s] <= 1
    /\ worker.at \in {"restart", "restarted"} =>
         /\ worker.service \in job[me].started
         /\ restarts[me][worker.service] = IF worker.at = "restart" THEN 0 ELSE 1
    /\ worker.at = "succeed" => job[me].restarted = Services
    /\ \A j \in Job : job[j].state = "succeeded" =>
         head = "target" /\ job[j].restarted = Services

(***************************************************************************)
(* What the worker holds in its variables is what the job file says, and   *)
(* its evidence is open while it migrates.                                 *)
(***************************************************************************)
Preparing == {"probe", "recovery", "schema", "record"}
Migrating == {"migrate", "apply", "applying", "observe"}
Prepared == {"start", "migrate", "apply"}

OpenEvidence(e) == e.written /\ ~e.finalized

Consistent ==
    /\ \A j \in Job : Evidence(j).finalized => Evidence(j).written
    /\ worker.recovery.written \/ worker.recovery.prefix_records = << >>
    /\ worker.at \notin Idle => Active(me)
    /\ worker.at \in Preparing =>
         worker.milestones = job[me].milestones /\ ~Ambiguous(worker.milestones)
    /\ worker.at \in Migrating \cup {"start"} => OpenEvidence(Evidence(me))
    /\ worker.at \in Migrating => "migration_started" \in job[me].milestones
    /\ worker.at = "apply" => Evidence(me).nonce # 0
    /\ \A c \in children : c.nonce # 0

(***************************************************************************)
(* As long as nobody else interferes and no command outlives its worker:   *)
(* from its probe on, a worker knows what is applied; a command belongs to *)
(* the worker that waits for it, or commits behind the back of one that has*)
(* not looked yet; and while it does, its job's evidence waits for it.     *)
(***************************************************************************)
Blind == {"none", "down", "execute", "probe", "finalizing", "failing"}

Calm == disturbs = 0 /\ ~orphaned

\* Command c was started from the evidence of job j, which is still open.
IsFor(c, j) ==
    /\ OpenEvidence(Evidence(j))
    /\ Evidence(j).nonce = c.nonce /\ Evidence(j).prefix_records = c.owned
    /\ "migration_started" \in job[j].milestones

OwnCommands ==
    Calm =>
      /\ \A c \in children :
           /\ worker.at = "applying" \/ (c.at = "committing" /\ worker.at \in Blind)
           /\ worker.at = "applying" => IsFor(c, me)
           /\ \E j \in Job : IsFor(c, j)
      /\ \A c, d \in children : c = d

Knows ==
    Calm =>
      /\ worker.at \in {"recovery", "schema", "record"} => worker.seen = ObservedRefs
      /\ worker.at = "record" /\ ~Passed("database_verified") /\ ObservedRefs # Refs =>
            ExactlyOwned(worker.recovery.prefix_records)
      /\ worker.at \in Prepared => ExactlyOwned(Evidence(me).prefix_records)

(***************************************************************************)
(* The evidence of job j proves what is applied, or can be made to.        *)
(***************************************************************************)
Proves(j) ==
    LET e == Evidence(j)
        k == Len(e.prefix_records)
    IN  /\ e.written /\ "migration_started" \in job[j].milestones
        /\ \/ ExactlyOwned(e.prefix_records)
           \/ /\ ~e.finalized /\ Claimable(e) /\ ObservedRefs = 1 .. (k + 1)
              /\ \A m \in 1 .. k : rows[m] = e.prefix_records[m]

Accounts == Calm /\ ObservedRefs # {} => \E j \in Job : Proves(j)

-----------------------------------------------------------------------------
(***************************************************************************)
(* Writing a job's record changes that record only.                        *)
(***************************************************************************)
LEMMA JobWritten ==
    ASSUME TypeInv, NEW j \in Job, NEW r \in JobRecords, job' = [job EXCEPT ![j] = r]
    PROVE  /\ job' \in Seq(JobRecords) /\ Len(job') = Len(job) /\ Job' = Job
           /\ job'[j] = r /\ \A i \in Job : i # j => job'[i] = job[i]
<1>1. job \in Seq(JobRecords)
  BY DEF TypeInv
<1> QED
  BY <1>1 DEF Job

(***************************************************************************)
(* The evidence that a finalization leaves is evidence.                    *)
(***************************************************************************)
LEMMA FinalizedType ==
    ASSUME TypeInv, NEW e \in Evidences
    PROVE  Finalized(e) \in Evidences
<1> DEFINE k == Len(e.prefix_records)
           n == IF Claimable(e) /\ ObservedRefs = 1 .. (k + 1) THEN k + 1 ELSE k
<1>1. k \in Nat /\ n \in Nat
  BY DEF Evidences
<1>2. ObservedRefs \subseteq Refs /\ rows \in [Refs -> Nat]
  BY DEF TypeInv, ObservedRefs
<1> HIDE DEF n
<1>3. ObservedRefs = 1 .. n => [m \in 1 .. n |-> rows[m]] \in Seq(Nat)
  BY <1>1, <1>2
<1>4. CASE Finalized(e) = e
  BY <1>4
<1>5. CASE Finalized(e) # e
  <2>1. /\ ObservedRefs = 1 .. n
        /\ Finalized(e) = [written |-> TRUE, prefix_records |-> [m \in 1 .. n |-> rows[m]],
                            nonce |-> 0, finalized |-> TRUE]
    BY <1>5 DEF Finalized, n
  <2> QED
    BY <2>1, <1>3 DEF Evidences
<1> QED
  BY <1>4, <1>5

(***************************************************************************)
(* The values for no evidence and no worker have their types.              *)
(***************************************************************************)
LEMMA NoneType == NoEvidence \in Evidences /\ NoWorker \in Workers
<1>1. NoEvidence \in Evidences
  BY DEF NoEvidence, Evidences
<1> QED
  BY <1>1 DEF NoWorker, Workers, Places

(***************************************************************************)
(* The initial state has its type.                                         *)
(***************************************************************************)
LEMMA InitType == Init => TypeInv
<1> SUFFICES ASSUME Init PROVE TypeInv
  OBVIOUS
<1>2. NoWorker \in Workers
  BY NoneType
<1>3. /\ job = << >> /\ restarts = << >>
      /\ worker = NoWorker /\ worker.at = "none" /\ worker.todo = {}
  BY DEF Init, NoWorker
<1>4. /\ rows \in [Refs -> Nat] /\ receipts = {} /\ next_id = 1 /\ children = {}
      /\ head = "installed" /\ disturbs = 0
  BY DEF Init, Refs
<1> QED
  BY <1>2, <1>3, <1>4 DEF TypeInv, Idle

(***************************************************************************)
(* Every step keeps the shape of the state.                                *)
(***************************************************************************)
LEMMA NextType == TypeInv /\ [Next]_vars => TypeInv'
<1> SUFFICES ASSUME TypeInv, [Next]_vars PROVE TypeInv'
  OBVIOUS
<1> USE UpdateAssumption
<1>e. NoEvidence \in Evidences /\ NoWorker \in Workers
  BY NoneType
<1>j. \A j \in Job : job[j] \in JobRecords /\ Evidence(j) \in Evidences /\ j \in Nat
  <2>1. \A j \in Job : job[j] \in JobRecords /\ j \in Nat
    BY DEF TypeInv, Job
  <2> QED
    BY <2>1 DEF JobRecords, Evidence
<1>w. ASSUME NEW j \in Job, NEW r \in JobRecords, job' = [job EXCEPT ![j] = r]
      PROVE  job' \in Seq(JobRecords) /\ Len(job') = Len(job)
  BY <1>w, JobWritten
<1>v. ASSUME NEW j \in Job, NEW e \in Evidences, job' = [job EXCEPT ![j].evidence = e]
      PROVE  job' \in Seq(JobRecords) /\ Len(job') = Len(job)
  <2>1. [job[j] EXCEPT !.evidence = e] \in JobRecords
    BY <1>j DEF JobRecords
  <2> QED
    BY <1>v, <1>w, <2>1
<1>m. ASSUME NEW m \in Milestones, me \in Job, Milestone(m)
      PROVE  job' \in Seq(JobRecords) /\ Len(job') = Len(job)
  <2>1. [job[me] EXCEPT !.milestones = @ \cup {m}, !.state = "running"] \in JobRecords
    BY <1>j, <1>m DEF JobRecords, States
  <2>2. job' = [job EXCEPT ![me] = [job[me] EXCEPT !.milestones = @ \cup {m}, !.state = "running"]]
    BY <1>m, <1>j DEF Milestone, JobRecords, TypeInv
  <2> QED
    BY <1>m, <1>w, <2>1, <2>2
<1>1. CASE accept
  <2>1. job' \in Seq(JobRecords) /\ Len(job') = Len(job) + 1
    <3>1. [state |-> "accepted", milestones |-> {}, evidence |-> NoEvidence,
           started |-> {}, restarted |-> {}] \in JobRecords
      BY <1>e DEF JobRecords, States
    <3> QED
      BY <1>1, <3>1 DEF accept, TypeInv, Job
  <2>2. restarts' \in Seq([Services -> Nat]) /\ Len(restarts') = Len(restarts) + 1
    BY <1>1 DEF accept, TypeInv
  <2>3. worker' \in Workers /\ worker'.job = Len(job) + 1 /\ worker'.todo = {}
    <3>1. Len(job) + 1 \in Nat
      BY DEF TypeInv
    <3> QED
      BY <1>1, <1>e, <3>1 DEF accept, Workers, NoWorker, Places
  <2> QED
    BY <1>1, <2>1, <2>2, <2>3 DEF accept, TypeInv, db_vars, Job, me
<1>2. CASE Crash
  <2>1. worker' \in Workers /\ worker'.at = "down" /\ worker'.todo = {}
    BY <1>2, <1>e DEF Crash, Workers, NoWorker, Places
  <2> QED
    BY <1>2, <2>1 DEF Crash, TypeInv, db_vars, Job, Idle, me
<1>3. CASE recover_jobs
  <2>2. worker' \in Workers /\ worker'.todo = {} /\ (worker'.at \notin Idle => worker'.job \in Job)
    <3>1. CASE \E j \in Job : Active(j)
      <4> DEFINE a == CHOOSE j \in Job : Active(j)
      <4>1. a \in Job /\ a \in Nat
        BY <3>1, <1>j
      <4>2. worker' = [NoWorker EXCEPT !.at = "execute", !.job = a]
        BY <1>3, <3>1 DEF recover_jobs
      <4> HIDE DEF a
      <4> QED
        BY <4>1, <4>2, <1>e DEF Workers, NoWorker, Places
    <3>2. CASE ~ \E j \in Job : Active(j)
      BY <1>3, <3>2, <1>e DEF recover_jobs, Workers, NoWorker, Idle
    <3> QED
      BY <3>1, <3>2
  <2> QED
    BY <1>3, <2>2 DEF recover_jobs, TypeInv, db_vars, Job, me
<1>4. CASE \E m \in Refs : Disturb(m)
  BY <1>4 DEF Disturb, TypeInv, Job, me
<1>5. CASE UNCHANGED vars
  BY <1>5 DEF vars, TypeInv, Job, me
<1>h. ASSUME worker' \in Workers, worker'.job = worker.job, worker'.todo \subseteq Job,
             worker.at \notin Idle, job' \in Seq(JobRecords) /\ Len(job') = Len(job),
             UNCHANGED <<db_vars, children, head, restarts, disturbs>>
      PROVE  TypeInv'
  BY <1>h DEF TypeInv, db_vars, Job, me
<1>g. ASSUME NEW p \in Places, worker' = [worker EXCEPT !.at = p]
      PROVE  worker' \in Workers /\ worker'.job = worker.job /\ worker'.todo \subseteq Job
  BY <1>g DEF TypeInv, Workers
<1>f. ASSUME NEW b \in BOOLEAN, Fails(b)
      PROVE  worker' \in Workers /\ worker'.job = worker.job /\ worker'.todo \subseteq Job
  BY <1>f DEF TypeInv, Workers, Fails, Places
<1>6. CASE \E c \in children : Child(c)
  <2> PICK c \in children : Child(c)
    BY <1>6
  <2>1. c \in Commands
    BY DEF TypeInv
  <2>2. ASSUME NEW p \in Places, NEW b \in BOOLEAN, Hears(c, p, b)
        PROVE  worker' \in Workers /\ worker'.job = worker.job /\ worker'.todo = worker.todo
               /\ (worker.at \in Idle => worker' = worker)
    BY <2>2 DEF Hears, TypeInv, Workers, WaitsFor, Idle
  <2>p. {"finalizing", "observe"} \subseteq Places
    BY DEF Places
  <2>3. CASE GuardedLock(c)
    <3>1. children' \subseteq Commands
      <4>1. [c EXCEPT !.at = "committing"] \in Commands
        BY <2>1 DEF Commands
      <4> QED
        BY <2>3, <4>1 DEF GuardedLock, TypeInv
    <3>2. CASE UNCHANGED worker
      BY <2>3, <3>1, <3>2 DEF GuardedLock, TypeInv, db_vars, Job, me
    <3>3. CASE Hears(c, "finalizing", TRUE)
      BY <2>3, <3>1, <3>3, <2>2, <2>p DEF GuardedLock, TypeInv, db_vars, Job, me
    <3> QED
      BY <2>3, <3>2, <3>3 DEF GuardedLock
  <2>4. CASE GuardedCommit(c)
    <3>1. Hears(c, "observe", FALSE)
      BY <2>4 DEF GuardedCommit
    <3>2. receipts' \subseteq [nonce : Nat, row : Nat] /\ next_id' \in Nat \ {0}
      BY <2>4, <2>1 DEF GuardedCommit, TypeInv, Commands
    <3>3. rows' \in [Refs -> Nat]
      BY <2>4 DEF GuardedCommit, TypeInv
    <3> QED
      BY <2>4, <3>1, <3>2, <3>3, <2>2, <2>p DEF GuardedCommit, TypeInv, Job, me
  <2>5. CASE GuardedRollback(c)
    BY <2>5, <2>2, <2>p DEF GuardedRollback, TypeInv, db_vars, Job, me
  <2> QED
    BY <2>3, <2>4, <2>5 DEF Child
<1>7. CASE Worker
  <2> USE DEF Places
  <2>b. ASSUME worker.at \notin Idle
        PROVE  me \in Job /\ job \in Seq(JobRecords) /\ worker \in Workers /\ me \in Nat
    BY <2>b, <1>j DEF TypeInv
  <2>f. ASSUME NEW j \in Job, FinalizeInto(j)
        PROVE  job' \in Seq(JobRecords) /\ Len(job') = Len(job)
    <3>1. CASE UNCHANGED job
      BY <3>1 DEF TypeInv
    <3>2. CASE job' = [job EXCEPT ![j].evidence = Finalized(@)]
      <4>1. Finalized(Evidence(j)) \in Evidences
        BY <1>j, FinalizedType
      <4>2. job' = [job EXCEPT ![j].evidence = Finalized(Evidence(j))]
        BY <3>2 DEF Evidence
      <4> QED
        BY <4>1, <4>2, <1>v
    <3> QED
      BY <2>f, <3>1, <3>2 DEF FinalizeInto
  <2>1. CASE execute
    <3>1. worker.at \notin Idle
      BY <2>1 DEF execute, Idle
    <3>2. job' \in Seq(JobRecords) /\ Len(job') = Len(job)
      <4>1. [job[me] EXCEPT !.state = "running"] \in JobRecords
        BY <3>1, <2>b, <1>j DEF JobRecords, States
      <4> QED
        BY <2>1, <3>1, <4>1, <2>b, <1>w DEF execute
    <3>3. worker' \in Workers /\ worker'.job = worker.job /\ worker'.todo \subseteq Job
      <4>1. CASE Fails(TRUE)
        BY <4>1, <1>f
      <4>2. CASE ~Fails(TRUE)
        <5>1. job[me].milestones \subseteq Milestones
          BY <3>1, <2>b, <1>j DEF JobRecords
        <5>2. PICK p \in Places : worker' = [worker EXCEPT !.milestones = job[me].milestones,
                                                       !.manual = FALSE, !.at = p]
          BY <2>1, <4>2 DEF execute
        <5>3. worker'.job = worker.job /\ worker'.todo = worker.todo
          BY <5>2, <3>1, <2>b DEF Workers
        <5>4. worker' \in Workers
          BY <5>1, <5>2, <3>1, <2>b DEF Workers
        <5> QED
          BY <5>3, <5>4 DEF TypeInv
      <4> QED
        BY <4>1, <4>2
    <3> QED
      BY <2>1, <3>1, <3>2, <3>3, <1>h DEF execute
  <2>2. CASE Probe
    <3>1. worker.at \notin Idle
      BY <2>2 DEF Probe, Idle
    <3>2. job' \in Seq(JobRecords) /\ Len(job') = Len(job)
      BY <2>2 DEF Probe, TypeInv
    <3>3. worker' \in Workers /\ worker'.job = worker.job /\ worker'.todo \subseteq Job
      <4>1. Unfinalized \subseteq Job /\ Job \subseteq Nat /\ ObservedRefs \subseteq Refs
        BY <1>j DEF Unfinalized, ObservedRefs
      <4> QED
        BY <2>2, <4>1, <3>1, <2>b DEF Probe, Workers
    <3> QED
      BY <2>2, <3>1, <3>2, <3>3, <1>h DEF Probe
  <2>3. CASE \E j \in worker.todo : Refinalize(j)
    <3>1. PICK j \in worker.todo : Refinalize(j)
      BY <2>3
    <3>2. worker.at \notin Idle /\ j \in Job
      BY <3>1 DEF Refinalize, Idle, TypeInv
    <3>3. job' \in Seq(JobRecords) /\ Len(job') = Len(job)
      BY <3>1, <3>2, <2>f DEF Refinalize
    <3>4. worker' \in Workers /\ worker'.job = worker.job /\ worker'.todo \subseteq Job
      BY <3>1, <3>2, <2>b DEF Refinalize, Workers, TypeInv
    <3> QED
      BY <3>1, <3>2, <3>3, <3>4, <1>h DEF Refinalize
  <2>4. CASE _find_partial_recovery
    <3>1. worker.at \notin Idle
      BY <2>4 DEF _find_partial_recovery, Idle
    <3>2. job' \in Seq(JobRecords) /\ Len(job') = Len(job)
      BY <2>4 DEF _find_partial_recovery, TypeInv
    <3>3. worker' \in Workers /\ worker'.job = worker.job /\ worker'.todo \subseteq Job
      <4>1. CASE Fails(TRUE)
        BY <4>1, <1>f
      <4>2. CASE ~Fails(TRUE)
        <5>1. \E e \in Evidences : worker' = [worker EXCEPT !.at = "schema", !.recovery = e]
          BY <2>4, <4>2, <1>e, <1>j DEF _find_partial_recovery, Candidates
        <5> QED
          BY <5>1, <3>1, <2>b DEF TypeInv, Workers
      <4> QED
        BY <4>1, <4>2
    <3> QED
      BY <2>4, <3>1, <3>2, <3>3, <1>h DEF _find_partial_recovery
  <2>5. CASE _validate_target_schema
    <3>1. worker.at \notin Idle
      BY <2>5 DEF _validate_target_schema, Idle
    <3>2. job' \in Seq(JobRecords) /\ Len(job') = Len(job)
      BY <2>5 DEF _validate_target_schema, TypeInv
    <3>3. worker' \in Workers /\ worker'.job = worker.job /\ worker'.todo \subseteq Job
      <4>1. CASE worker' = [worker EXCEPT !.at = "record", !.seen = ObservedRefs]
        BY <4>1, <3>1, <2>b DEF TypeInv, Workers, ObservedRefs
      <4> QED
        BY <2>5, <4>1, <1>f, <1>g DEF _validate_target_schema, Goes
    <3> QED
      BY <2>5, <3>1, <3>2, <3>3, <1>h DEF _validate_target_schema
  <2>6. CASE Record
    <3>1. worker.at \notin Idle
      BY <2>6 DEF Record, Idle
    <3>2. job' \in Seq(JobRecords) /\ Len(job') = Len(job)
      <4> DEFINE e == [written |-> TRUE, prefix_records |-> worker.recovery.prefix_records,
                       nonce |-> 0, finalized |-> FALSE]
      <4>1. e \in Evidences
        BY <3>1, <2>b DEF Workers, Evidences
      <4>2. CASE WriteEvidence(e)
        BY <4>1, <4>2, <3>1, <2>b, <1>v DEF WriteEvidence
      <4> HIDE DEF e
      <4>3. CASE UNCHANGED job
        BY <4>3 DEF TypeInv
      <4> QED
        BY <2>6, <4>2, <4>3 DEF Record, e
    <3>3. worker' \in Workers /\ worker'.job = worker.job /\ worker'.todo \subseteq Job
      BY <2>6, <1>g, <1>f DEF Record, Goes
    <3> QED
      BY <2>6, <3>1, <3>2, <3>3, <1>h DEF Record
  <2>7. CASE MigrationStarted
    <3>1. worker.at \notin Idle
      BY <2>7 DEF MigrationStarted, Idle
    <3>2. job' \in Seq(JobRecords) /\ Len(job') = Len(job)
      BY <2>7, <3>1, <2>b, <1>m DEF MigrationStarted, Milestones
    <3>3. worker' \in Workers /\ worker'.job = worker.job /\ worker'.todo \subseteq Job
      BY <2>7, <1>g DEF MigrationStarted, Goes
    <3> QED
      BY <2>7, <3>1, <3>2, <3>3, <1>h DEF MigrationStarted
  <2>8. CASE InFlight
    <3>1. worker.at \notin Idle
      BY <2>8 DEF InFlight, Idle
    <3>2. job' \in Seq(JobRecords) /\ Len(job') = Len(job)
      <4>1. [Evidence(me) EXCEPT !.nonce = next_id] \in Evidences
        BY <3>1, <2>b, <1>j DEF Evidences, TypeInv
      <4> QED
        BY <2>8, <4>1, <3>1, <2>b, <1>v DEF InFlight, WriteEvidence
    <3>3. worker' \in Workers /\ worker'.job = worker.job /\ worker'.todo \subseteq Job
      BY <2>8, <1>g DEF InFlight, Goes
    <3> QED
      BY <2>8, <3>1, <3>2, <3>3 DEF InFlight, TypeInv, Job, me
  <2>9. CASE Apply
    <3>1. worker.at \notin Idle
      BY <2>9 DEF Apply, Idle
    <3>2. job' \in Seq(JobRecords) /\ Len(job') = Len(job)
      BY <2>9 DEF Apply, TypeInv
    <3>3. worker' \in Workers /\ worker'.job = worker.job /\ worker'.todo \subseteq Job
      BY <2>9, <1>g DEF Apply, Goes
    <3>4. children' \subseteq Commands
      <4>1. Evidence(me) \in Evidences
        BY <3>1, <2>b, <1>j
      <4>2. [at |-> "starting", nonce |-> Evidence(me).nonce,
             owned |-> Evidence(me).prefix_records] \in Commands
        BY <4>1 DEF Evidences, Commands
      <4> QED
        BY <2>9, <4>2 DEF Apply, TypeInv
    <3> QED
      BY <2>9, <3>1, <3>2, <3>3, <3>4 DEF Apply, TypeInv, Job, me, db_vars
  <2>10. CASE \E c \in children : ApplyTimesOut(c)
    <3>1. PICK c \in children : ApplyTimesOut(c)
      BY <2>10
    <3>2. worker.at \notin Idle
      BY <3>1 DEF ApplyTimesOut, WaitsFor, Idle
    <3>3. worker' \in Workers /\ worker'.job = worker.job /\ worker'.todo \subseteq Job
      BY <3>1, <1>f DEF ApplyTimesOut
    <3> QED
      BY <3>1, <3>2, <3>3 DEF ApplyTimesOut, TypeInv, Job, me, db_vars
  <2>11. CASE Observe
    <3>1. worker.at \notin Idle
      BY <2>11 DEF Observe, Idle
    <3>2. job' \in Seq(JobRecords) /\ Len(job') = Len(job)
      <4> DEFINE e == Evidence(me)
                 m == Len(e.prefix_records) + 1
                 f == [e EXCEPT !.prefix_records = Append(@, rows[m]), !.nonce = 0]
      <4>1. e \in Evidences
        BY <3>1, <2>b, <1>j
      <4>2. CASE WriteEvidence(f) /\ ObservedRefs = 1 .. m
        <5>1. m \in 1 .. m
          BY <4>1 DEF Evidences
        <5>2. rows[m] \in Nat
          BY <5>1, <4>2 DEF ObservedRefs, TypeInv
        <5> HIDE DEF e, m
        <5>4. Append(e.prefix_records, rows[m]) \in Seq(Nat)
          BY <4>1, <5>2 DEF Evidences
        <5>3. f \in Evidences
          BY <4>1, <5>4 DEF Evidences
        <5> QED
          BY <4>2, <5>3, <3>1, <2>b, <1>v DEF WriteEvidence
      <4> HIDE DEF e, f, m
      <4>3. CASE UNCHANGED job
        BY <4>3 DEF TypeInv
      <4> QED
        BY <2>11, <4>2, <4>3 DEF Observe, e, f, m
    <3>3. worker' \in Workers /\ worker'.job = worker.job /\ worker'.todo \subseteq Job
      BY <2>11, <1>g, <1>f DEF Observe, Goes
    <3> QED
      BY <2>11, <3>1, <3>2, <3>3, <1>h DEF Observe
  <2>12. CASE Verify
    <3>1. worker.at \notin Idle
      BY <2>12 DEF Verify, Idle
    <3>2. job' \in Seq(JobRecords) /\ Len(job') = Len(job)
      <4>1. [Evidence(me) EXCEPT !.finalized = TRUE] \in Evidences
        BY <3>1, <2>b, <1>j DEF Evidences
      <4>2. CASE WriteEvidence([Evidence(me) EXCEPT !.finalized = TRUE])
        BY <4>1, <4>2, <3>1, <2>b, <1>v DEF WriteEvidence
      <4>3. CASE UNCHANGED job
        BY <4>3 DEF TypeInv
      <4> QED
        BY <2>12, <4>2, <4>3 DEF Verify
    <3>3. worker' \in Workers /\ worker'.job = worker.job /\ worker'.todo \subseteq Job
      BY <2>12, <1>g, <1>f DEF Verify, Goes
    <3> QED
      BY <2>12, <3>1, <3>2, <3>3, <1>h DEF Verify
  <2>13. CASE DatabaseVerified
    <3>1. worker.at \notin Idle
      BY <2>13 DEF DatabaseVerified, Idle
    <3>2. job' \in Seq(JobRecords) /\ Len(job') = Len(job)
      BY <2>13, <3>1, <2>b, <1>m DEF DatabaseVerified, Milestones
    <3>3. worker' \in Workers /\ worker'.job = worker.job /\ worker'.todo \subseteq Job
      BY <2>13, <1>g DEF DatabaseVerified, Goes
    <3> QED
      BY <2>13, <3>1, <3>2, <3>3, <1>h DEF DatabaseVerified
  <2>14. CASE _advance_source
    <3>1. worker.at \notin Idle
      BY <2>14 DEF _advance_source, Idle
    <3>2. job' \in Seq(JobRecords) /\ Len(job') = Len(job)
      BY <2>14 DEF _advance_source, TypeInv
    <3>3. worker' \in Workers /\ worker'.job = worker.job /\ worker'.todo \subseteq Job
      BY <2>14, <1>g, <1>f DEF _advance_source, Goes
    <3> QED
      BY <2>14, <3>1, <3>2, <3>3 DEF _advance_source, TypeInv, Job, me, db_vars
  <2>15. CASE SourceAdvanced
    <3>1. worker.at \notin Idle
      BY <2>15 DEF SourceAdvanced, Idle
    <3>2. job' \in Seq(JobRecords) /\ Len(job') = Len(job)
      BY <2>15, <3>1, <2>b, <1>m DEF SourceAdvanced, Milestones
    <3>3. worker' \in Workers /\ worker'.job = worker.job /\ worker'.todo \subseteq Job
      BY <2>15, <1>g DEF SourceAdvanced, Goes
    <3> QED
      BY <2>15, <3>1, <3>2, <3>3, <1>h DEF SourceAdvanced
  <2>16. CASE Reconcile
    <3>1. worker.at \notin Idle
      BY <2>16 DEF Reconcile, Idle
    <3>2. job' \in Seq(JobRecords) /\ Len(job') = Len(job)
      BY <2>16, <3>1, <2>b, <1>m DEF Reconcile, Milestones, TypeInv
    <3>3. worker' \in Workers /\ worker'.job = worker.job /\ worker'.todo \subseteq Job
      BY <2>16, <1>g, <1>f DEF Reconcile, Goes
    <3> QED
      BY <2>16, <3>1, <3>2, <3>3, <1>h DEF Reconcile
  <2>17. CASE \E s \in Services : StartService(s) \/ RestartService(s) \/ ServiceRestarted(s)
    <3> PICK s \in Services : StartService(s) \/ RestartService(s) \/ ServiceRestarted(s)
      BY <2>17
    <3>1. worker.at \notin Idle
      BY DEF StartService, RestartService, ServiceRestarted, Idle
    <3>2. CASE StartService(s)
      <4>1. [job[me] EXCEPT !.started = @ \cup {s}] \in JobRecords
        BY <3>1, <2>b, <1>j DEF JobRecords
      <4>2. job' \in Seq(JobRecords) /\ Len(job') = Len(job)
        BY <3>2, <4>1, <3>1, <2>b, <1>w DEF StartService, TypeInv
      <4>3. worker' \in Workers /\ worker'.job = worker.job /\ worker'.todo \subseteq Job
        <5>1. CASE worker' = [worker EXCEPT !.at = "restart", !.service = s]
          BY <5>1, <3>1, <2>b DEF TypeInv, Workers
        <5> QED
          BY <5>1, <3>2, <1>f DEF StartService
      <4> QED
        BY <3>2, <3>1, <4>2, <4>3, <1>h DEF StartService
    <3>3. CASE RestartService(s)
      <4>1. restarts' \in Seq([Services -> Nat]) /\ Len(restarts') = Len(restarts)
        <5>1. CASE restarts' = [restarts EXCEPT ![me][s] = @ + 1]
          <6>1. me \in 1 .. Len(restarts)
            BY <3>1, <2>b DEF TypeInv, Job
          <6>2. restarts[me] \in [Services -> Nat]
            BY <6>1 DEF TypeInv
          <6>3. [restarts[me] EXCEPT ![s] = @ + 1] \in [Services -> Nat]
            BY <6>2
          <6> QED
            BY <5>1, <6>1, <6>3 DEF TypeInv
        <5> QED
          BY <5>1, <3>3 DEF RestartService, TypeInv
      <4>2. worker' \in Workers /\ worker'.job = worker.job /\ worker'.todo \subseteq Job
        BY <3>3, <1>f, <1>g DEF RestartService, Goes
      <4> QED
        BY <3>3, <3>1, <4>1, <4>2 DEF RestartService, TypeInv, Job, me, db_vars
    <3>4. CASE ServiceRestarted(s)
      <4>1. [job[me] EXCEPT !.restarted = @ \cup {s}] \in JobRecords
        BY <3>1, <2>b, <1>j DEF JobRecords
      <4>2. job' \in Seq(JobRecords) /\ Len(job') = Len(job)
        BY <3>4, <4>1, <3>1, <2>b, <1>w DEF ServiceRestarted
      <4>3. worker' \in Workers /\ worker'.job = worker.job /\ worker'.todo \subseteq Job
        BY <3>4, <1>g DEF ServiceRestarted, Goes
      <4> QED
        BY <3>4, <3>1, <4>2, <4>3, <1>h DEF ServiceRestarted
    <3> QED
      BY <3>2, <3>3, <3>4
  <2>18. CASE Postflight
    <3>1. worker.at \notin Idle
      BY <2>18 DEF Postflight, Idle
    <3>2. job' \in Seq(JobRecords) /\ Len(job') = Len(job)
      BY <2>18 DEF Postflight, TypeInv
    <3>3. worker' \in Workers /\ worker'.job = worker.job /\ worker'.todo \subseteq Job
      BY <2>18, <1>g, <1>f DEF Postflight, Goes
    <3> QED
      BY <2>18, <3>1, <3>2, <3>3, <1>h DEF Postflight
  <2>19. CASE succeed
    <3>1. worker.at \notin Idle
      BY <2>19 DEF succeed, Idle
    <3>2. [job[me] EXCEPT !.state = "succeeded"] \in JobRecords
      BY <3>1, <2>b, <1>j DEF JobRecords, States, Terminal
    <3>3. job' \in Seq(JobRecords) /\ Len(job') = Len(job)
      BY <2>19, <3>1, <3>2, <2>b, <1>w DEF succeed
    <3>4. worker' = NoWorker /\ NoWorker.at \in Idle /\ NoWorker.todo = {}
      BY <2>19 DEF succeed, NoWorker, Idle
    <3> QED
      BY <2>19, <1>e, <3>3, <3>4 DEF succeed, TypeInv, Job, me, db_vars
  <2>20. CASE fail
    <3>1. worker.at \notin Idle
      BY <2>20 DEF fail, Idle
    <3>2. [job[me] EXCEPT !.state = IF worker.manual THEN "manual_intervention_required" ELSE "failed"] \in JobRecords
      BY <3>1, <2>b, <1>j DEF JobRecords, States, Terminal
    <3>3. job' \in Seq(JobRecords) /\ Len(job') = Len(job)
      BY <2>20, <3>1, <3>2, <2>b, <1>w DEF fail
    <3>4. worker' = NoWorker /\ NoWorker.at \in Idle /\ NoWorker.todo = {}
      BY <2>20 DEF fail, NoWorker, Idle
    <3> QED
      BY <2>20, <1>e, <3>3, <3>4 DEF fail, TypeInv, Job, me, db_vars
  <2>21. CASE Finalizing
    <3>1. worker.at \notin Idle
      BY <2>21 DEF Finalizing, Idle
    <3>2. job' \in Seq(JobRecords) /\ Len(job') = Len(job)
      BY <2>21, <3>1, <2>b, <2>f DEF Finalizing
    <3>3. worker' \in Workers /\ worker'.job = worker.job /\ worker'.todo \subseteq Job
      BY <2>21, <1>g DEF Finalizing, Goes
    <3> QED
      BY <2>21, <3>1, <3>2, <3>3, <1>h DEF Finalizing
  <2> QED
    BY <1>7, <2>1, <2>2, <2>3, <2>4, <2>5, <2>6, <2>7, <2>8, <2>9, <2>10, <2>11, <2>12, <2>13, <2>14, <2>15, <2>16, <2>17, <2>18, <2>19, <2>20, <2>21 DEF Worker
<1> QED
  BY <1>1, <1>2, <1>3, <1>4, <1>5, <1>6, <1>7 DEF Next
-----------------------------------------------------------------------------
(***************************************************************************)
(* What the writes of a job's file change, and what they leave alone.      *)
(***************************************************************************)
SameMilestones == \A j \in Job : job'[j].milestones = job[j].milestones
SameMarks == \A j \in Job : job'[j].started = job[j].started /\ job'[j].restarted = job[j].restarted
SameStates == \A j \in Job : job'[j].state = job[j].state
SameEvidence == \A j \in Job : job'[j].evidence = job[j].evidence

(***************************************************************************)
(* A write of evidence changes the evidence of that job only.              *)
(***************************************************************************)
LEMMA EvidenceWritten ==
    ASSUME TypeInv, NEW j \in Job, NEW e \in Evidences, job' = [job EXCEPT ![j].evidence = e]
    PROVE  /\ Job' = Job /\ SameMilestones /\ SameMarks /\ SameStates
           /\ job'[j].evidence = e
           /\ \A i \in Job : i # j => job'[i].evidence = job[i].evidence
<1>1. job[j] \in JobRecords
  BY DEF TypeInv, Job
<1>2. [job[j] EXCEPT !.evidence = e] \in JobRecords
  BY <1>1 DEF JobRecords
<1>3. /\ Job' = Job /\ job'[j] = [job[j] EXCEPT !.evidence = e]
      /\ \A i \in Job : i # j => job'[i] = job[i]
  BY <1>2, JobWritten
<1> QED
  BY <1>1, <1>3 DEF SameMilestones, SameMarks, SameStates, JobRecords

(***************************************************************************)
(* A milestone is added to the worker's job only.                          *)
(***************************************************************************)
LEMMA MilestoneWritten ==
    ASSUME TypeInv, me \in Job, NEW m \in Milestones, Milestone(m)
    PROVE  /\ Job' = Job /\ SameEvidence /\ SameMarks
           /\ job'[me].milestones = job[me].milestones \cup {m} /\ job'[me].state = "running"
           /\ \A i \in Job : i # me => job'[i] = job[i]
<1> DEFINE r == [job[me] EXCEPT !.milestones = @ \cup {m}, !.state = "running"]
<1>1. job[me] \in JobRecords
  BY DEF TypeInv, Job
<1>2. r \in JobRecords
  BY <1>1 DEF JobRecords, States
<1>3. job' = [job EXCEPT ![me] = r]
  BY <1>1 DEF Milestone, JobRecords, TypeInv
<1> HIDE DEF r
<1>4. Job' = Job /\ job'[me] = r /\ \A i \in Job : i # me => job'[i] = job[i]
  BY <1>2, <1>3, JobWritten
<1> QED
  BY <1>1, <1>4 DEF SameEvidence, SameMarks, JobRecords, r

(***************************************************************************)
(* The state of a job is written alone.                                    *)
(***************************************************************************)
LEMMA StateWritten ==
    ASSUME TypeInv, me \in Job, NEW s \in States, job' = [job EXCEPT ![me].state = s]
    PROVE  /\ Job' = Job /\ SameEvidence /\ SameMarks /\ SameMilestones
           /\ job'[me].state = s /\ \A i \in Job : i # me => job'[i] = job[i]
<1>1. job[me] \in JobRecords
  BY DEF TypeInv, Job
<1>2. [job[me] EXCEPT !.state = s] \in JobRecords
  BY <1>1 DEF JobRecords
<1>3. /\ Job' = Job /\ job'[me] = [job[me] EXCEPT !.state = s]
      /\ \A i \in Job : i # me => job'[i] = job[i]
  BY <1>2, JobWritten
<1> QED
  BY <1>1, <1>3 DEF SameMilestones, SameMarks, SameEvidence, JobRecords

(***************************************************************************)
(* A restart's marks are set in the worker's job only.                     *)
(***************************************************************************)
LEMMA MarkWritten ==
    ASSUME TypeInv, me \in Job, NEW S \in SUBSET Services, NEW T \in SUBSET Services,
           job' = [job EXCEPT ![me] = [@ EXCEPT !.started = S, !.restarted = T]]
    PROVE  /\ Job' = Job /\ SameEvidence /\ SameMilestones /\ SameStates
           /\ job'[me].started = S /\ job'[me].restarted = T
           /\ \A i \in Job : i # me => job'[i] = job[i]
<1> DEFINE r == [job[me] EXCEPT !.started = S, !.restarted = T]
<1>1. job[me] \in JobRecords
  BY DEF TypeInv, Job
<1>2. r \in JobRecords
  BY <1>1 DEF JobRecords
<1>3. Job' = Job /\ job'[me] = r /\ \A i \in Job : i # me => job'[i] = job[i]
  BY <1>2, JobWritten
<1>4. /\ r.started = S /\ r.restarted = T /\ r.evidence = job[me].evidence
      /\ r.milestones = job[me].milestones /\ r.state = job[me].state
  BY <1>1 DEF JobRecords
<1> HIDE DEF r
<1> QED
  BY <1>3, <1>4 DEF SameMilestones, SameStates, SameEvidence

(***************************************************************************)
(* The steps that write evidence, milestones, states and marks.            *)
(***************************************************************************)
WritesEvidence ==
    \/ Record \/ InFlight \/ Observe \/ Verify \/ Finalizing
    \/ \E j \in worker.todo : Refinalize(j)
WritesMilestone == MigrationStarted \/ DatabaseVerified \/ SourceAdvanced \/ Reconcile
WritesState == execute \/ succeed \/ fail
WritesMark == \E s \in Services : StartService(s) \/ ServiceRestarted(s)

(***************************************************************************)
(* What each step leaves alone in the job files.                           *)
(***************************************************************************)
LEMMA JobFrame ==
    ASSUME TypeInv, [Next]_vars
    PROVE  \/ accept
           \/ UNCHANGED job
           \/ WritesEvidence /\ Job' = Job /\ SameMilestones /\ SameMarks /\ SameStates
           \/ WritesMilestone /\ Job' = Job /\ SameEvidence /\ SameMarks
           \/ WritesState /\ Job' = Job /\ SameEvidence /\ SameMarks /\ SameMilestones
           \/ WritesMark /\ Job' = Job /\ SameEvidence /\ SameMilestones /\ SameStates
<1>j. \A j \in Job : job[j] \in JobRecords /\ job[j].evidence \in Evidences
  <2>1. \A j \in Job : job[j] \in JobRecords
    BY DEF TypeInv, Job
  <2> QED
    BY <2>1 DEF JobRecords
<1>b. worker.at \notin Idle => me \in Job
  BY DEF TypeInv
<1>1. CASE WritesEvidence /\ ~UNCHANGED job
  <2>1. \E j \in Job : \E e \in Evidences : job' = [job EXCEPT ![j].evidence = e]
    <3>1. CASE Record
      <4> DEFINE e == [written |-> TRUE, prefix_records |-> worker.recovery.prefix_records,
                       nonce |-> 0, finalized |-> FALSE]
      <4>1. e \in Evidences
        BY DEF TypeInv, Workers, Evidences
      <4>2. me \in Job
        BY <3>1, <1>b DEF Record, Idle
      <4> QED
        BY <1>1, <3>1, <4>1, <4>2 DEF Record, WriteEvidence
    <3>2. CASE InFlight
      <4>1. me \in Job
        BY <3>2, <1>b DEF InFlight, Idle
      <4>2. [Evidence(me) EXCEPT !.nonce = next_id] \in Evidences
        BY <4>1, <1>j DEF Evidence, Evidences, TypeInv
      <4> QED
        BY <3>2, <4>1, <4>2 DEF InFlight, WriteEvidence
    <3>3. CASE Observe
      <4> DEFINE e == Evidence(me)
                 m == Len(e.prefix_records) + 1
                 f == [e EXCEPT !.prefix_records = Append(@, rows[m]), !.nonce = 0]
      <4>1. me \in Job
        BY <3>3, <1>b DEF Observe, Idle
      <4>2. e \in Evidences
        BY <4>1, <1>j DEF Evidence
      <4>3. WriteEvidence(f) /\ ObservedRefs = 1 .. m
        BY <1>1, <3>3 DEF Observe
      <4>4. m \in 1 .. m
        BY <4>2 DEF Evidences
      <4>5. rows[m] \in Nat
        BY <4>3, <4>4 DEF ObservedRefs, TypeInv
      <4> HIDE DEF e, m
      <4>6. Append(e.prefix_records, rows[m]) \in Seq(Nat)
        BY <4>2, <4>5 DEF Evidences
      <4>7. f \in Evidences
        BY <4>2, <4>6 DEF Evidences
      <4> HIDE DEF f
      <4> QED
        BY <4>1, <4>3, <4>7 DEF WriteEvidence
    <3>4. CASE Verify
      <4>1. me \in Job
        BY <3>4, <1>b DEF Verify, Idle
      <4>2. [Evidence(me) EXCEPT !.finalized = TRUE] \in Evidences
        BY <4>1, <1>j DEF Evidence, Evidences
      <4> QED
        BY <1>1, <3>4, <4>1, <4>2 DEF Verify, WriteEvidence
    <3>5. ASSUME NEW j \in Job, FinalizeInto(j)
          PROVE  \E e \in Evidences : job' = [job EXCEPT ![j].evidence = e]
      <4>1. Finalized(job[j].evidence) \in Evidences
        BY <1>j, FinalizedType
      <4> QED
        BY <1>1, <3>5, <4>1 DEF FinalizeInto
    <3>6. CASE Finalizing
      BY <3>5, <3>6, <1>b DEF Finalizing, Idle
    <3>7. CASE \E j \in worker.todo : Refinalize(j)
      <4>1. worker.todo \subseteq Job
        BY DEF TypeInv
      <4> QED
        BY <3>5, <3>7, <4>1 DEF Refinalize
    <3> QED
      BY <1>1, <3>1, <3>2, <3>3, <3>4, <3>6, <3>7 DEF WritesEvidence
  <2> QED
    BY <1>1, <2>1, EvidenceWritten
<1>2. CASE WritesMilestone /\ ~UNCHANGED job
  <2>1. me \in Job /\ \E m \in Milestones : Milestone(m)
    BY <1>2, <1>b DEF WritesMilestone, MigrationStarted, DatabaseVerified, SourceAdvanced,
                      Reconcile, Idle, Milestones
  <2> QED
    BY <1>2, <2>1, MilestoneWritten
<1>3. CASE WritesState /\ ~UNCHANGED job
  <2>1. me \in Job /\ \E s \in States : job' = [job EXCEPT ![me].state = s]
    BY <1>3, <1>b DEF WritesState, execute, succeed, fail, States, Terminal, Idle
  <2> QED
    BY <1>3, <2>1, StateWritten
<1>4. CASE WritesMark /\ ~UNCHANGED job
  <2>1. PICK s \in Services : StartService(s) \/ ServiceRestarted(s)
    BY <1>4 DEF WritesMark
  <2>2. me \in Job
    BY <2>1, <1>b DEF StartService, ServiceRestarted, Idle
  <2>3. job[me] \in JobRecords /\ job \in Seq(JobRecords)
    BY <2>2, <1>j DEF TypeInv
  <2>4. \E S, T \in SUBSET Services :
           job' = [job EXCEPT ![me] = [@ EXCEPT !.started = S, !.restarted = T]]
    <3>1. CASE job' = [job EXCEPT ![me].started = @ \cup {s}]
      <4> DEFINE S == job[me].started \cup {s}
                 T == job[me].restarted
      <4>1. S \in SUBSET Services /\ T \in SUBSET Services
        BY <2>3 DEF JobRecords
      <4>2. [job[me] EXCEPT !.started = S] = [job[me] EXCEPT !.started = S, !.restarted = T]
        BY <2>3 DEF JobRecords
      <4> QED
        BY <3>1, <4>1, <4>2
    <3>2. CASE job' = [job EXCEPT ![me].restarted = @ \cup {s}]
      <4> DEFINE S == job[me].started
                 T == job[me].restarted \cup {s}
      <4>1. S \in SUBSET Services /\ T \in SUBSET Services
        BY <2>3 DEF JobRecords
      <4>2. [job[me] EXCEPT !.restarted = T] = [job[me] EXCEPT !.started = S, !.restarted = T]
        BY <2>3 DEF JobRecords
      <4> QED
        BY <3>2, <4>1, <4>2
    <3> QED
      BY <1>4, <2>1, <3>1, <3>2 DEF StartService, ServiceRestarted
  <2> QED
    BY <1>4, <2>2, <2>4, MarkWritten
<1> QED
  <2>1. ASSUME NEW c \in children, Child(c)
        PROVE  UNCHANGED job
    BY <2>1 DEF Child, GuardedLock, GuardedCommit, GuardedRollback
  <2>2. CASE Worker
    BY <2>2, <1>1, <1>2, <1>3, <1>4
       DEF Worker, WritesEvidence, WritesMilestone, WritesState, WritesMark, Probe,
           _find_partial_recovery, _validate_target_schema, Apply, ApplyTimesOut,
           _advance_source, RestartService, Postflight
  <2> QED
    BY <2>1, <2>2 DEF Next, Crash, recover_jobs, Disturb, vars

(***************************************************************************)
(* Which steps change the other variables.                                 *)
(***************************************************************************)
LEMMA StepFrame ==
    ASSUME [Next]_vars
    PROVE  /\ \/ UNCHANGED <<rows, receipts>>
              \/ \E c \in children : GuardedCommit(c)
              \/ \E m \in Refs : Disturb(m)
           /\ UNCHANGED disturbs \/ \E m \in Refs : Disturb(m)
           /\ UNCHANGED head \/ _advance_source
           /\ UNCHANGED restarts \/ accept \/ \E s \in Services : RestartService(s)
           /\ UNCHANGED orphaned \/ Crash
           /\ children' \subseteq children \/ Apply \/ \E c \in children : GuardedLock(c)
<1>1. CASE Worker
  BY <1>1 DEF Worker, execute, Probe, Refinalize, _find_partial_recovery, _validate_target_schema,
      Record, MigrationStarted, InFlight, Apply, ApplyTimesOut, Observe, Verify,
      DatabaseVerified, _advance_source, SourceAdvanced, Reconcile, StartService, RestartService,
      ServiceRestarted, Postflight, succeed, Finalizing, fail, db_vars
<1>2. CASE \E c \in children : Child(c)
  BY <1>2 DEF Child, GuardedLock, GuardedCommit, GuardedRollback, db_vars
<1> QED
  BY <1>1, <1>2 DEF Next, accept, Crash, recover_jobs, Disturb, db_vars, vars

(***************************************************************************)
(* Where a step leaves the worker, and with which view of the host.        *)
(***************************************************************************)
SameView ==
    /\ worker'.job = worker.job /\ worker'.milestones = worker.milestones
    /\ worker'.seen = worker.seen /\ worker'.recovery = worker.recovery
    /\ worker'.service = worker.service

Fresh ==
    /\ worker'.at \in {"none", "down", "execute"}
    /\ worker'.milestones = {} /\ worker'.seen = {} /\ worker'.recovery = NoEvidence

Advances ==
    \/ Record /\ worker'.at \in {"verified", "start"}
    \/ MigrationStarted /\ worker'.at = "migrate"
    \/ InFlight /\ worker'.at = "apply"
    \/ Apply /\ worker'.at = "applying"
    \/ (\E c \in children : GuardedCommit(c) /\ WaitsFor(c)) /\ worker'.at = "observe"
    \/ Observe /\ worker'.at = "migrate"
    \/ Verify /\ worker'.at = "verified"
    \/ DatabaseVerified /\ worker'.at = "advance"
    \/ _advance_source /\ worker'.at = "advanced" /\ head' = "target"
    \/ SourceAdvanced /\ worker'.at = "reconcile"
    \/ Reconcile /\ worker'.at = "services"
    \/ (\E s \in Services : RestartService(s)) /\ worker'.at = "restarted"
    \/ (\E s \in Services : ServiceRestarted(s)) /\ worker'.at = "services"
    \/ Postflight /\ worker'.at = "succeed"
    \/ Finalizing /\ worker'.at = "failing"
    \/ _validate_target_schema /\ worker'.at = "record"
    \/ worker.at \notin Idle /\ worker'.at = "finalizing"

LooksAgain ==
    /\ worker'.job = worker.job /\ worker'.service = worker.service
    /\ \/ /\ execute /\ worker'.at \in {"probe", "finalizing"}
          /\ worker'.milestones = job[me].milestones
          /\ worker'.seen = worker.seen /\ worker'.recovery = worker.recovery
          /\ worker'.at = "probe" => ~Ambiguous(job[me].milestones)
       \/ /\ Probe /\ worker'.at = "recovery"
          /\ worker'.milestones = worker.milestones
          /\ worker'.seen = ObservedRefs /\ worker'.recovery = worker.recovery
       \/ /\ _find_partial_recovery /\ worker'.at = "schema"
          /\ worker'.milestones = worker.milestones /\ worker'.seen = worker.seen
          /\ \/ worker'.recovery = NoEvidence
             \/ \E j \in Job : /\ worker'.recovery = Evidence(j)
                               /\ Evidence(j).finalized
                               /\ ExactlyOwned(Evidence(j).prefix_records)
       \/ /\ _validate_target_schema /\ worker'.at = "record"
          /\ worker'.milestones = worker.milestones
          /\ worker'.seen = ObservedRefs /\ worker'.recovery = worker.recovery
          /\ ExactlyOwned(worker.recovery.prefix_records)

(***************************************************************************)
(* Every step of the worker is one of these.                               *)
(***************************************************************************)
LEMMA WorkerFrame ==
    ASSUME TypeInv, [Next]_vars
    PROVE  \/ UNCHANGED worker
           \/ Fresh /\ (accept \/ Crash \/ recover_jobs \/ succeed \/ fail)
           \/ SameView /\ Advances
           \/ LooksAgain
           \/ SameView /\ (\E j \in worker.todo : Refinalize(j)) /\ worker'.at = worker.at
           \/ \E s \in Services :
                 /\ StartService(s) /\ s \notin job[me].started
                 /\ worker'.at = "restart" /\ worker'.job = worker.job
                 /\ worker'.milestones = worker.milestones /\ worker'.seen = worker.seen
                 /\ worker'.recovery = worker.recovery /\ worker'.service = s
<1>w. worker \in Workers /\ NoWorker \in Workers
  BY NoneType DEF TypeInv
<1>g. ASSUME NEW p, worker' = [worker EXCEPT !.at = p]
      PROVE  SameView /\ worker'.at = p
  BY <1>g, <1>w DEF SameView, Workers
<1>f. ASSUME NEW b, worker' = [worker EXCEPT !.at = "finalizing", !.manual = b]
      PROVE  SameView /\ worker'.at = "finalizing"
  BY <1>f, <1>w DEF SameView, Workers
<1>n. /\ NoWorker.at = "none" /\ NoWorker.milestones = {} /\ NoWorker.seen = {}
      /\ NoWorker.recovery = NoEvidence
  BY DEF NoWorker
<1>1. CASE accept \/ Crash \/ recover_jobs \/ succeed \/ fail
  <2>1. \E p \in {"none", "down", "execute"} : \E j :
           worker' = NoWorker \/ worker' = [NoWorker EXCEPT !.at = p]
           \/ worker' = [NoWorker EXCEPT !.at = p, !.job = j]
    BY <1>1 DEF accept, Crash, recover_jobs, succeed, fail
  <2>2. Fresh
    BY <2>1, <1>n, <1>w DEF Fresh, Workers
  <2> QED
    BY <1>1, <2>2
<1>2. CASE \E c \in children : Child(c)
  <2> PICK c \in children : Child(c)
    BY <1>2
  <2>1. CASE GuardedCommit(c)
    <3>1. CASE WaitsFor(c)
      <4>1. worker' = [worker EXCEPT !.at = "observe", !.manual = FALSE]
        BY <2>1, <3>1 DEF GuardedCommit, Hears
      <4>2. SameView /\ worker'.at = "observe"
        BY <4>1, <1>w DEF SameView, Workers
      <4> QED
        BY <2>1, <3>1, <4>2 DEF Advances
    <3>2. CASE ~WaitsFor(c)
      BY <2>1, <3>2 DEF GuardedCommit, Hears
    <3> QED
      BY <3>1, <3>2
  <2>2. ASSUME NEW b, Hears(c, "finalizing", b), ~UNCHANGED worker
        PROVE  SameView /\ Advances
    BY <2>2, <1>f DEF Hears, WaitsFor, Advances, Idle
  <2>3. CASE GuardedLock(c) \/ GuardedRollback(c)
    BY <2>2, <2>3 DEF GuardedLock, GuardedRollback
  <2> QED
    BY <2>1, <2>3 DEF Child
<1>3. CASE execute
  <2>1. CASE Fails(TRUE)
    BY <1>3, <2>1, <1>f DEF Fails, Advances, execute, Idle
  <2>2. CASE ~Fails(TRUE)
    <3>1. PICK p \in {"probe", "finalizing"} :
             worker' = [worker EXCEPT !.milestones = job[me].milestones, !.manual = FALSE, !.at = p]
      BY <1>3, <2>2 DEF execute
    <3>2. ~Ambiguous(job[me].milestones)
      BY <1>3, <2>2 DEF execute
    <3>3. /\ worker'.at = p /\ worker'.milestones = job[me].milestones /\ worker'.job = worker.job
          /\ worker'.seen = worker.seen /\ worker'.recovery = worker.recovery
          /\ worker'.service = worker.service
      BY <3>1, <1>w DEF Workers
    <3> QED
      BY <1>3, <3>2, <3>3 DEF LooksAgain
  <2> QED
    BY <2>1, <2>2
<1>4. CASE Probe
  BY <1>4, <1>w DEF Probe, LooksAgain, Workers
<1>5. CASE \E j \in worker.todo : Refinalize(j)
  BY <1>5, <1>w DEF Refinalize, SameView, Workers
<1>6. CASE _find_partial_recovery
  <2>1. CASE Fails(TRUE)
    BY <1>6, <2>1, <1>f DEF Fails, Advances, _find_partial_recovery, Idle
  <2>2. CASE ~Fails(TRUE)
    <3>1. \E e : /\ worker' = [worker EXCEPT !.at = "schema", !.recovery = e]
                 /\ \/ e = NoEvidence
                    \/ \E j \in Job : /\ e = Evidence(j) /\ Evidence(j).finalized
                                      /\ ExactlyOwned(Evidence(j).prefix_records)
      BY <1>6, <2>2 DEF _find_partial_recovery, Candidates, OwnershipHolds
    <3> QED
      BY <1>6, <3>1, <1>w DEF LooksAgain, Workers
  <2> QED
    BY <2>1, <2>2
<1>7. CASE _validate_target_schema
  <2>1. CASE /\ worker' = [worker EXCEPT !.at = "record", !.seen = ObservedRefs]
             /\ ExactlyOwned(worker.recovery.prefix_records)
    BY <1>7, <2>1, <1>w DEF LooksAgain, Workers
  <2>2. CASE \E b : Fails(b)
    BY <1>7, <2>2, <1>f DEF Fails, Advances, _validate_target_schema, Idle
  <2>3. CASE Goes("record")
    BY <1>7, <2>3, <1>g DEF Goes, Advances
  <2> QED
    BY <1>7, <2>1, <2>2, <2>3 DEF _validate_target_schema, OwnershipHolds
<1>8. CASE \E s \in Services : StartService(s)
  <2> PICK s \in Services : StartService(s)
    BY <1>8
  <2>1. CASE Fails(TRUE)
    BY <2>1, <1>f DEF Fails, Advances, StartService, Idle
  <2>2. CASE ~Fails(TRUE)
    <3>1. worker' = [worker EXCEPT !.at = "restart", !.service = s] /\ s \notin job[me].started
      BY <2>2 DEF StartService, MayRestart
    <3> QED
      BY <3>1, <1>w DEF Workers
  <2> QED
    BY <2>1, <2>2
<1>9. CASE Record \/ Observe \/ Verify \/ Reconcile \/ Postflight \/ _advance_source
           \/ \E s \in Services : RestartService(s)
  <2>1. CASE \E b : Fails(b)
    BY <1>9, <2>1, <1>f
       DEF Fails, Advances, Record, Observe, Verify, Reconcile, Postflight, _advance_source,
           RestartService, Idle
  <2>2. CASE ~ \E b : Fails(b)
    <3>1. /\ Record => Goes("verified") \/ Goes("start")
          /\ Observe => Goes("migrate")
          /\ Verify => Goes("verified")
          /\ Reconcile => Goes("services")
          /\ Postflight => Goes("succeed")
          /\ _advance_source => Goes("advanced") /\ head' = "target"
          /\ (\E s \in Services : RestartService(s)) => Goes("restarted")
      BY <2>2 DEF Record, Observe, Verify, Reconcile, Postflight, _advance_source, RestartService
    <3> QED
      BY <1>9, <3>1, <1>g DEF Goes, Advances
  <2> QED
    BY <2>1, <2>2
<1>10. CASE MigrationStarted \/ InFlight \/ Apply \/ DatabaseVerified \/ SourceAdvanced
            \/ Finalizing \/ \E s \in Services : ServiceRestarted(s)
  <2>1. /\ MigrationStarted => Goes("migrate")
        /\ InFlight => Goes("apply")
        /\ Apply => Goes("applying")
        /\ DatabaseVerified => Goes("advance")
        /\ SourceAdvanced => Goes("reconcile")
        /\ Finalizing => Goes("failing")
        /\ (\E s \in Services : ServiceRestarted(s)) => Goes("services")
    BY DEF MigrationStarted, InFlight, Apply, DatabaseVerified, SourceAdvanced, Finalizing,
           ServiceRestarted
  <2> QED
    BY <1>10, <2>1, <1>g DEF Goes, Advances
<1>11. CASE \E c \in children : ApplyTimesOut(c)
  BY <1>11, <1>f DEF ApplyTimesOut, Fails, Advances, WaitsFor, Idle
<1> QED
  <2>1. CASE Worker
    BY <2>1, <1>1, <1>3, <1>4, <1>5, <1>6, <1>7, <1>8, <1>9, <1>10, <1>11 DEF Worker
  <2> QED
    BY <2>1, <1>1, <1>2 DEF Next, Disturb, vars

(***************************************************************************)
(* An accepted job is added behind the others, which it leaves alone.      *)
(***************************************************************************)
LEMMA JobAccepted ==
    ASSUME TypeInv, accept
    PROVE  /\ Job' = Job \cup {Len(job) + 1} /\ Len(job) + 1 \notin Job
           /\ \A j \in Job : job'[j] = job[j]
           /\ job'[Len(job) + 1] = [state |-> "accepted", milestones |-> {},
                                    evidence |-> NoEvidence, started |-> {}, restarted |-> {}]
           /\ worker'.job = Len(job) + 1 /\ worker'.at = "execute"
<1>1. job \in Seq(JobRecords)
  BY DEF TypeInv
<1>2. NoWorker \in Workers
  BY NoneType
<1>3. worker'.job = Len(job) + 1 /\ worker'.at = "execute"
  BY <1>2 DEF accept, Workers
<1> QED
  BY <1>1, <1>3 DEF accept, Job

(***************************************************************************)
(* The steps that write evidence, and what they write.                     *)
(***************************************************************************)
Rewrites(j, e) ==
    /\ Job' = Job /\ j \in Job /\ job'[j].evidence = e
    /\ \A i \in Job : i # j => job'[i].evidence = job[i].evidence

Extended(e) ==
    LET m == Len(e.prefix_records) + 1 IN
    /\ ObservedRefs = 1 .. m
    /\ \A i \in 1 .. (m - 1) : rows[i] = e.prefix_records[i]

RecordsPlan ==
    /\ Record /\ worker'.at = "start" /\ worker'.job = worker.job
    /\ "database_verified" \notin worker.milestones /\ Refs \ worker.seen # {}
    /\ \E f \in Evidences :
          /\ Rewrites(me, f) /\ f.written /\ ~f.finalized /\ f.nonce = 0
          /\ f.prefix_records = worker.recovery.prefix_records

RecordsNonce ==
    /\ InFlight /\ worker'.at = "apply" /\ worker'.job = worker.job
    /\ \E f \in Evidences :
          /\ Rewrites(me, f) /\ f.written = Evidence(me).written
          /\ f.finalized = Evidence(me).finalized
          /\ f.nonce = next_id /\ f.prefix_records = Evidence(me).prefix_records

RecordsMigration ==
    /\ Observe /\ worker'.at = "migrate" /\ worker'.job = worker.job
    /\ Extended(Evidence(me))
    /\ \E f \in Evidences :
          /\ Rewrites(me, f) /\ f.written = Evidence(me).written
          /\ f.finalized = Evidence(me).finalized
          /\ LET m == Len(Evidence(me).prefix_records) + 1
             IN  f.prefix_records = Append(Evidence(me).prefix_records, rows[m])

RecordsEnd ==
    /\ Verify /\ worker'.at = "verified" /\ worker'.job = worker.job
    /\ \E f \in Evidences :
          /\ Rewrites(me, f) /\ f.written = Evidence(me).written /\ f.finalized
          /\ f.prefix_records = Evidence(me).prefix_records

Finalizes ==
    /\ Finalizing \/ \E i \in worker.todo : Refinalize(i)
    /\ Readable
    /\ \E j \in Job : Rewrites(j, Finalized(Evidence(j)))

(***************************************************************************)
(* A step that writes evidence is one of these.                            *)
(***************************************************************************)
LEMMA EvidenceSteps ==
    ASSUME TypeInv, WritesEvidence
    PROVE  \/ RecordsPlan \/ RecordsNonce \/ RecordsMigration \/ RecordsEnd \/ Finalizes
           \/ UNCHANGED job /\ worker'.at \notin {"start", "apply", "migrate"}
<1>w. worker \in Workers
  BY DEF TypeInv
<1>b. worker.at \notin Idle => me \in Job
  BY DEF TypeInv
<1>j. \A j \in Job : job[j].evidence \in Evidences
  <2>1. \A j \in Job : job[j] \in JobRecords
    BY DEF TypeInv, Job
  <2> QED
    BY <2>1 DEF JobRecords
<1>v. ASSUME NEW j \in Job, NEW e \in Evidences, job' = [job EXCEPT ![j].evidence = e]
      PROVE  Rewrites(j, e)
  BY <1>v, EvidenceWritten DEF Rewrites
<1>g. ASSUME NEW p, worker' = [worker EXCEPT !.at = p]
      PROVE  worker'.at = p /\ worker'.job = worker.job
  BY <1>g, <1>w DEF Workers
<1>x. ASSUME NEW b, Fails(b)
      PROVE  worker'.at = "finalizing"
  BY <1>x, <1>w DEF Workers, Fails
<1>1. CASE Record
  <2> DEFINE f == [written |-> TRUE, prefix_records |-> worker.recovery.prefix_records,
                   nonce |-> 0, finalized |-> FALSE]
  <2>1. f \in Evidences
    BY <1>w DEF Workers, Evidences
  <2>2. me \in Job
    BY <1>1, <1>b DEF Record, Idle
  <2>3. f.written /\ ~f.finalized /\ f.nonce = 0 /\ f.prefix_records = worker.recovery.prefix_records
    OBVIOUS
  <2>4. CASE /\ job' = [job EXCEPT ![me].evidence = f] /\ Goes("start")
             /\ ~Passed("database_verified") /\ Refs \ worker.seen # {}
    <3>1. Rewrites(me, f)
      BY <2>1, <2>2, <2>4, <1>v
    <3> HIDE DEF f
    <3> QED
      BY <1>1, <2>1, <2>3, <2>4, <3>1, <1>g DEF RecordsPlan, Passed, Goes
  <2>5. CASE UNCHANGED job /\ (Goes("verified") \/ Fails(TRUE))
    BY <2>5, <1>g, <1>x DEF Goes
  <2> QED
    BY <1>1, <2>4, <2>5 DEF Record, WriteEvidence
<1>2. CASE InFlight
  <2> DEFINE f == [Evidence(me) EXCEPT !.nonce = next_id]
  <2>1. me \in Job
    BY <1>2, <1>b DEF InFlight, Idle
  <2>2. Evidence(me) \in Evidences
    BY <2>1, <1>j DEF Evidence
  <2>3. /\ f \in Evidences /\ f.written = Evidence(me).written /\ f.finalized = Evidence(me).finalized
        /\ f.nonce = next_id /\ f.prefix_records = Evidence(me).prefix_records
    BY <2>2 DEF Evidences, TypeInv
  <2>4. job' = [job EXCEPT ![me].evidence = f] /\ Goes("apply")
    BY <1>2 DEF InFlight, WriteEvidence
  <2>5. Rewrites(me, f)
    BY <2>1, <2>3, <2>4, <1>v
  <2> HIDE DEF f
  <2> QED
    BY <1>2, <2>3, <2>4, <2>5, <1>g DEF RecordsNonce, Goes
<1>3. CASE Observe
  <2> DEFINE e == Evidence(me)
             m == Len(e.prefix_records) + 1
             f == [e EXCEPT !.prefix_records = Append(@, rows[m]), !.nonce = 0]
  <2>1. me \in Job
    BY <1>3, <1>b DEF Observe, Idle
  <2>2. e \in Evidences
    BY <2>1, <1>j DEF Evidence
  <2>x. CASE UNCHANGED job /\ Fails(TRUE)
    BY <2>x, <1>x
  <2> SUFFICES ASSUME ~(UNCHANGED job /\ Fails(TRUE)) PROVE RecordsMigration
    BY <2>x
  <2>3. WriteEvidence(f) /\ Extended(e) /\ Goes("migrate")
    BY <1>3 DEF Observe, Extended
  <2>4. m \in 1 .. m
    BY <2>2 DEF Evidences
  <2>5. rows[m] \in Nat
    BY <2>3, <2>4 DEF Extended, ObservedRefs, TypeInv
  <2> HIDE DEF e, m
  <2>6. Append(e.prefix_records, rows[m]) \in Seq(Nat)
    BY <2>2, <2>5 DEF Evidences
  <2>7. /\ f \in Evidences /\ f.written = e.written /\ f.finalized = e.finalized
        /\ f.prefix_records = Append(e.prefix_records, rows[m])
    BY <2>2, <2>6 DEF Evidences
  <2> HIDE DEF f
  <2>8. Rewrites(me, f)
    BY <2>1, <2>3, <2>7, <1>v DEF WriteEvidence
  <2> QED
    BY <1>3, <2>3, <2>7, <2>8, <1>g DEF RecordsMigration, Goes, e, m
<1>4. CASE Verify
  <2> DEFINE f == [Evidence(me) EXCEPT !.finalized = TRUE]
  <2>1. me \in Job
    BY <1>4, <1>b DEF Verify, Idle
  <2>2. Evidence(me) \in Evidences
    BY <2>1, <1>j DEF Evidence
  <2>3. /\ f \in Evidences /\ f.written = Evidence(me).written /\ f.finalized
        /\ f.prefix_records = Evidence(me).prefix_records
    BY <2>2 DEF Evidences
  <2>x. CASE UNCHANGED job /\ Fails(TRUE)
    BY <2>x, <1>x
  <2> SUFFICES ASSUME ~(UNCHANGED job /\ Fails(TRUE)) PROVE RecordsEnd
    BY <2>x
  <2>4. job' = [job EXCEPT ![me].evidence = f] /\ Goes("verified")
    BY <1>4 DEF Verify, WriteEvidence
  <2>5. Rewrites(me, f)
    BY <2>1, <2>3, <2>4, <1>v
  <2> HIDE DEF f
  <2> QED
    BY <1>4, <2>3, <2>4, <2>5, <1>g DEF RecordsEnd, Goes
<1>5. ASSUME NEW j \in Job, FinalizeInto(j)
      PROVE  UNCHANGED job \/ (Readable /\ Rewrites(j, Finalized(Evidence(j))))
  <2> SUFFICES ASSUME ~UNCHANGED job PROVE Readable /\ Rewrites(j, Finalized(Evidence(j)))
    OBVIOUS
  <2>1. Finalized(Evidence(j)) \in Evidences
    BY <1>j, FinalizedType DEF Evidence
  <2>2. Readable /\ job' = [job EXCEPT ![j].evidence = Finalized(Evidence(j))]
    BY <1>5 DEF FinalizeInto, Evidence
  <2> QED
    BY <2>1, <2>2, <1>v
<1>6. CASE Finalizing
  <2>1. worker'.at = "failing" /\ me \in Job
    BY <1>6, <1>g, <1>b DEF Finalizing, Goes, Idle
  <2> QED
    BY <1>5, <1>6, <2>1 DEF Finalizing, Finalizes
<1>7. CASE \E j \in worker.todo : Refinalize(j)
  <2>1. worker.todo \subseteq Job
    BY DEF TypeInv
  <2>2. worker'.at = "recovery"
    BY <1>7, <1>w DEF Refinalize, Workers
  <2> QED
    BY <1>5, <1>7, <2>1, <2>2 DEF Refinalize, Finalizes
<1> QED
  BY <1>1, <1>2, <1>3, <1>4, <1>6, <1>7 DEF WritesEvidence

(***************************************************************************)
(* Only the worker writes job files, and it moves on when it does.         *)
(***************************************************************************)
LEMMA WorkerWrites ==
    ASSUME TypeInv, [Next]_vars, UNCHANGED worker
    PROVE  UNCHANGED job
<1>w. worker \in Workers
  BY DEF TypeInv
<1>g. ASSUME NEW p, worker' = [worker EXCEPT !.at = p]
      PROVE  worker.at = p
  BY <1>g, <1>w DEF Workers
<1>f. ASSUME NEW b, worker' = [worker EXCEPT !.at = "finalizing", !.manual = b]
      PROVE  worker.at = "finalizing"
  BY <1>f, <1>w DEF Workers
<1>1. ~accept
  <2> SUFFICES ASSUME accept PROVE FALSE
    OBVIOUS
  <2>1. worker.at = "execute" /\ me = Len(job) + 1 /\ Len(job) + 1 \notin Job
    BY JobAccepted DEF me
  <2> QED
    BY <2>1 DEF TypeInv, Idle
<1>2. ~WritesEvidence \/ UNCHANGED job
  <2>1. ~Record /\ ~InFlight /\ ~Observe /\ ~Verify /\ ~Finalizing
    BY <1>g, <1>f DEF Record, InFlight, Observe, Verify, Finalizing, Goes, Fails
  <2>2. ~ \E j \in worker.todo : Refinalize(j)
    <3> SUFFICES ASSUME NEW j \in worker.todo, Refinalize(j) PROVE FALSE
      OBVIOUS
    <3>1. worker'.todo = worker.todo \ {j}
      BY <1>w DEF Refinalize, Workers
    <3> QED
      BY <3>1
  <2> QED
    BY <2>1, <2>2 DEF WritesEvidence
<1>3. ~WritesMilestone
  BY <1>g, <1>f DEF WritesMilestone, MigrationStarted, DatabaseVerified, SourceAdvanced, Reconcile,
                    Goes, Fails
<1>4. ~WritesState
  <2>1. ~succeed /\ ~fail
    BY DEF succeed, fail, NoWorker
  <2>2. ~execute
    <3> SUFFICES ASSUME execute PROVE FALSE
      OBVIOUS
    <3>1. worker.at = "execute" /\ ~Fails(TRUE)
      BY <1>f DEF execute, Fails
    <3>2. \E p \in {"probe", "finalizing"} :
             worker' = [worker EXCEPT !.milestones = job[me].milestones, !.manual = FALSE, !.at = p]
      BY <3>1 DEF execute
    <3> QED
      BY <3>1, <3>2, <1>w DEF Workers
  <2> QED
    BY <2>1, <2>2 DEF WritesState
<1>5. ~WritesMark
  <2> SUFFICES ASSUME NEW s \in Services, StartService(s) \/ ServiceRestarted(s) PROVE FALSE
    BY DEF WritesMark
  <2>1. ~ServiceRestarted(s)
    BY <1>g DEF ServiceRestarted, Goes
  <2>2. worker' # [worker EXCEPT !.at = "restart", !.service = s] \/ worker.at = "restart"
    BY <1>w DEF Workers
  <2> QED
    BY <2>1, <2>2, <1>f DEF StartService, Fails
<1> QED
  BY <1>1, <1>2, <1>3, <1>4, <1>5, JobFrame
-----------------------------------------------------------------------------
(***************************************************************************)
(* Receipts are never withdrawn: an owned row stays owned.                 *)
(***************************************************************************)
LEMMA ReceiptsGrow == [Next]_vars => receipts \subseteq receipts'
<1> SUFFICES ASSUME [Next]_vars PROVE receipts \subseteq receipts'
  OBVIOUS
<1>1. CASE Worker
  BY <1>1 DEF Worker, execute, Probe, Refinalize, _find_partial_recovery, _validate_target_schema,
      Record, MigrationStarted, InFlight, Apply, ApplyTimesOut, Observe, Verify,
      DatabaseVerified, _advance_source, SourceAdvanced, Reconcile, StartService, RestartService,
      ServiceRestarted, Postflight, succeed, Finalizing, fail, db_vars
<1>2. CASE \E c \in children : Child(c)
  BY <1>2 DEF Child, GuardedLock, GuardedCommit, GuardedRollback, db_vars
<1> QED
  BY <1>1, <1>2 DEF Next, accept, Crash, recover_jobs, Disturb, db_vars, vars

(***************************************************************************)
(* What a finalization adds to owned evidence is proved by a receipt.      *)
(***************************************************************************)
LEMMA FinalizedOwn ==
    ASSUME TypeInv, NEW e \in Evidences, OwnRecords(e.prefix_records)
    PROVE  OwnRecords(Finalized(e).prefix_records)
<1> DEFINE k == Len(e.prefix_records)
           n == IF Claimable(e) /\ ObservedRefs = 1 .. (k + 1) THEN k + 1 ELSE k
<1>1. k \in Nat /\ e.prefix_records \in Seq(Nat) /\ DOMAIN e.prefix_records = 1 .. k
  BY DEF Evidences
<1>2. CASE Finalized(e) = e
  BY <1>2
<1>3. CASE Finalized(e) # e
  <2>1. /\ ObservedRefs = 1 .. n
        /\ \A m \in 1 .. k : rows[m] = e.prefix_records[m]
        /\ Finalized(e) = [written |-> TRUE, prefix_records |-> [m \in 1 .. n |-> rows[m]],
                            nonce |-> 0, finalized |-> TRUE]
    BY <1>3 DEF Finalized
  <2>2. \A m \in 1 .. k : OwnRow(rows[m])
    BY <1>1, <2>1 DEF OwnRecords
  <2>3. n = k + 1 => OwnRow(rows[k + 1])
    BY <1>1 DEF Claimable, OwnRow
  <2>4. n \in {k, k + 1}
    OBVIOUS
  <2> HIDE DEF n, k
  <2>5. \A m \in 1 .. n : OwnRow(rows[m])
    BY <2>2, <2>3, <2>4, <1>1
  <2> QED
    BY <2>1, <2>5 DEF OwnRecords
<1> QED
  BY <1>2, <1>3

\* Records that are owned after the step.
StaysOwn(records) == \A m \in DOMAIN records : \E x \in receipts' : x.row = records[m]

(***************************************************************************)
(* Evidence, and what is passed on of it, stays owned.                     *)
(***************************************************************************)
LEMMA NextOwned == TypeInv /\ Owned /\ [Next]_vars => Owned'
<1> SUFFICES ASSUME TypeInv, Owned, [Next]_vars PROVE Owned'
  OBVIOUS
<1>j. \A j \in Job : job[j].evidence \in Evidences
  <2>1. \A j \in Job : job[j] \in JobRecords
    BY DEF TypeInv, Job
  <2> QED
    BY <2>1 DEF JobRecords
<1>b. worker.at \notin Idle => me \in Job
  BY DEF TypeInv
<1>o. ASSUME NEW records, OwnRecords(records)
      PROVE  StaysOwn(records)
  BY <1>o, ReceiptsGrow DEF OwnRecords, OwnRow, StaysOwn
<1>p. EvidenceIsOwn' <=> \A j \in Job' : StaysOwn(job'[j].evidence.prefix_records)
  BY DEF EvidenceIsOwn, OwnRow, StaysOwn, Evidence
<1>1. \A j \in Job : OwnRecords(job[j].evidence.prefix_records)
  BY DEF Owned, EvidenceIsOwn, OwnRecords, Evidence
<1>2. EvidenceIsOwn'
  <2>1. CASE accept
    <3>1. Job' = Job \cup {Len(job) + 1}
      BY <2>1 DEF accept, Job, TypeInv
    <3>2. \A j \in Job : job'[j] = job[j]
      BY <2>1 DEF accept, Job, TypeInv
    <3>3. job'[Len(job) + 1].evidence.prefix_records = << >>
      BY <2>1 DEF accept, TypeInv, NoEvidence
    <3>4. StaysOwn(job'[Len(job) + 1].evidence.prefix_records)
      BY <3>3 DEF StaysOwn
    <3> QED
      BY <3>1, <3>2, <3>4, <1>1, <1>o, <1>p
  <2>2. CASE UNCHANGED job
    BY <2>2, <1>1, <1>o, <1>p DEF Job
  <2>3. CASE Job' = Job /\ SameEvidence
    BY <2>3, <1>1, <1>o, <1>p DEF SameEvidence
  <2>4. ASSUME NEW j \in Job, NEW e \in Evidences, job' = [job EXCEPT ![j].evidence = e],
               OwnRecords(e.prefix_records)
        PROVE  EvidenceIsOwn'
    <3>1. /\ Job' = Job /\ job'[j].evidence = e
          /\ \A i \in Job : i # j => job'[i].evidence = job[i].evidence
      BY <2>4, EvidenceWritten
    <3> QED
      BY <2>4, <3>1, <1>1, <1>o, <1>p
  <2>5. CASE WritesEvidence /\ ~UNCHANGED job
    <3>1. CASE Record
      <4> DEFINE e == [written |-> TRUE, prefix_records |-> worker.recovery.prefix_records,
                       nonce |-> 0, finalized |-> FALSE]
      <4>1. e \in Evidences /\ OwnRecords(e.prefix_records)
        BY DEF TypeInv, Workers, Evidences, Owned
      <4>2. me \in Job /\ job' = [job EXCEPT ![me].evidence = e]
        BY <2>5, <3>1, <1>b DEF Record, Idle, WriteEvidence
      <4> QED
        BY <4>1, <4>2, <2>4
    <3>2. CASE InFlight
      <4>1. me \in Job
        BY <3>2, <1>b DEF InFlight, Idle
      <4>2. [Evidence(me) EXCEPT !.nonce = next_id] \in Evidences
        BY <4>1, <1>j DEF Evidence, Evidences, TypeInv
      <4>3. [Evidence(me) EXCEPT !.nonce = next_id].prefix_records = Evidence(me).prefix_records
        BY <4>1, <1>j DEF Evidence, Evidences
      <4> QED
        BY <3>2, <4>1, <4>2, <4>3, <2>4, <1>1 DEF InFlight, WriteEvidence, Evidence
    <3>3. CASE Observe
      <4> DEFINE e == Evidence(me)
                 m == Len(e.prefix_records) + 1
                 f == [e EXCEPT !.prefix_records = Append(@, rows[m]), !.nonce = 0]
      <4>1. me \in Job
        BY <3>3, <1>b DEF Observe, Idle
      <4>2. e \in Evidences /\ OwnRecords(e.prefix_records)
        BY <4>1, <1>j, <1>1 DEF Evidence
      <4>3. /\ WriteEvidence(f) /\ ObservedRefs = 1 .. m
            /\ [nonce |-> e.nonce, row |-> rows[m]] \in receipts
        BY <2>5, <3>3 DEF Observe
      <4>4. m \in 1 .. m /\ m = Len(e.prefix_records) + 1
        BY <4>2 DEF Evidences
      <4>5. rows[m] \in Nat /\ OwnRow(rows[m])
        BY <4>3, <4>4 DEF ObservedRefs, TypeInv, OwnRow
      <4> HIDE DEF e, m
      <4>6. Append(e.prefix_records, rows[m]) \in Seq(Nat)
        BY <4>2, <4>5 DEF Evidences
      <4>7. f \in Evidences /\ f.prefix_records = Append(e.prefix_records, rows[m])
        BY <4>2, <4>6 DEF Evidences
      <4>8. OwnRecords(Append(e.prefix_records, rows[m]))
        BY <4>2, <4>4, <4>5 DEF OwnRecords, Evidences
      <4> HIDE DEF f
      <4> QED
        BY <4>1, <4>3, <4>7, <4>8, <2>4 DEF WriteEvidence
    <3>4. CASE Verify
      <4>1. me \in Job
        BY <3>4, <1>b DEF Verify, Idle
      <4>2. [Evidence(me) EXCEPT !.finalized = TRUE] \in Evidences
        BY <4>1, <1>j DEF Evidence, Evidences
      <4>3. [Evidence(me) EXCEPT !.finalized = TRUE].prefix_records = Evidence(me).prefix_records
        BY <4>1, <1>j DEF Evidence, Evidences
      <4> QED
        BY <2>5, <3>4, <4>1, <4>2, <4>3, <2>4, <1>1 DEF Verify, WriteEvidence, Evidence
    <3>5. ASSUME NEW j \in Job, FinalizeInto(j)
          PROVE  EvidenceIsOwn'
      <4>1. Finalized(job[j].evidence) \in Evidences
        BY <1>j, FinalizedType
      <4>2. OwnRecords(Finalized(job[j].evidence).prefix_records)
        BY <1>1, <1>j, FinalizedOwn
      <4> QED
        BY <2>5, <3>5, <4>1, <4>2, <2>4 DEF FinalizeInto
    <3>6. CASE Finalizing
      BY <3>5, <3>6, <1>b DEF Finalizing, Idle
    <3>7. CASE \E j \in worker.todo : Refinalize(j)
      <4>1. worker.todo \subseteq Job
        BY DEF TypeInv
      <4> QED
        BY <3>5, <3>7, <4>1 DEF Refinalize
    <3> QED
      BY <2>5, <3>1, <3>2, <3>3, <3>4, <3>6, <3>7 DEF WritesEvidence
  <2> QED
    BY <2>1, <2>2, <2>3, <2>5, JobFrame
<1>3. StaysOwn(worker'.recovery.prefix_records)
  <2>1. \/ worker'.recovery = worker.recovery
        \/ worker'.recovery.prefix_records = << >>
        \/ \E j \in Job : worker'.recovery = Evidence(j)
    <3>1. ASSUME NEW c \in children, Child(c)
          PROVE  worker'.recovery = worker.recovery
      BY <3>1 DEF Child, GuardedLock, GuardedCommit, GuardedRollback, Hears, TypeInv, Workers
    <3>2. CASE Worker
      <4>1. CASE worker' = NoWorker
        BY <4>1 DEF NoWorker, NoEvidence
      <4>2. CASE worker' # NoWorker /\ ~_find_partial_recovery
        BY <3>2, <4>2
           DEF Worker, execute, Probe, Refinalize, _validate_target_schema,
               Record, MigrationStarted, InFlight, Apply, ApplyTimesOut, Observe, Verify,
               DatabaseVerified, _advance_source, SourceAdvanced, Reconcile, StartService,
               RestartService, ServiceRestarted, Postflight, succeed, Finalizing, fail,
               Goes, Fails, TypeInv, Workers
      <4>3. CASE _find_partial_recovery
        <5>1. CASE worker' = [worker EXCEPT !.at = "schema", !.recovery = NoEvidence]
          BY <5>1 DEF TypeInv, Workers, NoEvidence
        <5>2. CASE \E j \in Job : worker' = [worker EXCEPT !.at = "schema", !.recovery = Evidence(j)]
          BY <5>2 DEF TypeInv, Workers
        <5>3. CASE Fails(TRUE)
          BY <5>3 DEF Fails, TypeInv, Workers
        <5> QED
          BY <4>3, <5>1, <5>2, <5>3 DEF _find_partial_recovery, Candidates
      <4> QED
        BY <4>1, <4>2, <4>3
    <3>3. CASE accept \/ Crash \/ recover_jobs
      <4>1. worker'.recovery = NoEvidence
        <5>1. \E p, j : worker' = NoWorker \/ worker' = [NoWorker EXCEPT !.at = p]
                       \/ worker' = [NoWorker EXCEPT !.at = p, !.job = j]
          BY <3>3 DEF accept, Crash, recover_jobs
        <5>2. NoWorker.recovery = NoEvidence
          BY DEF NoWorker
        <5>3. NoWorker \in Workers
          BY NoneType
        <5> QED
          BY <5>1, <5>2, <5>3 DEF Workers
      <4> QED
        BY <4>1 DEF NoEvidence
    <3>4. CASE UNCHANGED worker
      BY <3>4
    <3> QED
      BY <3>1, <3>2, <3>3, <3>4 DEF Next, Disturb, vars
  <2>2. CASE worker'.recovery = worker.recovery
    BY <2>2, <1>o DEF Owned
  <2>3. CASE worker'.recovery.prefix_records = << >>
    BY <2>3 DEF StaysOwn
  <2>4. CASE \E j \in Job : worker'.recovery = Evidence(j)
    BY <2>4, <1>1, <1>o DEF Evidence
  <2> QED
    BY <2>1, <2>2, <2>3, <2>4
<1>4. \A c \in children' : StaysOwn(c.owned)
  <2>1. \A c \in children : StaysOwn(c.owned)
    BY <1>o DEF Owned
  <2>2. CASE Apply
    <3>1. me \in Job
      BY <2>2, <1>b DEF Apply, Idle
    <3>2. StaysOwn(Evidence(me).prefix_records)
      BY <3>1, <1>1, <1>o DEF Evidence
    <3> QED
      BY <2>1, <2>2, <3>2 DEF Apply
  <2>3. ASSUME NEW d \in children, GuardedLock(d)
        PROVE  \A c \in children' : StaysOwn(c.owned)
    <3>1. d \in Commands
      BY DEF TypeInv
    <3>2. [d EXCEPT !.at = "committing"].owned = d.owned
      BY <3>1 DEF Commands
    <3> QED
      BY <2>1, <2>3, <3>2 DEF GuardedLock
  <2>4. CASE children' \subseteq children
    BY <2>1, <2>4
  <2>5. \/ Apply \/ (\E d \in children : GuardedLock(d)) \/ children' \subseteq children
    <3>1. CASE Worker
      BY <3>1 DEF Worker, execute, Probe, Refinalize, _find_partial_recovery,
          _validate_target_schema, Record, MigrationStarted, InFlight, ApplyTimesOut, Observe,
          Verify, DatabaseVerified, _advance_source, SourceAdvanced, Reconcile, StartService,
          RestartService, ServiceRestarted, Postflight, succeed, Finalizing, fail
    <3>2. CASE \E c \in children : Child(c)
      BY <3>2 DEF Child, GuardedCommit, GuardedRollback
    <3> QED
      BY <3>1, <3>2 DEF Next, accept, Crash, recover_jobs, Disturb, vars
  <2> QED
    BY <2>2, <2>3, <2>4, <2>5
<1> QED
  BY <1>2, <1>3, <1>4 DEF Owned, OwnRecords, OwnRow, StaysOwn

(***************************************************************************)
(* No crash, timeout or interference makes a job claim what the updater    *)
(* has not applied: every row in any job's evidence was committed by a     *)
(* guarded apply.                                                          *)
(***************************************************************************)
THEOREM EvidenceIsNeverInvented == Spec => []EvidenceIsOwn
<1>1. Init => TypeInv /\ Owned
  <2> SUFFICES ASSUME Init PROVE Owned
    BY InitType
  <2> QED
    BY DEF Init, Owned, EvidenceIsOwn, Job, NoWorker, NoEvidence, OwnRecords
<1>2. TypeInv /\ Owned /\ [Next]_vars => TypeInv' /\ Owned'
  BY NextType, NextOwned
<1>3. Owned => EvidenceIsOwn
  BY DEF Owned
<1> QED
  BY <1>1, <1>2, <1>3, PTL DEF Spec
-----------------------------------------------------------------------------
(***************************************************************************)
(* The migration records and the lock on them.                             *)
(***************************************************************************)
LEMMA NextLocked == TypeInv /\ Locked /\ [Next]_vars => Locked'
<1> SUFFICES ASSUME TypeInv, Locked, [Next]_vars PROVE Locked'
  OBVIOUS
<1>b. worker.at \notin Idle => me \in Job
  BY DEF TypeInv
<1>1. \A c \in children' : Len(c.owned) < Migrations
  <2>1. \A c \in children : Len(c.owned) < Migrations
    BY DEF Locked
  <2>2. CASE Apply
    BY <2>1, <2>2 DEF Apply, Locked
  <2>3. ASSUME NEW d \in children, GuardedLock(d)
        PROVE  \A c \in children' : Len(c.owned) < Migrations
    <3>1. d \in Commands
      BY DEF TypeInv
    <3>2. [d EXCEPT !.at = "committing"].owned = d.owned
      BY <3>1 DEF Commands
    <3> QED
      BY <2>1, <2>3, <3>2 DEF GuardedLock
  <2> QED
    BY <2>1, <2>2, <2>3, StepFrame
<1>2. ASSUME NEW c \in children', c.at = "committing"
      PROVE  ExactlyOwned(c.owned)' /\ \A d \in children' : d.at = "committing" => d = c
  <2>1. ASSUME c \in children, UNCHANGED rows
        PROVE  ExactlyOwned(c.owned)'
    BY <1>2, <2>1 DEF Locked, ExactlyOwned, ObservedRefs
  <2>2. CASE \E d \in children : GuardedLock(d)
    <3>1. PICK d \in children : GuardedLock(d)
      BY <2>2
    <3>2. d \in Commands
      BY DEF TypeInv
    <3>3. [d EXCEPT !.at = "committing"].owned = d.owned
      BY <3>2 DEF Commands
    <3>4. c = [d EXCEPT !.at = "committing"] /\ GuardAccepts(d.owned)
          /\ children' = (children \ {d}) \cup {[d EXCEPT !.at = "committing"]}
      BY <3>1, <1>2 DEF GuardedLock, Readable
    <3>5. ExactlyOwned(c.owned)'
      BY <3>1, <3>3, <3>4 DEF GuardedLock, GuardAccepts, ExactlyOwned, ObservedRefs, db_vars
    <3> QED
      BY <3>1, <3>4, <3>5 DEF GuardedLock, Readable
  <2>3. CASE Apply
    BY <1>2, <2>1, <2>3 DEF Apply, db_vars, Locked
  <2>4. CASE children' \subseteq children
    <3>1. CASE UNCHANGED rows
      BY <1>2, <2>1, <2>4, <3>1 DEF Locked
    <3>2. CASE \E d \in children : GuardedCommit(d)
      BY <1>2, <3>2, <2>4 DEF GuardedCommit, Locked
    <3>3. CASE \E m \in Refs : Disturb(m)
      BY <1>2, <3>3 DEF Disturb, Readable
    <3> QED
      BY <3>1, <3>2, <3>3, StepFrame
  <2> QED
    BY <2>2, <2>3, <2>4, StepFrame
<1>3. (worker.at = "apply" => Len(Evidence(me).prefix_records) < Migrations)'
  <2>1. CASE InFlight
    <3> DEFINE f == [Evidence(me) EXCEPT !.nonce = next_id]
    <3>1. me \in Job
      BY <2>1, <1>b DEF InFlight, Idle
    <3>2. job[me] \in JobRecords
      BY <3>1 DEF TypeInv, Job
    <3>3. Evidence(me) \in Evidences
      BY <3>2 DEF JobRecords, Evidence
    <3>4. f \in Evidences /\ f.prefix_records = Evidence(me).prefix_records
      BY <3>3 DEF Evidences, TypeInv
    <3>5. job'[me].evidence = f
      BY <2>1, <3>1, <3>4, EvidenceWritten DEF InFlight, WriteEvidence
    <3>6. worker'.job = worker.job
      BY <2>1 DEF InFlight, Goes, TypeInv, Workers
    <3> QED
      BY <2>1, <3>4, <3>5, <3>6 DEF InFlight, Evidence, me
  <2>2. CASE ~InFlight /\ worker'.at = "apply"
    <3>1. UNCHANGED worker
      BY <2>2, WorkerFrame DEF Fresh, Advances, LooksAgain, Refinalize
    <3>2. UNCHANGED job
      <4>1. worker.at = "apply"
        BY <2>2, <3>1
      <4> QED
        BY <2>2, <3>1, <4>1, JobFrame
           DEF accept, NoWorker, WritesEvidence, WritesMilestone, WritesState, WritesMark,
               Record, Observe, Verify, Finalizing, Refinalize, MigrationStarted,
               DatabaseVerified, SourceAdvanced, Reconcile, execute, succeed, fail, StartService,
               ServiceRestarted
    <3> QED
      BY <2>2, <3>1, <3>2 DEF Locked, Evidence, me
  <2> QED
    BY <2>1, <2>2
<1> QED
  BY <1>1, <1>2, <1>3 DEF Locked

(***************************************************************************)
(* Undisturbed, the applied migrations are never taken back.               *)
(***************************************************************************)
LEMMA AppliedGrow ==
    ASSUME TypeInv, Locked, [Next]_vars, disturbs' = 0
    PROVE  /\ disturbs = 0 /\ ObservedRefs \subseteq ObservedRefs'
           /\ (\A m \in ObservedRefs : OwnRow(rows[m])) => (\A m \in ObservedRefs : OwnRow(rows[m]))'
<1>1. disturbs = 0 /\ ~ \E m \in Refs : Disturb(m)
  BY StepFrame DEF Disturb, TypeInv
<1>2. CASE UNCHANGED <<rows, receipts>>
  BY <1>1, <1>2 DEF ObservedRefs, OwnRow
<1>3. CASE \E c \in children : GuardedCommit(c)
  <2>1. PICK c \in children : GuardedCommit(c)
    BY <1>3
  <2> DEFINE k == Len(c.owned) + 1
  <2>2. c \in Commands
    BY DEF TypeInv
  <2>3. k \in Refs
    BY <2>2, UpdateAssumption DEF Locked, Commands, Refs
  <2>4. rows' = [rows EXCEPT ![k] = next_id] /\ receipts' = receipts \cup {[nonce |-> c.nonce, row |-> next_id]}
    BY <2>1 DEF GuardedCommit
  <2>5. rows \in [Refs -> Nat] /\ next_id \in Nat \ {0}
    BY DEF TypeInv
  <2> HIDE DEF k
  <2>6. ObservedRefs' = ObservedRefs \cup {k}
    BY <2>3, <2>4, <2>5 DEF ObservedRefs
  <2>7. \E x \in receipts' : x.row = next_id
    <3> DEFINE x == [nonce |-> c.nonce, row |-> next_id]
    <3>1. x \in receipts' /\ x.row = next_id
      BY <2>4
    <3> QED
      BY <3>1
  <2>8. rows'[k] = next_id /\ \A m \in Refs : m # k => rows'[m] = rows[m]
    BY <2>3, <2>4, <2>5
  <2> QED
    BY <1>1, <2>4, <2>6, <2>7, <2>8 DEF OwnRow, ObservedRefs
<1> QED
  BY <1>1, <1>2, <1>3, StepFrame

(***************************************************************************)
(* Nothing passes the schema check before the schema is complete.          *)
(***************************************************************************)
LEMMA NextUndisturbed == TypeInv /\ Locked /\ Undisturbed /\ [Next]_vars => Undisturbed'
<1> SUFFICES ASSUME TypeInv, Locked, Undisturbed, [Next]_vars, disturbs' = 0 PROVE Undisturbed'
  BY DEF Undisturbed
<1>1. /\ disturbs = 0 /\ ObservedRefs \subseteq ObservedRefs'
      /\ (\A m \in ObservedRefs : OwnRow(rows[m])) => (\A m \in ObservedRefs : OwnRow(rows[m]))'
  BY AppliedGrow
<1>2. (\A m \in ObservedRefs : OwnRow(rows[m]))'
  BY <1>1 DEF Undisturbed
<1>3. (worker.seen \subseteq ObservedRefs)'
  <2>1. worker.seen \subseteq ObservedRefs
    BY <1>1 DEF Undisturbed
  <2> QED
    BY <2>1, <1>1, WorkerFrame DEF Fresh, SameView, LooksAgain
<1>4. CASE Complete
  <2>1. ObservedRefs' \subseteq Refs
    BY DEF ObservedRefs, Refs
  <2> QED
    BY <1>1, <1>2, <1>3, <1>4, <2>1 DEF Undisturbed, Complete, Refs
<1>5. CASE ~Complete
  <2>1. /\ \A j \in Job : "database_verified" \notin job[j].milestones
        /\ "database_verified" \notin worker.milestones
        /\ worker.at \notin {"verified", "advance"}
        /\ head = "installed" /\ worker.seen \subseteq ObservedRefs
    BY <1>1, <1>5 DEF Undisturbed, Passed
  <2>b. worker.at \notin Idle => me \in Job
    BY DEF TypeInv
  <2>2. \A j \in Job' : "database_verified" \notin job'[j].milestones
    <3>1. CASE accept
      BY <3>1, <2>1, JobAccepted
    <3>2. CASE UNCHANGED job
      BY <3>2, <2>1 DEF Job
    <3>3. CASE Job' = Job /\ SameMilestones
      BY <3>3, <2>1 DEF SameMilestones
    <3>4. CASE WritesMilestone /\ ~UNCHANGED job
      <4>1. me \in Job /\ \E m \in Milestones : Milestone(m) /\ m # "database_verified"
        BY <2>1, <3>4, <2>b DEF WritesMilestone, MigrationStarted, DatabaseVerified, SourceAdvanced,
                          Reconcile, Idle, Milestones
      <4> QED
        BY <2>1, <4>1, MilestoneWritten
    <3> QED
      BY <3>1, <3>2, <3>3, <3>4, JobFrame
  <2>3. "database_verified" \notin worker'.milestones
    BY <2>1, <2>b, WorkerFrame DEF Fresh, SameView, LooksAgain, execute, Idle
  <2>4. worker'.at \notin {"verified", "advance"}
    <3>1. ~(Record /\ worker'.at = "verified")
      <4>1. Refs \ worker.seen # {}
        BY <2>1, <1>5 DEF Complete, ObservedRefs
      <4>2. ASSUME Record, worker'.at = "verified" PROVE FALSE
        <5>1. ~Passed("database_verified")
          BY <2>1 DEF Passed
        <5>2. Fails(TRUE) \/ Goes("start")
          BY <4>1, <4>2, <5>1 DEF Record
        <5>3. worker' # worker /\ worker'.at \in {"finalizing", "start"}
          BY <5>2, <4>2 DEF Fails, Goes, TypeInv, Workers, Record
        <5> QED
          BY <4>2, <5>3
      <4> QED
        BY <4>2
    <3>2. ~(Verify /\ worker'.at = "verified")
      <4>1. ASSUME Verify PROVE worker'.at = "finalizing"
        BY <4>1, <1>5 DEF Verify, Complete, Fails, TypeInv, Workers
      <4> QED
        BY <4>1
    <3>3. ~DatabaseVerified
      BY <2>1 DEF DatabaseVerified
    <3> QED
      BY <2>1, <3>1, <3>2, <3>3, WorkerFrame DEF Fresh, SameView, Advances, LooksAgain
  <2>5. head' = "installed"
    BY <2>1, StepFrame DEF _advance_source
  <2> QED
    BY <1>2, <1>3, <2>2, <2>3, <2>4, <2>5 DEF Undisturbed, Passed
<1> QED
  BY <1>4, <1>5

(***************************************************************************)
(* Nothing behind the advance runs on the installed source.                *)
(***************************************************************************)
LEMMA NextAdvanced == TypeInv /\ Advanced /\ [Next]_vars => Advanced'
<1> SUFFICES ASSUME TypeInv, Advanced, [Next]_vars PROVE Advanced'
  OBVIOUS
<1>1. head = "target" => head' = "target"
  BY StepFrame DEF _advance_source
<1> QED
  BY <1>1, WorkerFrame
     DEF Advanced, BehindAdvance, Fresh, Advances, LooksAgain, SourceAdvanced, Reconcile,
         RestartService, ServiceRestarted, Postflight, StartService
-----------------------------------------------------------------------------
(***************************************************************************)
(* What the refinement rests on.                                           *)
(***************************************************************************)
ContractInv == TypeInv /\ Owned /\ Locked /\ Undisturbed /\ Advanced

(***************************************************************************)
(* A host without jobs has nothing to account for.                         *)
(***************************************************************************)
LEMMA InitContractInv == Init => ContractInv
<1> SUFFICES ASSUME Init PROVE ContractInv
  OBVIOUS
<1>1. TypeInv
  BY InitType
<1>2. /\ worker.at = "none" /\ worker.milestones = {} /\ worker.seen = {}
      /\ worker.recovery.prefix_records = << >> /\ Job = {} /\ children = {}
  BY DEF Init, NoWorker, NoEvidence, Job
<1>3. ObservedRefs = {} /\ head = "installed"
  BY DEF Init, ObservedRefs
<1>4. Owned
  BY <1>2 DEF Owned, EvidenceIsOwn, OwnRecords
<1>5. Locked
  BY <1>2 DEF Locked
<1>6. Undisturbed
  BY <1>2, <1>3 DEF Undisturbed, Passed
<1> QED
  BY <1>1, <1>2, <1>4, <1>5, <1>6 DEF ContractInv, Advanced, BehindAdvance

(***************************************************************************)
(* Every step keeps what the refinement rests on.                          *)
(***************************************************************************)
LEMMA NextContractInv == ContractInv /\ [Next]_vars => ContractInv'
  BY NextType, NextOwned, NextLocked, NextUndisturbed, NextAdvanced DEF ContractInv

\* The services that some job has restarted, as the contract sees them.
RestartedServices == {s \in Services : \E j \in Job : restarts[j][s] > 0}

(***************************************************************************)
(* A guarded apply's commit is the next migration of the contract.         *)
(***************************************************************************)
LEMMA CommitMigrates ==
    ASSUME ContractInv, NEW c \in children, GuardedCommit(c)
    PROVE  Contract!Migrate
<1> DEFINE k == Len(c.owned) + 1
<1>1. c \in Commands /\ rows \in [Refs -> Nat] /\ next_id \in Nat \ {0}
  BY DEF ContractInv, TypeInv
<1>2. k \in Refs /\ k = Len(c.owned) + 1 /\ Len(c.owned) \in Nat
  BY <1>1, UpdateAssumption DEF ContractInv, Locked, Commands, Refs
<1>3. ExactlyOwned(c.owned) /\ OwnRecords(c.owned)
  BY DEF GuardedCommit, ContractInv, Locked, Owned
<1>4. /\ rows' = [rows EXCEPT ![k] = next_id]
      /\ receipts' = receipts \cup {[nonce |-> c.nonce, row |-> next_id]}
      /\ UNCHANGED <<job, head, restarts, disturbs>>
  BY DEF GuardedCommit
<1> HIDE DEF k
<1>5. DOMAIN c.owned = 1 .. (k - 1)
  BY <1>1, <1>2 DEF Commands
<1>6. \A m \in Refs : IF m < k THEN rows[m] # 0 /\ OwnRow(rows[m]) ELSE rows[m] = 0
  BY <1>2, <1>3, <1>5 DEF ExactlyOwned, OwnRecords, ObservedRefs, Refs
<1>7. \A i \in Refs : AppliedBy[i] = IF i < k THEN "updater" ELSE "nobody"
  BY <1>6 DEF AppliedBy
<1>8. \E x \in receipts' : x.row = next_id
  <2> DEFINE x == [nonce |-> c.nonce, row |-> next_id]
  <2>1. x \in receipts' /\ x.row = next_id
    BY <1>4
  <2> QED
    BY <2>1
<1>9. AppliedBy' = [AppliedBy EXCEPT ![k] = "updater"]
  <2>1. /\ rows'[k] = next_id /\ next_id # 0
        /\ \A m \in Refs : m # k => rows'[m] = rows[m]
    BY <1>1, <1>2, <1>4
  <2>2. \A m \in Refs : OwnRow(rows[m]) => \E x \in receipts' : x.row = rows[m]
    BY <1>4 DEF OwnRow
  <2>3. \A m \in Refs : AppliedBy'[m] = IF m = k THEN "updater" ELSE AppliedBy[m]
    BY <1>6, <1>7, <1>8, <2>1, <2>2, <1>2 DEF AppliedBy, OwnRow, Refs
  <2> QED
    BY <2>3, <1>2 DEF AppliedBy
<1>10. disturbs > 0 \/ head = "installed"
  <2>1. ~Complete
    BY <1>2, <1>6 DEF Complete, ObservedRefs
  <2> QED
    BY <2>1 DEF ContractInv, Undisturbed, TypeInv
<1>11. UNCHANGED RestartedServices
  BY <1>4 DEF RestartedServices, Job
<1> QED
  BY <1>2, <1>4, <1>7, <1>9, <1>10, <1>11 DEF Contract!Migrate, Refs, RestartedServices

(***************************************************************************)
(* Every step is one of the contract, or leaves what it speaks of alone.   *)
(***************************************************************************)
LEMMA StepKeepsContract == ContractInv /\ [Next]_vars => [Contract!Next]_(Contract!vars)
<1> SUFFICES ASSUME ContractInv, [Next]_vars
             PROVE  Contract!Next \/ UNCHANGED <<AppliedBy, head, RestartedServices, disturbs>>
  BY DEF Contract!vars, RestartedServices
<1>t. TypeInv
  BY DEF ContractInv
<1>1. CASE \E c \in children : GuardedCommit(c)
  BY <1>1, CommitMigrates DEF Contract!Next
<1>2. CASE \E m \in Refs : Disturb(m)
  <2>1. PICK m \in Refs : Disturb(m)
    BY <1>2
  <2>2. AppliedBy' \in [1 .. Migrations -> Contract!Maker]
    BY DEF AppliedBy, Refs, Contract!Maker
  <2>3. UNCHANGED <<head, RestartedServices>> /\ disturbs' = disturbs + 1
    BY <2>1 DEF Disturb, RestartedServices, Job
  <2> QED
    BY <2>2, <2>3 DEF Contract!Next, Contract!Disturb, RestartedServices
<1>3. CASE UNCHANGED <<rows, receipts, disturbs>>
  <2>1. UNCHANGED AppliedBy
    BY <1>3 DEF AppliedBy, OwnRow
  <2>2. CASE _advance_source
    <3>1. UNCHANGED RestartedServices
      BY <2>2 DEF _advance_source, RestartedServices, Job
    <3>2. CASE UNCHANGED head
      BY <1>3, <2>1, <3>1, <3>2
    <3>3. CASE ~UNCHANGED head
      <4>1. head = "installed" /\ head' = "target" /\ worker.at = "advance"
        BY <2>2, <3>3, <1>t DEF _advance_source, TypeInv
      <4>2. disturbs > 0 \/ \A m \in 1 .. Migrations : AppliedBy[m] = "updater"
        BY <4>1, <1>t DEF ContractInv, Undisturbed, Complete, TypeInv, ObservedRefs, AppliedBy, Refs
      <4> QED
        BY <1>3, <2>1, <3>1, <4>1, <4>2 DEF Contract!Next, Contract!Advance, RestartedServices
    <3> QED
      BY <3>2, <3>3
  <2>3. CASE UNCHANGED head /\ \E s \in Services : RestartService(s)
    <3>1. PICK s \in Services : RestartService(s)
      BY <2>3
    <3>2. CASE UNCHANGED restarts
      BY <1>3, <2>1, <2>3, <3>1, <3>2 DEF RestartService, RestartedServices, Job
    <3>3. CASE ~UNCHANGED restarts
      <4>1. restarts' = [restarts EXCEPT ![me][s] = @ + 1] /\ UNCHANGED job
        BY <3>1, <3>3 DEF RestartService
      <4>2. head = "target" /\ me \in Job
        BY <3>1, <1>t DEF RestartService, ContractInv, Advanced, BehindAdvance, TypeInv, Idle
      <4>3. Job = DOMAIN restarts /\ \A j \in Job : restarts[j] \in [Services -> Nat]
        BY <1>t DEF TypeInv, Job
      <4>4. /\ \A j \in Job : j # me => restarts'[j] = restarts[j]
            /\ \A t \in Services : restarts'[me][t] = IF t = s THEN restarts[me][t] + 1
                                                               ELSE restarts[me][t]
        BY <4>1, <4>2, <4>3
      <4>5. RestartedServices' = RestartedServices \cup {s}
        <5>1. restarts[me][s] \in Nat
          BY <4>2, <4>3
        <5>2. Job' = Job
          BY <4>1 DEF Job
        <5> QED
          BY <4>2, <4>4, <5>1, <5>2 DEF RestartedServices
      <4>6. Contract!Restart(s)
        BY <1>3, <2>1, <2>3, <4>2, <4>5 DEF Contract!Restart, RestartedServices
      <4> QED
        BY <4>6 DEF Contract!Next
    <3> QED
      BY <3>2, <3>3
  <2>4. CASE UNCHANGED head /\ accept
    <3>1. Job' = Job \cup {Len(job) + 1} /\ Len(job) + 1 \notin Job
      BY <2>4, <1>t, JobAccepted
    <3>2. /\ \A j \in Job : restarts'[j] = restarts[j]
          /\ \A s \in Services : restarts'[Len(job) + 1][s] = 0
      BY <2>4, <1>t DEF accept, TypeInv, Job
    <3>3. UNCHANGED RestartedServices
      BY <3>1, <3>2 DEF RestartedServices
    <3> QED
      BY <1>3, <2>1, <2>4, <3>3
  <2>5. CASE UNCHANGED <<head, restarts>> /\ Job' = Job
    BY <1>3, <2>1, <2>5 DEF RestartedServices
  <2>6. accept \/ Job' = Job
    BY JobFrame, <1>t DEF Job
  <2> QED
    BY <2>2, <2>3, <2>4, <2>5, <2>6, StepFrame
<1> QED
  BY <1>1, <1>2, <1>3, StepFrame

(***************************************************************************)
(* Whatever jobs, crashes, timeouts and retries it takes, the updater's    *)
(* jobs together are one update in the sense of the contract: migrations   *)
(* one at a time and in order on top of its own work, the source advances  *)
(* behind the complete schema, services restart on the new source.         *)
(***************************************************************************)
THEOREM JobsKeepContract == Spec => ImplementsContract
<1>1. Init => Contract!Init
  <2> SUFFICES ASSUME Init PROVE Contract!Init
    OBVIOUS
  <2>1. AppliedBy = [m \in 1 .. Migrations |-> "nobody"]
    BY DEF Init, AppliedBy, Refs
  <2>2. RestartedServices = {}
    BY DEF Init, RestartedServices, Job
  <2> QED
    BY <2>1, <2>2 DEF Init, Contract!Init, RestartedServices
<1> QED
  BY <1>1, InitContractInv, NextContractInv, StepKeepsContract, PTL
     DEF Spec, ImplementsContract, Contract!Spec
-----------------------------------------------------------------------------
(***************************************************************************)
(* A service is restarted between its two durable marks, and once.         *)
(***************************************************************************)
LEMMA NextRestartsAreMarked ==
    TypeInv /\ Advanced /\ RestartsAreMarked /\ [Next]_vars => RestartsAreMarked'
<1> SUFFICES ASSUME TypeInv, Advanced, RestartsAreMarked, [Next]_vars PROVE RestartsAreMarked'
  OBVIOUS
<1>b. worker.at \notin Idle => me \in Job
  BY DEF TypeInv
<1>r. Job = DOMAIN restarts /\ \A j \in Job : restarts[j] \in [Services -> Nat]
  BY DEF TypeInv, Job
<1>j. \A j \in Job : job[j] \in JobRecords
  BY DEF TypeInv, Job
<1>h. head = "target" => head' = "target"
  BY StepFrame DEF _advance_source
<1>m. ASSUME NEW s \in Services, StartService(s) \/ ServiceRestarted(s), ~UNCHANGED job
      PROVE  /\ Job' = Job /\ me \in Job /\ SameStates
             /\ \A i \in Job : i # me => job'[i] = job[i]
             /\ \/ /\ StartService(s) /\ s \notin job[me].started
                   /\ job'[me].started = job[me].started \cup {s}
                   /\ job'[me].restarted = job[me].restarted
                \/ /\ ServiceRestarted(s)
                   /\ job'[me].started = job[me].started
                   /\ job'[me].restarted = job[me].restarted \cup {s}
  <2>1. me \in Job
    BY <1>m, <1>b DEF StartService, ServiceRestarted, Idle
  <2>2. CASE StartService(s)
    <3> DEFINE r == [job[me] EXCEPT !.started = @ \cup {s}]
    <3>1. job' = [job EXCEPT ![me] = r] /\ s \notin job[me].started
      BY <1>m, <2>2 DEF StartService, MayRestart
    <3>2. r \in JobRecords /\ r.started = job[me].started \cup {s}
          /\ r.restarted = job[me].restarted /\ r.state = job[me].state
      BY <2>1, <1>j DEF JobRecords
    <3> HIDE DEF r
    <3> QED
      BY <2>1, <2>2, <3>1, <3>2, JobWritten DEF SameStates
  <2>3. CASE ServiceRestarted(s)
    <3> DEFINE r == [job[me] EXCEPT !.restarted = @ \cup {s}]
    <3>1. job' = [job EXCEPT ![me] = r]
      BY <2>3 DEF ServiceRestarted
    <3>2. r \in JobRecords /\ r.restarted = job[me].restarted \cup {s}
          /\ r.started = job[me].started /\ r.state = job[me].state
      BY <2>1, <1>j DEF JobRecords
    <3> HIDE DEF r
    <3> QED
      BY <2>1, <2>3, <3>1, <3>2, JobWritten DEF SameStates
  <2> QED
    BY <1>m, <2>2, <2>3
<1>1. CASE accept
  <2>1. /\ Job' = Job \cup {Len(job) + 1} /\ Len(job) + 1 \notin Job
        /\ \A j \in Job : job'[j] = job[j]
        /\ job'[Len(job) + 1].started = {} /\ job'[Len(job) + 1].restarted = {}
        /\ job'[Len(job) + 1].state = "accepted" /\ worker'.at = "execute"
    BY <1>1, JobAccepted
  <2>2. /\ \A j \in Job : restarts'[j] = restarts[j]
        /\ \A s \in Services : restarts'[Len(job) + 1][s] = 0
    BY <1>1 DEF accept, TypeInv, Job
  <2> QED
    BY <2>1, <2>2, <1>h DEF RestartsAreMarked
<1>2. CASE \E s \in Services : RestartService(s)
  <2>1. PICK s \in Services : RestartService(s)
    BY <1>2
  <2>2. /\ me \in Job /\ UNCHANGED <<job, head>> /\ worker.service = s
        /\ s \in job[me].started /\ restarts[me][s] = 0
    BY <2>1, <1>b DEF RestartService, Idle, RestartsAreMarked
  <2>3. CASE UNCHANGED restarts
    <3>1. worker'.at = "finalizing"
      <4>1. restarts' # [restarts EXCEPT ![me][s] = @ + 1]
        <5>1. [restarts EXCEPT ![me][s] = @ + 1][me][s] = 1
          BY <2>2, <1>r
        <5> QED
          BY <2>2, <2>3, <5>1
      <4>2. Fails(TRUE)
        BY <2>1, <4>1 DEF RestartService
      <4> QED
        BY <4>2 DEF Fails, TypeInv, Workers
    <3> QED
      BY <2>2, <2>3, <3>1 DEF RestartsAreMarked, Job
  <2>4. CASE ~UNCHANGED restarts
    <3>1. restarts' = [restarts EXCEPT ![me][s] = @ + 1] /\ Goes("restarted")
      BY <2>1, <2>4 DEF RestartService
    <3>2. worker'.at = "restarted" /\ worker'.job = worker.job /\ worker'.service = s
      BY <2>2, <3>1 DEF Goes, TypeInv, Workers
    <3>3. /\ \A j \in Job : j # me => restarts'[j] = restarts[j]
          /\ \A t \in Services : restarts'[me][t] = IF t = s THEN 1 ELSE restarts[me][t]
      BY <2>2, <3>1, <1>r
    <3> QED
      BY <2>2, <3>2, <3>3 DEF RestartsAreMarked, Job, me
  <2> QED
    BY <2>3, <2>4
<1>3. CASE UNCHANGED restarts /\ ~accept
  <2>1. \A j \in Job' : \A s \in Services :
           /\ s \notin job'[j].started => restarts'[j][s] = 0
           /\ s \in job'[j].restarted => restarts'[j][s] = 1
           /\ restarts'[j][s] <= 1
    <3>1. CASE UNCHANGED job \/ (Job' = Job /\ SameMarks)
      BY <1>3, <3>1 DEF RestartsAreMarked, SameMarks, Job
    <3>2. CASE WritesMark /\ ~UNCHANGED job
      <4>1. PICK s \in Services : StartService(s) \/ ServiceRestarted(s)
        BY <3>2 DEF WritesMark
      <4>2. ServiceRestarted(s) => restarts[me][s] = 1
        BY DEF ServiceRestarted, RestartsAreMarked
      <4> QED
        BY <1>3, <3>2, <4>1, <4>2, <1>m DEF RestartsAreMarked
    <3> QED
      BY <1>3, <3>1, <3>2, JobFrame
  <2>2. (worker.at \in {"restart", "restarted"} =>
           /\ worker.service \in job[me].started
           /\ restarts[me][worker.service] = IF worker.at = "restart" THEN 0 ELSE 1)'
    <3>1. CASE worker'.at = "restart" /\ worker' # worker
      <4>1. PICK s \in Services : /\ StartService(s) /\ s \notin job[me].started
                                  /\ worker'.job = worker.job /\ worker'.service = s
        BY <3>1, WorkerFrame DEF Fresh, Advances, LooksAgain, Refinalize
      <4>2. me \in Job /\ restarts[me][s] = 0
        BY <4>1, <1>b DEF StartService, Idle, RestartsAreMarked
      <4>3. s \in job'[me].started
        <5>1. job' = [job EXCEPT ![me].started = @ \cup {s}]
          BY <4>1 DEF StartService, MayRestart
        <5>2. [job[me] EXCEPT !.started = @ \cup {s}] \in JobRecords
              /\ [job[me] EXCEPT !.started = @ \cup {s}].started = job[me].started \cup {s}
          BY <4>2, <1>j DEF JobRecords
        <5> QED
          BY <4>2, <5>1, <5>2, JobWritten
      <4> QED
        BY <1>3, <3>1, <4>1, <4>2, <4>3 DEF me
    <3>2. CASE UNCHANGED worker
      <4>1. worker.at \in {"restart", "restarted"} => UNCHANGED job
        <5> SUFFICES ASSUME worker.at \in {"restart", "restarted"} PROVE UNCHANGED job
          OBVIOUS
        <5>1. ~ \E s \in Services : ServiceRestarted(s)
          BY <3>2 DEF ServiceRestarted, Goes, TypeInv, Workers
        <5> QED
          BY <1>3, <3>2, <5>1, JobFrame
             DEF WritesEvidence, WritesMilestone, WritesState, WritesMark, Record, InFlight,
                 Observe, Verify, Finalizing, Refinalize, MigrationStarted, DatabaseVerified,
                 SourceAdvanced, Reconcile, execute, succeed, fail, StartService
      <4> QED
        BY <1>3, <3>2, <4>1 DEF RestartsAreMarked, me
    <3>3. worker'.at # "restarted" \/ UNCHANGED worker
      <4>1. ~ \E s \in Services : RestartService(s) /\ worker'.at = "restarted"
        <5> SUFFICES ASSUME NEW s \in Services, RestartService(s), worker'.at = "restarted"
                     PROVE  FALSE
          OBVIOUS
        <5>1. me \in Job
          BY <1>b DEF RestartService, Idle
        <5>2. restarts' = [restarts EXCEPT ![me][s] = @ + 1]
          BY DEF RestartService, Fails, TypeInv, Workers
        <5> QED
          BY <1>3, <5>1, <5>2, <1>r
      <4> QED
        BY <4>1, WorkerFrame DEF Fresh, Advances, LooksAgain, Refinalize
    <3> QED
      BY <3>1, <3>2, <3>3
  <2>3. (worker.at = "succeed" => job[me].restarted = Services)'
    <3>1. CASE worker'.at = "succeed" /\ worker' # worker
      <4>1. Postflight /\ worker'.job = worker.job
        BY <3>1, WorkerFrame DEF Fresh, Advances, LooksAgain, Refinalize, SameView
      <4> QED
        BY <4>1 DEF Postflight, me
    <3>2. CASE worker'.at = "succeed" /\ UNCHANGED worker
      <4>1. ~succeed
        BY <3>2 DEF succeed, NoWorker
      <4>2. UNCHANGED job
        BY <1>3, <3>2, <4>1, JobFrame
           DEF WritesEvidence, WritesMilestone, WritesState, WritesMark, Record, InFlight,
               Observe, Verify, Finalizing, Refinalize, MigrationStarted, DatabaseVerified,
               SourceAdvanced, Reconcile, execute, fail, StartService, ServiceRestarted
      <4> QED
        BY <3>2, <4>2 DEF RestartsAreMarked, me
    <3> QED
      BY <3>1, <3>2
  <2>4. \A j \in Job' : job'[j].state = "succeeded" =>
           head' = "target" /\ job'[j].restarted = Services
    <3>1. \A j \in Job : job[j].state = "succeeded" =>
             head' = "target" /\ job[j].restarted = Services
      BY <1>h DEF RestartsAreMarked
    <3>2. CASE UNCHANGED job \/ (Job' = Job /\ SameMarks /\ SameStates)
      BY <3>1, <3>2 DEF SameMarks, SameStates, Job
    <3>3. CASE WritesMark /\ ~UNCHANGED job
      <4>1. PICK s \in Services : StartService(s) \/ ServiceRestarted(s)
        BY <3>3 DEF WritesMark
      <4>2. \A j \in Job : job[j].restarted \subseteq Services
        BY <1>j DEF JobRecords
      <4>3. /\ Job' = Job /\ SameStates /\ job'[me].restarted \in {job[me].restarted, job[me].restarted \cup {s}}
            /\ \A i \in Job : i # me => job'[i] = job[i]
        BY <3>3, <4>1, <1>m
      <4> QED
        BY <3>1, <4>1, <4>2, <4>3 DEF SameStates
    <3>4. CASE WritesMilestone /\ ~UNCHANGED job
      <4>1. me \in Job /\ \E m \in Milestones : Milestone(m)
        BY <3>4, <1>b DEF WritesMilestone, MigrationStarted, DatabaseVerified, SourceAdvanced,
                          Reconcile, Idle, Milestones
      <4> QED
        BY <3>1, <4>1, MilestoneWritten
    <3>5. CASE WritesState /\ ~UNCHANGED job
      <4>1. me \in Job
        BY <3>5, <1>b DEF WritesState, execute, succeed, fail, Idle
      <4>2. PICK s \in States : job' = [job EXCEPT ![me].state = s] /\ (s = "succeeded" => succeed)
        <5>1. CASE execute
          BY <3>5, <5>1 DEF execute, States
        <5>2. CASE succeed
          BY <5>2 DEF succeed, States, Terminal
        <5>3. CASE fail
          <6>1. \E s \in {"failed", "manual_intervention_required"} : job' = [job EXCEPT ![me].state = s]
            BY <5>3 DEF fail
          <6> QED
            BY <6>1 DEF States, Terminal
        <5> QED
          BY <3>5, <5>1, <5>2, <5>3 DEF WritesState
      <4>3. s = "succeeded" => head' = "target" /\ job[me].restarted = Services
        BY <4>2, <1>h DEF succeed, Advanced, BehindAdvance, RestartsAreMarked
      <4> QED
        BY <3>1, <4>1, <4>2, <4>3, StateWritten DEF SameMarks
    <3> QED
      BY <1>3, <3>2, <3>3, <3>4, <3>5, JobFrame
  <2> QED
    BY <2>1, <2>2, <2>3, <2>4 DEF RestartsAreMarked
<1> QED
  BY <1>1, <1>2, <1>3, StepFrame

(***************************************************************************)
(* No service is restarted twice by a job, and a job that succeeded has    *)
(* restarted each of them once, on the target source, behind a complete    *)
(* schema of the updater's own unless somebody else interfered.            *)
(***************************************************************************)
THEOREM SuccessPromisesAll == Spec => []SuccessIsComplete
<1>1. Init => ContractInv /\ RestartsAreMarked
  BY InitContractInv DEF Init, RestartsAreMarked, Job, NoWorker
<1>2. ContractInv /\ RestartsAreMarked /\ [Next]_vars => ContractInv' /\ RestartsAreMarked'
  BY NextContractInv, NextRestartsAreMarked DEF ContractInv
<1>3. ContractInv /\ RestartsAreMarked => SuccessIsComplete
  <2> SUFFICES ASSUME ContractInv, RestartsAreMarked, NEW j \in Job,
                      job[j].state = "succeeded", disturbs = 0
               PROVE  \A m \in Refs : OwnRow(rows[m])
    BY DEF SuccessIsComplete, RestartsAreMarked
  <2>1. head = "target"
    BY DEF RestartsAreMarked
  <2> QED
    BY <2>1 DEF ContractInv, Undisturbed, Complete, ObservedRefs
<1> QED
  BY <1>1, <1>2, <1>3, PTL DEF Spec
-----------------------------------------------------------------------------
(***************************************************************************)
(* A write of evidence leaves no contradiction in it.                      *)
(***************************************************************************)
LEMMA FinalizedConsistent ==
    ASSUME NEW e, e.finalized => e.written
    PROVE  Finalized(e).finalized => Finalized(e).written
<1>1. CASE Finalized(e) = e
  BY <1>1
<1>2. CASE Finalized(e) # e
  <2>1. Finalized(e).written
    BY <1>2 DEF Finalized
  <2> QED
    BY <2>1
<1> QED
  BY <1>1, <1>2

(***************************************************************************)
(* The worker and its job file agree.                                      *)
(***************************************************************************)
LEMMA NextConsistent == TypeInv /\ Consistent /\ [Next]_vars => Consistent'
<1> SUFFICES ASSUME TypeInv, Consistent, [Next]_vars PROVE Consistent'
  OBVIOUS
<1>b. worker.at \notin Idle => me \in Job
  BY DEF TypeInv
<1>1. (\A j \in Job : Evidence(j).finalized => Evidence(j).written)'
  <2>1. \A j \in Job : job[j].evidence.finalized => job[j].evidence.written
    BY DEF Consistent, Evidence
  <2>2. CASE accept
    BY <2>1, <2>2, JobAccepted DEF Evidence, NoEvidence
  <2>3. CASE UNCHANGED job \/ (Job' = Job /\ SameEvidence)
    BY <2>1, <2>3 DEF Evidence, Job, SameEvidence
  <2>4. CASE WritesEvidence /\ ~UNCHANGED job
    <3>1. ASSUME NEW j, NEW e, Rewrites(j, e), e.finalized => e.written
          PROVE  (\A i \in Job : Evidence(i).finalized => Evidence(i).written)'
      BY <2>1, <3>1 DEF Rewrites, Evidence
    <3>2. CASE RecordsPlan
      BY <3>1, <3>2 DEF RecordsPlan
    <3>3. CASE RecordsNonce \/ RecordsMigration
      BY <2>1, <3>1, <3>3 DEF RecordsNonce, RecordsMigration, Rewrites, Evidence
    <3>4. CASE RecordsEnd
      <4>1. Evidence(me).written
        BY <3>4 DEF RecordsEnd, Verify, Consistent, Migrating, OpenEvidence
      <4> QED
        BY <3>1, <3>4, <4>1 DEF RecordsEnd
    <3>5. CASE Finalizes
      BY <2>1, <3>1, <3>5, FinalizedConsistent DEF Finalizes, Evidence
    <3> QED
      BY <2>4, <3>2, <3>3, <3>4, <3>5, EvidenceSteps
  <2> QED
    BY <2>2, <2>3, <2>4, JobFrame
<1>2. (worker.recovery.written \/ worker.recovery.prefix_records = << >>)'
  <2>1. NoEvidence.prefix_records = << >>
    BY DEF NoEvidence
  <2> QED
    BY <2>1, WorkerFrame DEF Fresh, SameView, LooksAgain, Consistent
<1>3. (worker.at \notin Idle => Active(me))'
  <2>1. CASE worker.at \in Idle
    <3>1. CASE worker'.at \notin Idle
      <4>1. accept \/ recover_jobs
        BY <2>1, <3>1, WorkerFrame
           DEF Idle, Fresh, Advances, LooksAgain, Record, MigrationStarted, InFlight, Apply,
               WaitsFor, Observe, Verify, DatabaseVerified, _advance_source, SourceAdvanced,
               Reconcile, RestartService, ServiceRestarted, Postflight, Finalizing, execute,
               Probe, _find_partial_recovery, _validate_target_schema, Refinalize, StartService,
               Crash, succeed, fail, NoWorker
      <4>2. CASE accept
        BY <4>2, JobAccepted DEF Active, Terminal, me
      <4>3. CASE recover_jobs
        <5> DEFINE a == CHOOSE j \in Job : Active(j)
        <5>1. \E j \in Job : Active(j)
          BY <3>1, <4>3 DEF recover_jobs, NoWorker, Idle
        <5>2. Active(a)
          BY <5>1
        <5>3. worker' = [NoWorker EXCEPT !.at = "execute", !.job = a] /\ UNCHANGED job
          BY <4>3, <5>1 DEF recover_jobs
        <5> HIDE DEF a
        <5>4. worker'.job = a
          BY <5>3, NoneType DEF Workers
        <5> QED
          BY <5>2, <5>3, <5>4 DEF Active, me
      <4> QED
        BY <4>1, <4>2, <4>3
    <3> QED
      BY <3>1
  <2>2. CASE worker.at \notin Idle /\ worker'.at \notin Idle
    <3>1. me \in Job /\ job[me].state \notin Terminal
      BY <2>2, <1>b DEF Consistent, Active
    <3>2. ~accept /\ ~succeed /\ ~fail /\ ~Crash /\ ~recover_jobs
      BY <2>2, <3>1 DEF accept, succeed, fail, Crash, recover_jobs, Idle, NoWorker, Active
    <3>3. worker'.job = worker.job
      BY <3>2, WorkerFrame DEF SameView, LooksAgain
    <3>4. job'[me].state \notin Terminal
      <4>1. CASE UNCHANGED job \/ SameStates
        BY <3>1, <4>1 DEF SameStates
      <4>2. CASE WritesMilestone /\ ~UNCHANGED job
        <5>1. \E m \in Milestones : Milestone(m)
          BY <4>2 DEF WritesMilestone, MigrationStarted, DatabaseVerified, SourceAdvanced,
                      Reconcile, Milestones
        <5>2. job'[me].state = "running"
          BY <3>1, <5>1, MilestoneWritten
        <5> QED
          BY <5>2 DEF Terminal
      <4>3. CASE execute /\ ~UNCHANGED job
        <5>1. job' = [job EXCEPT ![me].state = "running"]
          BY <4>3 DEF execute
        <5>2. job'[me].state = "running"
          BY <3>1, <5>1, StateWritten DEF States
        <5> QED
          BY <5>2 DEF Terminal
      <4> QED
        BY <3>2, <4>1, <4>2, <4>3, JobFrame DEF WritesState
    <3> QED
      BY <3>3, <3>4 DEF Active, me
  <2> QED
    BY <2>1, <2>2
<1>4. (worker.at \in Preparing =>
         worker.milestones = job[me].milestones /\ ~Ambiguous(worker.milestones))'
  <2> SUFFICES ASSUME worker'.at \in Preparing
               PROVE  /\ worker'.milestones = job'[worker'.job].milestones
                      /\ ~Ambiguous(worker'.milestones)
    BY DEF me, Ambiguous
  <2>1. CASE execute /\ worker'.at = "probe"
    <3>1. me \in Job
      BY <2>1, <1>b DEF execute, Idle
    <3>2. worker'.milestones = job[me].milestones /\ worker'.job = worker.job
          /\ ~Ambiguous(job[me].milestones)
      BY <2>1, WorkerFrame
         DEF Fresh, SameView, Advances, LooksAgain, execute, Refinalize, StartService,
             accept, Crash, recover_jobs, succeed, fail
    <3>3. SameMilestones
      <4>1. job' = [job EXCEPT ![me].state = "running"] \/ UNCHANGED job
        BY <2>1 DEF execute
      <4> QED
        BY <3>1, <4>1, StateWritten DEF SameMilestones, States
    <3> QED
      BY <3>1, <3>2, <3>3 DEF SameMilestones, me
  <2>2. CASE worker.at \in Preparing
    <3>1. me \in Job /\ worker.milestones = job[me].milestones /\ ~Ambiguous(worker.milestones)
      BY <2>2, <1>b DEF Consistent, Preparing, Idle
    <3>2. worker'.milestones = worker.milestones /\ worker'.job = worker.job
      BY <2>2, WorkerFrame DEF Fresh, SameView, LooksAgain, Preparing, execute
    <3>3. ~accept
      BY JobAccepted DEF Preparing
    <3>4. job'[me].milestones = job[me].milestones
      BY <2>2, <3>1, <3>3, JobFrame
         DEF SameMilestones, WritesMilestone, MigrationStarted, DatabaseVerified, SourceAdvanced,
             Reconcile, Preparing
    <3> QED
      BY <3>1, <3>2, <3>4 DEF me
  <2>3. worker.at \in Preparing \/ (execute /\ worker'.at = "probe")
    BY WorkerFrame
       DEF Preparing, Fresh, Advances, LooksAgain, Probe, _find_partial_recovery,
           _validate_target_schema, Refinalize
  <2> QED
    BY <2>1, <2>2, <2>3
<1>5. (worker.at \in Migrating \cup {"start"} => OpenEvidence(Evidence(me)))'
  <2> SUFFICES ASSUME worker'.at \in Migrating \cup {"start"}
               PROVE  OpenEvidence(job'[worker'.job].evidence)
    BY DEF me, Evidence, OpenEvidence
  <2>1. CASE UNCHANGED worker
    BY <2>1, WorkerWrites DEF Consistent, me, Evidence, OpenEvidence
  <2>2. CASE worker' # worker
    <3>1. \/ Record /\ worker'.at = "start"
          \/ MigrationStarted
          \/ InFlight /\ worker'.at = "apply"
          \/ Apply
          \/ \E c \in children : GuardedCommit(c) /\ WaitsFor(c)
          \/ Observe /\ worker'.at = "migrate"
      BY <2>2, WorkerFrame DEF Migrating, Fresh, Advances, LooksAgain, Refinalize
    <3>2. worker'.job = worker.job
      BY <2>2, WorkerFrame DEF Migrating, Fresh, SameView, LooksAgain
    <3>3. CASE \/ Record /\ worker'.at = "start"
               \/ InFlight /\ worker'.at = "apply"
               \/ Observe /\ worker'.at = "migrate"
      <4>1. RecordsPlan \/ RecordsNonce \/ RecordsMigration
        BY <3>3, EvidenceSteps
           DEF WritesEvidence, RecordsEnd, Verify, Finalizes, Finalizing, Refinalize, Record,
               InFlight, Observe
      <4>2. InFlight \/ Observe => OpenEvidence(Evidence(me))
        BY DEF InFlight, Observe, Consistent, Migrating
      <4> QED
        BY <3>2, <4>1, <4>2
           DEF RecordsPlan, RecordsNonce, RecordsMigration, Rewrites, OpenEvidence, me, Evidence
    <3>4. CASE MigrationStarted \/ Apply \/ \E c \in children : GuardedCommit(c) /\ WaitsFor(c)
      <4>1. me \in Job /\ OpenEvidence(job[me].evidence)
        BY <3>4, <1>b
           DEF MigrationStarted, Apply, WaitsFor, Consistent, Migrating, Evidence, Idle
      <4>2. job'[me].evidence = job[me].evidence
        <5>1. MigrationStarted => Milestone("migration_started")
          BY DEF MigrationStarted
        <5>2. Apply \/ (\E c \in children : GuardedCommit(c)) => UNCHANGED job
          BY DEF Apply, GuardedCommit
        <5> QED
          BY <3>4, <4>1, <5>1, <5>2, MilestoneWritten DEF Milestones, SameEvidence
      <4> QED
        BY <3>2, <4>1, <4>2 DEF me
    <3> QED
      BY <3>1, <3>3, <3>4
  <2> QED
    BY <2>1, <2>2
<1>6. (worker.at \in Migrating => "migration_started" \in job[me].milestones)'
  <2> SUFFICES ASSUME worker'.at \in Migrating
               PROVE  "migration_started" \in job'[worker'.job].milestones
    BY DEF me
  <2>1. CASE UNCHANGED worker
    BY <2>1, WorkerWrites DEF Consistent, me
  <2>2. CASE worker' # worker
    <3>1. \/ MigrationStarted
          \/ worker.at \in Migrating
      BY <2>2, WorkerFrame
         DEF Migrating, Fresh, Advances, LooksAgain, Refinalize, InFlight, Apply, WaitsFor, Observe
    <3>2. worker'.job = worker.job /\ ~accept /\ me \in Job
      BY <2>2, <3>1, <1>b, WorkerFrame, JobAccepted
         DEF Migrating, Fresh, SameView, LooksAgain, MigrationStarted, Idle
    <3>3. CASE MigrationStarted
      BY <3>2, <3>3, MilestoneWritten DEF MigrationStarted, Milestones, me
    <3>4. CASE worker.at \in Migrating /\ ~MigrationStarted
      <4>1. "migration_started" \in job[me].milestones
        BY <3>4 DEF Consistent
      <4>2. UNCHANGED job \/ SameMilestones
        BY <3>2, <3>4, JobFrame
           DEF WritesMilestone, DatabaseVerified, SourceAdvanced, Reconcile, Migrating
      <4> QED
        BY <3>2, <4>1, <4>2 DEF SameMilestones, me
    <3> QED
      BY <3>1, <3>3, <3>4
  <2> QED
    BY <2>1, <2>2
<1>7. (worker.at = "apply" => Evidence(me).nonce # 0)'
  <2> SUFFICES ASSUME worker'.at = "apply" PROVE job'[worker'.job].evidence.nonce # 0
    BY DEF me, Evidence
  <2>1. CASE UNCHANGED worker
    BY <2>1, WorkerWrites DEF Consistent, me, Evidence
  <2>2. CASE worker' # worker
    <3>1. InFlight
      BY <2>2, WorkerFrame DEF Fresh, Advances, LooksAgain, Refinalize
    <3>2. RecordsNonce
      BY <3>1, EvidenceSteps
         DEF WritesEvidence, RecordsPlan, RecordsMigration, RecordsEnd, Verify, Finalizes,
             Finalizing, Refinalize, Record, InFlight, Observe
    <3> QED
      BY <3>2 DEF RecordsNonce, Rewrites, TypeInv, me
  <2> QED
    BY <2>1, <2>2
<1>8. \A c \in children' : c.nonce # 0
  <2>1. \A c \in children : c.nonce # 0
    BY DEF Consistent
  <2>2. CASE Apply
    BY <2>1, <2>2 DEF Apply, Consistent
  <2>3. ASSUME NEW d \in children, GuardedLock(d)
        PROVE  \A c \in children' : c.nonce # 0
    <3>1. d \in Commands
      BY DEF TypeInv
    <3>2. [d EXCEPT !.at = "committing"].nonce = d.nonce
      BY <3>1 DEF Commands
    <3> QED
      BY <2>1, <2>3, <3>2 DEF GuardedLock
  <2> QED
    BY <2>1, <2>2, <2>3, StepFrame
<1> QED
  BY <1>1, <1>2, <1>3, <1>4, <1>5, <1>6, <1>7, <1>8 DEF Consistent

(***************************************************************************)
(* Calm is not regained.                                                   *)
(***************************************************************************)
LEMMA CalmBefore ==
    ASSUME TypeInv, [Next]_vars, Calm'
    PROVE  Calm /\ ~ \E m \in Refs : Disturb(m)
<1>1. disturbs = 0 /\ ~ \E m \in Refs : Disturb(m)
  BY StepFrame DEF Calm, Disturb, TypeInv
<1>2. ~orphaned
  BY StepFrame DEF Calm, Crash
<1> QED
  BY <1>1, <1>2 DEF Calm

(***************************************************************************)
(* No job file changes under a command, but for the job's state.           *)
(***************************************************************************)
LEMMA FilesWait ==
    ASSUME TypeInv, Consistent, OwnCommands, Calm, [Next]_vars, children # {}
    PROVE  \A j \in Job : /\ j \in Job' /\ job'[j].evidence = job[j].evidence
                          /\ job'[j].milestones = job[j].milestones
<1>1. PICK c \in children : TRUE
  OBVIOUS
<1>2. worker.at = "applying" \/ (c.at = "committing" /\ worker.at \in Blind)
  BY DEF OwnCommands
<1>3. CASE accept
  BY <1>3, JobAccepted
<1>4. CASE UNCHANGED job
  BY <1>4 DEF Job
<1>5. CASE Job' = Job /\ SameEvidence /\ SameMilestones
  BY <1>5 DEF SameEvidence, SameMilestones
<1>6. ~WritesMilestone
  BY <1>2 DEF Blind, WritesMilestone, MigrationStarted, DatabaseVerified, SourceAdvanced, Reconcile
<1>7. WritesEvidence => UNCHANGED job
  <2> SUFFICES ASSUME WritesEvidence, ~UNCHANGED job PROVE FALSE
    OBVIOUS
  <2>1. CASE RecordsPlan \/ RecordsNonce \/ RecordsMigration \/ RecordsEnd
    BY <1>2, <2>1 DEF Blind, RecordsPlan, RecordsNonce, RecordsMigration, RecordsEnd, Record,
                      InFlight, Observe, Verify
  <2>2. CASE Finalizes
    BY <1>2, <2>2 DEF Blind, Finalizes, Readable, Finalizing, Refinalize
  <2> QED
    BY <2>1, <2>2, EvidenceSteps
<1> QED
  BY <1>3, <1>4, <1>5, <1>6, <1>7, JobFrame

(***************************************************************************)
(* A command belongs to its worker, or commits while nobody looks.         *)
(***************************************************************************)
LEMMA NextOwnCommands ==
    TypeInv /\ Consistent /\ OwnCommands /\ [Next]_vars => OwnCommands'
<1> SUFFICES ASSUME TypeInv, Consistent, OwnCommands, [Next]_vars, Calm' PROVE OwnCommands'
  BY DEF OwnCommands
<1>c. Calm
  BY CalmBefore
<1>b. worker.at \notin Idle => me \in Job
  BY DEF TypeInv
<1>q. \A c \in children : worker.at = "applying" \/ (c.at = "committing" /\ worker.at \in Blind)
  BY <1>c DEF OwnCommands
<1>u. \A c, d \in children : c = d
  BY <1>c DEF OwnCommands
<1>1. CASE children' = {}
  BY <1>1 DEF OwnCommands
<1>2. CASE Apply
  <2> DEFINE n == [at |-> "starting", nonce |-> Evidence(me).nonce, owned |-> Evidence(me).prefix_records]
  <2>1. children' = {n}
    <3>1. children = {}
      BY <1>2, <1>q DEF Apply, Blind
    <3> QED
      BY <1>2, <3>1 DEF Apply
  <2>2. me \in Job /\ OpenEvidence(Evidence(me)) /\ "migration_started" \in job[me].milestones
    BY <1>2, <1>b DEF Apply, Consistent, Migrating, Idle
  <2>3. worker'.at = "applying" /\ worker'.job = worker.job /\ UNCHANGED job
    BY <1>2 DEF Apply, Goes, TypeInv, Workers
  <2>4. n.nonce = Evidence(me).nonce /\ n.owned = Evidence(me).prefix_records
    OBVIOUS
  <2> HIDE DEF n
  <2>5. IsFor(n, me)
    BY <2>2, <2>4 DEF IsFor
  <2> QED
    BY <2>1, <2>2, <2>3, <2>5 DEF OwnCommands, IsFor, Evidence, OpenEvidence, Job, me
<1>3. CASE children' # {} /\ \E d \in children : GuardedLock(d)
  <2>1. PICK d \in children : GuardedLock(d)
    BY <1>3
  <2> DEFINE n == [d EXCEPT !.at = "committing"]
  <2>2. d \in Commands
    BY DEF TypeInv
  <2>3. n.nonce = d.nonce /\ n.owned = d.owned /\ n.at = "committing"
    BY <2>2 DEF Commands
  <2> HIDE DEF n
  <2>4. worker.at = "applying" /\ IsFor(d, me)
    BY <2>1, <1>q, <1>c DEF GuardedLock, OwnCommands
  <2>5. children \ {d} = {}
    BY <1>u
  <2>6. children' = {n} /\ UNCHANGED <<worker, job>>
    BY <1>3, <2>1, <2>5 DEF GuardedLock, n
  <2>7. IsFor(n, me) /\ me \in Job
    BY <2>3, <2>4, <1>b DEF IsFor, Idle
  <2> QED
    BY <2>3, <2>4, <2>6, <2>7 DEF OwnCommands, IsFor, Evidence, OpenEvidence, Job, me
<1>4. CASE children' # {} /\ children' \subseteq children
  <2>1. PICK c \in children' : TRUE
    BY <1>4
  <2>2. children = {c} /\ children' = {c}
    BY <1>4, <2>1, <1>u
  <2>3. \A j \in Job : /\ j \in Job' /\ job'[j].evidence = job[j].evidence
                       /\ job'[j].milestones = job[j].milestones
    BY <2>2, <1>c, FilesWait
  <2>4. \E j \in Job : IsFor(c, j)
    BY <2>2, <1>c DEF OwnCommands
  <2>5. (\E j \in Job : IsFor(c, j))'
    BY <2>3, <2>4 DEF IsFor, Evidence, OpenEvidence
  <2>6. CASE UNCHANGED worker
    <3>1. UNCHANGED job
      BY <2>6, WorkerWrites
    <3>2. worker.at = "applying" => IsFor(c, me)
      BY <2>2, <1>c DEF OwnCommands
    <3> QED
      BY <2>2, <2>5, <2>6, <3>1, <3>2, <1>q DEF OwnCommands, IsFor, Evidence, OpenEvidence, Job, me
  <2>7. CASE worker' # worker
    <3>1. worker'.at \in Blind /\ c.at = "committing"
      <4>1. CASE worker.at \in Blind
        <5>1. c.at = "committing"
          BY <2>2, <4>1, <1>q DEF Blind
        <5>2. ~Probe
          BY <2>2, <5>1 DEF Probe, Readable
        <5> QED
          BY <4>1, <5>1, <5>2, <2>7, WorkerFrame
             DEF Blind, Fresh, Advances, LooksAgain, Record, MigrationStarted, InFlight, Apply,
                 WaitsFor, Observe, Verify, DatabaseVerified, _advance_source, SourceAdvanced,
                 Reconcile, RestartService, ServiceRestarted, Postflight, Finalizing, execute,
                 _find_partial_recovery, _validate_target_schema, Refinalize, StartService
      <4>2. CASE worker.at = "applying"
        <5>1. me \in Job /\ Active(me)
          BY <4>2, <1>b DEF Consistent, Idle
        <5>2. ~accept
          BY <5>1 DEF accept
        <5>3. \A d \in children : ~GuardedCommit(d) /\ ~GuardedRollback(d)
          BY <2>2 DEF GuardedCommit, GuardedRollback
        <5>4. ASSUME GuardedLock(c) PROVE FALSE
          <6>1. [c EXCEPT !.at = "committing"] # c
            BY <5>4, <2>2 DEF GuardedLock, TypeInv, Commands
          <6> QED
            BY <5>4, <6>1, <2>2 DEF GuardedLock
        <5>5. CASE Crash
          <6>1. worker'.at = "down"
            BY <5>5, NoneType DEF Crash, Workers
          <6>2. c.at \in {"starting", "committing"}
            BY <2>2 DEF TypeInv, Commands
          <6>3. c.at = "committing"
            BY <2>2, <5>5, <6>2 DEF Crash, Calm
          <6> QED
            BY <6>1, <6>3 DEF Blind
        <5>6. CASE ApplyTimesOut(c)
          <6>1. worker'.at = "finalizing"
            BY <5>6 DEF ApplyTimesOut, Fails, TypeInv, Workers
          <6>2. c.at = "committing"
            BY <5>6, <2>2 DEF ApplyTimesOut
          <6> QED
            BY <6>1, <6>2 DEF Blind
        <5>7. ~Worker \/ ApplyTimesOut(c)
          BY <4>2, <2>2
             DEF Worker, execute, Probe, Refinalize, _find_partial_recovery,
                 _validate_target_schema, Record, MigrationStarted, InFlight, Apply, Observe,
                 Verify, DatabaseVerified, _advance_source, SourceAdvanced, Reconcile,
                 StartService, RestartService, ServiceRestarted, Postflight, succeed, Finalizing,
                 fail
        <5> QED
          BY <4>2, <2>2, <2>7, <5>2, <5>3, <5>4, <5>5, <5>6, <5>7
             DEF Next, recover_jobs, Disturb, vars, Child
      <4> QED
        BY <2>2, <4>1, <4>2, <1>q
    <3>2. worker'.at # "applying"
      BY <3>1 DEF Blind
    <3> QED
      BY <2>2, <2>5, <3>1, <3>2 DEF OwnCommands
  <2> QED
    BY <2>6, <2>7
<1> QED
  BY <1>1, <1>2, <1>3, <1>4, StepFrame

(***************************************************************************)
(* Without a command, the calm migration records stand still.              *)
(***************************************************************************)
LEMMA RecordsStill ==
    ASSUME TypeInv, OwnCommands, [Next]_vars, Calm',
           worker.at \notin Blind \cup {"applying"} \/ Probe
    PROVE  UNCHANGED <<rows, receipts>>
<1>1. Calm /\ ~ \E m \in Refs : Disturb(m)
  BY CalmBefore
<1>2. CASE Probe
  BY <1>2 DEF Probe, db_vars
<1>3. CASE worker.at \notin Blind \cup {"applying"}
  BY <1>1, <1>3, StepFrame DEF OwnCommands
<1> QED
  BY <1>2, <1>3

(***************************************************************************)
(* From its probe to its migrations the worker knows what is applied.      *)
(***************************************************************************)
LEMMA NextKnows ==
    TypeInv /\ Undisturbed /\ Consistent /\ OwnCommands /\ Knows /\ [Next]_vars => Knows'
<1> SUFFICES ASSUME TypeInv, Undisturbed, Consistent, OwnCommands, Knows, [Next]_vars, Calm'
             PROVE  Knows'
  BY DEF Knows
<1>c. Calm
  BY CalmBefore
<1>b. worker.at \notin Idle => me \in Job
  BY DEF TypeInv
<1>1. (worker.at \in {"recovery", "schema", "record"} => worker.seen = ObservedRefs)'
  <2> SUFFICES ASSUME worker'.at \in {"recovery", "schema", "record"}
               PROVE  worker'.seen = ObservedRefs'
    OBVIOUS
  <2>1. Probe \/ worker.at \in {"recovery", "schema", "record"}
    BY WorkerFrame
       DEF Fresh, Advances, LooksAgain, _find_partial_recovery, _validate_target_schema,
           Refinalize
  <2>2. UNCHANGED rows
    BY <2>1, RecordsStill DEF Blind
  <2>3. worker.at \in {"recovery", "schema", "record"} => worker.seen = ObservedRefs
    BY <1>c DEF Knows
  <2>4. worker'.seen = ObservedRefs
    <3>1. CASE Probe
      BY <3>1 DEF Probe, TypeInv, Workers
    <3>2. CASE worker.at \in {"recovery", "schema", "record"}
      BY <2>3, <3>2, WorkerFrame DEF Fresh, SameView, LooksAgain
    <3> QED
      BY <2>1, <3>1, <3>2
  <2> QED
    BY <2>2, <2>4 DEF ObservedRefs
<1>2. (worker.at = "record" /\ ~Passed("database_verified") /\ ObservedRefs # Refs =>
          ExactlyOwned(worker.recovery.prefix_records))'
  <2> SUFFICES ASSUME worker'.at = "record", "database_verified" \notin worker'.milestones,
                      ObservedRefs' # Refs
               PROVE  ExactlyOwned(worker.recovery.prefix_records)'
    BY DEF Passed, Refs
  <2>1. worker.at \in {"schema", "record"}
    BY WorkerFrame DEF Fresh, Advances, LooksAgain, _validate_target_schema, Refinalize
  <2>2. UNCHANGED rows
    BY <2>1, RecordsStill DEF Blind
  <2>3. ObservedRefs # Refs
    BY <2>2 DEF ObservedRefs
  <2>4. worker'.recovery = worker.recovery /\ worker'.milestones = worker.milestones
    BY WorkerFrame DEF Fresh, Advances, SameView, LooksAgain, Refinalize
  <2>5. ExactlyOwned(worker.recovery.prefix_records)
    <3>1. CASE worker.at = "record"
      BY <2>3, <2>4, <3>1, <1>c DEF Knows, Passed
    <3>2. CASE worker.at = "schema"
      <4>1. _validate_target_schema
        BY <3>2, WorkerFrame DEF Fresh, Advances, LooksAgain, Refinalize
      <4>2. \A b \in BOOLEAN : ~Fails(b)
        BY DEF Fails, TypeInv, Workers
      <4>3. CASE worker.recovery.written
        BY <4>1, <4>2, <4>3 DEF _validate_target_schema, OwnershipHolds
      <4>4. CASE ~worker.recovery.written
        <5>1. worker.recovery.prefix_records = << >>
          BY <4>4 DEF Consistent
        <5>2. "migration_started" \notin worker.milestones
          BY <3>2, <2>4 DEF Consistent, Preparing, Ambiguous
        <5>3. head = "installed"
          BY <1>c, <2>3 DEF Undisturbed, Complete, Calm
        <5>4. worker.seen = {}
          BY <4>1, <4>2, <4>4, <5>2, <5>3 DEF _validate_target_schema, Passed
        <5>5. ObservedRefs = {}
          BY <3>2, <5>4, <1>c DEF Knows
        <5> QED
          BY <5>1, <5>5 DEF ExactlyOwned
      <4> QED
        BY <4>3, <4>4
    <3> QED
      BY <2>1, <3>1, <3>2
  <2> QED
    BY <2>2, <2>4, <2>5 DEF ExactlyOwned, ObservedRefs
<1>3. (worker.at \in Prepared => ExactlyOwned(Evidence(me).prefix_records))'
  <2> SUFFICES ASSUME worker'.at \in Prepared
               PROVE  ExactlyOwned(Evidence(me).prefix_records)'
    OBVIOUS
  <2>1. worker.at \notin Blind \cup {"applying"}
    BY WorkerFrame
       DEF Prepared, Blind, Fresh, Advances, LooksAgain, Record, MigrationStarted, InFlight,
           Observe, Refinalize
  <2>2. UNCHANGED rows
    BY <2>1, RecordsStill
  <2>3. CASE UNCHANGED worker
    BY <2>2, <2>3, <1>c, WorkerWrites DEF Knows, Evidence, me, ExactlyOwned, ObservedRefs
  <2>4. CASE worker' # worker
    <3>1. \/ Record /\ worker'.at = "start"
          \/ MigrationStarted
          \/ InFlight /\ worker'.at = "apply"
          \/ Observe /\ worker'.at = "migrate"
      BY <2>4, WorkerFrame DEF Prepared, Fresh, Advances, LooksAgain, Refinalize
    <3>2. worker'.job = worker.job /\ me \in Job
      BY <2>4, <3>1, <1>b, WorkerFrame
         DEF Prepared, Fresh, SameView, LooksAgain, Record, MigrationStarted, InFlight, Observe,
             Idle
    <3>3. CASE MigrationStarted
      <4>1. ExactlyOwned(job[me].evidence.prefix_records)
        BY <3>3, <1>c DEF MigrationStarted, Knows, Prepared, Evidence
      <4>2. job'[me].evidence = job[me].evidence
        BY <3>2, <3>3, MilestoneWritten DEF MigrationStarted, Milestones, SameEvidence
      <4> QED
        BY <2>2, <3>2, <4>1, <4>2 DEF Evidence, me, ExactlyOwned, ObservedRefs
    <3>4. CASE \/ Record /\ worker'.at = "start"
               \/ InFlight /\ worker'.at = "apply"
               \/ Observe /\ worker'.at = "migrate"
      <4>1. RecordsPlan \/ RecordsNonce \/ RecordsMigration
        BY <3>4, EvidenceSteps
           DEF WritesEvidence, RecordsEnd, Verify, Finalizes, Finalizing, Refinalize, Record,
               InFlight, Observe
      <4>2. CASE RecordsPlan
        <5>1. worker.at = "record" /\ worker.seen = ObservedRefs
          BY <4>2, <1>c DEF RecordsPlan, Record, Knows
        <5>2. ObservedRefs # Refs
          BY <4>2, <5>1 DEF RecordsPlan
        <5>3. ExactlyOwned(worker.recovery.prefix_records)
          BY <4>2, <5>1, <5>2, <1>c DEF RecordsPlan, Knows, Passed
        <5>4. job'[me].evidence.prefix_records = worker.recovery.prefix_records
          BY <4>2 DEF RecordsPlan, Rewrites
        <5> QED
          BY <2>2, <3>2, <5>3, <5>4 DEF Evidence, me, ExactlyOwned, ObservedRefs
      <4>3. CASE RecordsNonce
        <5>1. ExactlyOwned(Evidence(me).prefix_records)
          BY <4>3, <1>c DEF RecordsNonce, InFlight, Knows, Prepared
        <5>2. job'[me].evidence.prefix_records = Evidence(me).prefix_records
          BY <4>3 DEF RecordsNonce, Rewrites
        <5> QED
          BY <2>2, <3>2, <5>1, <5>2 DEF Evidence, me, ExactlyOwned, ObservedRefs
      <4>4. CASE RecordsMigration
        <5> DEFINE e == Evidence(me)
                   f == job'[me].evidence
        <5>1. f.prefix_records = Append(e.prefix_records, rows[Len(e.prefix_records) + 1])
          BY <4>4 DEF RecordsMigration, Rewrites
        <5>2. Extended(e)
          BY <4>4 DEF RecordsMigration
        <5>3. job[me] \in JobRecords
          BY <3>2 DEF TypeInv, Job
        <5>4. e.prefix_records \in Seq(Nat)
          BY <5>3 DEF JobRecords, Evidence, Evidences
        <5> HIDE DEF e, f
        <5>5. ExactlyOwned(f.prefix_records)
          BY <5>1, <5>2, <5>4 DEF Extended, ExactlyOwned
        <5> QED
          BY <2>2, <3>2, <5>5 DEF Evidence, me, ExactlyOwned, ObservedRefs, f
      <4> QED
        BY <4>1, <4>2, <4>3, <4>4
    <3> QED
      BY <3>1, <3>3, <3>4
  <2> QED
    BY <2>3, <2>4
<1> QED
  BY <1>1, <1>2, <1>3 DEF Knows

(***************************************************************************)
(* Evidence that proves what is applied is finalized to just that.         *)
(***************************************************************************)
LEMMA ProofIsFinalized ==
    ASSUME TypeInv, NEW j \in Job, Proves(j), ObservedRefs # {}, ~Evidence(j).finalized
    PROVE  /\ Finalized(Evidence(j)).written /\ Finalized(Evidence(j)).finalized
           /\ ExactlyOwned(Finalized(Evidence(j)).prefix_records)
<1> DEFINE e == Evidence(j)
           k == Len(e.prefix_records)
           n == IF Claimable(e) /\ ObservedRefs = 1 .. (k + 1) THEN k + 1 ELSE k
<1>1. job[j] \in JobRecords
  BY DEF TypeInv, Job
<1>2. e \in Evidences /\ e.prefix_records \in Seq(Nat) /\ k \in Nat
  BY <1>1 DEF JobRecords, Evidences, Evidence
<1>3. ObservedRefs = 1 .. n /\ n \in Nat
  BY <1>2 DEF Proves, ExactlyOwned, Claimable
<1>4. n > 0
  BY <1>3
<1>5. e.written /\ \A m \in 1 .. k : rows[m] = e.prefix_records[m]
  BY DEF Proves, ExactlyOwned
<1>6. Finalized(e) = [written |-> TRUE, prefix_records |-> [m \in 1 .. n |-> rows[m]],
                      nonce |-> 0, finalized |-> TRUE]
  BY <1>3, <1>4, <1>5 DEF Finalized
<1> HIDE DEF e, n
<1>7. /\ Finalized(e).written /\ Finalized(e).finalized
      /\ Finalized(e).prefix_records = [m \in 1 .. n |-> rows[m]]
  BY <1>6
<1>8. Len([m \in 1 .. n |-> rows[m]]) = n
  <2>1. rows \in [Refs -> Nat] /\ ObservedRefs \subseteq Refs
    BY DEF TypeInv, ObservedRefs
  <2>2. [m \in 1 .. n |-> rows[m]] \in Seq(Nat)
    BY <1>3, <2>1
  <2> QED
    BY <1>3, <2>2
<1> QED
  BY <1>3, <1>7, <1>8 DEF ExactlyOwned, e

(***************************************************************************)
(* Some job's evidence accounts for what is applied.                       *)
(***************************************************************************)
LEMMA NextAccounts ==
    TypeInv /\ Locked /\ Consistent /\ OwnCommands /\ Knows /\ Accounts /\ [Next]_vars => Accounts'
<1> SUFFICES ASSUME TypeInv, Locked, Consistent, OwnCommands, Knows, Accounts, [Next]_vars,
                    Calm', ObservedRefs' # {}
             PROVE  (\E j \in Job : Proves(j))'
  BY DEF Accounts
<1>c. Calm /\ ~ \E m \in Refs : Disturb(m)
  BY CalmBefore
<1>b. worker.at \notin Idle => me \in Job
  BY DEF TypeInv
<1>1. CASE \E c \in children : GuardedCommit(c)
  <2>1. PICK c \in children : GuardedCommit(c)
    BY <1>1
  <2>2. PICK j \in Job : IsFor(c, j)
    BY <1>c DEF OwnCommands
  <2> DEFINE e == Evidence(j)
             k == Len(c.owned) + 1
  <2>3. /\ c \in Commands /\ rows \in [Refs -> Nat] /\ next_id \in Nat \ {0}
        /\ UNCHANGED job /\ ExactlyOwned(c.owned) /\ Len(c.owned) < Migrations /\ c.nonce # 0
    BY <2>1 DEF TypeInv, Locked, GuardedCommit, Consistent
  <2>4. k \in Refs /\ k = Len(c.owned) + 1 /\ Len(c.owned) \in Nat
    BY <2>3, UpdateAssumption DEF Commands, Refs
  <2>5. /\ rows' = [rows EXCEPT ![k] = next_id]
        /\ [nonce |-> c.nonce, row |-> next_id] \in receipts'
    BY <2>1 DEF GuardedCommit
  <2> HIDE DEF k
  <2>6. rows'[k] = next_id /\ \A m \in Refs : m # k => rows'[m] = rows[m]
    BY <2>3, <2>4, <2>5
  <2>7. ObservedRefs' = 1 .. k
    <3>1. ObservedRefs = 1 .. Len(c.owned)
      BY <2>3 DEF ExactlyOwned
    <3>2. ObservedRefs' = ObservedRefs \cup {k}
      BY <2>3, <2>4, <2>6 DEF ObservedRefs, Refs
    <3> QED
      BY <2>4, <3>1, <3>2
  <2>8. \A m \in 1 .. Len(c.owned) : rows'[m] = c.owned[m]
    <3>1. \A m \in 1 .. Len(c.owned) : m \in Refs /\ m # k
      BY <2>3, <2>4, UpdateAssumption DEF Refs
    <3> QED
      BY <2>3, <2>6, <3>1 DEF ExactlyOwned
  <2>9. /\ e.written /\ ~e.finalized /\ e.nonce = c.nonce /\ e.prefix_records = c.owned
        /\ "migration_started" \in job[j].milestones
    BY <2>2 DEF IsFor, OpenEvidence
  <2>10. Evidence(j)' = e /\ j \in Job' /\ job' = job
    BY <2>3 DEF Evidence, Job
  <2> HIDE DEF e
  <2>11. Claimable(e)'
    <3>1. k \in ObservedRefs'
      BY <2>4, <2>7
    <3> QED
      BY <2>3, <2>4, <2>5, <2>6, <2>9, <2>10, <3>1 DEF Claimable, e
  <2> QED
    BY <2>4, <2>7, <2>8, <2>9, <2>10, <2>11 DEF Proves, e
<1>2. CASE UNCHANGED <<rows, receipts>>
  <2>1. ObservedRefs # {} /\ ObservedRefs' = ObservedRefs
    BY <1>2 DEF ObservedRefs
  <2>2. PICK p \in Job : Proves(p)
    BY <2>1, <1>c DEF Accounts
  <2>3. ASSUME NEW j \in Job, j \in Job', Proves(j), job'[j].evidence = job[j].evidence,
               job[j].milestones \subseteq job'[j].milestones
        PROVE  Proves(j)'
    BY <1>2, <2>1, <2>3 DEF Proves, Evidence, ExactlyOwned, Claimable
  <2>4. ASSUME NEW j \in Job, j \in Job', job'[j].evidence.written,
               ExactlyOwned(job'[j].evidence.prefix_records),
               "migration_started" \in job'[j].milestones
        PROVE  Proves(j)'
    BY <1>2, <2>1, <2>4 DEF Proves, Evidence, ExactlyOwned
  <2>5. CASE accept
    BY <2>2, <2>3, <2>5, JobAccepted
  <2>6. CASE UNCHANGED job
    BY <2>2, <2>3, <2>6 DEF Job
  <2>7. CASE Job' = Job /\ SameEvidence /\ SameMilestones
    BY <2>2, <2>3, <2>7 DEF SameEvidence, SameMilestones
  <2>8. CASE WritesMilestone /\ ~UNCHANGED job
    <3>1. me \in Job /\ \E m \in Milestones : Milestone(m)
      BY <2>8, <1>b DEF WritesMilestone, MigrationStarted, DatabaseVerified, SourceAdvanced,
                        Reconcile, Idle, Milestones
    <3>2. Job' = Job /\ SameEvidence /\ \A j \in Job : job[j].milestones \subseteq job'[j].milestones
      BY <3>1, MilestoneWritten
    <3> QED
      BY <2>2, <2>3, <3>2 DEF SameEvidence
  <2>9. CASE WritesEvidence /\ Job' = Job /\ SameMilestones
    <3>1. CASE RecordsPlan
      <4>1. p # me
        BY <2>2, <3>1 DEF RecordsPlan, Record, Consistent, Preparing, Ambiguous, Proves
      <4> QED
        BY <2>2, <2>3, <2>9, <3>1, <4>1 DEF RecordsPlan, Rewrites, SameMilestones
    <3>2. CASE RecordsNonce \/ RecordsEnd
      <4>1. /\ worker.at = "migrate" /\ me \in Job
            /\ job'[me].evidence.written = Evidence(me).written
            /\ job'[me].evidence.prefix_records = Evidence(me).prefix_records
        BY <3>2 DEF RecordsNonce, RecordsEnd, InFlight, Verify, Rewrites
      <4>2. /\ Evidence(me).written /\ "migration_started" \in job[me].milestones
            /\ ExactlyOwned(Evidence(me).prefix_records)
        BY <4>1, <1>c DEF Consistent, Migrating, OpenEvidence, Knows, Prepared
      <4> QED
        BY <2>4, <2>9, <4>1, <4>2 DEF SameMilestones
    <3>3. CASE RecordsMigration
      <4> DEFINE e == Evidence(me)
                 f == job'[me].evidence
      <4>1. /\ worker.at = "observe" /\ me \in Job /\ f.written = e.written /\ Extended(e)
            /\ f.prefix_records = Append(e.prefix_records, rows[Len(e.prefix_records) + 1])
        BY <3>3 DEF RecordsMigration, Observe, Rewrites
      <4>2. e.written /\ "migration_started" \in job[me].milestones
        BY <4>1 DEF Consistent, Migrating, OpenEvidence
      <4>3. job[me] \in JobRecords
        BY <4>1 DEF TypeInv, Job
      <4>4. e.prefix_records \in Seq(Nat)
        BY <4>3 DEF JobRecords, Evidence, Evidences
      <4> HIDE DEF e, f
      <4>5. ExactlyOwned(f.prefix_records)
        BY <4>1, <4>4 DEF Extended, ExactlyOwned
      <4>6. "migration_started" \in job'[me].milestones
        BY <2>9, <4>1, <4>2 DEF SameMilestones
      <4>7. Proves(me)'
        <5> DEFINE h == me
        <5>1. h \in Job /\ h \in Job' /\ job'[h].evidence.written
              /\ ExactlyOwned(job'[h].evidence.prefix_records)
              /\ "migration_started" \in job'[h].milestones
          BY <2>9, <4>1, <4>2, <4>5, <4>6 DEF f
        <5>2. worker'.job = worker.job
          BY <3>3 DEF RecordsMigration
        <5> QED
          BY <1>2, <2>1, <5>1, <5>2 DEF Proves, Evidence, ExactlyOwned, me
      <4> QED
        BY <3>3, <4>1, <4>7, <2>9 DEF RecordsMigration, me
    <3>4. CASE Finalizes
      <4>1. PICK j \in Job : Rewrites(j, Finalized(Evidence(j)))
        BY <3>4 DEF Finalizes
      <4>2. CASE p # j \/ Evidence(p).finalized
        <5>1. Evidence(p).finalized => Finalized(Evidence(p)) = Evidence(p)
          BY DEF Finalized
        <5>2. job'[p].evidence = job[p].evidence
          BY <4>1, <4>2, <5>1 DEF Rewrites, Evidence
        <5> QED
          BY <2>2, <2>3, <2>9, <5>2 DEF SameMilestones
      <4>3. CASE p = j /\ ~Evidence(p).finalized
        <5>1. /\ Finalized(Evidence(p)).written
              /\ ExactlyOwned(Finalized(Evidence(p)).prefix_records)
          BY <2>1, <2>2, <4>3, ProofIsFinalized
        <5>2. job'[p].evidence = Finalized(Evidence(p))
          BY <4>1, <4>3 DEF Rewrites
        <5>3. "migration_started" \in job'[p].milestones
          BY <2>2, <2>9 DEF Proves, SameMilestones
        <5> QED
          BY <2>4, <2>9, <5>1, <5>2, <5>3
      <4> QED
        BY <4>2, <4>3
    <3> QED
      BY <2>6, <2>9, <3>1, <3>2, <3>3, <3>4, EvidenceSteps
  <2> QED
    BY <2>5, <2>6, <2>7, <2>8, <2>9, JobFrame
<1> QED
  BY <1>1, <1>2, <1>c, StepFrame

(***************************************************************************)
(* A failed update can be continued by a fresh retry: as long as nobody    *)
(* else interferes and no command outlives its worker, whatever is applied *)
(* on a host still at the installed source is proved by the evidence of a  *)
(* failed job.                                                             *)
(***************************************************************************)
THEOREM RetryFindsItsEvidence == Spec => []RetryIsNotStranded
<1> DEFINE Inv == /\ ContractInv /\ RestartsAreMarked
                  /\ Consistent /\ OwnCommands /\ Knows /\ Accounts
<1>1. Init => Inv
  <2> SUFFICES ASSUME Init PROVE Inv
    OBVIOUS
  <2>1. ContractInv
    BY InitContractInv
  <2>2. /\ Job = {} /\ children = {} /\ worker.at = "none" /\ ObservedRefs = {}
        /\ worker.recovery.prefix_records = << >>
    BY DEF Init, Job, NoWorker, NoEvidence, ObservedRefs
  <2>3. RestartsAreMarked
    BY <2>2 DEF RestartsAreMarked
  <2>4. Consistent
    BY <2>2 DEF Consistent, Idle, Preparing, Migrating
  <2>5. OwnCommands /\ Knows /\ Accounts
    BY <2>2 DEF OwnCommands, Knows, Accounts, Prepared
  <2> QED
    BY <2>1, <2>3, <2>4, <2>5
<1>2. Inv /\ [Next]_vars => Inv'
  BY NextContractInv, NextRestartsAreMarked, NextConsistent, NextOwnCommands, NextKnows,
     NextAccounts DEF ContractInv
<1>3. Inv => RetryIsNotStranded
  <2> SUFFICES ASSUME Inv, \A j \in Job : ~Active(j), ~orphaned, disturbs = 0,
                      head = "installed", ObservedRefs # {}
               PROVE  \/ \E j \in Candidates(ObservedRefs) : ExactlyOwned(Evidence(j).prefix_records)
                      \/ \E j \in Unfinalized : Finalized(Evidence(j)).finalized
    BY DEF RetryIsNotStranded
  <2>1. PICK j \in Job : Proves(j)
    BY DEF Accounts, Calm
  <2>2. job[j].state \in {"failed", "manual_intervention_required"}
    BY DEF Active, Terminal, RestartsAreMarked
  <2>3. CASE Evidence(j).finalized
    <3>1. ExactlyOwned(Evidence(j).prefix_records)
      BY <2>1, <2>3 DEF Proves
    <3> QED
      BY <2>2, <2>3, <3>1 DEF Candidates, ExactlyOwned
  <2>4. CASE ~Evidence(j).finalized
    <3>1. Finalized(Evidence(j)).finalized
      BY <2>1, <2>4, ProofIsFinalized DEF ContractInv
    <3>2. j \in Unfinalized
      BY <2>1, <2>2, <2>4 DEF Unfinalized, Proves
    <3> QED
      BY <3>1, <3>2
  <2> QED
    BY <2>3, <2>4
<1> QED
  BY <1>1, <1>2, <1>3, PTL DEF Spec
=============================================================================
