----------------------------- MODULE EncoderGroups -----------------------------
(***************************************************************************)
(* The encoder manager (encoders/services/encoder_manager.py, lkg.py).     *)
(*                                                                         *)
(* One Liquidsoap child per input device streams the enabled encoder rows  *)
(* of that device.  A configuration that differs from the group's last     *)
(* known good one runs on probation first: a child that stays healthy is   *)
(* promoted, one that does not is rejected and the last known good one is  *)
(* launched again.  The manager is one thread that ticks; the database, the*)
(* children and the disk change under it.  A tick runs the reconciliation, *)
(* then handles exits, retries and qualifications; each of these is an     *)
(* action, because each of them may find nothing to do in a tick.          *)
(*                                                                         *)
(* A fingerprint and the configuration it stands for are one value.        *)
(***************************************************************************)
EXTENDS Integers, FiniteSets

CONSTANTS
    Groups,        \* input devices, as numbers in the order of their names
    Destinations,  \* what two encoders may collide on: normalized_destination_key
    Incomplete,    \* recorded rows that have no normalized_destination_key
    NoConfig, NoDest, NoLkg,
    MaxEdits,      \* bound: edits of the database
    MaxFaults      \* bound: failed launches, crashes, unreadable files, ...

ASSUME EncoderAssumption ==
    /\ Groups \subseteq Nat /\ IsFiniteSet(Groups)
    /\ NoDest \notin Destinations /\ Incomplete \notin Destinations /\ Incomplete # NoDest
    /\ MaxEdits \in Nat /\ MaxFaults \in Nat

\* A "good" configuration streams; a "bad" one passes the static checks and
\* never becomes healthy; an "invalid" one fails them.
Config == [dest : Destinations, quality : {"good", "bad", "invalid"}]

\* What lkg.write_lkg persists: a script, the fingerprint in its metadata, and
\* the destinations that destinations_from_lkg_meta finds there.
Persistent ==
    [script : Config, meta : Config \cup {NoConfig},
     dests : Destinations \cup {Incomplete, NoDest}]

ASSUME NoValueAssumption == NoConfig \notin Config /\ NoLkg \notin Persistent

VARIABLES
    db,        \* the enabled encoder rows of each group
    lkg,       \* on disk: the persisted script and its metadata
    group,     \* what the manager keeps of each group, and its child
    dying,     \* children that were killed, forgotten and perhaps not gone yet
    boot,      \* what start() has still to launch; NoConfig once it has
    unread,    \* history: groups whose retry was lost to a failed read of the database
    edits, faults

vars == <<db, lkg, group, dying, boot, unread, edits, faults>>

(***************************************************************************)
(* EncoderManager.__init__: nothing known of a group.                      *)
(*   child, exited        _procs: the configuration it streams, poll()     *)
(*   known                the union of the dictionaries _reconcile_inner   *)
(*                        takes as known_devices                           *)
(*   running, encoders    _running_fingerprint, _running_encoders          *)
(*   candidate, expected  _candidate_fingerprint, _qualify_expected        *)
(*   deferred             _runtime_capability_retries, until it is due     *)
(*   blind                history: the child was launched with metadata    *)
(*                        that do not tell its destinations                *)
(***************************************************************************)
Unknown ==
    [known |-> FALSE, child |-> NoConfig, exited |-> FALSE,
     kind |-> "accepted", retry |-> FALSE,
     running |-> NoConfig, encoders |-> NoDest,
     candidate |-> NoConfig, expected |-> NoDest, origin |-> FALSE,
     rejected |-> {}, critical |-> FALSE, deferred |-> NoConfig, blind |-> FALSE]

Enabled(g) == db[g] # NoConfig

(***************************************************************************)
(* What may be on disk for a configuration c that was promoted: complete   *)
(* metadata, those of an earlier release, which recorded no protocol or no *)
(* destinations at all, or a file that was damaged since.                  *)
(***************************************************************************)
Complete(c) == [script |-> c, meta |-> c, dests |-> c.dest]
Legacy(c) == {[Complete(c) EXCEPT !.dests = Incomplete], [Complete(c) EXCEPT !.dests = NoDest],
              [Complete(c) EXCEPT !.meta = NoConfig, !.dests = NoDest]}

\* What may be on disk for the configuration of g, if it ever became the last
\* known good one.
OnDisk(g) ==
    IF Enabled(g) THEN {NoLkg, Complete(db[g])} \cup Legacy(db[g]) ELSE {NoLkg}

\* Metadata that are not complete count as a fault.
Init ==
    /\ db \in [Groups -> {c \in Config : c.quality = "good"} \cup {NoConfig}]
    /\ lkg \in [Groups -> UNION {OnDisk(g) : g \in Groups}]
    /\ \A g \in Groups : lkg[g] \in OnDisk(g)
    /\ faults = Cardinality({g \in Groups : lkg[g] # NoLkg /\ lkg[g] # Complete(db[g])})
    /\ faults <= MaxFaults
    /\ group = [g \in Groups |-> Unknown]
    /\ dying = [g \in Groups |-> {}]
    /\ boot = db
    /\ unread = {} /\ edits = 0

(***************************************************************************)
(* What may go wrong in one launch: the last known good script cannot be   *)
(* read, its metadata cannot, the candidate script cannot be written or    *)
(* checked, fdkaac is not there, the child cannot be started, nor that of  *)
(* a rollback.                                                             *)
(***************************************************************************)
Mishap == {"unreadable", "metadata", "preflight", "capability", "start", "rollback"}

\* As many of them at once as the bound leaves.
Mishaps == {{f[i] : i \in DOMAIN f} \ {"none"} :
              f \in [1..(MaxFaults - faults) -> Mishap \cup {"none"}]}

\* A step in which the things of the set `wrong` go wrong.
Counts(wrong) ==
    /\ faults + Cardinality(wrong) <= MaxFaults
    /\ faults' = faults + Cardinality(wrong)

\* _static_check_candidate: validation first, then the preflight.
StaticCheck(c, wrong) ==
    IF c.quality = "invalid" \/ "preflight" \in wrong THEN "rejected"
    ELSE IF "capability" \in wrong THEN "capability" ELSE "ok"

(***************************************************************************)
(* read_lkg.  Without a pointer or a script that can be read there is none;*)
(* a script whose metadata cannot be read is returned without them.        *)
(***************************************************************************)
ReadLkg(g, wrong) ==
    IF "unreadable" \in wrong \/ lkg[g] = NoLkg THEN NoLkg
    ELSE IF "metadata" \in wrong THEN [lkg[g] EXCEPT !.meta = NoConfig, !.dests = NoDest]
    ELSE lkg[g]

Probation == {"candidate", "rollback"}
Gone(r) == [r EXCEPT !.child = NoConfig, !.exited = FALSE, !.running = NoConfig,
                     !.encoders = NoDest, !.expected = NoDest, !.blind = FALSE]
ScheduleRetry(r) == [r EXCEPT !.retry = TRUE, !.known = TRUE]

(***************************************************************************)
(* _start_group and _record_launch_failure: c is the script, dest what is  *)
(* recorded as running, fingerprint what the caller records on success.    *)
(***************************************************************************)
Started(r, c, dest, fingerprint) ==
    [r EXCEPT !.known = TRUE, !.child = c, !.exited = FALSE,
              !.encoders = dest, !.running = fingerprint]

Unstarted(r) == [r EXCEPT !.known = TRUE, !.encoders = NoDest, !.running = NoConfig]

\* The destinations of a script the metadata do not tell.
Blind(l) == l.dests \notin Destinations

\* Mutant: the rows of the rejected configuration are recorded as running.
LaunchLkg_Mutant(r, c, l, wrong) ==
    LET q == [r EXCEPT !.kind = "accepted", !.expected = NoDest]
    IN  IF "start" \in wrong THEN ScheduleRetry(Unstarted(q))
        ELSE [Started(q, l.script, c.dest, l.meta) EXCEPT !.blind = l.meta # c /\ Blind(l)]

(***************************************************************************)
(* The last known good script, trusted without probation, for a desired    *)
(* configuration c that is the same, was rejected or cannot be launched.   *)
(* The rows of the same configuration are recorded as running, otherwise   *)
(* what the metadata tell: nothing, if there are none.                     *)
(***************************************************************************)
LaunchLkg(r, c, l, wrong) ==
    LET q == [r EXCEPT !.kind = "accepted", !.expected = NoDest]
        dest == IF l.meta = c THEN c.dest ELSE l.dests
    IN  IF "start" \in wrong THEN ScheduleRetry(Unstarted(q))
        ELSE [Started(q, l.script, dest, l.meta) EXCEPT !.blind = l.meta # c /\ Blind(l)]

Fallback(r, c, l, wrong) ==
    IF l = NoLkg THEN ScheduleRetry(r) ELSE LaunchLkg(r, c, l, wrong)

\* A candidate whose launch succeeded.
OnProbation(r, c) ==
    [Started(r, c, c.dest, c) EXCEPT
        !.kind = "candidate", !.candidate = c, !.expected = c.dest, !.deferred = NoConfig]

\* Mutant: only children that qualified count.
Collides_Mutant(s, g, dest) ==
    \E h \in Groups \ {g} : s[h].encoders = dest /\ s[h].kind = "accepted"

(***************************************************************************)
(* _cross_group_destination_conflicts: another group's recorded encoders.  *)
(***************************************************************************)
Collides(s, g, dest) == \E h \in Groups \ {g} : s[h].encoders = dest

\* _reset_runtime_capability_retry_for_new_fingerprint.
KeepDeferralOf(r, c) == [r EXCEPT !.deferred = IF @ = c THEN c ELSE NoConfig]

(***************************************************************************)
(* _launch_group, with the retry every caller schedules when it fails.     *)
(***************************************************************************)
LaunchGroup(s, g, c, wrong) ==
    LET l == ReadLkg(g, wrong)
        r == KeepDeferralOf(s[g], c)
        check == StaticCheck(c, wrong)
    IN  IF l # NoLkg /\ (l.meta = c \/ c \in r.rejected) THEN LaunchLkg(r, c, l, wrong)
        ELSE IF l = NoLkg /\ r.critical THEN ScheduleRetry(r)
        ELSE IF check = "capability" THEN Fallback([r EXCEPT !.deferred = c], c, l, wrong)
        ELSE IF check = "rejected"
        THEN Fallback([r EXCEPT !.rejected = @ \cup {c}], c, l, wrong)
        ELSE IF Collides(s, g, c.dest)
        THEN Fallback([r EXCEPT !.deferred = NoConfig], c, l, wrong)
        ELSE IF "start" \notin wrong THEN OnProbation(r, c)
        ELSE ScheduleRetry(Unstarted([r EXCEPT !.deferred = NoConfig]))

\* _on_rollback_failed.
RollbackFailed(r) ==
    ScheduleRetry([r EXCEPT !.critical = TRUE, !.kind = "accepted", !.origin = FALSE])

(***************************************************************************)
(* _start_rollback: the last known good script, on probation of its own.   *)
(* rejected is the destination of the configuration that failed: without   *)
(* destinations in the metadata its rows are recorded as running, and there*)
(* is nothing the health of the child could be judged by.                  *)
(***************************************************************************)
StartRollback(r, g, rejected, wrong) ==
    LET l == ReadLkg(g, wrong)
        dest == IF l.dests = NoDest THEN rejected ELSE l.dests
    IN  IF l = NoLkg THEN ScheduleRetry([r EXCEPT !.kind = "accepted", !.origin = FALSE])
        ELSE IF "rollback" \in wrong THEN RollbackFailed(Unstarted(r))
        ELSE [Started(r, l.script, dest, l.meta) EXCEPT
                 !.kind = "rollback", !.expected = l.dests, !.blind = Blind(l)]

(***************************************************************************)
(* The child of a group on probation is gone: _reject_live_candidate or    *)
(* _on_rollback_failed.                                                    *)
(***************************************************************************)
ProbationFailed(r, g, wrong) ==
    IF r.kind = "candidate"
    THEN StartRollback([Gone(r) EXCEPT !.rejected = @ \cup {r.candidate}],
                       g, r.candidate.dest, wrong)
    ELSE RollbackFailed(Gone(r))
-----------------------------------------------------------------------------
(***************************************************************************)
(* The operator saves, disables or enables the rows of a group.            *)
(***************************************************************************)
Edit(g) ==
    /\ edits < MaxEdits
    /\ \E c \in Config \cup {NoConfig} : c # db[g] /\ db' = [db EXCEPT ![g] = c]
    /\ edits' = edits + 1
    /\ UNCHANGED <<lkg, group, dying, boot, unread, faults>>

(***************************************************************************)
(* A child dies.  A bad configuration may kill it at any time.             *)
(***************************************************************************)
ChildExits(g) ==
    /\ group[g].child # NoConfig /\ ~group[g].exited
    /\ Counts(IF group[g].child.quality = "good" THEN {"exit"} ELSE {})
    /\ group' = [group EXCEPT ![g].exited = TRUE]
    /\ UNCHANGED <<db, lkg, dying, boot, unread, edits>>

(***************************************************************************)
(* The manager dies and systemd starts it again.  The control group ends   *)
(* the children, the memory is lost, start() reads the database.           *)
(***************************************************************************)
Crash ==
    /\ Counts({"crash"})
    /\ group' = [g \in Groups |-> Unknown]
    /\ dying' = [g \in Groups |-> {}]
    /\ boot' = db
    /\ unread' = {}
    /\ UNCHANGED <<db, lkg, edits>>

Booting == \E g \in Groups : boot[g] # NoConfig

(***************************************************************************)
(* start(): launch every enabled group, before the first tick.             *)
(***************************************************************************)
Start(g) ==
    /\ boot[g] # NoConfig
    /\ \E wrong \in Mishaps :
         /\ Counts(wrong)
         /\ group' = [group EXCEPT ![g] = LaunchGroup(group, g, boot[g], wrong)]
    /\ boot' = [boot EXCEPT ![g] = NoConfig]
    /\ UNCHANGED <<db, lkg, dying, unread, edits>>
-----------------------------------------------------------------------------
(***************************************************************************)
(* _reconcile_inner, part one: groups without enabled rows are forgotten,  *)
(* except those whose child cannot be confirmed dead.                      *)
(***************************************************************************)
Removable == {g \in Groups : group[g].known /\ ~Enabled(g)}

WithoutRemoved(refused) ==
    [g \in Groups |-> IF g \in Removable \ refused THEN Unknown ELSE group[g]]

\* _desired_vs_desired_conflicts.
Ambiguous(g) ==
    \E h \in Groups \ {g} : Enabled(g) /\ Enabled(h) /\ db[h].dest = db[g].dest

\* Mutant: a rollback is not counted as a transition.
Transitioning_Mutant(s) == {g \in Groups : s[g].kind = "candidate"}

Transitioning(s) == {g \in Groups : s[g].kind \in Probation}

(***************************************************************************)
(* _reconcile_inner, part two: the groups a transition may be started for. *)
(***************************************************************************)
Candidates(s) ==
    {g \in Groups :
        /\ Enabled(g) /\ ~Ambiguous(g)
        /\ ~s[g].known \/ ( /\ ~s[g].retry
                            /\ s[g].running # db[g]
                            /\ s[g].deferred # db[g] )}

\* priority: fewest new destinations first, then by name.
Precedes(s, g, h) ==
    LET new(x) == IF db[x].dest = s[x].encoders THEN 0 ELSE 1
    IN  new(g) < new(h) \/ (new(g) = new(h) /\ g < h)

\* The first candidate that does not collide; the others wait for another tick.
Chosen(s) ==
    LET free == {g \in Candidates(s) : ~Collides(s, g, db[g].dest)}
    IN  IF Transitioning(s) # {} THEN {}
        ELSE {g \in free : \A h \in free \ {g} : Precedes(s, g, h)}

\* Mutant: when the stop cannot be confirmed, the ordinary retry takes over.
ReplaceGroup_Mutant(s, g, wrong, stops) ==
    LET r == s[g]
        c == db[g]
        check == StaticCheck(c, wrong)
    IN  IF c \in r.rejected THEN r
        ELSE IF check = "capability" THEN [r EXCEPT !.deferred = c]
        ELSE IF check = "rejected" THEN [r EXCEPT !.rejected = @ \cup {c}]
        ELSE IF ~stops THEN ScheduleRetry(r)
        ELSE IF "start" \notin wrong THEN OnProbation([Gone(r) EXCEPT !.origin = TRUE], c)
        ELSE StartRollback([Gone(r) EXCEPT !.origin = TRUE, !.deferred = NoConfig],
                           g, c.dest, wrong)

(***************************************************************************)
(* _reconcile_changed_group: every static check comes before the running   *)
(* child is stopped (_stop_group_intentionally), the replacement after.    *)
(***************************************************************************)
ReplaceGroup(s, g, wrong, stops) ==
    LET r == s[g]
        c == db[g]
        check == StaticCheck(c, wrong)
    IN  IF c \in r.rejected THEN r
        ELSE IF check = "capability" THEN [r EXCEPT !.deferred = c]
        ELSE IF check = "rejected" THEN [r EXCEPT !.rejected = @ \cup {c}]
        ELSE IF ~stops THEN [r EXCEPT !.deferred = NoConfig]
        ELSE IF "start" \notin wrong THEN OnProbation([Gone(r) EXCEPT !.origin = TRUE], c)
        ELSE StartRollback([Gone(r) EXCEPT !.origin = TRUE, !.deferred = NoConfig],
                           g, c.dest, wrong)

(***************************************************************************)
(* Reporting a conflict or a collision makes a group known                 *)
(* (_record_reconcile_outcome), also one that was never launched.          *)
(***************************************************************************)
Reported(s, chosen) ==
    {g \in Groups : Ambiguous(g)} \cup
    {g \in Candidates(s) : /\ Transitioning(s) = {}
                           /\ Collides(s, g, db[g].dest)
                           /\ \A h \in chosen : Precedes(s, g, h)}

\* An unchanged group whose recorded rows are incomplete gets those of the
\* database: they have the fingerprint of what runs.
SelfHealed(r, g) ==
    IF /\ ~Ambiguous(g) /\ r.known /\ ~r.retry
       /\ r.running = db[g] /\ r.encoders = Incomplete
    THEN [r EXCEPT !.encoders = db[g].dest, !.blind = FALSE]
    ELSE r

\* The groups that remain, with the deferrals of what they are to run now.
Remaining(refused) ==
    LET s == WithoutRemoved(refused)
    IN  [g \in Groups |-> IF Enabled(g) THEN SelfHealed(KeepDeferralOf(s[g], db[g]), g)
                         ELSE s[g]]

Reporting(t) ==
    [g \in Groups |-> IF g \in Reported(t, Chosen(t)) THEN [t[g] EXCEPT !.known = TRUE] ELSE t[g]]

\* The transition of the tick, if there is one: t are the groups that remain, u
\* those groups with what was reported of them.
Transition(refused, t, u) ==
    \/ /\ Chosen(t) = {}
       /\ Counts(refused)
       /\ group' = u
       /\ unread' = unread \ (Removable \ refused)
    \/ \E g \in Chosen(t), stops \in BOOLEAN, wrong \in Mishaps :
       /\ t[g].child = NoConfig => stops
       /\ Counts({<<"stop", h>> : h \in refused \cup IF stops THEN {} ELSE {g}}
                 \cup {<<x, g>> : x \in wrong})
       /\ group' = [u EXCEPT ![g] = IF t[g].known THEN ReplaceGroup(u, g, wrong, stops)
                                                  ELSE LaunchGroup(u, g, db[g], wrong)]
       /\ unread' = {h \in unread \ (Removable \ refused) :
                        group'[h].child = NoConfig /\ ~group'[h].retry}

Reconcile ==
    /\ ~Booting
    /\ UNCHANGED <<db, lkg, dying, boot, edits>>
    /\ \E refused \in SUBSET {g \in Removable : group[g].child # NoConfig} :
       \E t \in {Remaining(refused)} :
       \E u \in {Reporting(t)} : Transition(refused, t, u)
-----------------------------------------------------------------------------
\* Mutant: the exit of an accepted child is recorded, and no retry scheduled.
HandleExit_Mutant(g) ==
    LET r == group[g] IN
    /\ ~Booting
    /\ r.exited
    /\ \E wrong \in Mishaps :
         /\ Counts(wrong)
         /\ group' = [group EXCEPT ![g] = IF r.kind = "accepted" THEN Gone(r)
                                          ELSE ProbationFailed(r, g, wrong)]
    /\ UNCHANGED <<db, lkg, dying, boot, unread, edits>>

(***************************************************************************)
(* _handle_exit.                                                           *)
(***************************************************************************)
HandleExit(g) ==
    LET r == group[g] IN
    /\ ~Booting
    /\ r.exited
    /\ \E wrong \in Mishaps :
         /\ Counts(wrong)
         /\ group' = [group EXCEPT ![g] = IF r.kind = "accepted" THEN ScheduleRetry(Gone(r))
                                          ELSE ProbationFailed(r, g, wrong)]
    /\ UNCHANGED <<db, lkg, dying, boot, unread, edits>>

(***************************************************************************)
(* The retry of a group is due: _check_health deletes its _retry_at, then  *)
(* _retry_group reads the database, forgets a group without enabled rows   *)
(* and launches any other.                                                 *)
(***************************************************************************)
Retry(g) ==
    LET s == [group EXCEPT ![g].retry = FALSE] IN
    /\ ~Booting
    /\ group[g].retry
    /\ IF Enabled(g)
       THEN \E wrong \in Mishaps :
              /\ Counts(wrong)
              /\ group' = [group EXCEPT ![g] = LaunchGroup(s, g, db[g], wrong)]
       ELSE /\ group' = [group EXCEPT ![g] = Unknown]
            /\ UNCHANGED faults
    /\ UNCHANGED <<db, lkg, dying, boot, unread, edits>>

(***************************************************************************)
(* The read of the database raises: _guarded reports it, and the retry is  *)
(* gone.                                                                   *)
(***************************************************************************)
RetryRaises(g) ==
    /\ ~Booting
    /\ group[g].retry
    /\ Counts({"database"})
    /\ group' = [group EXCEPT ![g].retry = FALSE]
    /\ unread' = unread \cup {g}
    /\ UNCHANGED <<db, lkg, dying, boot, edits>>

(***************************************************************************)
(* A capability probe that was put off is due again.                       *)
(***************************************************************************)
DeferralEnds(g) ==
    /\ group[g].deferred # NoConfig
    /\ group' = [group EXCEPT ![g].deferred = NoConfig]
    /\ UNCHANGED <<db, lkg, dying, boot, unread, edits, faults>>

\* evaluate_encoder_group_health can report "ok" for as long as it takes: the
\* child streams to the destinations it is asked about.  Rows without a protocol
\* are looked up by their number in what the child reports, which it may not do.
Healthy(r) == r.child.quality = "good" /\ r.expected \in {r.child.dest, Incomplete}

\* Mutant: what is persisted is what the database says now.
Persisted_Mutant(r, g) ==
    [Complete(r.child) EXCEPT !.meta = IF Enabled(g) THEN db[g] ELSE r.candidate]

\* _promote_candidate: the script that runs, the metadata of the candidate.
Persisted(r, g) == [script |-> r.child, meta |-> r.candidate, dests |-> r.candidate.dest]

\* Mutant: the group stays a candidate.
Promoted_Mutant(r) ==
    [r EXCEPT !.rejected = {}, !.critical = FALSE, !.origin = FALSE,
              !.deferred = IF @ = r.candidate THEN NoConfig ELSE @]

\* _promote_candidate, once it is persisted.
Promoted(r) ==
    [r EXCEPT !.rejected = {}, !.critical = FALSE, !.kind = "accepted", !.expected = NoDest,
              !.origin = FALSE, !.deferred = IF @ = r.candidate THEN NoConfig ELSE @]

\* _on_rollback_succeeded.
RolledBack(r) == [r EXCEPT !.kind = "accepted", !.expected = NoDest, !.origin = FALSE]

(***************************************************************************)
(* _check_candidate_qualification finds the child healthy for long enough. *)
(* write_lkg switches one pointer; it may fail before or after that, and   *)
(* the candidate then stays on probation.                                  *)
(***************************************************************************)
Qualified(g) ==
    LET r == group[g] IN
    /\ ~Booting
    /\ r.child # NoConfig /\ r.kind \in Probation /\ Healthy(r)
    /\ \/ /\ r.kind = "rollback"
          /\ group' = [group EXCEPT ![g] = RolledBack(r)]
          /\ UNCHANGED <<lkg, faults>>
       \/ \E persisted, written \in BOOLEAN :
          /\ r.kind = "candidate"
          /\ written => persisted
          /\ Counts(IF written THEN {} ELSE {"write"})
          /\ lkg' = IF persisted THEN [lkg EXCEPT ![g] = Persisted(r, g)] ELSE lkg
          /\ group' = IF written THEN [group EXCEPT ![g] = Promoted(r)] ELSE group
    /\ UNCHANGED <<db, dying, boot, unread, edits>>

(***************************************************************************)
(* The deadline passes first: _on_qualification_failed ends the child.  One*)
(* that does not react to SIGTERM is killed and not waited for: the group  *)
(* goes on while it may still be there.                                    *)
(***************************************************************************)
QualificationFails(g) ==
    LET r == group[g] IN
    /\ ~Booting
    /\ r.child # NoConfig /\ r.kind \in Probation
    /\ \E wrong \in Mishaps, stubborn \in SUBSET {"kill"} :
         /\ Counts(wrong \cup stubborn
                   \cup IF Healthy(r) /\ r.expected # Incomplete THEN {"deadline"} ELSE {})
         /\ group' = [group EXCEPT ![g] = ProbationFailed(r, g, wrong)]
         /\ dying' = IF stubborn = {} THEN dying
                     ELSE [dying EXCEPT ![g] = @ \cup {r.child}]
    /\ UNCHANGED <<db, lkg, boot, unread, edits>>

\* The killed children of a group are gone.
KilledChildEnds(g) ==
    /\ dying[g] # {}
    /\ dying' = [dying EXCEPT ![g] = {}]
    /\ UNCHANGED <<db, lkg, group, boot, unread, edits, faults>>

Next ==
    \/ Crash
    \/ Reconcile
    \/ \E g \in Groups :
         \/ Edit(g) \/ ChildExits(g) \/ Start(g)
         \/ HandleExit(g) \/ Retry(g) \/ RetryRaises(g) \/ DeferralEnds(g)
         \/ Qualified(g) \/ QualificationFails(g) \/ KilledChildEnds(g)

(***************************************************************************)
(* Every tick runs every loop.  Reconciliation is strongly fair: it comes  *)
(* before the retries of the tick, so it sees the group that failed its    *)
(* probation in the last tick before that group's retry launches it anew.  *)
(***************************************************************************)
Fairness ==
    /\ SF_vars(Reconcile)
    /\ \A g \in Groups :
         /\ WF_vars(Start(g)) /\ WF_vars(HandleExit(g)) /\ WF_vars(DeferralEnds(g))
         /\ WF_vars(Retry(g) \/ RetryRaises(g))
         /\ WF_vars(Qualified(g) \/ QualificationFails(g))

Spec == Init /\ [][Next]_vars /\ Fairness
-----------------------------------------------------------------------------
(***************************************************************************)
(* The manager never launches a child next to one that it has not killed:  *)
(* whatever a retry, start() or the "new group" branch launches has none.  *)
(* Next to one it has killed (dying) it may launch: unlike                 *)
(* _stop_group_intentionally, _on_qualification_failed kills a child on    *)
(* probation without waiting for its end.                                  *)
(***************************************************************************)
NoDoubleLaunch ==
    \A g \in Groups : group[g].retry \/ ~group[g].known \/ boot[g] # NoConfig
                      => group[g].child = NoConfig

(***************************************************************************)
(* What the manager believes to be running is what the child streams, also *)
(* after a fallback or a rollback: the collision checks and the decision   *)
(* that a group is unchanged rest on it.  If the child was launched with   *)
(* metadata that do not tell its destinations (blind), the manager knows   *)
(* less: no fingerprint or the right one, no destination or the right one. *)
(* It believes in a wrong one only during a rollback without recorded      *)
(* destinations, which runs under the rejected rows and cannot qualify.    *)
(***************************************************************************)
RunningIsWhatRuns ==
    \A g \in Groups :
        LET r == group[g]
        IN  /\ r.running = r.child \/ (r.blind /\ r.running = NoConfig)
            /\ \/ r.encoders = IF r.child = NoConfig THEN NoDest ELSE r.child.dest
               \/ r.blind /\ r.encoders \in {Incomplete, NoDest}
               \/ r.blind /\ r.kind = "rollback" /\ r.expected = NoDest

(***************************************************************************)
(* "At most one topology REPLACEMENT in flight at a time": a replacement   *)
(* that reconciliation started is on probation until it is concluded.      *)
(***************************************************************************)
OneReplacement ==
    LET open == {g \in Groups : group[g].origin} IN
    /\ Cardinality(open) <= 1
    /\ \A g \in open : group[g].kind \in Probation /\ group[g].child # NoConfig

(***************************************************************************)
(* The last known good configuration was healthy when it was persisted,    *)
(* and its metadata, as far as they are there, are those of its script,    *)
(* whatever edits, failed writes and crashes came between.                 *)
(***************************************************************************)
LkgIsProven ==
    \A g \in Groups :
        LET l == lkg[g]
        IN  l # NoLkg => /\ l.script.quality = "good"
                         /\ l = Complete(l.script) \/ l \in Legacy(l.script)

(***************************************************************************)
(* A candidate never starts on a destination another child streams to,     *)
(* unless the manager cannot know it: that child was launched with metadata*)
(* that do not tell its destinations (the "blind spot" of the comment in   *)
(* _reconcile_inner).  A child that was killed does not count.             *)
(***************************************************************************)
CandidateNeverCollides ==
    [][\A g, h \in Groups :
          g # h /\ group'[g].kind = "candidate" /\ group'[g].child # group[g].child
          => \/ group'[h].child = NoConfig \/ group'[h].child.dest # group'[g].child.dest
             \/ group'[h].blind]_vars

(***************************************************************************)
(* A group that lost its child, or failed to get one, is on the air again  *)
(* as long as it has a last known good configuration, whatever is saved for*)
(* it.  The exception is a retry that is lost to a failed read of the      *)
(* database: nothing may ever launch that group again (its configuration is*)
(* rejected, ambiguous or collides, or the transition slot is never free). *)
(***************************************************************************)
GroupComesBack ==
    \A g \in Groups :
        (group[g].exited \/ group[g].retry) /\ lkg[g] # NoLkg
        ~> \/ group[g].child # NoConfig /\ ~group[g].exited
           \/ ~Enabled(g)
           \/ g \in unread

\* The configuration of g can be launched: nothing of g and of the other groups
\* stands against it.
Applicable(g) ==
    /\ Enabled(g) /\ db[g].quality = "good"
    /\ db[g] \notin group[g].rejected
    /\ ~Ambiguous(g) /\ ~Collides(group, g, db[g].dest)

\* h is reconciled before g in every tick, and to no effect.
HoldsTheSlot(h, g) ==
    /\ h \in Candidates(group) /\ db[h] \in group[h].rejected
    /\ Precedes(group, h, g)

(***************************************************************************)
(* A saved configuration that can be launched is applied in the end: "the  *)
(* encoder manager reconciles this automatically" (encoders/admin.py).     *)
(* The exception is a group behind one whose configuration was rejected:   *)
(* _reconcile_changed_group returns at once, and the tick's only transition*)
(* is used up.                                                             *)
(***************************************************************************)
SavedIsAppliedInTurn ==
    \A g \in Groups :
        <>[](Applicable(g) /\ \A h \in Groups \ {g} : ~HoldsTheSlot(h, g))
        => <>[](group[g].running = db[g])
=============================================================================
