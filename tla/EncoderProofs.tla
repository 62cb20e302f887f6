----------------------------- MODULE EncoderProofs -----------------------------
(***************************************************************************)
(* Proofs about the encoder manager (EncoderGroups): for every set of      *)
(* groups and destinations, and any number of edits and of mishaps, it     *)
(* never launches a child next to one it has, what it believes to be       *)
(* running is what the child streams as far as the metadata it launched it *)
(* with tell, at most one replacement is under way, the last known good    *)
(* configuration is proven, and no candidate starts on a destination that  *)
(* another child is known to stream to.                                    *)
(*                                                                         *)
(* The counters bound the runs; nothing here depends on them.              *)
(***************************************************************************)
EXTENDS EncoderGroups, FiniteSetTheorems, TLAPS

Configs == Config \cup {NoConfig}
Dests == Destinations \cup {NoDest, Incomplete}
Records ==
    [known : BOOLEAN, child : Configs, exited : BOOLEAN,
     kind : {"accepted", "candidate", "rollback"}, retry : BOOLEAN,
     running : Configs, encoders : Dests,
     candidate : Configs, expected : Dests, origin : BOOLEAN,
     rejected : SUBSET Config, critical : BOOLEAN, deferred : Configs, blind : BOOLEAN]

TypeInv ==
    /\ db \in [Groups -> Configs] /\ boot \in [Groups -> Configs]
    /\ lkg \in [Groups -> Persistent \cup {NoLkg}]
    /\ group \in [Groups -> Records]
    /\ dying \in [Groups -> SUBSET Config]

(***************************************************************************)
(* What the manager keeps of one group: what it believes of its child, as  *)
(* RunningIsWhatRuns says it.  Without a child nothing runs and no         *)
(* probation is under way; a child that is there was launched once, is     *)
(* known, waits for no retry, and is the candidate if it is on probation as*)
(* one; a replacement is open only during probation.                       *)
(***************************************************************************)
Sound(r) ==
    /\ r.running = r.child \/ (r.blind /\ r.running = NoConfig)
    /\ \/ r.encoders = IF r.child = NoConfig THEN NoDest ELSE r.child.dest
       \/ r.blind /\ r.encoders \in {Incomplete, NoDest}
       \/ r.blind /\ r.kind = "rollback" /\ r.expected = NoDest
    /\ r.blind => r.child # NoConfig
    /\ r.retry => r.known
    /\ r.retry \/ ~r.known => r.child = NoConfig
    /\ r.exited \/ r.kind \in Probation => r.child # NoConfig
    /\ r.kind = "candidate" => r.candidate = r.child
    /\ r.origin => r.kind \in Probation

AllSound == \A g \in Groups : Sound(group[g])

(***************************************************************************)
(* start() finds the groups as the constructor left them.                  *)
(***************************************************************************)
BootIsFresh == \A g \in Groups : boot[g] # NoConfig => group[g] = Unknown

OneOrigin == \A g, h \in Groups : group[g].origin /\ group[h].origin => g = h

Inv == TypeInv /\ AllSound /\ BootIsFresh /\ OneOrigin /\ LkgIsProven
-----------------------------------------------------------------------------
(***************************************************************************)
(* The values that stand for nothing are none of the real ones.            *)
(***************************************************************************)
LEMMA Values ==
    /\ NoConfig \in Configs /\ NoDest \in Dests /\ Incomplete \in Dests
    /\ NoDest \notin Destinations /\ Incomplete \notin Destinations
    /\ \A c \in Config : /\ c \in Configs /\ c # NoConfig
                        /\ c.dest \in Destinations /\ c.dest \in Dests
                        /\ c.dest # NoDest /\ c.dest # Incomplete
BY EncoderAssumption, NoValueAssumption DEF Configs, Dests, Config

(***************************************************************************)
(* EncoderManager.__init__ leaves a sound record.                          *)
(***************************************************************************)
LEMMA UnknownSound == Unknown \in Records /\ Sound(Unknown) /\ ~Unknown.origin
<1>1. Unknown \in Records
  BY Values DEF Unknown, Records
<1> QED
  BY <1>1 DEF Unknown, Sound, Probation

(***************************************************************************)
(* A launch that succeeds records what its caller says.                    *)
(***************************************************************************)
LEMMA ChildStarted ==
    ASSUME NEW r \in Records, NEW c \in Config, NEW d \in Dests, NEW f \in Configs
    PROVE  LET n == Started(r, c, d, f)
           IN  /\ n \in Records
               /\ n.known /\ n.child = c /\ ~n.exited /\ n.encoders = d /\ n.running = f
               /\ n.kind = r.kind /\ n.retry = r.retry /\ n.candidate = r.candidate
               /\ n.origin = r.origin /\ n.expected = r.expected /\ n.blind = r.blind
<1> DEFINE n == [r EXCEPT !.known = TRUE, !.child = c, !.exited = FALSE,
                          !.encoders = d, !.running = f]
<1>1. n = Started(r, c, d, f)
  BY DEF Started
<1>2. /\ n \in Records
      /\ n.known /\ n.child = c /\ ~n.exited /\ n.encoders = d /\ n.running = f
      /\ n.kind = r.kind /\ n.retry = r.retry /\ n.candidate = r.candidate
      /\ n.origin = r.origin /\ n.expected = r.expected /\ n.blind = r.blind
  BY Values DEF Records
<1> HIDE DEF n
<1> QED
  BY <1>1, <1>2

(***************************************************************************)
(* A launch that fails keeps a record without a child sound.               *)
(***************************************************************************)
LEMMA StartFailed ==
    ASSUME NEW r \in Records, r.child = NoConfig, ~r.exited, ~r.retry,
           r.kind = "accepted", ~r.origin, ~r.blind
    PROVE  LET n == Unstarted(r)
           IN  /\ n \in Records /\ Sound(n) /\ n.child = NoConfig
               /\ n.kind = "accepted" /\ ~n.origin
<1> DEFINE n == [r EXCEPT !.known = TRUE, !.encoders = NoDest, !.running = NoConfig]
<1>1. n = Unstarted(r)
  BY DEF Unstarted
<1>2. /\ n \in Records
      /\ n.known /\ n.encoders = NoDest /\ n.running = NoConfig
      /\ n.child = r.child /\ n.exited = r.exited /\ n.kind = r.kind
      /\ n.retry = r.retry /\ n.candidate = r.candidate /\ n.origin = r.origin
      /\ n.blind = r.blind
  BY Values DEF Records
<1> HIDE DEF n
<1> QED
  BY <1>1, <1>2 DEF Sound, Probation

(***************************************************************************)
(* A retry is scheduled for a group that has no child.                     *)
(***************************************************************************)
LEMMA RetryScheduled ==
    ASSUME NEW r \in Records, Sound(r), r.child = NoConfig
    PROVE  LET n == ScheduleRetry(r)
           IN  /\ n \in Records /\ Sound(n)
               /\ n.child = NoConfig /\ n.kind = "accepted" /\ ~n.origin
<1> DEFINE n == [r EXCEPT !.retry = TRUE, !.known = TRUE]
<1>1. n = ScheduleRetry(r)
  BY DEF ScheduleRetry
<1>2. /\ n \in Records /\ n.known /\ n.retry /\ n.child = r.child /\ n.exited = r.exited
      /\ n.kind = r.kind /\ n.running = r.running /\ n.encoders = r.encoders
      /\ n.candidate = r.candidate /\ n.origin = r.origin
      /\ n.expected = r.expected /\ n.blind = r.blind
  BY DEF Records
<1> HIDE DEF n
<1>3. r.kind = "accepted" /\ ~r.origin
  BY DEF Sound, Probation, Records
<1> QED
  BY <1>1, <1>2, <1>3 DEF Sound, Probation

(***************************************************************************)
(* The group without its child.                                            *)
(***************************************************************************)
LEMMA ChildGone ==
    ASSUME NEW r \in Records
    PROVE  LET n == Gone(r)
           IN  /\ n \in Records
               /\ n.child = NoConfig /\ ~n.exited /\ n.running = NoConfig /\ n.encoders = NoDest
               /\ n.known = r.known /\ n.kind = r.kind /\ n.retry = r.retry
               /\ n.candidate = r.candidate /\ n.origin = r.origin /\ ~n.blind
<1> DEFINE n == [r EXCEPT !.child = NoConfig, !.exited = FALSE, !.running = NoConfig,
                          !.encoders = NoDest, !.expected = NoDest, !.blind = FALSE]
<1>1. n = Gone(r)
  BY DEF Gone
<1>2. /\ n \in Records
      /\ n.child = NoConfig /\ ~n.exited /\ n.running = NoConfig /\ n.encoders = NoDest
      /\ n.known = r.known /\ n.kind = r.kind /\ n.retry = r.retry
      /\ n.candidate = r.candidate /\ n.origin = r.origin /\ ~n.blind
  BY Values DEF Records
<1> HIDE DEF n
<1> QED
  BY <1>1, <1>2

(***************************************************************************)
(* The records n and r differ in bookkeeping only.                         *)
(***************************************************************************)
Alike(n, r) ==
    /\ n.known = r.known /\ n.child = r.child /\ n.exited = r.exited /\ n.kind = r.kind
    /\ n.retry = r.retry /\ n.running = r.running /\ n.encoders = r.encoders
    /\ n.candidate = r.candidate /\ n.origin = r.origin
    /\ n.expected = r.expected /\ n.blind = r.blind

(***************************************************************************)
(* Bookkeeping about rejections, deferrals and criticality is just that.   *)
(***************************************************************************)
LEMMA Bookkeeping ==
    ASSUME NEW r \in Records, NEW c \in Configs, NEW x \in Config
    PROVE  /\ KeepDeferralOf(r, c) \in Records /\ Alike(KeepDeferralOf(r, c), r)
           /\ [r EXCEPT !.deferred = c] \in Records /\ Alike([r EXCEPT !.deferred = c], r)
           /\ [r EXCEPT !.rejected = @ \cup {x}] \in Records
           /\ Alike([r EXCEPT !.rejected = @ \cup {x}], r)
<1>1. /\ [r EXCEPT !.deferred = c] \in Records /\ Alike([r EXCEPT !.deferred = c], r)
      /\ [r EXCEPT !.deferred = NoConfig] \in Records
      /\ Alike([r EXCEPT !.deferred = NoConfig], r)
  BY Values DEF Records, Alike
<1>2. r.rejected \cup {x} \in SUBSET Config
  BY DEF Records
<1>3. /\ [r EXCEPT !.rejected = @ \cup {x}] \in Records
      /\ Alike([r EXCEPT !.rejected = @ \cup {x}], r)
  BY <1>2 DEF Records, Alike
<1>4. \/ KeepDeferralOf(r, c) = [r EXCEPT !.deferred = c]
      \/ KeepDeferralOf(r, c) = [r EXCEPT !.deferred = NoConfig]
  BY DEF KeepDeferralOf
<1> QED
  BY <1>1, <1>3, <1>4

(***************************************************************************)
(* What read_lkg may return: the fingerprint and the destinations are those*)
(* of the script, or missing, and without the one there are not the others.*)
(***************************************************************************)
Readable(l) ==
    /\ l.script \in Config
    /\ l.meta \in {l.script, NoConfig}
    /\ l.dests \in {l.script.dest, Incomplete, NoDest}
    /\ l.meta = NoConfig => l.dests = NoDest

(***************************************************************************)
(* What may be on disk for a configuration is its script with metadata that*)
(* may miss something.                                                     *)
(***************************************************************************)
LEMMA LkgForms ==
    ASSUME NEW c \in Config, NEW l, l = Complete(c) \/ l \in Legacy(c)
    PROVE  l \in Persistent /\ l.script = c /\ Readable(l)
<1>1. CASE l = Complete(c)
  BY <1>1, Values DEF Complete, Persistent, Readable
<1>2. CASE l = [Complete(c) EXCEPT !.dests = Incomplete]
  <2>1. l = [script |-> c, meta |-> c, dests |-> Incomplete]
    BY <1>2 DEF Complete
  <2> QED
    BY <2>1, Values DEF Persistent, Readable
<1>3. CASE l = [Complete(c) EXCEPT !.dests = NoDest]
  <2>1. l = [script |-> c, meta |-> c, dests |-> NoDest]
    BY <1>3 DEF Complete
  <2> QED
    BY <2>1, Values DEF Persistent, Readable
<1>4. CASE l = [Complete(c) EXCEPT !.meta = NoConfig, !.dests = NoDest]
  <2>1. l = [script |-> c, meta |-> NoConfig, dests |-> NoDest]
    BY <1>4 DEF Complete
  <2> QED
    BY <2>1, Values DEF Persistent, Readable
<1> QED
  BY <1>1, <1>2, <1>3, <1>4 DEF Legacy

(***************************************************************************)
(* The last known good configuration, when it can be read, is that.        *)
(***************************************************************************)
LEMMA LkgRead ==
    ASSUME TypeInv, LkgIsProven, NEW g \in Groups, NEW wrong, ReadLkg(g, wrong) # NoLkg
    PROVE  Readable(ReadLkg(g, wrong))
<1> DEFINE l == lkg[g]
           k == [l EXCEPT !.meta = NoConfig, !.dests = NoDest]
<1>1. l \in Persistent /\ l # NoLkg
  BY DEF TypeInv, ReadLkg
<1>2. l.script \in Config /\ (l = Complete(l.script) \/ l \in Legacy(l.script))
  BY <1>1 DEF LkgIsProven, Persistent
<1>3. ReadLkg(g, wrong) \in {l, k}
  BY DEF ReadLkg
<1> HIDE DEF l
<1>4. Readable(l)
  BY <1>2, LkgForms
<1>5. k.script = l.script /\ k.meta = NoConfig /\ k.dests = NoDest
  BY <1>1 DEF Persistent
<1> HIDE DEF k
<1>6. Readable(k)
  BY <1>2, <1>5 DEF Readable
<1> QED
  BY <1>3, <1>4, <1>6

(***************************************************************************)
(* The launch of the last known good script concludes any probation.       *)
(***************************************************************************)
LEMMA LkgLaunched ==
    ASSUME NEW r \in Records, Sound(r), r.child = NoConfig, ~r.retry,
           NEW c \in Config, NEW l, Readable(l), NEW wrong
    PROVE  LET n == LaunchLkg(r, c, l, wrong)
           IN  n \in Records /\ Sound(n) /\ n.kind = "accepted" /\ ~n.origin
<1> DEFINE q == [r EXCEPT !.kind = "accepted", !.expected = NoDest]
<1>1. /\ q \in Records /\ q.child = NoConfig /\ q.kind = "accepted" /\ q.retry = r.retry
      /\ q.known = r.known /\ q.origin = r.origin /\ q.running = r.running
      /\ q.encoders = r.encoders /\ q.exited = r.exited /\ q.blind = r.blind
  BY Values DEF Records
<1>2. ~r.origin /\ ~r.blind /\ ~r.exited
  BY DEF Sound, Probation
<1> HIDE DEF q
<1>3. CASE "start" \notin wrong
  <2> DEFINE d == IF l.meta = c THEN c.dest ELSE l.dests
             b == l.meta # c /\ Blind(l)
             m == Started(q, l.script, d, l.meta)
             n == [m EXCEPT !.blind = b]
  <2>1. LaunchLkg(r, c, l, wrong) = n
    BY <1>3 DEF LaunchLkg, q
  <2>2. d \in Dests /\ b \in BOOLEAN /\ l.script \in Config /\ l.meta \in Configs
    BY Values DEF Readable
  <2>3. ~b => d = l.script.dest /\ l.meta = l.script
    BY Values DEF Readable, Blind
  <2>4. /\ b => d \in {Incomplete, NoDest}
        /\ l.meta = l.script \/ (b /\ l.meta = NoConfig)
    BY Values DEF Readable, Blind
  <2> HIDE DEF d, b
  <2>5. /\ m \in Records
        /\ m.known /\ m.child = l.script /\ ~m.exited /\ m.encoders = d
        /\ m.running = l.meta /\ m.kind = q.kind /\ m.retry = q.retry /\ m.origin = q.origin
    BY <1>1, <2>2, ChildStarted
  <2> HIDE DEF m
  <2>6. /\ n \in Records /\ n.blind = b
        /\ n.known = m.known /\ n.child = m.child /\ n.exited = m.exited
        /\ n.encoders = m.encoders /\ n.running = m.running /\ n.kind = m.kind
        /\ n.retry = m.retry /\ n.origin = m.origin
    BY <2>2, <2>5 DEF Records
  <2> HIDE DEF n
  <2>7. n.kind = "accepted" /\ ~n.origin /\ n.child \in Config
    BY <1>1, <1>2, <2>2, <2>5, <2>6
  <2>8. Sound(n)
    BY <1>1, <1>2, <2>2, <2>3, <2>4, <2>5, <2>6, <2>7, Values DEF Sound, Probation
  <2> QED
    BY <2>1, <2>6, <2>7, <2>8
<1>4. CASE "start" \in wrong
  <2>1. LaunchLkg(r, c, l, wrong) = ScheduleRetry(Unstarted(q))
    BY <1>4 DEF LaunchLkg, q
  <2>2. Unstarted(q) \in Records /\ Sound(Unstarted(q)) /\ Unstarted(q).child = NoConfig
    BY <1>1, <1>2, StartFailed
  <2> QED
    BY <2>1, <2>2, RetryScheduled
<1> QED
  BY <1>3, <1>4

(***************************************************************************)
(* A group whose configuration cannot be launched falls back or waits.     *)
(***************************************************************************)
LEMMA FellBack ==
    ASSUME NEW r \in Records, Sound(r), r.child = NoConfig, ~r.retry,
           NEW c \in Config, NEW l, l # NoLkg => Readable(l), NEW wrong
    PROVE  LET n == Fallback(r, c, l, wrong)
           IN  n \in Records /\ Sound(n) /\ n.kind = "accepted" /\ ~n.origin
BY LkgLaunched, RetryScheduled DEF Fallback

(***************************************************************************)
(* A launched candidate is on probation.                                   *)
(***************************************************************************)
LEMMA OnProbationSound ==
    ASSUME NEW r \in Records, NEW c \in Config, ~r.retry, ~r.blind
    PROVE  LET n == OnProbation(r, c)
           IN  /\ n \in Records /\ Sound(n)
               /\ n.kind = "candidate" /\ n.child = c /\ n.origin = r.origin
<1> DEFINE s == Started(r, c, c.dest, c)
           n == [s EXCEPT !.kind = "candidate", !.candidate = c, !.expected = c.dest,
                          !.deferred = NoConfig]
<1>1. n = OnProbation(r, c)
  BY DEF OnProbation
<1>2. /\ s \in Records
      /\ s.known /\ s.child = c /\ ~s.exited /\ s.encoders = c.dest /\ s.running = c
      /\ s.retry = r.retry /\ s.origin = r.origin /\ s.blind = r.blind
  BY ChildStarted, Values
<1> HIDE DEF s
<1>3. /\ n \in Records /\ n.kind = "candidate" /\ n.candidate = c
      /\ n.known = s.known /\ n.child = s.child /\ n.exited = s.exited
      /\ n.encoders = s.encoders /\ n.running = s.running /\ n.retry = s.retry
      /\ n.origin = s.origin /\ n.blind = s.blind
  BY <1>2, Values DEF Records
<1> HIDE DEF n
<1> QED
  BY <1>1, <1>2, <1>3, Values DEF Sound, Probation

(***************************************************************************)
(* _launch_group, for a group without a child: the record is sound, no     *)
(* replacement is open, and a candidate collides with nobody.              *)
(***************************************************************************)
LEMMA Launched ==
    ASSUME TypeInv, LkgIsProven, NEW s \in [Groups -> Records], NEW g \in Groups,
           Sound(s[g]), s[g].child = NoConfig, ~s[g].retry, NEW c \in Config, NEW wrong
    PROVE  LET n == LaunchGroup(s, g, c, wrong)
           IN  /\ n \in Records /\ Sound(n) /\ ~n.origin
               /\ n.kind = "candidate" => n.child = c /\ ~Collides(s, g, c.dest)
<1> DEFINE l == ReadLkg(g, wrong)
           r == KeepDeferralOf(s[g], c)
           d == [r EXCEPT !.deferred = c]
           x == [r EXCEPT !.rejected = @ \cup {c}]
           e == [r EXCEPT !.deferred = NoConfig]
           n == LaunchGroup(s, g, c, wrong)
<1>1. l # NoLkg => Readable(l)
  BY LkgRead
<1>2. s[g] \in Records /\ c \in Configs /\ NoConfig \in Configs
  BY Values
<1>3. r \in Records /\ Alike(r, s[g])
  BY <1>2, Bookkeeping
<1>4. \A q \in {d, x, e} : q \in Records /\ Alike(q, r)
  <2> HIDE DEF r
  <2>1. d \in Records /\ Alike(d, r)
    BY <1>2, <1>3, Bookkeeping
  <2>2. x \in Records /\ Alike(x, r)
    BY <1>2, <1>3, Bookkeeping
  <2>3. e \in Records /\ Alike(e, r)
    BY <1>2, <1>3, Bookkeeping
  <2> QED
    BY <2>1, <2>2, <2>3
<1>5. \/ l # NoLkg /\ n = LaunchLkg(r, c, l, wrong)
      \/ n = ScheduleRetry(r)
      \/ \E q \in {d, x, e} : n = Fallback(q, c, l, wrong)
      \/ n = OnProbation(r, c) /\ ~Collides(s, g, c.dest)
      \/ n = ScheduleRetry(Unstarted(e))
  BY DEF LaunchGroup
<1>6. ASSUME NEW q \in Records, Alike(q, s[g])
      PROVE  /\ Sound(q) /\ q.child = NoConfig /\ ~q.retry /\ ~q.exited
             /\ q.kind = "accepted" /\ ~q.origin /\ ~q.blind
  BY <1>2, <1>6 DEF Alike, Sound, Probation, Records
<1>7. \A q \in {r, d, x, e} : Alike(q, s[g])
  BY <1>3, <1>4 DEF Alike
<1> HIDE DEF l, r, d, x, e, n
<1>8. CASE l # NoLkg /\ n = LaunchLkg(r, c, l, wrong)
  BY <1>1, <1>3, <1>6, <1>7, <1>8, LkgLaunched DEF n
<1>9. CASE n = ScheduleRetry(r)
  BY <1>3, <1>6, <1>7, <1>9, RetryScheduled DEF n
<1>10. CASE \E q \in {d, x, e} : n = Fallback(q, c, l, wrong)
  <2>1. PICK q \in {d, x, e} : n = Fallback(q, c, l, wrong)
    BY <1>10
  <2>2. q \in Records /\ Sound(q) /\ q.child = NoConfig /\ ~q.retry
    BY <1>4, <1>6, <1>7, <2>1
  <2> QED
    BY <1>1, <2>1, <2>2, FellBack DEF n
<1>11. CASE n = OnProbation(r, c) /\ ~Collides(s, g, c.dest)
  BY <1>3, <1>6, <1>7, <1>11, OnProbationSound DEF n
<1>12. CASE n = ScheduleRetry(Unstarted(e))
  BY <1>4, <1>6, <1>7, <1>12, StartFailed, RetryScheduled DEF n
<1> QED
  BY <1>5, <1>8, <1>9, <1>10, <1>11, <1>12

(***************************************************************************)
(* A group whose child is gone, and for which no retry is scheduled.       *)
(***************************************************************************)
Childless(r) ==
    /\ r.child = NoConfig /\ r.running = NoConfig /\ r.encoders = NoDest
    /\ ~r.exited /\ ~r.retry /\ ~r.blind

(***************************************************************************)
(* _on_rollback_failed concludes the replacement and waits for a retry.    *)
(***************************************************************************)
LEMMA RollbackConcluded ==
    ASSUME NEW r \in Records, Childless(r)
    PROVE  LET n == RollbackFailed(r)
           IN  n \in Records /\ Sound(n) /\ n.kind = "accepted" /\ ~n.origin
<1> DEFINE q == [r EXCEPT !.critical = TRUE, !.kind = "accepted", !.origin = FALSE]
<1>1. RollbackFailed(r) = ScheduleRetry(q)
  BY DEF RollbackFailed
<1>2. /\ q \in Records /\ q.kind = "accepted" /\ ~q.origin /\ q.child = r.child
      /\ q.running = r.running /\ q.encoders = r.encoders /\ q.exited = r.exited
      /\ q.retry = r.retry /\ q.blind = r.blind
  BY DEF Records
<1> HIDE DEF q
<1>3. Sound(q) /\ q.child = NoConfig
  BY <1>2 DEF Childless, Sound, Probation
<1> QED
  BY <1>1, <1>2, <1>3, RetryScheduled

(***************************************************************************)
(* _start_rollback: the group runs the last known good script on probation,*)
(* or its replacement is concluded.                                        *)
(***************************************************************************)
LEMMA RollbackStarted ==
    ASSUME TypeInv, LkgIsProven, NEW g \in Groups, NEW r \in Records, Childless(r),
           NEW x \in Destinations, NEW wrong
    PROVE  LET n == StartRollback(r, g, x, wrong)
           IN  /\ n \in Records /\ Sound(n) /\ n.kind # "candidate"
               /\ n.origin => r.origin
<1> DEFINE l == ReadLkg(g, wrong)
           n == StartRollback(r, g, x, wrong)
<1>1. l # NoLkg => Readable(l)
  BY LkgRead
<1>2. CASE l = NoLkg
  <2> DEFINE q == [r EXCEPT !.kind = "accepted", !.origin = FALSE]
  <2>1. n = ScheduleRetry(q)
    BY <1>2 DEF StartRollback
  <2>2. /\ q \in Records /\ q.kind = "accepted" /\ ~q.origin /\ q.child = r.child
        /\ q.running = r.running /\ q.encoders = r.encoders /\ q.exited = r.exited
        /\ q.retry = r.retry /\ q.blind = r.blind
    BY DEF Records
  <2> HIDE DEF q, n
  <2>3. Sound(q) /\ q.child = NoConfig
    BY <2>2 DEF Childless, Sound, Probation
  <2> QED
    BY <2>1, <2>2, <2>3, RetryScheduled DEF n
<1>3. CASE l # NoLkg /\ "rollback" \notin wrong
  <2> DEFINE d == IF l.dests = NoDest THEN x ELSE l.dests
             b == Blind(l)
             q == Started(r, l.script, d, l.meta)
             m == [q EXCEPT !.kind = "rollback", !.expected = l.dests, !.blind = b]
  <2>1. n = m
    BY <1>3 DEF StartRollback
  <2>2. /\ d \in Dests /\ b \in BOOLEAN /\ l.script \in Config /\ l.meta \in Configs
        /\ l.dests \in Dests
    BY <1>1, <1>3, Values DEF Readable, Blind, Dests
  <2>3. /\ ~b => d = l.script.dest /\ l.meta = l.script
        /\ b => d = Incomplete \/ l.dests = NoDest
        /\ l.meta = l.script \/ (b /\ l.meta = NoConfig)
    BY <1>1, <1>3, Values DEF Readable, Blind
  <2> HIDE DEF d, b, l
  <2>4. /\ q \in Records
        /\ q.known /\ q.child = l.script /\ ~q.exited /\ q.encoders = d
        /\ q.running = l.meta /\ q.retry = r.retry /\ q.origin = r.origin
    BY <2>2, ChildStarted
  <2> HIDE DEF q
  <2>5. /\ m \in Records /\ m.kind = "rollback" /\ m.known = q.known /\ m.child = q.child
        /\ m.exited = q.exited /\ m.encoders = q.encoders /\ m.running = q.running
        /\ m.retry = q.retry /\ m.origin = q.origin
        /\ m.expected = l.dests /\ m.blind = b
    BY <2>2, <2>4 DEF Records
  <2> HIDE DEF m, n
  <2>6. Sound(m)
    BY <2>2, <2>3, <2>4, <2>5, Values DEF Sound, Probation, Childless
  <2> QED
    BY <2>1, <2>4, <2>5, <2>6 DEF n
<1>4. CASE l # NoLkg /\ "rollback" \in wrong
  <2>1. n = RollbackFailed(Unstarted(r))
    BY <1>4 DEF StartRollback
  <2>2. Unstarted(r) \in Records /\ Childless(Unstarted(r))
    BY Values DEF Unstarted, Records, Childless
  <2> HIDE DEF n
  <2> QED
    BY <2>1, <2>2, RollbackConcluded DEF n
<1> QED
  BY <1>2, <1>3, <1>4

(***************************************************************************)
(* The end of a probation that failed: no candidate is left.               *)
(***************************************************************************)
LEMMA ProbationEnded ==
    ASSUME TypeInv, LkgIsProven, NEW g \in Groups, NEW r \in Records, Sound(r),
           r.kind \in Probation, NEW wrong
    PROVE  LET n == ProbationFailed(r, g, wrong)
           IN  /\ n \in Records /\ Sound(n) /\ n.kind # "candidate"
               /\ n.origin => r.origin
<1>1. r.child # NoConfig /\ ~r.retry
  BY DEF Sound
<1>2. Gone(r) \in Records /\ Childless(Gone(r)) /\ Gone(r).origin = r.origin
  BY <1>1, ChildGone DEF Childless
<1>3. CASE r.kind = "candidate"
  <2> DEFINE q == [Gone(r) EXCEPT !.rejected = @ \cup {r.candidate}]
  <2>1. r.candidate \in Config
    BY <1>1, <1>3 DEF Sound, Records, Configs
  <2>2. q \in Records /\ Alike(q, Gone(r))
    BY <1>2, <2>1, Values, Bookkeeping
  <2>3. ProbationFailed(r, g, wrong) = StartRollback(q, g, r.candidate.dest, wrong)
    BY <1>3 DEF ProbationFailed
  <2> HIDE DEF q
  <2>4. Childless(q) /\ q.origin = r.origin
    BY <1>2, <2>2 DEF Alike, Childless
  <2> QED
    BY <2>1, <2>2, <2>3, <2>4, Values, RollbackStarted
<1>4. CASE r.kind # "candidate"
  BY <1>2, <1>4, RollbackConcluded DEF ProbationFailed
<1> QED
  BY <1>3, <1>4

(***************************************************************************)
(* _reconcile_changed_group: the group keeps its child, or runs its new    *)
(* configuration on probation, or is rolled back.                          *)
(***************************************************************************)
LEMMA Replaced ==
    ASSUME TypeInv, LkgIsProven, NEW s \in [Groups -> Records], NEW g \in Groups,
           Sound(s[g]), ~s[g].retry, s[g].kind = "accepted",
           db[g] \in Config, NEW wrong, NEW stops \in BOOLEAN
    PROVE  LET n == ReplaceGroup(s, g, wrong, stops)
           IN  n \in Records /\ Sound(n) /\ (n.kind = "candidate" => n.child = db[g])
<1> DEFINE r == s[g]
           c == db[g]
           n == ReplaceGroup(s, g, wrong, stops)
           d == [r EXCEPT !.deferred = c]
           x == [r EXCEPT !.rejected = @ \cup {c}]
           e == [r EXCEPT !.deferred = NoConfig]
           y == Gone(r)
           o == [y EXCEPT !.origin = TRUE]
           b == [y EXCEPT !.origin = TRUE, !.deferred = NoConfig]
<1>1. r \in Records /\ c \in Configs /\ NoConfig \in Configs
  BY Values
<1>2. /\ d \in Records /\ Alike(d, r)
      /\ x \in Records /\ Alike(x, r)
      /\ e \in Records /\ Alike(e, r)
  <2> HIDE DEF r, c
  <2>0. c \in Config
    BY DEF c
  <2>1. d \in Records /\ Alike(d, r)
    BY <1>1, <2>0, Bookkeeping
  <2>2. x \in Records /\ Alike(x, r)
    BY <1>1, <2>0, Bookkeeping
  <2>3. e \in Records /\ Alike(e, r)
    BY <1>1, <2>0, Bookkeeping
  <2> QED
    BY <2>1, <2>2, <2>3
<1>3. n \in {r, d, x, e, OnProbation(o, c), StartRollback(b, g, c.dest, wrong)}
  BY DEF ReplaceGroup
<1>4. y \in Records /\ Childless(y)
  BY <1>1, ChildGone DEF Childless
<1> HIDE DEF y
<1>5. /\ o \in Records /\ ~o.retry /\ ~o.blind
      /\ b \in Records /\ Childless(b)
  BY <1>4, Values DEF Records, Childless
<1> HIDE DEF n, d, x, e, o, b
<1>6. CASE n \in {r, d, x, e}
  BY <1>1, <1>2, <1>6 DEF n, Alike, Sound
<1>7. CASE n = OnProbation(o, c)
  BY <1>5, <1>7, OnProbationSound DEF n
<1>8. CASE n = StartRollback(b, g, c.dest, wrong)
  BY <1>5, <1>8, Values, RollbackStarted DEF n
<1> QED
  BY <1>3, <1>6, <1>7, <1>8
-----------------------------------------------------------------------------
(***************************************************************************)
(* No candidate of this step starts where another child streams.           *)
(***************************************************************************)
Clear ==
    \A g, h \in Groups :
        g # h /\ group'[g].kind = "candidate" /\ group'[g].child # group[g].child
        => \/ group'[h].child = NoConfig \/ group'[h].child.dest # group'[g].child.dest
           \/ group'[h].blind

(***************************************************************************)
(* A step that changes one group.                                          *)
(***************************************************************************)
LEMMA OneGroup ==
    ASSUME Inv, NEW g \in Groups, NEW n \in Records, Sound(n),
           group' = [group EXCEPT ![g] = n],
           n.origin => group[g].origin,
           n.kind = "candidate" => n.child = group[g].child \/ ~Collides(group, g, n.child.dest)
    PROVE  /\ group' \in [Groups -> Records] /\ AllSound' /\ OneOrigin' /\ Clear
           /\ group'[g] = n /\ \A h \in Groups : h # g => group'[h] = group[h]
<1>1. group \in [Groups -> Records]
  BY DEF Inv, TypeInv
<1>2. group'[g] = n /\ \A h \in Groups : h # g => group'[h] = group[h]
  BY <1>1
<1>3. group' \in [Groups -> Records]
  BY <1>1
<1>4. AllSound'
  BY <1>2 DEF Inv, AllSound
<1>5. OneOrigin'
  BY <1>2 DEF Inv, OneOrigin
<1>6. Clear
  <2> SUFFICES ASSUME NEW k \in Groups, NEW h \in Groups, k # h, group'[k].kind = "candidate",
                      group'[k].child # group[k].child, group'[h].child # NoConfig,
                      ~group'[h].blind
               PROVE  group'[h].child.dest # group'[k].child.dest
    BY DEF Clear
  <2>1. k = g /\ group'[h] = group[h]
    BY <1>2
  <2>2. ~Collides(group, g, n.child.dest)
    BY <1>2, <2>1
  <2>3. group[h].encoders # n.child.dest
    BY <2>1, <2>2 DEF Collides
  <2>4. Sound(group[h])
    BY DEF Inv, AllSound
  <2>5. group[h].encoders = group[h].child.dest
    BY <2>1, <2>4 DEF Sound
  <2> QED
    BY <1>2, <2>1, <2>3, <2>5
<1> QED
  BY <1>2, <1>3, <1>4, <1>5, <1>6

(***************************************************************************)
(* The steps of one group, other than those of the reconciliation.         *)
(***************************************************************************)
LEMMA GroupSteps ==
    ASSUME Inv, NEW g \in Groups,
           \/ ChildExits(g) \/ Start(g) \/ HandleExit(g) \/ Retry(g) \/ RetryRaises(g)
           \/ DeferralEnds(g) \/ Qualified(g) \/ QualificationFails(g)
    PROVE  \/ UNCHANGED group
           \/ \E n \in Records :
                /\ Sound(n) /\ group' = [group EXCEPT ![g] = n]
                /\ n.origin => group[g].origin
                /\ n.kind = "candidate"
                      => n.child = group[g].child \/ ~Collides(group, g, n.child.dest)
<1> DEFINE r == group[g]
           Kept(n) == /\ Sound(n) /\ group' = [group EXCEPT ![g] = n]
                      /\ n.origin => group[g].origin
                      /\ n.kind = "candidate"
                            => n.child = group[g].child \/ ~Collides(group, g, n.child.dest)
<1>i. TypeInv /\ LkgIsProven /\ BootIsFresh
  BY DEF Inv
<1>t. group \in [Groups -> Records] /\ r \in Records /\ Sound(r)
  BY DEF Inv, TypeInv, AllSound
<1>1. CASE ChildExits(g)
  <2> DEFINE n == [r EXCEPT !.exited = TRUE]
  <2>1. /\ n \in Records /\ n.exited /\ n.known = r.known /\ n.child = r.child
        /\ n.kind = r.kind /\ n.retry = r.retry /\ n.running = r.running
        /\ n.encoders = r.encoders /\ n.candidate = r.candidate /\ n.origin = r.origin
        /\ n.expected = r.expected /\ n.blind = r.blind
    BY <1>t DEF Records
  <2>2. group' = [group EXCEPT ![g] = n] /\ r.child # NoConfig
    BY <1>1, <1>t DEF ChildExits
  <2> HIDE DEF n
  <2>3. Kept(n)
    BY <1>t, <2>1, <2>2 DEF Sound
  <2> QED
    BY <2>1, <2>3
<1>2. CASE Start(g)
  <2>1. PICK wrong : group' = [group EXCEPT ![g] = LaunchGroup(group, g, boot[g], wrong)]
    BY <1>2 DEF Start
  <2>2. boot[g] \in Config /\ r = Unknown
    BY <1>2, <1>i DEF Start, BootIsFresh, TypeInv, Configs
  <2>3. r.child = NoConfig /\ ~r.retry
    BY <2>2 DEF Unknown
  <2> DEFINE n == LaunchGroup(group, g, boot[g], wrong)
  <2>4. /\ n \in Records /\ Sound(n) /\ ~n.origin
        /\ n.kind = "candidate" => n.child = boot[g] /\ ~Collides(group, g, boot[g].dest)
    BY <1>i, <1>t, <2>2, <2>3, Launched
  <2> HIDE DEF n
  <2>5. Kept(n)
    BY <2>1, <2>4 DEF n
  <2> QED
    BY <2>4, <2>5
<1>3. CASE HandleExit(g)
  <2>1. PICK wrong : group' = [group EXCEPT ![g] = IF r.kind = "accepted"
                                                   THEN ScheduleRetry(Gone(r))
                                                   ELSE ProbationFailed(r, g, wrong)]
    BY <1>3 DEF HandleExit
  <2>2. CASE r.kind = "accepted"
    <3> DEFINE n == ScheduleRetry(Gone(r))
    <3>1. Gone(r) \in Records /\ Sound(Gone(r)) /\ Gone(r).child = NoConfig
      BY <1>t, <2>2, ChildGone DEF Sound, Probation
    <3>2. n \in Records /\ Sound(n) /\ n.kind = "accepted" /\ ~n.origin
      BY <3>1, RetryScheduled
    <3>3. group' = [group EXCEPT ![g] = n]
      BY <2>1, <2>2
    <3> HIDE DEF n
    <3>4. Kept(n)
      BY <3>2, <3>3
    <3> QED
      BY <3>2, <3>4
  <2>3. CASE r.kind # "accepted"
    <3> DEFINE n == ProbationFailed(r, g, wrong)
    <3>1. r.kind \in Probation
      BY <1>t, <2>3 DEF Records, Probation
    <3>2. n \in Records /\ Sound(n) /\ n.kind # "candidate" /\ (n.origin => r.origin)
      BY <1>i, <1>t, <3>1, ProbationEnded
    <3>3. group' = [group EXCEPT ![g] = n]
      BY <2>1, <2>3
    <3> HIDE DEF n
    <3>4. Kept(n)
      BY <3>2, <3>3
    <3> QED
      BY <3>2, <3>4
  <2> QED
    BY <2>2, <2>3
<1>4. CASE Retry(g)
  <2>1. r.retry /\ r.child = NoConfig
    BY <1>4, <1>t DEF Retry, Sound
  <2>2. CASE Enabled(g)
    <3> DEFINE q == [r EXCEPT !.retry = FALSE]
               s == [group EXCEPT ![g].retry = FALSE]
    <3>1. PICK wrong : group' = [group EXCEPT ![g] = LaunchGroup(s, g, db[g], wrong)]
      BY <1>4, <2>2 DEF Retry
    <3>2. /\ q \in Records /\ ~q.retry /\ q.known = r.known /\ q.child = r.child
          /\ q.exited = r.exited /\ q.kind = r.kind /\ q.running = r.running
          /\ q.encoders = r.encoders /\ q.candidate = r.candidate /\ q.origin = r.origin
          /\ q.expected = r.expected /\ q.blind = r.blind
      BY <1>t DEF Records
    <3>3. s = [group EXCEPT ![g] = q]
      BY <1>t
    <3> HIDE DEF q
    <3>4. Sound(q) /\ q.child = NoConfig
      BY <1>t, <2>1, <3>2 DEF Sound
    <3>5. /\ s \in [Groups -> Records] /\ s[g] = q
          /\ \A h \in Groups \ {g} : s[h] = group[h]
      BY <1>t, <3>2, <3>3
    <3>6. db[g] \in Config
      BY <1>i, <2>2 DEF Enabled, TypeInv, Configs
    <3> HIDE DEF s
    <3> DEFINE n == LaunchGroup(s, g, db[g], wrong)
    <3>7. /\ n \in Records /\ Sound(n) /\ ~n.origin
          /\ n.kind = "candidate" => n.child = db[g] /\ ~Collides(s, g, db[g].dest)
      BY <1>i, <3>2, <3>4, <3>5, <3>6, Launched
    <3>8. ~Collides(s, g, db[g].dest) => ~Collides(group, g, db[g].dest)
      BY <3>5 DEF Collides
    <3>9. group' = [group EXCEPT ![g] = n]
      BY <3>1
    <3> HIDE DEF n
    <3>10. Kept(n)
      BY <3>7, <3>8, <3>9
    <3> QED
      BY <3>7, <3>10
  <2>3. CASE ~Enabled(g)
    <3>1. group' = [group EXCEPT ![g] = Unknown]
      BY <1>4, <2>3 DEF Retry
    <3>2. Unknown.kind = "accepted"
      BY DEF Unknown
    <3> QED
      BY <3>1, <3>2, UnknownSound
  <2> QED
    BY <2>2, <2>3
<1>5. CASE RetryRaises(g)
  <2> DEFINE n == [r EXCEPT !.retry = FALSE]
  <2>1. /\ n \in Records /\ ~n.retry /\ n.known = r.known /\ n.child = r.child
        /\ n.exited = r.exited /\ n.kind = r.kind /\ n.running = r.running
        /\ n.encoders = r.encoders /\ n.candidate = r.candidate /\ n.origin = r.origin
        /\ n.expected = r.expected /\ n.blind = r.blind
    BY <1>t DEF Records
  <2>2. group' = [group EXCEPT ![g] = n]
    BY <1>5, <1>t DEF RetryRaises
  <2> HIDE DEF n
  <2>3. Kept(n)
    BY <1>t, <2>1, <2>2 DEF Sound
  <2> QED
    BY <2>1, <2>3
<1>6. CASE DeferralEnds(g)
  <2> DEFINE n == [r EXCEPT !.deferred = NoConfig]
  <2>1. n \in Records /\ Alike(n, r)
    BY <1>t, Values DEF Records, Alike
  <2>2. group' = [group EXCEPT ![g] = n]
    BY <1>6, <1>t DEF DeferralEnds
  <2> HIDE DEF n
  <2>3. Kept(n)
    BY <1>t, <2>1, <2>2 DEF Sound, Alike
  <2> QED
    BY <2>1, <2>3
<1>7. CASE Qualified(g)
  <2>1. ASSUME NEW n \in Records, group' = [group EXCEPT ![g] = n], n.kind = "accepted",
               ~n.origin, n.known = r.known, n.child = r.child, n.exited = r.exited,
               n.retry = r.retry, n.running = r.running, n.encoders = r.encoders,
               n.blind = r.blind
        PROVE  Kept(n)
    <3>1. r.kind \in Probation /\ r.child \in Config /\ r.expected # NoDest
      BY <1>7, <1>t, Values, EncoderAssumption DEF Qualified, Healthy, Records, Configs
    <3> QED
      BY <1>t, <2>1, <3>1 DEF Sound, Probation
  <2>2. CASE group' = [group EXCEPT ![g] = RolledBack(r)]
    <3> DEFINE n == [r EXCEPT !.kind = "accepted", !.expected = NoDest, !.origin = FALSE]
    <3>1. /\ n \in Records /\ n.kind = "accepted"
          /\ ~n.origin /\ n.known = r.known /\ n.child = r.child /\ n.exited = r.exited
          /\ n.retry = r.retry /\ n.running = r.running /\ n.encoders = r.encoders
          /\ n.blind = r.blind
      BY <1>t, Values DEF Records
    <3>2. group' = [group EXCEPT ![g] = n]
      BY <2>2 DEF RolledBack
    <3> HIDE DEF n
    <3> QED
      BY <2>1, <3>1, <3>2
  <2>3. CASE group' = [group EXCEPT ![g] = Promoted(r)]
    <3> DEFINE d == IF r.deferred = r.candidate THEN NoConfig ELSE r.deferred
               n == [r EXCEPT !.rejected = {}, !.critical = FALSE, !.kind = "accepted",
                              !.expected = NoDest, !.origin = FALSE, !.deferred = d]
    <3>1. d \in Configs
      BY <1>t, Values DEF Records
    <3>2. group' = [group EXCEPT ![g] = n]
      BY <2>3 DEF Promoted
    <3> HIDE DEF d
    <3>3. /\ n \in Records /\ n.kind = "accepted"
          /\ ~n.origin /\ n.known = r.known /\ n.child = r.child /\ n.exited = r.exited
          /\ n.retry = r.retry /\ n.running = r.running /\ n.encoders = r.encoders
          /\ n.blind = r.blind
      BY <1>t, <3>1, Values DEF Records
    <3> HIDE DEF n
    <3> QED
      BY <2>1, <3>2, <3>3
  <2> QED
    BY <1>7, <2>2, <2>3 DEF Qualified
<1>8. CASE QualificationFails(g)
  <2>1. PICK wrong : group' = [group EXCEPT ![g] = ProbationFailed(r, g, wrong)]
    BY <1>8 DEF QualificationFails
  <2> DEFINE n == ProbationFailed(r, g, wrong)
  <2>2. n \in Records /\ Sound(n) /\ n.kind # "candidate" /\ (n.origin => r.origin)
    BY <1>8, <1>i, <1>t, ProbationEnded DEF QualificationFails
  <2> HIDE DEF n
  <2>3. Kept(n)
    BY <2>1, <2>2 DEF n
  <2> QED
    BY <2>2, <2>3
<1> QED
  BY <1>1, <1>2, <1>3, <1>4, <1>5, <1>6, <1>7, <1>8

(***************************************************************************)
(* The records n and r agree on the child and its stage.                   *)
(***************************************************************************)
Similar(n, r) == n.child = r.child /\ n.kind = r.kind /\ n.origin = r.origin

(***************************************************************************)
(* Rows of the database that have the fingerprint of what runs are those of*)
(* the child.                                                              *)
(***************************************************************************)
LEMMA HealedSound ==
    ASSUME NEW g \in Groups, db[g] \in Config, NEW r \in Records, Sound(r)
    PROVE  /\ SelfHealed(r, g) \in Records /\ Sound(SelfHealed(r, g))
           /\ Similar(SelfHealed(r, g), r)
<1> DEFINE n == [r EXCEPT !.encoders = db[g].dest, !.blind = FALSE]
<1>1. CASE SelfHealed(r, g) = r
  BY <1>1 DEF Similar
<1>2. CASE SelfHealed(r, g) # r
  <2>1. SelfHealed(r, g) = n /\ r.running = db[g]
    BY <1>2 DEF SelfHealed
  <2>2. /\ n \in Records /\ n.encoders = db[g].dest /\ ~n.blind
        /\ n.known = r.known /\ n.child = r.child /\ n.exited = r.exited /\ n.kind = r.kind
        /\ n.retry = r.retry /\ n.running = r.running /\ n.candidate = r.candidate
        /\ n.origin = r.origin
    BY Values DEF Records
  <2> HIDE DEF n
  <2>3. r.child = db[g] /\ db[g] # NoConfig
    BY <2>1, Values DEF Sound
  <2>4. Sound(n)
    BY <2>1, <2>2, <2>3 DEF Sound
  <2> QED
    BY <2>1, <2>2, <2>4 DEF Similar
<1> QED
  BY <1>1, <1>2

(***************************************************************************)
(* The reconciliation before its transition loses groups, changes          *)
(* bookkeeping and completes what is recorded of a group that runs what the*)
(* database says.                                                          *)
(***************************************************************************)
LEMMA RemainingSound ==
    ASSUME Inv, NEW refused
    PROVE  /\ Remaining(refused) \in [Groups -> Records]
           /\ \A g \in Groups :
                /\ Sound(Remaining(refused)[g])
                /\ \/ Similar(Remaining(refused)[g], group[g])
                   \/ Similar(Remaining(refused)[g], Unknown)
<1> DEFINE s == WithoutRemoved(refused)
           t == Remaining(refused)
<1>1. \A g \in Groups : s[g] \in Records /\ (s[g] = group[g] \/ s[g] = Unknown)
  BY UnknownSound DEF Inv, TypeInv, WithoutRemoved
<1>2. \A g \in Groups : t[g] = IF Enabled(g) THEN SelfHealed(KeepDeferralOf(s[g], db[g]), g)
                                ELSE s[g]
  BY DEF Remaining
<1> HIDE DEF s
<1>3. ASSUME NEW g \in Groups
      PROVE  /\ t[g] \in Records /\ Sound(t[g])
             /\ Similar(t[g], group[g]) \/ Similar(t[g], Unknown)
  <2>1. db[g] \in Configs
    BY DEF Inv, TypeInv
  <2>2. Sound(s[g])
    BY <1>1, UnknownSound DEF Inv, AllSound
  <2>3. t[g] \in Records /\ Sound(t[g]) /\ Similar(t[g], s[g])
    <3>1. CASE Enabled(g)
      <4> DEFINE k == KeepDeferralOf(s[g], db[g])
      <4>1. db[g] \in Config
        BY <2>1, <3>1 DEF Enabled, Configs
      <4>2. k \in Records /\ Alike(k, s[g])
        BY <1>1, <2>1, <4>1, Bookkeeping
      <4> HIDE DEF k
      <4>3. Sound(k) /\ Similar(k, s[g])
        BY <2>2, <4>2 DEF Alike, Sound, Similar
      <4>4. SelfHealed(k, g) \in Records /\ Sound(SelfHealed(k, g)) /\ Similar(SelfHealed(k, g), k)
        BY <4>1, <4>2, <4>3, HealedSound
      <4>5. t[g] = SelfHealed(k, g)
        BY <1>2, <3>1 DEF k
      <4> QED
        BY <4>3, <4>4, <4>5 DEF Similar
    <3>2. CASE ~Enabled(g)
      BY <1>1, <1>2, <2>2, <3>2 DEF Similar
    <3> QED
      BY <3>1, <3>2
  <2> QED
    BY <1>1, <2>3
<1>4. t = [g \in Groups |-> t[g]]
  BY DEF Remaining
<1> HIDE DEF t
<1>5. t \in [Groups -> Records]
  BY <1>3, <1>4
<1> QED
  BY <1>3, <1>5 DEF t

(***************************************************************************)
(* A group that is reported becomes known, and nothing else.               *)
(***************************************************************************)
LEMMA ReportingSound ==
    ASSUME NEW t \in [Groups -> Records], \A g \in Groups : Sound(t[g])
    PROVE  /\ Reporting(t) \in [Groups -> Records]
           /\ \A g \in Groups :
                /\ Sound(Reporting(t)[g])
                /\ Reporting(t)[g].child = t[g].child /\ Reporting(t)[g].encoders = t[g].encoders
                /\ Reporting(t)[g].kind = t[g].kind /\ Reporting(t)[g].retry = t[g].retry
                /\ Reporting(t)[g].origin = t[g].origin
<1> DEFINE u == Reporting(t)
<1>1. ASSUME NEW g \in Groups
      PROVE  /\ u[g] \in Records /\ Sound(u[g])
             /\ u[g].child = t[g].child /\ u[g].encoders = t[g].encoders
             /\ u[g].kind = t[g].kind /\ u[g].retry = t[g].retry /\ u[g].origin = t[g].origin
  <2> DEFINE r == t[g]
             n == [r EXCEPT !.known = TRUE]
  <2>1. r \in Records /\ Sound(r)
    OBVIOUS
  <2>2. u[g] = r \/ u[g] = n
    BY DEF Reporting
  <2> HIDE DEF r
  <2>3. /\ n \in Records /\ n.known /\ n.child = r.child /\ n.exited = r.exited
        /\ n.kind = r.kind /\ n.retry = r.retry /\ n.running = r.running
        /\ n.encoders = r.encoders /\ n.candidate = r.candidate /\ n.origin = r.origin
        /\ n.expected = r.expected /\ n.blind = r.blind
    BY <2>1 DEF Records
  <2> HIDE DEF n, u
  <2>4. Sound(n)
    BY <2>1, <2>3 DEF Sound
  <2> QED
    BY <2>1, <2>2, <2>3, <2>4 DEF r
<1>2. u = [g \in Groups |-> u[g]]
  BY DEF Reporting
<1> HIDE DEF u
<1>3. u \in [Groups -> Records]
  BY <1>1, <1>2
<1> QED
  BY <1>1, <1>3 DEF u

(***************************************************************************)
(* A tick's reconciliation starts at most one transition, for a group that *)
(* collides with nobody, and only when no other one is under way.          *)
(***************************************************************************)
LEMMA ReconcileStep ==
    ASSUME Inv, Reconcile
    PROVE  group' \in [Groups -> Records] /\ AllSound' /\ OneOrigin' /\ Clear
<1>i. TypeInv /\ LkgIsProven /\ OneOrigin
  BY DEF Inv
<1>1. PICK refused :
        \/ group' = Reporting(Remaining(refused))
        \/ \E g \in Chosen(Remaining(refused)), stops \in BOOLEAN, wrong \in Mishaps :
             group' = [Reporting(Remaining(refused)) EXCEPT
                         ![g] = IF Remaining(refused)[g].known
                                THEN ReplaceGroup(Reporting(Remaining(refused)), g, wrong, stops)
                                ELSE LaunchGroup(Reporting(Remaining(refused)), g, db[g], wrong)]
  <2>1. PICK refused : Transition(refused, Remaining(refused), Reporting(Remaining(refused)))
    BY DEF Reconcile
  <2> QED
    BY <2>1 DEF Transition
<1> DEFINE t == Remaining(refused)
           u == Reporting(t)
<1>2. /\ t \in [Groups -> Records]
      /\ \A g \in Groups : Sound(t[g]) /\ (Similar(t[g], group[g]) \/ Similar(t[g], Unknown))
  BY RemainingSound
<1> HIDE DEF t
<1>3. /\ u \in [Groups -> Records]
      /\ \A g \in Groups :
           /\ Sound(u[g]) /\ u[g].child = t[g].child /\ u[g].encoders = t[g].encoders
           /\ u[g].kind = t[g].kind /\ u[g].retry = t[g].retry /\ u[g].origin = t[g].origin
  BY <1>2, ReportingSound
<1>4. \A g \in Groups : /\ u[g].origin => group[g].origin
                        /\ u[g].kind = "candidate" => u[g].child = group[g].child
  <2>1. Unknown.kind = "accepted" /\ ~Unknown.origin
    BY DEF Unknown
  <2> QED
    BY <1>2, <1>3, <2>1 DEF Similar
<1>5. CASE group' = u
  BY <1>i, <1>3, <1>4, <1>5 DEF AllSound, OneOrigin, Clear
<1>6. ASSUME NEW g \in Chosen(t), NEW stops \in BOOLEAN, NEW wrong,
             group' = [u EXCEPT ![g] = IF t[g].known THEN ReplaceGroup(u, g, wrong, stops)
                                                     ELSE LaunchGroup(u, g, db[g], wrong)]
      PROVE  group' \in [Groups -> Records] /\ AllSound' /\ OneOrigin' /\ Clear
  <2> DEFINE n == IF t[g].known THEN ReplaceGroup(u, g, wrong, stops)
                                ELSE LaunchGroup(u, g, db[g], wrong)
  <2>1. /\ g \in Groups /\ g \in Candidates(t) /\ ~Collides(t, g, db[g].dest)
        /\ Transitioning(t) = {}
    BY DEF Chosen, Candidates
  <2>2. Enabled(g) /\ (t[g].known => ~t[g].retry)
    BY <2>1 DEF Candidates
  <2>3. db[g] \in Config
    BY <1>i, <2>1, <2>2 DEF TypeInv, Enabled, Configs
  <2>4. \A h \in Groups : u[h].kind = "accepted" /\ ~u[h].origin
    <3>1. \A h \in Groups : u[h].kind \notin Probation
      BY <1>3, <2>1 DEF Transitioning
    <3> QED
      BY <1>3, <3>1 DEF Records, Probation, Sound
  <2>5. n \in Records /\ Sound(n) /\ (n.kind = "candidate" => n.child = db[g])
    <3>1. CASE t[g].known
      <4>1. ~u[g].retry
        BY <1>3, <2>1, <2>2, <3>1
      <4>2. LET m == ReplaceGroup(u, g, wrong, stops)
            IN  m \in Records /\ Sound(m) /\ (m.kind = "candidate" => m.child = db[g])
        <5> HIDE DEF u
        <5> QED
          BY <1>i, <1>3, <2>1, <2>3, <2>4, <4>1, Replaced
      <4> QED
        BY <3>1, <4>2
    <3>2. CASE ~t[g].known
      <4>1. ~u[g].retry /\ u[g].child = NoConfig
        BY <1>2, <1>3, <2>1, <3>2 DEF Sound
      <4>2. LET m == LaunchGroup(u, g, db[g], wrong)
            IN  m \in Records /\ Sound(m) /\ (m.kind = "candidate" => m.child = db[g])
        <5> HIDE DEF u
        <5> QED
          BY <1>i, <1>3, <2>1, <2>3, <4>1, Launched
      <4> QED
        BY <3>2, <4>2
    <3> QED
      BY <3>1, <3>2
  <2> HIDE DEF n, u
  <2>6. /\ group' \in [Groups -> Records] /\ group'[g] = n
        /\ \A h \in Groups : h # g => group'[h] = u[h]
    BY <1>3, <1>6, <2>1, <2>5 DEF n
  <2>7. AllSound'
    BY <1>3, <2>5, <2>6 DEF AllSound
  <2>8. OneOrigin'
    BY <2>4, <2>6 DEF OneOrigin
  <2>9. Clear
    <3> SUFFICES ASSUME NEW k \in Groups, NEW h \in Groups, k # h,
                        group'[k].kind = "candidate", group'[h].child # NoConfig,
                        ~group'[h].blind
                 PROVE  group'[h].child.dest # group'[k].child.dest
      BY DEF Clear
    <3>1. k = g /\ group'[h] = u[h] /\ group'[k].child = db[g]
      BY <2>4, <2>5, <2>6
    <3>2. u[h].encoders # db[g].dest
      BY <1>3, <2>1, <3>1 DEF Collides
    <3>3. u[h].encoders = u[h].child.dest
      BY <1>3, <3>1 DEF Sound
    <3> QED
      BY <3>1, <3>2, <3>3
  <2> QED
    BY <2>6, <2>7, <2>8, <2>9
<1> QED
  BY <1>1, <1>5, <1>6 DEF t
-----------------------------------------------------------------------------
(***************************************************************************)
(* The last known good configuration of a group is written only from a     *)
(* candidate that is healthy, and that is the child.                       *)
(***************************************************************************)
LEMMA LkgStep == Inv /\ [Next]_vars => LkgIsProven' /\ lkg' \in [Groups -> Persistent \cup {NoLkg}]
<1> SUFFICES ASSUME Inv, [Next]_vars
             PROVE  LkgIsProven' /\ lkg' \in [Groups -> Persistent \cup {NoLkg}]
  OBVIOUS
<1>1. CASE UNCHANGED lkg
  BY <1>1 DEF Inv, TypeInv, LkgIsProven
<1>2. CASE \E g \in Groups : Qualified(g)
  <2>1. PICK g \in Groups : Qualified(g)
    BY <1>2
  <2>2. SUFFICES ASSUME group[g].kind = "candidate",
                        lkg' = [lkg EXCEPT ![g] = Persisted(group[g], g)]
                 PROVE  LkgIsProven' /\ lkg' \in [Groups -> Persistent \cup {NoLkg}]
    BY <1>1, <2>1 DEF Qualified
  <2>3. group[g] \in Records /\ Sound(group[g]) /\ group[g].child # NoConfig
        /\ Healthy(group[g])
    BY <2>1 DEF Inv, TypeInv, AllSound, Qualified
  <2>4. group[g].child \in Config /\ group[g].candidate = group[g].child
        /\ group[g].child.quality = "good"
    BY <2>2, <2>3 DEF Records, Configs, Sound, Healthy
  <2> DEFINE l == Persisted(group[g], g)
  <2>5. l \in Persistent /\ l.script.quality = "good" /\ l = Complete(l.script)
    BY <2>4, Values DEF Persisted, Persistent, Complete
  <2> HIDE DEF l
  <2>6. lkg \in [Groups -> Persistent \cup {NoLkg}] /\ LkgIsProven
    BY DEF Inv, TypeInv
  <2>7. /\ lkg' \in [Groups -> Persistent \cup {NoLkg}]
        /\ lkg'[g] = l /\ \A h \in Groups : h # g => lkg'[h] = lkg[h]
    BY <2>2, <2>5, <2>6 DEF l
  <2> QED
    BY <2>5, <2>6, <2>7 DEF LkgIsProven
<1> QED
  BY <1>1, <1>2 DEF Next, vars, Crash, Reconcile, Edit, ChildExits, Start, HandleExit, Retry,
                    RetryRaises, DeferralEnds, QualificationFails, KilledChildEnds

(***************************************************************************)
(* What was killed and forgotten was a child.                              *)
(***************************************************************************)
LEMMA DyingStep == Inv /\ [Next]_vars => dying' \in [Groups -> SUBSET Config]
<1> SUFFICES ASSUME Inv, [Next]_vars PROVE dying' \in [Groups -> SUBSET Config]
  OBVIOUS
<1>t. dying \in [Groups -> SUBSET Config] /\ group \in [Groups -> Records]
  BY DEF Inv, TypeInv
<1>1. CASE UNCHANGED dying
  BY <1>1, <1>t
<1>2. CASE Crash
  BY <1>2 DEF Crash
<1>3. ASSUME NEW g \in Groups, QualificationFails(g)
      PROVE  dying' \in [Groups -> SUBSET Config]
  <2>1. group[g].child \in Config
    BY <1>3, <1>t DEF QualificationFails, Records, Configs
  <2>2. UNCHANGED dying \/ dying' = [dying EXCEPT ![g] = @ \cup {group[g].child}]
    BY <1>3 DEF QualificationFails
  <2> QED
    BY <1>t, <2>1, <2>2
<1>4. ASSUME NEW g \in Groups, KilledChildEnds(g)
      PROVE  dying' \in [Groups -> SUBSET Config]
  BY <1>4, <1>t DEF KilledChildEnds
<1> QED
  BY <1>1, <1>2, <1>3, <1>4
  DEF Next, vars, Reconcile, Edit, ChildExits, Start, HandleExit, Retry, RetryRaises,
      DeferralEnds, Qualified

(***************************************************************************)
(* Every step keeps the invariant and starts no candidate that collides.   *)
(***************************************************************************)
LEMMA NextInv == Inv /\ [Next]_vars => Inv' /\ Clear
<1> SUFFICES ASSUME Inv, [Next]_vars PROVE Inv' /\ Clear
  OBVIOUS
<1>t. /\ db \in [Groups -> Configs] /\ boot \in [Groups -> Configs]
      /\ group \in [Groups -> Records]
  BY DEF Inv, TypeInv
<1>l. /\ LkgIsProven' /\ lkg' \in [Groups -> Persistent \cup {NoLkg}]
      /\ dying' \in [Groups -> SUBSET Config]
  BY LkgStep, DyingStep
<1>1. CASE UNCHANGED group /\ UNCHANGED boot /\ db' \in [Groups -> Configs]
  BY <1>1, <1>t, <1>l DEF Inv, TypeInv, AllSound, BootIsFresh, OneOrigin, Clear
<1>2. ASSUME UNCHANGED db, boot' \in [Groups -> Configs],
             group' \in [Groups -> Records] /\ AllSound' /\ OneOrigin' /\ Clear, BootIsFresh'
      PROVE  Inv' /\ Clear
  BY <1>t, <1>l, <1>2 DEF Inv, TypeInv
<1>3. CASE Crash
  <2>1. group' \in [Groups -> Records] /\ \A g \in Groups : group'[g] = Unknown
    BY <1>3, UnknownSound DEF Crash
  <2>2. Unknown.kind = "accepted"
    BY DEF Unknown
  <2>3. UNCHANGED db /\ boot' \in [Groups -> Configs]
    BY <1>3, <1>t DEF Crash
  <2>4. AllSound' /\ OneOrigin' /\ BootIsFresh' /\ Clear
    BY <2>1, <2>2, UnknownSound DEF AllSound, OneOrigin, BootIsFresh, Clear
  <2> QED
    BY <1>2, <2>1, <2>3, <2>4
<1>4. CASE Reconcile
  <2>1. /\ UNCHANGED <<db, boot>>
        /\ \A g \in Groups : boot[g] = NoConfig
    BY <1>4 DEF Reconcile, Booting
  <2>2. BootIsFresh'
    BY <2>1 DEF BootIsFresh
  <2> QED
    BY <1>2, <1>4, <1>t, <2>1, <2>2, ReconcileStep
<1>5. CASE \E g \in Groups : Edit(g)
  <2>1. PICK g \in Groups : Edit(g)
    BY <1>5
  <2> QED
    BY <1>1, <1>t, <2>1 DEF Edit, Configs
<1>6. ASSUME NEW g \in Groups,
             \/ ChildExits(g) \/ Start(g) \/ HandleExit(g) \/ Retry(g) \/ RetryRaises(g)
             \/ DeferralEnds(g) \/ Qualified(g) \/ QualificationFails(g)
      PROVE  Inv' /\ Clear
  <2>1. CASE Start(g)
    <3>1. UNCHANGED db /\ boot' = [boot EXCEPT ![g] = NoConfig]
      BY <2>1 DEF Start
    <3>2. /\ boot' \in [Groups -> Configs]
          /\ \A h \in Groups : boot'[h] # NoConfig => boot[h] # NoConfig /\ h # g
      BY <1>t, <3>1, Values
    <3>3. CASE UNCHANGED group
      BY <1>2, <1>t, <3>1, <3>2, <3>3 DEF Inv, AllSound, OneOrigin, BootIsFresh, Clear
    <3>4. CASE ~UNCHANGED group
      <4>1. PICK n \in Records :
              /\ Sound(n) /\ group' = [group EXCEPT ![g] = n]
              /\ n.origin => group[g].origin
              /\ n.kind = "candidate"
                    => n.child = group[g].child \/ ~Collides(group, g, n.child.dest)
        BY <1>6, <3>4, GroupSteps
      <4>2. /\ group' \in [Groups -> Records] /\ AllSound' /\ OneOrigin' /\ Clear
            /\ group'[g] = n /\ \A h \in Groups : h # g => group'[h] = group[h]
        BY <4>1, OneGroup
      <4>3. BootIsFresh'
        BY <3>2, <4>2 DEF Inv, BootIsFresh
      <4> QED
        BY <1>2, <3>1, <3>2, <4>2, <4>3
    <3> QED
      BY <3>3, <3>4
  <2>2. CASE ~Start(g)
    <3>1. UNCHANGED <<db, boot>>
      BY <1>6, <2>2 DEF ChildExits, HandleExit, Retry, RetryRaises, DeferralEnds, Qualified,
                        QualificationFails
    <3>2. CASE UNCHANGED group
      BY <1>1, <1>t, <3>1, <3>2
    <3>3. CASE ~UNCHANGED group
      <4>1. PICK n \in Records :
              /\ Sound(n) /\ group' = [group EXCEPT ![g] = n]
              /\ n.origin => group[g].origin
              /\ n.kind = "candidate"
                    => n.child = group[g].child \/ ~Collides(group, g, n.child.dest)
        BY <1>6, <3>3, GroupSteps
      <4>2. /\ group' \in [Groups -> Records] /\ AllSound' /\ OneOrigin' /\ Clear
            /\ group'[g] = n /\ \A h \in Groups : h # g => group'[h] = group[h]
        BY <4>1, OneGroup
      <4>3. boot[g] = NoConfig
        <5>1. group[g] = Unknown => ~(ChildExits(g) \/ DeferralEnds(g))
          BY DEF Unknown, ChildExits, DeferralEnds
        <5>2. ChildExits(g) \/ DeferralEnds(g) \/ ~Booting
          BY <1>6, <2>2 DEF HandleExit, Retry, RetryRaises, Qualified, QualificationFails
        <5> QED
          BY <5>1, <5>2 DEF Inv, BootIsFresh, Booting
      <4>4. BootIsFresh'
        BY <3>1, <4>2, <4>3 DEF Inv, BootIsFresh
      <4> QED
        BY <1>2, <1>t, <3>1, <4>2, <4>4
    <3> QED
      BY <3>2, <3>3
  <2> QED
    BY <2>1, <2>2
<1>7. CASE UNCHANGED vars \/ \E g \in Groups : KilledChildEnds(g)
  BY <1>1, <1>t, <1>7 DEF vars, KilledChildEnds
<1> QED
  BY <1>3, <1>4, <1>5, <1>6, <1>7 DEF Next

(***************************************************************************)
(* A manager that starts knows nothing of its groups.                      *)
(***************************************************************************)
LEMMA InitInv == Init => Inv
<1> SUFFICES ASSUME Init PROVE Inv
  OBVIOUS
<1>1. ASSUME NEW g \in Groups
      PROVE  /\ lkg[g] \in Persistent \cup {NoLkg}
             /\ lkg[g] # NoLkg => /\ lkg[g].script.quality = "good"
                                  /\ \/ lkg[g] = Complete(lkg[g].script)
                                     \/ lkg[g] \in Legacy(lkg[g].script)
  <2> SUFFICES ASSUME lkg[g] # NoLkg PROVE  /\ lkg[g] \in Persistent
                                               /\ lkg[g].script.quality = "good"
                                               /\ \/ lkg[g] = Complete(lkg[g].script)
                                                  \/ lkg[g] \in Legacy(lkg[g].script)
    OBVIOUS
  <2>1. Enabled(g) /\ lkg[g] \in {Complete(db[g])} \cup Legacy(db[g])
    BY DEF Init, OnDisk
  <2>2. db[g] \in Config /\ db[g].quality = "good"
    BY <2>1, Values DEF Init, Enabled
  <2>3. lkg[g] \in Persistent /\ lkg[g].script = db[g]
    BY <2>1, <2>2, LkgForms
  <2> QED
    BY <2>1, <2>2, <2>3
<1>2. LkgIsProven
  BY <1>1 DEF LkgIsProven
<1>3. TypeInv /\ AllSound /\ BootIsFresh /\ OneOrigin
  <2>1. lkg \in [Groups -> Persistent \cup {NoLkg}]
    BY <1>1 DEF Init
  <2>2. TypeInv
    BY <2>1, UnknownSound DEF Init, TypeInv, Configs
  <2> QED
    BY <2>2, UnknownSound DEF Init, AllSound, BootIsFresh, OneOrigin
<1> QED
  BY <1>1, <1>2, <1>3 DEF Inv

(***************************************************************************)
(* No retry, no start() and no "new group" launch finds a child that was   *)
(* not killed.                                                             *)
(***************************************************************************)
THEOREM NeverLaunchedTwice == Spec => []NoDoubleLaunch
<1>1. Inv => NoDoubleLaunch
  BY DEF Inv, AllSound, Sound, BootIsFresh, Unknown, NoDoubleLaunch
<1> QED
  BY <1>1, InitInv, NextInv, PTL DEF Spec

(***************************************************************************)
(* The manager's belief of what runs is true after every launch, fallback, *)
(* rollback, promotion and exit of a child whose metadata were complete; of*)
(* any other it is incomplete, and wrong only in a rollback that cannot    *)
(* qualify.                                                                *)
(***************************************************************************)
THEOREM BeliefIsTrue == Spec => []RunningIsWhatRuns
<1>1. Inv => RunningIsWhatRuns
  BY DEF Inv, AllSound, Sound, RunningIsWhatRuns
<1> QED
  BY <1>1, InitInv, NextInv, PTL DEF Spec

(***************************************************************************)
(* At most one replacement is in flight, and it is on probation.           *)
(***************************************************************************)
THEOREM ReplacementsTakeTurns == Spec => []OneReplacement
<1>1. Inv => OneReplacement
  <2> SUFFICES ASSUME Inv PROVE OneReplacement
    OBVIOUS
  <2> DEFINE open == {g \in Groups : group[g].origin}
  <2>1. \A g \in open : group[g].kind \in Probation /\ group[g].child # NoConfig
    BY DEF Inv, AllSound, Sound
  <2>2. Cardinality(open) <= 1
    <3>1. CASE open = {}
      BY <3>1, FS_EmptySet
    <3>2. CASE open # {}
      <4>1. PICK g \in open : TRUE
        BY <3>2
      <4>2. open = {g}
        BY <4>1 DEF Inv, OneOrigin
      <4>3. Cardinality({g}) = 1
        BY FS_Singleton
      <4> QED
        BY <4>2, <4>3
    <3> QED
      BY <3>1, <3>2
  <2> QED
    BY <2>1, <2>2 DEF OneReplacement
<1> QED
  BY <1>1, InitInv, NextInv, PTL DEF Spec

(***************************************************************************)
(* What is persisted as last known good was healthy, and the metadata are  *)
(* those of the script.                                                    *)
(***************************************************************************)
THEOREM LkgStaysProven == Spec => []LkgIsProven
<1>1. Inv => LkgIsProven
  BY DEF Inv
<1> QED
  BY <1>1, InitInv, NextInv, PTL DEF Spec

(***************************************************************************)
(* No candidate starts on a destination that another child streams to,     *)
(* unless that child was launched with metadata that do not tell it.       *)
(***************************************************************************)
THEOREM CandidatesStayApart == Spec => CandidateNeverCollides
<1>1. Inv /\ [Next]_vars =>
        [\A g, h \in Groups :
            g # h /\ group'[g].kind = "candidate" /\ group'[g].child # group[g].child
            => \/ group'[h].child = NoConfig \/ group'[h].child.dest # group'[g].child.dest
               \/ group'[h].blind]_vars
  BY NextInv DEF Clear
<1> QED
  BY <1>1, InitInv, NextInv, PTL DEF Spec, CandidateNeverCollides
=============================================================================
