------------------------- MODULE EngineCommandsProofs -------------------------
(***************************************************************************)
(* The order of the engine's commands, proved for every number of          *)
(* producers, every queue depth and batch size and every behaviour of the  *)
(* clock.                                                                  *)
(***************************************************************************)
EXTENDS EngineCommands, FiniteSetTheorems, TLAPS

(***************************************************************************)
(* The flock protects the scan and the write, and a scan misses nothing    *)
(* that stays.                                                             *)
(***************************************************************************)
LockProtects ==
    /\ \A w \in Writers : at[w] \in {"scan", "write"} => lock = w
    /\ \A w \in Writers : at[w] = "scan" => queue \subseteq seen[w]

(***************************************************************************)
(* A writer that is about to publish has its temporary file, room in the   *)
(* queue and a sequence number behind everything queued.                   *)
(***************************************************************************)
WriterReady ==
    \A w \in Writers : at[w] = "write" =>
        /\ w \in temps
        /\ Cardinality(queue) < max_depth
        /\ \A f \in queue : f.sequence < sequence[w]

FiniteFiles == IsFiniteSet(queue) /\ \A w \in Writers : IsFiniteSet(seen[w])

WriterInv == TypeOK /\ FiniteFiles /\ LockProtects /\ WriterReady

(***************************************************************************)
(* Queued commands are published ones, each in one file.                   *)
(***************************************************************************)
FilesAreCommands ==
    /\ \A f \in queue : f.id \in 1 .. published
    /\ \A f, g \in queue : f.id = g.id => f = g

(***************************************************************************)
(* Command n goes before every file in q, except for files passed over     *)
(* because they could not be unlinked.                                     *)
(***************************************************************************)
Before(n, q) == \A f \in q : n < f.id \/ (n # f.id /\ f.id \in stuck)

(***************************************************************************)
(* The rest of a batch goes before what was not listed; what has left the  *)
(* queue went before what is in it.                                        *)
(***************************************************************************)
BatchIsFirst == batch \subseteq queue /\ \A f \in batch : Before(f.id, queue \ batch)

GoneIsFirst ==
    /\ in_hand # 0 => in_hand \in 1 .. published /\ Before(in_hand, queue)
    /\ \A i \in DOMAIN dispatched :
          /\ dispatched[i] \in 1 .. published
          /\ Before(dispatched[i], queue)
          /\ in_hand # 0 => /\ dispatched[i] # in_hand
                            /\ in_hand < dispatched[i] => in_hand \in stuck

OrderInv == /\ FilesAreCommands /\ SequenceIsPublicationOrder
            /\ BatchIsFirst /\ GoneIsFirst /\ DispatchedOnceInOrder

IInv == WriterInv /\ OrderInv
-----------------------------------------------------------------------------
(***************************************************************************)
(* An empty queue directory and no producer satisfy the invariant.         *)
(***************************************************************************)
LEMMA InitIInv == Init => IInv
<1> SUFFICES ASSUME Init PROVE IInv
  OBVIOUS
<1> USE CommandsAssumption
<1>1. TypeOK
  <2>1. /\ clock \in Nat /\ Cardinality({}) <= max_depth
    BY FS_EmptySet DEF Init
  <2>2. dispatched \in Seq(Nat)
    BY DEF Init
  <2> QED BY <2>1, <2>2 DEF Init, TypeOK
<1>2. FiniteFiles /\ LockProtects /\ WriterReady
  BY FS_EmptySet DEF Init, FiniteFiles, LockProtects, WriterReady
<1>3. OrderInv
  BY DEF Init, OrderInv, FilesAreCommands, SequenceIsPublicationOrder, BatchIsFirst,
         GoneIsFirst, DispatchedOnceInOrder
<1> QED BY <1>1, <1>2, <1>3 DEF IInv, WriterInv

(***************************************************************************)
(* While the flock is free nobody scans or writes.                         *)
(***************************************************************************)
LEMMA FreeLock ==
    ASSUME WriterInv, lock = "nobody"
    PROVE  \A w \in Writers : at[w] \notin {"scan", "write"}
BY CommandsAssumption DEF WriterInv, LockProtects

(***************************************************************************)
(* Taking the flock and cleaning stale temporary files (_QueueLock,        *)
(* _clean_stale_temps) disturbs no other producer.                         *)
(***************************************************************************)
LEMMA AcquireKeeps == ASSUME WriterInv, NEW w \in Writers, Acquire(w) PROVE WriterInv'
<1>1. TypeOK /\ FiniteFiles
  BY DEF WriterInv
<1>2. lock = "nobody" /\ \A x \in Writers : at[x] \notin {"scan", "write"}
  BY FreeLock DEF Acquire
<1>3. TypeOK'
  BY <1>1 DEF Acquire, TypeOK, engine_vars
<1>4. FiniteFiles'
  BY <1>1 DEF Acquire, FiniteFiles, TypeOK
<1>5. LockProtects' /\ WriterReady'
  BY <1>1, <1>2 DEF Acquire, LockProtects, WriterReady, TypeOK
<1> QED BY <1>3, <1>4, <1>5 DEF WriterInv

(***************************************************************************)
(* The scan under the flock: the depth it counts is at least the queue's,  *)
(* and the sequence number it allocates is behind every queued file,       *)
(* although the engine unlinks files meanwhile.                            *)
(***************************************************************************)
LEMMA ScanKeeps == ASSUME WriterInv, NEW w \in Writers, Scan(w) PROVE WriterInv'
<1>1. TypeOK /\ FiniteFiles /\ LockProtects /\ WriterReady
  BY DEF WriterInv
<1>2. /\ at[w] = "scan" /\ seen' = [seen EXCEPT ![w] = {}]
      /\ UNCHANGED <<queue, clock, published, engine_vars, faults>>
  BY DEF Scan
<1>3. lock = w /\ \A x \in Writers : x # w => at[x] \notin {"scan", "write"}
  BY <1>1, <1>2 DEF LockProtects
<1>4. PICK committed \in SUBSET seen[w] :
          /\ queue \subseteq committed
          /\ IF QueueFull(committed)
             THEN /\ at' = [at EXCEPT ![w] = "out"]
                  /\ lock' = "nobody"
                  /\ UNCHANGED <<temps, sequence>>
             ELSE /\ at' = [at EXCEPT ![w] = "write"]
                  /\ \E n \in 0 .. MaxSequence :
                        /\ IsNextSequence(n, committed)
                        /\ sequence' = [sequence EXCEPT ![w] = n]
                  /\ temps' = temps \cup {w}
                  /\ UNCHANGED lock
  BY DEF Scan
<1>5. FiniteFiles'
  BY <1>1, <1>2, FS_EmptySet DEF FiniteFiles, TypeOK
<1>6. CASE QueueFull(committed)
  <2>1. at' = [at EXCEPT ![w] = "out"] /\ lock' = "nobody" /\ UNCHANGED <<temps, sequence>>
    BY <1>4, <1>6
  <2>2. TypeOK'
    BY <1>1, <1>2, <2>1 DEF TypeOK, engine_vars
  <2>3. LockProtects' /\ WriterReady'
    BY <1>1, <1>2, <1>3, <2>1 DEF LockProtects, WriterReady, TypeOK
  <2> QED BY <1>5, <2>2, <2>3 DEF WriterInv
<1>7. CASE ~QueueFull(committed)
  <2>1. PICK n \in 0 .. MaxSequence :
            IsNextSequence(n, committed) /\ sequence' = [sequence EXCEPT ![w] = n]
    BY <1>4, <1>7
  <2>2. /\ at' = [at EXCEPT ![w] = "write"] /\ temps' = temps \cup {w} /\ UNCHANGED lock
    BY <1>4, <1>7
  <2>3. n \in Nat
    OBVIOUS
  <2>4. TypeOK'
    BY <1>1, <1>2, <2>1, <2>2, <2>3 DEF TypeOK, engine_vars
  <2>5. Cardinality(queue) < max_depth
    <3>1. IsFiniteSet(committed)
      BY <1>1, <1>4, FS_Subset DEF FiniteFiles
    <3>2. Cardinality(queue) <= Cardinality(committed) /\ Cardinality(committed) \in Nat
      BY <1>4, <3>1, FS_Subset, FS_CardinalityType
    <3>3. Cardinality(queue) \in Nat
      BY <1>1, FS_CardinalityType DEF FiniteFiles
    <3> QED BY <1>7, <3>2, <3>3, CommandsAssumption DEF QueueFull
  <2>6. \A f \in queue : f.sequence < n
    BY <1>1, <1>4, <2>1, <2>3 DEF IsNextSequence, TypeOK, File
  <2>7. LockProtects' /\ WriterReady'
    BY <1>1, <1>2, <1>3, <2>1, <2>2, <2>5, <2>6 DEF LockProtects, WriterReady, TypeOK
  <2> QED BY <1>5, <2>4, <2>7 DEF WriterInv
<1> QED BY <1>6, <1>7

(***************************************************************************)
(* os.rename publishes within the depth limit and releases the flock.      *)
(***************************************************************************)
LEMMA PublishKeeps == ASSUME WriterInv, NEW w \in Writers, Publish(w) PROVE WriterInv'
<1>1. TypeOK /\ FiniteFiles /\ LockProtects /\ WriterReady
  BY DEF WriterInv
<1> DEFINE new == [sequence |-> sequence[w], id |-> published + 1]
<1>2. /\ at[w] = "write" /\ queue' = queue \cup {new} /\ published' = published + 1
      /\ temps' = temps \ {w} /\ at' = [at EXCEPT ![w] = "out"]
      /\ sequence' = [sequence EXCEPT ![w] = 0] /\ lock' = "nobody"
      /\ UNCHANGED <<clock, seen, engine_vars, faults>>
  BY DEF Publish
<1>3. \A x \in Writers : x # w => at[x] \notin {"scan", "write"}
  BY <1>1, <1>2 DEF LockProtects
<1>4. new \in File
  BY <1>1 DEF File, TypeOK
<1> HIDE DEF new
<1>5. IsFiniteSet(queue') /\ Cardinality(queue') <= max_depth
  <2>1. Cardinality(queue) < max_depth /\ Cardinality(queue) \in Nat
    BY <1>1, <1>2, FS_CardinalityType DEF WriterReady, FiniteFiles
  <2>2. IsFiniteSet(queue \cup {new})
    BY <1>1, FS_AddElement DEF FiniteFiles
  <2>3. Cardinality(queue \cup {new}) \in {Cardinality(queue), Cardinality(queue) + 1}
    BY <1>1, FS_AddElement DEF FiniteFiles
  <2> QED BY <1>2, <2>1, <2>2, <2>3, CommandsAssumption
<1>6. TypeOK'
  BY <1>1, <1>2, <1>4, <1>5 DEF TypeOK, engine_vars
<1>7. FiniteFiles' /\ LockProtects' /\ WriterReady'
  BY <1>1, <1>2, <1>3, <1>5 DEF FiniteFiles, LockProtects, WriterReady, TypeOK
<1> QED BY <1>6, <1>7 DEF WriterInv

(***************************************************************************)
(* A failed write, its clean-up after the flock is released, and a         *)
(* producer's death leave the other producers alone.                       *)
(***************************************************************************)
LEMMA FailureKeeps ==
    ASSUME WriterInv, NEW w \in Writers, WriteFails(w) \/ Unwind(w) \/ WriterCrash(w)
    PROVE  WriterInv'
<1>1. TypeOK /\ FiniteFiles /\ LockProtects /\ WriterReady
  BY DEF WriterInv
<1>2. CASE WriteFails(w)
  <2>1. \A x \in Writers : x # w => at[x] \notin {"scan", "write"}
    BY <1>1, <1>2 DEF LockProtects, WriteFails
  <2>2. TypeOK' /\ FiniteFiles'
    BY <1>1, <1>2 DEF WriteFails, TypeOK, engine_vars, FiniteFiles
  <2>3. LockProtects' /\ WriterReady'
    BY <1>1, <1>2, <2>1 DEF WriteFails, LockProtects, WriterReady, TypeOK
  <2> QED BY <2>2, <2>3 DEF WriterInv
<1>3. CASE Unwind(w)
  <2>1. TypeOK' /\ FiniteFiles'
    BY <1>1, <1>3 DEF Unwind, TypeOK, engine_vars, FiniteFiles
  <2>2. LockProtects' /\ WriterReady'
    BY <1>1, <1>3 DEF Unwind, LockProtects, WriterReady, TypeOK
  <2> QED BY <2>1, <2>2 DEF WriterInv
<1>4. CASE WriterCrash(w)
  <2>1. TypeOK' /\ FiniteFiles'
    BY <1>1, <1>4, FS_EmptySet DEF WriterCrash, TypeOK, engine_vars, FiniteFiles
  <2>2. LockProtects' /\ WriterReady'
    BY <1>1, <1>4 DEF WriterCrash, LockProtects, WriterReady, TypeOK
  <2> QED BY <2>1, <2>2 DEF WriterInv
<1> QED BY <1>2, <1>3, <1>4

(***************************************************************************)
(* Taking files away keeps the queue finite and within its depth.          *)
(***************************************************************************)
LEMMA ShrinkDepth ==
    ASSUME WriterInv, queue' \subseteq queue
    PROVE  /\ IsFiniteSet(queue') /\ Cardinality(queue') <= max_depth
           /\ Cardinality(queue) < max_depth => Cardinality(queue') < max_depth
<1>1. /\ IsFiniteSet(queue') /\ Cardinality(queue') <= Cardinality(queue)
      /\ Cardinality(queue') \in Nat /\ Cardinality(queue) \in Nat
  BY FS_Subset, FS_CardinalityType DEF WriterInv, FiniteFiles
<1>2. Cardinality(queue) <= max_depth /\ max_depth \in Nat
  BY CommandsAssumption DEF WriterInv, TypeOK
<1> QED BY <1>1, <1>2

(***************************************************************************)
(* The engine only takes files away, which no producer minds: consumption  *)
(* needs no flock.                                                         *)
(***************************************************************************)
LEMMA ShrinkKeeps ==
    ASSUME WriterInv, TypeOK', queue' \subseteq queue, UNCHANGED <<writer_vars, temps>>
    PROVE  WriterInv'
<1>1. TypeOK /\ FiniteFiles /\ LockProtects /\ WriterReady
  BY DEF WriterInv
<1>2. FiniteFiles' /\ LockProtects' /\ WriterReady'
  BY <1>1, ShrinkDepth DEF FiniteFiles, LockProtects, WriterReady, writer_vars
<1> QED BY <1>2 DEF WriterInv

(***************************************************************************)
(* Every step keeps the producers' half of the invariant.                  *)
(***************************************************************************)
LEMMA NextWriterInv == ASSUME IInv, [Next]_vars PROVE WriterInv'
<1>1. WriterInv /\ TypeOK /\ batch \subseteq queue
  BY DEF IInv, WriterInv, OrderInv, BatchIsFirst
<1>2. CASE ClockStep
  <2>1. TypeOK'
    BY <1>1, <1>2, CommandsAssumption DEF ClockStep, TypeOK, engine_vars
  <2> QED BY <1>1, <1>2, <2>1
      DEF ClockStep, WriterInv, FiniteFiles, LockProtects, WriterReady
<1>3. CASE \E w \in Writers : Acquire(w) \/ Enqueue(w) \/ WriterCrash(w)
  BY <1>1, <1>3, AcquireKeeps, ScanKeeps, PublishKeeps, FailureKeeps DEF Enqueue
<1>4. CASE ListCommands
  <2>1. \A w \in Writers : at[w] \notin {"scan", "write"}
    BY <1>1, <1>4, FreeLock DEF ListCommands, LockIsFree
  <2>2. TypeOK'
    BY <1>1, <1>4 DEF ListCommands, TypeOK, writer_vars
  <2> QED BY <1>1, <1>4, <2>1, <2>2
      DEF ListCommands, WriterInv, FiniteFiles, LockProtects, WriterReady, writer_vars
<1>5. CASE \E f \in batch : Consume(f) \/ ReadFails(f) \/ UnlinkFails(f)
  <2>1. PICK f \in batch : Consume(f) \/ ReadFails(f) \/ UnlinkFails(f)
    BY <1>5
  <2>2. queue' \subseteq queue /\ UNCHANGED <<writer_vars, temps>>
    BY <2>1 DEF Consume, ReadFails, UnlinkFails
  <2>3. f \in File /\ f.id \in Nat
    BY <1>1, <2>1 DEF TypeOK, File
  <2>4. TypeOK'
    <3>1. Cardinality(queue') <= max_depth /\ queue' \subseteq File
      BY <1>1, <2>2, ShrinkDepth DEF TypeOK
    <3>2. CASE Consume(f)
      BY <1>1, <2>3, <3>1, <3>2 DEF Consume, TypeOK, writer_vars
    <3>3. CASE ReadFails(f)
      BY <1>1, <2>3, <3>1, <3>3 DEF ReadFails, TypeOK, writer_vars
    <3>4. CASE UnlinkFails(f)
      <4>0. /\ stuck' = stuck \cup {f.id} /\ faults' = faults + 1 /\ batch' = batch \ {f}
            /\ stuck \subseteq Nat /\ faults \in Nat /\ batch \subseteq File
        BY <1>1, <3>4 DEF UnlinkFails, TypeOK
      <4>1. stuck' \subseteq Nat
        <5>1. f.id \in Nat
          BY <2>3
        <5> QED BY <4>0, <5>1
      <4>3. faults' \in Nat /\ batch' \subseteq File
        BY <4>0
      <4>2. UNCHANGED <<queue, temps, writer_vars, in_hand, dispatched, losses>>
        BY <3>4 DEF UnlinkFails
      <4> QED BY <1>1, <3>1, <4>1, <4>2, <4>3 DEF TypeOK, writer_vars
    <3> QED BY <2>1, <3>2, <3>3, <3>4
  <2> QED BY <1>1, <2>2, <2>4, ShrinkKeeps
<1>6. CASE Dispatch
  <2>1. TypeOK'
    BY <1>1, <1>6 DEF Dispatch, TypeOK, writer_vars
  <2> QED BY <1>1, <1>6, <2>1, ShrinkKeeps DEF Dispatch
<1>7. CASE EngineCrash
  <2>1. TypeOK'
    BY <1>1, <1>7 DEF EngineCrash, TypeOK, writer_vars
  <2> QED BY <1>1, <1>7, <2>1, ShrinkKeeps DEF EngineCrash
<1>8. CASE UNCHANGED vars
  <2>1. TypeOK'
    BY <1>1, <1>8 DEF vars, TypeOK, writer_vars, engine_vars
  <2> QED BY <1>1, <1>8, <2>1, ShrinkKeeps DEF vars
<1> QED BY <1>2, <1>3, <1>4, <1>5, <1>6, <1>7, <1>8 DEF Next
-----------------------------------------------------------------------------
(***************************************************************************)
(* A newly published command goes after everything before it, in number and*)
(* in sequence.                                                            *)
(***************************************************************************)
LEMMA PublishKeepsOrder == ASSUME IInv, NEW w \in Writers, Publish(w) PROVE OrderInv'
<1> DEFINE new == [sequence |-> sequence[w], id |-> published + 1]
<1>1. /\ TypeOK /\ WriterReady /\ FilesAreCommands /\ SequenceIsPublicationOrder
      /\ BatchIsFirst /\ GoneIsFirst /\ DispatchedOnceInOrder
  BY DEF IInv, WriterInv, OrderInv
<1>2. /\ at[w] = "write" /\ queue' = queue \cup {new} /\ published' = published + 1
      /\ UNCHANGED <<batch, in_hand, dispatched, stuck>>
  BY DEF Publish, engine_vars
<1>3. /\ published \in Nat /\ new.id = published + 1 /\ new.sequence = sequence[w]
      /\ \A f \in queue : f.id \in Nat /\ f.id <= published /\ f.sequence < new.sequence
      /\ \A f \in queue : f.sequence \in Nat
      /\ new.sequence \in Nat
  BY <1>1, <1>2 DEF TypeOK, WriterReady, FilesAreCommands, File
<1> HIDE DEF new
<1>4. FilesAreCommands'
  BY <1>1, <1>2, <1>3 DEF FilesAreCommands
<1>5. SequenceIsPublicationOrder'
  BY <1>1, <1>2, <1>3 DEF SequenceIsPublicationOrder
<1>7. BatchIsFirst'
  <2>1. batch \subseteq queue /\ new \notin queue
    BY <1>1, <1>3 DEF BatchIsFirst
  <2>2. queue' \ batch' = (queue \ batch) \cup {new}
    BY <1>2, <2>1
  <2>3. ASSUME NEW f \in batch PROVE Before(f.id, queue \ batch)'
    <3>1. f.id \in 1 .. published /\ Before(f.id, queue \ batch)
      BY <1>1, <2>1 DEF BatchIsFirst, FilesAreCommands
    <3> QED BY <1>2, <1>3, <2>2, <3>1 DEF Before
  <2> QED BY <1>2, <2>1, <2>3 DEF BatchIsFirst
<1>8. GoneIsFirst'
  BY <1>1, <1>2, <1>3 DEF GoneIsFirst, Before
<1>9. DispatchedOnceInOrder'
  BY <1>1, <1>2 DEF DispatchedOnceInOrder
<1> QED BY <1>4, <1>5, <1>7, <1>8, <1>9 DEF OrderInv

(***************************************************************************)
(* A listed batch is a prefix of the queue, whatever the limit.            *)
(***************************************************************************)
LEMMA ListKeepsOrder == ASSUME IInv, ListCommands PROVE OrderInv'
<1>1. /\ TypeOK /\ FiniteFiles /\ FilesAreCommands /\ SequenceIsPublicationOrder
      /\ GoneIsFirst /\ DispatchedOnceInOrder
  BY DEF IInv, WriterInv, OrderInv
<1> DEFINE Older(f) == {g \in queue : g.sequence < f.sequence}
<1>2. /\ batch' = {f \in queue : Cardinality(Older(f)) < limit}
      /\ UNCHANGED <<queue, in_hand, dispatched, stuck, published>>
  BY DEF ListCommands, writer_vars
<1>3. ASSUME NEW f \in batch', NEW g \in queue' \ batch'
      PROVE  f.id < g.id
  <2>1. f \in queue /\ g \in queue /\ g \notin batch' /\ f # g
    BY <1>2, <1>3
  <2>2. f.id \in Nat /\ g.id \in Nat /\ f.sequence \in Nat /\ g.sequence \in Nat
    BY <1>1, <2>1 DEF TypeOK, File
  <2>3. ASSUME g.id < f.id PROVE FALSE
    <3>1. g.sequence < f.sequence
      BY <1>1, <2>1, <2>3 DEF SequenceIsPublicationOrder
    <3>2. Older(g) \subseteq Older(f)
      <4>1. \A h \in queue : h.sequence \in Nat
        BY <1>1 DEF TypeOK, File
      <4> QED BY <2>2, <3>1, <4>1
    <3>3. IsFiniteSet(Older(f))
      BY <1>1, FS_Subset DEF FiniteFiles
    <3>4. Cardinality(Older(g)) <= Cardinality(Older(f)) /\ IsFiniteSet(Older(g))
      BY <3>2, <3>3, FS_Subset
    <3>5. Cardinality(Older(g)) \in Nat /\ Cardinality(Older(f)) \in Nat
      BY <3>3, <3>4, FS_CardinalityType
    <3> HIDE DEF Older
    <3>6. Cardinality(Older(f)) < limit /\ ~(Cardinality(Older(g)) < limit)
      BY <1>2, <2>1
    <3> QED BY <3>4, <3>5, <3>6, CommandsAssumption
  <2>4. g.id # f.id
    BY <1>1, <2>1 DEF FilesAreCommands
  <2> QED BY <2>2, <2>3, <2>4
<1>4. BatchIsFirst'
  BY <1>2, <1>3 DEF BatchIsFirst, Before
<1>5. FilesAreCommands' /\ SequenceIsPublicationOrder' /\ GoneIsFirst' /\ DispatchedOnceInOrder'
  BY <1>1, <1>2 DEF FilesAreCommands, SequenceIsPublicationOrder, GoneIsFirst, Before,
                    DispatchedOnceInOrder
<1> QED BY <1>4, <1>5 DEF OrderInv

(***************************************************************************)
(* The command whose turn it is goes before everything else that is queued.*)
(***************************************************************************)
LEMMA TurnIsFirst ==
    ASSUME IInv, NEW f \in batch, NextOfBatch(f), NEW g \in queue, g # f
    PROVE  f.id < g.id \/ (f.id # g.id /\ g.id \in stuck)
<1>1. /\ FilesAreCommands /\ SequenceIsPublicationOrder /\ BatchIsFirst /\ f \in queue
      /\ \A h \in queue : h.id \in Nat /\ h.sequence \in Nat
  BY DEF IInv, WriterInv, OrderInv, BatchIsFirst, TypeOK, File
<1>2. CASE g \in batch
  <2>1. f.sequence <= g.sequence
    BY <1>2 DEF NextOfBatch
  <2>2. ~(g.id < f.id)
    BY <1>1, <2>1 DEF SequenceIsPublicationOrder
  <2>3. g.id # f.id
    BY <1>1 DEF FilesAreCommands
  <2> QED BY <1>1, <2>2, <2>3
<1>3. CASE g \notin batch
  BY <1>1, <1>3 DEF BatchIsFirst, Before
<1> QED BY <1>2, <1>3

(***************************************************************************)
(* consume_engine_command_file on the first file of the batch: whatever    *)
(* becomes of it, everything still queued comes later or was passed over.  *)
(***************************************************************************)
LEMMA ConsumeKeepsOrder ==
    ASSUME IInv, NEW f \in batch, Consume(f) \/ ReadFails(f) \/ UnlinkFails(f)
    PROVE  OrderInv'
<1>1. /\ TypeOK /\ FilesAreCommands /\ SequenceIsPublicationOrder
      /\ BatchIsFirst /\ GoneIsFirst /\ DispatchedOnceInOrder
  BY DEF IInv, WriterInv, OrderInv
<1>2. /\ in_hand = 0 /\ NextOfBatch(f) /\ batch' = batch \ {f} /\ queue' \subseteq queue
      /\ stuck \subseteq stuck' /\ UNCHANGED <<published, dispatched>>
      /\ f \notin queue' \/ f.id \in stuck'
  BY DEF Consume, ReadFails, UnlinkFails, writer_vars
<1>3. /\ f \in queue /\ batch \subseteq queue /\ f.id \in 1 .. published
      /\ \A g \in queue : g.id \in Nat /\ g.sequence \in Nat
  BY <1>1 DEF BatchIsFirst, FilesAreCommands, TypeOK, File
<1>4. \A g \in queue : g # f => f.id < g.id \/ (f.id # g.id /\ g.id \in stuck)
  BY <1>2, TurnIsFirst
<1>5. FilesAreCommands' /\ SequenceIsPublicationOrder'
  BY <1>1, <1>2 DEF FilesAreCommands, SequenceIsPublicationOrder
<1>6. BatchIsFirst'
  <2>1. batch' \subseteq queue'
    BY <1>2, <1>3 DEF Consume, ReadFails, UnlinkFails
  <2>2. ASSUME NEW g \in batch', NEW h \in queue' \ batch'
        PROVE  g.id < h.id \/ (g.id # h.id /\ h.id \in stuck')
    <3>1. g \in batch /\ g \in queue /\ h \in queue /\ g # h
      BY <1>2, <1>3, <2>2
    <3>2. CASE h = f
      <4>1. h.id \in stuck'
        BY <1>2, <3>2
      <4>2. g.id # h.id
        BY <1>1, <3>1 DEF FilesAreCommands
      <4> QED BY <4>1, <4>2
    <3>3. CASE h # f
      <4>1. h \in queue \ batch
        BY <1>2, <3>1, <3>3
      <4> QED BY <1>1, <1>2, <3>1, <4>1 DEF BatchIsFirst, Before
    <3> QED BY <3>2, <3>3
  <2> QED BY <2>1, <2>2 DEF BatchIsFirst, Before
<1>7. GoneIsFirst'
  <2>1. in_hand' \in {0, f.id} /\ (in_hand' # 0 => Consume(f))
    BY <1>2 DEF Consume, ReadFails, UnlinkFails
  <2>2. in_hand' # 0 => in_hand' = f.id /\ queue' = queue \ {f}
    BY <2>1 DEF Consume
  <2>3. in_hand' # 0 => in_hand' \in 1 .. published' /\ Before(in_hand, queue)'
    BY <1>2, <1>3, <1>4, <2>2 DEF Before
  <2>4. ASSUME NEW i \in DOMAIN dispatched
        PROVE  /\ dispatched[i] \in 1 .. published
               /\ \A g \in queue' : dispatched[i] < g.id \/ (dispatched[i] # g.id /\ g.id \in stuck')
               /\ in_hand' # 0 => /\ dispatched[i] # in_hand'
                                  /\ in_hand' < dispatched[i] => in_hand' \in stuck'
    <3>1. dispatched[i] \in 1 .. published /\ Before(dispatched[i], queue)
      BY <1>1 DEF GoneIsFirst
    <3>2. dispatched[i] < f.id \/ (dispatched[i] # f.id /\ f.id \in stuck)
      BY <1>3, <3>1 DEF Before
    <3>3. in_hand' # 0 => /\ dispatched[i] # in_hand'
                          /\ in_hand' < dispatched[i] => in_hand' \in stuck'
      BY <1>2, <1>3, <2>2, <3>1, <3>2
    <3> QED BY <1>2, <3>1, <3>3 DEF Before
  <2> QED BY <1>2, <2>3, <2>4 DEF GoneIsFirst, Before
<1>8. DispatchedOnceInOrder'
  BY <1>1, <1>2 DEF DispatchedOnceInOrder
<1> QED BY <1>5, <1>6, <1>7, <1>8 DEF OrderInv

(***************************************************************************)
(* The command in hand is dispatched after everything that went before it. *)
(***************************************************************************)
LEMMA DispatchKeepsOrder == ASSUME IInv, Dispatch PROVE OrderInv'
<1>1. /\ TypeOK /\ FilesAreCommands /\ SequenceIsPublicationOrder
      /\ BatchIsFirst /\ GoneIsFirst /\ DispatchedOnceInOrder
  BY DEF IInv, WriterInv, OrderInv
<1>2. /\ in_hand # 0 /\ dispatched' = Append(dispatched, in_hand) /\ in_hand' = 0
      /\ UNCHANGED <<queue, batch, stuck, published>>
  BY DEF Dispatch, writer_vars
<1>3. dispatched \in Seq(Nat) /\ in_hand \in Nat
  BY <1>1 DEF TypeOK
<1>4. /\ DOMAIN dispatched = 1 .. Len(dispatched) /\ Len(dispatched) \in Nat
      /\ DOMAIN dispatched' = 1 .. (Len(dispatched) + 1)
      /\ \A i \in 1 .. Len(dispatched) : dispatched'[i] = dispatched[i]
      /\ dispatched'[Len(dispatched) + 1] = in_hand
  BY <1>2, <1>3
<1>5. FilesAreCommands' /\ SequenceIsPublicationOrder' /\ BatchIsFirst'
  BY <1>1, <1>2 DEF FilesAreCommands, SequenceIsPublicationOrder, BatchIsFirst, Before
<1>6. GoneIsFirst'
  <2>1. ASSUME NEW i \in DOMAIN dispatched'
        PROVE  dispatched'[i] \in 1 .. published /\ Before(dispatched'[i], queue)
    <3>1. CASE i \in 1 .. Len(dispatched)
      BY <1>1, <1>4, <3>1 DEF GoneIsFirst
    <3>2. CASE i = Len(dispatched) + 1
      BY <1>1, <1>2, <1>4, <3>2 DEF GoneIsFirst
    <3> QED BY <1>4, <3>1, <3>2
  <2> QED BY <1>2, <2>1 DEF GoneIsFirst, Before
<1>7. DispatchedOnceInOrder'
  <2>1. ASSUME NEW i \in DOMAIN dispatched', NEW j \in DOMAIN dispatched', i < j
        PROVE  /\ dispatched'[i] # dispatched'[j]
               /\ dispatched'[j] < dispatched'[i] => dispatched'[j] \in stuck
    <3>1. i \in 1 .. Len(dispatched)
      BY <1>4, <2>1
    <3>2. CASE j \in 1 .. Len(dispatched)
      BY <1>1, <1>4, <2>1, <3>1, <3>2 DEF DispatchedOnceInOrder
    <3>3. CASE j = Len(dispatched) + 1
      BY <1>1, <1>2, <1>4, <3>1, <3>3 DEF GoneIsFirst
    <3> QED BY <1>4, <3>2, <3>3
  <2> QED BY <1>2, <2>1 DEF DispatchedOnceInOrder
<1> QED BY <1>5, <1>6, <1>7 DEF OrderInv

(***************************************************************************)
(* Every step of producers and engine keeps the invariant.                 *)
(***************************************************************************)
LEMMA NextIInv == IInv /\ [Next]_vars => IInv'
<1> SUFFICES ASSUME IInv, [Next]_vars PROVE IInv'
  OBVIOUS
<1>1. WriterInv'
  BY NextWriterInv
<1>2. ASSUME UNCHANGED <<queue, published, batch, in_hand, dispatched, stuck>> PROVE OrderInv'
  BY <1>2 DEF IInv, OrderInv, FilesAreCommands, SequenceIsPublicationOrder, BatchIsFirst,
              GoneIsFirst, Before, DispatchedOnceInOrder
<1>3. ASSUME ClockStep \/ UNCHANGED vars PROVE OrderInv'
  BY <1>2, <1>3 DEF ClockStep, vars, engine_vars, writer_vars
<1>4. ASSUME NEW w \in Writers, Acquire(w) \/ Enqueue(w) \/ WriterCrash(w) PROVE OrderInv'
  <2>1. CASE Publish(w)
    BY <2>1, PublishKeepsOrder
  <2>2. CASE Acquire(w) \/ Scan(w) \/ WriteFails(w) \/ Unwind(w) \/ WriterCrash(w)
    BY <1>2, <2>2 DEF Acquire, Scan, WriteFails, Unwind, WriterCrash, engine_vars
  <2> QED BY <1>4, <2>1, <2>2 DEF Enqueue
<1>5. ASSUME ListCommands PROVE OrderInv'
  BY <1>5, ListKeepsOrder
<1>6. ASSUME NEW f \in batch, Consume(f) \/ ReadFails(f) \/ UnlinkFails(f) PROVE OrderInv'
  BY <1>6, ConsumeKeepsOrder
<1>7. ASSUME Dispatch PROVE OrderInv'
  BY <1>7, DispatchKeepsOrder
<1>8. ASSUME EngineCrash PROVE OrderInv'
  BY <1>8 DEF EngineCrash, writer_vars, IInv, OrderInv, FilesAreCommands,
              SequenceIsPublicationOrder, BatchIsFirst, GoneIsFirst, Before,
              DispatchedOnceInOrder
<1>9. OrderInv'
  BY <1>3, <1>4, <1>5, <1>6, <1>7, <1>8 DEF Next
<1> QED BY <1>1, <1>9 DEF IInv

(***************************************************************************)
(* For every number of producers, queue depth, batch size and clock: the   *)
(* depth limit holds, a live producer's temporary file is never cleaned    *)
(* away, queue order is publication order, and the engine dispatches every *)
(* command at most once and in that order.                                 *)
(***************************************************************************)
THEOREM CommandOrder ==
    Spec => [](TypeOK /\ SequenceIsPublicationOrder /\ LiveTempSurvives
                      /\ DispatchedOnceInOrder)
<1>1. IInv => /\ TypeOK /\ SequenceIsPublicationOrder /\ LiveTempSurvives
              /\ DispatchedOnceInOrder
  BY DEF IInv, WriterInv, OrderInv, LockProtects, WriterReady, LiveTempSurvives
<1> QED BY InitIInv, NextIInv, <1>1, PTL DEF Spec

(***************************************************************************)
(* The cleanup of stale temporary files never removes one a live producer  *)
(* is about to publish, for every number of producers and crashes.         *)
(***************************************************************************)
THEOREM LiveTempsSurvive == Spec => []LiveTempSurvives
BY CommandOrder, PTL
-----------------------------------------------------------------------------
(***************************************************************************)
(* The commands that were published and are nowhere any more.              *)
(***************************************************************************)
Dispatched == {dispatched[i] : i \in DOMAIN dispatched}
Missing == (1 .. published) \ (Ids(queue) \cup {in_hand} \cup Dispatched)

(***************************************************************************)
(* A step loses no command, or one that is counted.                        *)
(***************************************************************************)
LEMMA StepLosesOne ==
    ASSUME TypeOK, [Next]_vars
    PROVE  \/ Missing' \subseteq Missing /\ losses' = losses
           \/ losses' = losses + 1 /\ \E n \in Nat : Missing' \subseteq Missing \cup {n}
<1>t. /\ queue \subseteq File /\ batch \subseteq File /\ published \in Nat /\ in_hand \in Nat
      /\ dispatched \in Seq(Nat)
  BY DEF TypeOK
<1>1. CASE UNCHANGED <<queue, published, in_hand, dispatched, losses>>
  BY <1>1 DEF Missing, Ids, Dispatched
<1>2. CASE \E w \in Writers : Publish(w)
  <2>1. PICK w \in Writers : Publish(w)
    BY <1>2
  <2> DEFINE new == [sequence |-> sequence[w], id |-> published + 1]
  <2>2. /\ queue' = queue \cup {new} /\ published' = published + 1
        /\ UNCHANGED <<in_hand, dispatched, losses>>
    BY <2>1 DEF Publish, engine_vars
  <2>3. new.id = published + 1
    OBVIOUS
  <2> HIDE DEF new
  <2>4. Ids(queue)' = Ids(queue) \cup {published + 1}
    BY <2>2, <2>3 DEF Ids
  <2>5. 1 .. (published + 1) = (1 .. published) \cup {published + 1}
    BY <1>t
  <2>6. Dispatched' = Dispatched
    BY <2>2 DEF Dispatched
  <2> QED
    BY <2>2, <2>4, <2>5, <2>6 DEF Missing
<1>3. CASE \E f \in batch : Consume(f)
  <2>1. PICK f \in batch : Consume(f)
    BY <1>3
  <2>2. /\ in_hand = 0 /\ queue' = queue \ {f} /\ in_hand' = f.id
        /\ UNCHANGED <<published, dispatched, losses>>
    BY <2>1 DEF Consume, writer_vars
  <2>3. Ids(queue) \subseteq Ids(queue)' \cup {f.id}
    BY <2>2 DEF Ids
  <2>4. Dispatched' = Dispatched
    BY <2>2 DEF Dispatched
  <2>5. 0 \notin 1 .. published
    BY <1>t
  <2>6. \A n \in Missing' : /\ n \in 1 .. published /\ n # f.id
                             /\ n \notin Ids(queue)' /\ n \notin Dispatched
    BY <2>2, <2>4 DEF Missing
  <2>7. Missing' \subseteq Missing
    BY <2>2, <2>3, <2>5, <2>6 DEF Missing
  <2> QED
    BY <2>2, <2>7
<1>4. CASE \E f \in batch : ReadFails(f)
  <2>1. PICK f \in batch : ReadFails(f)
    BY <1>4
  <2>2. /\ queue' = queue \ {f} /\ losses' = losses + 1
        /\ UNCHANGED <<published, dispatched, in_hand>>
    BY <2>1 DEF ReadFails, writer_vars
  <2>3. Ids(queue) \subseteq Ids(queue)' \cup {f.id}
    BY <2>2 DEF Ids
  <2>4. Dispatched' = Dispatched
    BY <2>2 DEF Dispatched
  <2>5. f.id \in Nat
    BY <1>t, <2>1 DEF File
  <2>6. Missing' \subseteq Missing \cup {f.id}
    BY <2>2, <2>3, <2>4 DEF Missing
  <2> QED
    BY <2>2, <2>5, <2>6
<1>5. CASE Dispatch
  <2>1. /\ dispatched' = Append(dispatched, in_hand) /\ in_hand' = 0
        /\ UNCHANGED <<queue, published, losses>>
    BY <1>5 DEF Dispatch, writer_vars
  <2>2. Dispatched' = Dispatched \cup {in_hand}
    <3>1. DOMAIN dispatched' = 1 .. (Len(dispatched) + 1) /\ DOMAIN dispatched = 1 .. Len(dispatched)
          /\ Len(dispatched) \in Nat
      BY <1>t, <2>1
    <3>2. \A i \in DOMAIN dispatched : dispatched'[i] = dispatched[i]
      BY <1>t, <2>1
    <3>3. dispatched'[Len(dispatched) + 1] = in_hand
      BY <1>t, <2>1
    <3> QED
      BY <3>1, <3>2, <3>3 DEF Dispatched
  <2>3. Ids(queue)' = Ids(queue)
    BY <2>1 DEF Ids
  <2> QED
    BY <2>1, <2>2, <2>3 DEF Missing
<1>6. CASE EngineCrash
  <2>1. /\ in_hand' = 0 /\ losses' = losses + 1 /\ UNCHANGED <<queue, published, dispatched>>
    BY <1>6 DEF EngineCrash, writer_vars
  <2>2. Ids(queue)' = Ids(queue) /\ Dispatched' = Dispatched
    BY <2>1 DEF Ids, Dispatched
  <2>3. Missing' \subseteq Missing \cup {in_hand}
    BY <2>1, <2>2 DEF Missing
  <2> QED
    BY <1>t, <2>1, <2>3
<1> QED
  BY <1>1, <1>2, <1>3, <1>4, <1>5, <1>6
     DEF Next, vars, engine_vars, writer_vars, ClockStep, Acquire, Enqueue, Scan, WriteFails,
         Unwind, WriterCrash, ListCommands, UnlinkFails

(***************************************************************************)
(* No published command vanishes, but for one per engine crash or failed   *)
(* read, for every number of producers, depth and batch size.              *)
(***************************************************************************)
THEOREM LossesStayBounded == Spec => []LossesAreBounded
<1> DEFINE Bounded == IsFiniteSet(Missing) /\ Cardinality(Missing) <= losses
<1>1. Init => Bounded
  <2> SUFFICES ASSUME Init PROVE Bounded
    OBVIOUS
  <2>1. Missing = {} /\ losses = 0
    BY DEF Init, Missing
  <2> QED
    BY <2>1, FS_EmptySet
<1>2. TypeOK /\ Bounded /\ [Next]_vars => Bounded'
  <2> SUFFICES ASSUME TypeOK, IsFiniteSet(Missing), Cardinality(Missing) <= losses, [Next]_vars
               PROVE  IsFiniteSet(Missing') /\ Cardinality(Missing') <= losses'
    OBVIOUS
  <2>0. losses \in Nat /\ Cardinality(Missing) \in Nat
    BY FS_CardinalityType DEF TypeOK
  <2>1. CASE Missing' \subseteq Missing /\ losses' = losses
    <3>1. IsFiniteSet(Missing') /\ Cardinality(Missing') <= Cardinality(Missing)
      BY <2>1, FS_Subset
    <3>2. Cardinality(Missing') \in Nat
      BY <3>1, FS_CardinalityType
    <3> QED
      BY <2>0, <2>1, <3>1, <3>2
  <2>2. ASSUME losses' = losses + 1, NEW n \in Nat, Missing' \subseteq Missing \cup {n}
        PROVE  IsFiniteSet(Missing') /\ Cardinality(Missing') <= losses'
    <3>1. /\ IsFiniteSet(Missing \cup {n})
          /\ Cardinality(Missing \cup {n}) \in {Cardinality(Missing), Cardinality(Missing) + 1}
      BY FS_AddElement
    <3>2. /\ IsFiniteSet(Missing')
          /\ Cardinality(Missing') <= Cardinality(Missing \cup {n})
      BY <2>2, <3>1, FS_Subset
    <3>3. Cardinality(Missing') \in Nat
      BY <3>2, FS_CardinalityType
    <3> QED
      BY <2>0, <2>2, <3>1, <3>2, <3>3
  <2> QED
    BY <2>1, <2>2, StepLosesOne
<1>3. Bounded => LossesAreBounded
  BY DEF Missing, Dispatched, LossesAreBounded
<1>4. Spec => []TypeOK
  BY CommandOrder, PTL
<1> QED
  BY <1>1, <1>2, <1>3, <1>4, PTL DEF Spec
-----------------------------------------------------------------------------
(***************************************************************************)
(* Only a published command can have been passed over, so a new one is not.*)
(***************************************************************************)
StuckArePublished == stuck \subseteq 1 .. published

(***************************************************************************)
(* A command is passed over when its file, which is in the queue, cannot be*)
(* unlinked.                                                               *)
(***************************************************************************)
LEMMA StuckStayPublished == IInv /\ StuckArePublished /\ [Next]_vars => StuckArePublished'
<1> SUFFICES ASSUME IInv, StuckArePublished, [Next]_vars PROVE StuckArePublished'
  OBVIOUS
<1>1. published \in Nat /\ \A f \in batch : f.id \in 1 .. published
  BY DEF IInv, WriterInv, OrderInv, TypeOK, BatchIsFirst, FilesAreCommands
<1>2. CASE UNCHANGED <<stuck, published>>
  BY <1>2 DEF StuckArePublished
<1>3. CASE published' = published + 1 /\ stuck' = stuck
  BY <1>1, <1>3 DEF StuckArePublished
<1>4. CASE \E f \in batch : UnlinkFails(f)
  BY <1>1, <1>4 DEF UnlinkFails, writer_vars, StuckArePublished
<1> QED
  BY <1>2, <1>3, <1>4
     DEF Next, vars, engine_vars, writer_vars, ClockStep, Acquire, Enqueue, Scan, Publish,
         WriteFails, Unwind, WriterCrash, ListCommands, Consume, ReadFails, Dispatch, EngineCrash

(***************************************************************************)
(* A publication adds a command that nobody has passed over.               *)
(***************************************************************************)
LEMMA PublishKeepsContract ==
    ASSUME IInv, StuckArePublished, NEW w \in Writers, Publish(w)
    PROVE  Contract!Publish
<1> DEFINE new == [sequence |-> sequence[w], id |-> published + 1]
<1>1. /\ queue' = queue \cup {new} /\ published' = published + 1
      /\ UNCHANGED <<in_hand, dispatched, stuck, losses>>
  BY DEF Publish, engine_vars
<1>2. new.id = published + 1
  OBVIOUS
<1> HIDE DEF new
<1>3. Ids(queue)' = Ids(queue) \cup {published + 1}
  BY <1>1, <1>2 DEF Ids
<1>4. published + 1 \notin stuck
  BY DEF StuckArePublished, IInv, WriterInv, TypeOK
<1> QED BY <1>1, <1>3, <1>4 DEF Contract!Publish

(***************************************************************************)
(* The command whose turn it is, is the first that waits, or a late one.   *)
(***************************************************************************)
LEMMA TurnIsContracts ==
    ASSUME IInv, NEW f \in batch, NextOfBatch(f)
    PROVE  /\ f \in queue /\ f.id \in Ids(queue)
           /\ f.id \notin stuck => Contract!First(f.id)
           /\ Ids(queue \ {f}) = Ids(queue) \ {f.id}
<1>1. f \in queue /\ FilesAreCommands /\ \A g \in queue : g.id \in Nat
  BY DEF IInv, WriterInv, OrderInv, BatchIsFirst, TypeOK, File
<1>2. f.id \in Ids(queue)
  BY <1>1 DEF Ids
<1>3. ASSUME f.id \notin stuck, NEW m \in Ids(queue) \ stuck PROVE f.id <= m
  <2>1. PICK g \in queue : m = g.id
    BY <1>3 DEF Ids
  <2> QED BY <1>1, <1>3, <2>1, TurnIsFirst
<1>4. Ids(queue \ {f}) = Ids(queue) \ {f.id}
  BY <1>1 DEF Ids, FilesAreCommands
<1> QED BY <1>1, <1>2, <1>3, <1>4 DEF Contract!First

(***************************************************************************)
(* consume_engine_command_file takes, loses or passes over the command     *)
(* whose turn it is; passing a late one over again changes nothing.        *)
(***************************************************************************)
LEMMA ConsumeKeepsContract ==
    ASSUME IInv, NEW f \in batch, Consume(f) \/ ReadFails(f) \/ UnlinkFails(f)
    PROVE  Contract!Next \/ UNCHANGED Contract!vars
<1> DEFINE n == f.id
           waiting == Ids(queue) \ stuck
           late == Ids(queue) \cap stuck
<1>1. /\ f \in queue /\ n \in Ids(queue) /\ Ids(queue \ {f}) = Ids(queue) \ {n}
      /\ n \notin stuck => Contract!First(n)
  BY TurnIsContracts DEF Consume, ReadFails, UnlinkFails
<1>2. n \in waiting \cup late /\ (Contract!First(n) \/ n \in late) /\ in_hand = 0
  BY <1>1 DEF Consume, ReadFails, UnlinkFails
<1>3. CASE queue' = queue \ {f} /\ UNCHANGED <<stuck, published, dispatched>>
  <2>1. Ids(queue)' = Ids(queue) \ {n}
    BY <1>1, <1>3 DEF Ids
  <2>2. Contract!Leaves(n)
    BY <1>2, <1>3, <2>1 DEF Contract!Leaves
  <2>3. CASE Consume(f)
    BY <1>2, <2>2, <2>3 DEF Consume, Contract!Take, Contract!Next
  <2>4. CASE ReadFails(f)
    BY <1>2, <2>2, <2>4 DEF ReadFails, Contract!Lose, Contract!Next
  <2>5. CASE UnlinkFails(f)
    BY <1>1, <1>3, <2>5 DEF UnlinkFails
  <2> QED BY <2>3, <2>4, <2>5
<1>4. CASE UnlinkFails(f)
  <2>1. /\ queue' = queue /\ stuck' = stuck \cup {n}
        /\ UNCHANGED <<published, in_hand, dispatched, losses>>
    BY <1>4 DEF UnlinkFails, writer_vars
  <2>2. Ids(queue)' = Ids(queue)
    BY <2>1 DEF Ids
  <2>3. CASE n \in stuck
    BY <2>1, <2>2, <2>3 DEF Contract!vars
  <2>4. CASE n \notin stuck
    <3>1. Contract!PassOver(n)
      BY <1>1, <1>2, <2>1, <2>2, <2>4 DEF Contract!PassOver
    <3> QED BY <1>2, <3>1 DEF Contract!Next
  <2> QED BY <2>3, <2>4
<1> QED BY <1>3, <1>4 DEF Consume, ReadFails, writer_vars

(***************************************************************************)
(* Every step of the transport is one of its contract, or none.            *)
(***************************************************************************)
LEMMA StepKeepsContract ==
    ASSUME IInv, StuckArePublished, [Next]_vars
    PROVE  [Contract!Next]_(Contract!vars)
<1>1. CASE UNCHANGED <<queue, published, in_hand, dispatched, stuck, losses>>
  BY <1>1 DEF Contract!vars, Ids
<1>2. CASE \E w \in Writers : Publish(w)
  BY <1>2, PublishKeepsContract DEF Contract!Next
<1>3. CASE \E f \in batch : Consume(f) \/ ReadFails(f) \/ UnlinkFails(f)
  BY <1>3, ConsumeKeepsContract
<1>4. CASE Dispatch
  BY <1>4 DEF Dispatch, writer_vars, Ids, Contract!Deliver, Contract!Next
<1>5. CASE EngineCrash
  BY <1>5 DEF EngineCrash, writer_vars, Ids, Contract!Die, Contract!Next
<1> QED
  BY <1>1, <1>2, <1>3, <1>4, <1>5
     DEF Next, vars, engine_vars, writer_vars, ClockStep, Acquire, Enqueue, Scan, WriteFails,
         Unwind, WriterCrash, ListCommands

(***************************************************************************)
(* The transport implements CommandContract: for every number of producers,*)
(* depth, batch size and clock, enqueue_engine_command and _check_commands *)
(* deliver first in first out and at most once, and lose or overtake       *)
(* nothing but what the contract allows.                                   *)
(***************************************************************************)
THEOREM TransportImplementsContract == Spec => ImplementsContract
<1>1. Init => Contract!Init /\ StuckArePublished
  BY DEF Init, Contract!Init, StuckArePublished, Ids
<1> QED
  BY <1>1, InitIInv, NextIInv, StuckStayPublished, StepKeepsContract, PTL
     DEF Spec, ImplementsContract, Contract!Spec
=============================================================================
