---------------------------- MODULE EngineCommands ----------------------------
(***************************************************************************)
(* The command transport between the station's processes and the playback  *)
(* engine: isadoraair/engine_commands.py and the engine's _check_commands  *)
(* (library/services/engine.py).  A command is a file in a queue directory.*)
(* Producers append under a flock that the kernel frees when its holder    *)
(* dies; the engine lists a batch under the same flock but reads and       *)
(* unlinks the files of the batch without it.  Order is carried by the     *)
(* sequence number in the file's name, taken from a wall clock that may be *)
(* stepped in either direction.                                            *)
(*                                                                         *)
(* Commands are numbered in the order in which they are published.         *)
(***************************************************************************)
EXTENDS Integers, Sequences, FiniteSets

CONSTANTS
    Writers,      \* producing processes
    max_depth,    \* ENGINE_COMMAND_MAX_DEPTH
    limit,        \* ENGINE_COMMAND_BATCH_SIZE
    MaxTime,      \* bound: readings of time.time_ns()
    MaxPublish,   \* bound: commands published
    MaxFaults     \* bound: crashes and I/O errors

ASSUME CommandsAssumption ==
    /\ max_depth \in Nat \ {0} /\ limit \in Nat \ {0}
    /\ MaxTime \in Nat /\ MaxPublish \in Nat /\ MaxFaults \in Nat
    /\ "nobody" \notin Writers

VARIABLES
    queue,      \* committed files
    temps,      \* writers whose private temporary file exists
    lock,       \* the writer that holds the flock, or "nobody"
    clock,      \* time.time_ns()
    at,         \* where each writer is in enqueue_engine_command
    seen,       \* what each writer's scan has found so far
    sequence,   \* the sequence number each writer has allocated
    batch,      \* files the engine has listed and not yet reached
    in_hand,    \* the command that is unlinked and not yet dispatched; 0 is none
    dispatched, \* commands handed to _dispatch_engine_command, in order
    stuck,      \* commands whose file could not be unlinked once
    published,  \* number of commands published so far
    losses,     \* engine crashes and failed reads
    faults      \* all faults so far

writer_vars == <<lock, clock, at, seen, sequence, published>>
engine_vars == <<batch, in_hand, dispatched, stuck, losses>>
vars == <<queue, temps, writer_vars, engine_vars, faults>>

File == [sequence : Nat, id : Nat]

(***************************************************************************)
(* /run starts empty.                                                      *)
(***************************************************************************)
Init ==
    /\ queue = {} /\ temps = {} /\ lock = "nobody"
    /\ clock \in 0 .. MaxTime
    /\ at = [w \in Writers |-> "out"]
    /\ seen = [w \in Writers |-> {}]
    /\ sequence = [w \in Writers |-> 0]
    /\ batch = {} /\ in_hand = 0 /\ dispatched = << >> /\ stuck = {}
    /\ published = 0 /\ losses = 0 /\ faults = 0

ClockStep ==
    /\ clock' \in 0 .. MaxTime
    /\ clock' # clock
    /\ UNCHANGED <<queue, temps, lock, at, seen, sequence, published, engine_vars, faults>>
-----------------------------------------------------------------------------
(***************************************************************************)
(* enqueue_engine_command: the flock is taken, temporary files of dead     *)
(* writers are removed (_clean_stale_temps) and the scan begins.  A payload*)
(* that fails validation never gets here.                                  *)
(***************************************************************************)
Acquire(w) ==
    /\ at[w] = "out" /\ lock = "nobody" /\ published < MaxPublish
    /\ lock' = w
    /\ temps' = {}
    /\ seen' = [seen EXCEPT ![w] = queue]
    /\ at' = [at EXCEPT ![w] = "scan"]
    /\ UNCHANGED <<queue, clock, sequence, published, engine_vars, faults>>

\* Every publication adds at most one to the largest reading of the clock.
MaxSequence == MaxTime + MaxPublish

\* Mutant: the clock alone orders the commands.
IsNextSequence_Mutant(n, committed) == n = clock

(***************************************************************************)
(* n is max(time.time_ns(), prior_sequence + 1).                           *)
(***************************************************************************)
IsNextSequence(n, committed) ==
    /\ n >= clock /\ \A f \in committed : n >= f.sequence + 1
    /\ n = clock \/ \E f \in committed : n = f.sequence + 1

QueueFull(committed) == Cardinality(committed) >= max_depth

(***************************************************************************)
(* _scan_committed: the engine may unlink files while the directory is     *)
(* read, so the scan finds everything that stays and some of what goes.    *)
(* Then EngineCommandQueueFull, or a sequence number and a temporary file. *)
(***************************************************************************)
Scan(w) ==
    /\ at[w] = "scan"
    /\ \E committed \in SUBSET seen[w] :
          /\ queue \subseteq committed
          /\ IF QueueFull(committed)
             THEN /\ at' = [at EXCEPT ![w] = "out"]
                  /\ lock' = "nobody"
                  /\ UNCHANGED <<temps, sequence>>
             ELSE /\ at' = [at EXCEPT ![w] = "write"]
                  /\ \E n \in 0 .. MaxSequence :
                        /\ IsNextSequence(n, committed)
                        /\ sequence' = [sequence EXCEPT ![w] = n]
                  /\ temps' = temps \cup {w}
                  /\ UNCHANGED lock
    /\ seen' = [seen EXCEPT ![w] = {}]
    /\ UNCHANGED <<queue, clock, published, engine_vars, faults>>

(***************************************************************************)
(* The file is written and synced; os.rename publishes it.                 *)
(***************************************************************************)
Publish(w) ==
    /\ at[w] = "write" /\ w \in temps
    /\ queue' = queue \cup {[sequence |-> sequence[w], id |-> published + 1]}
    /\ published' = published + 1
    /\ temps' = temps \ {w}
    /\ at' = [at EXCEPT ![w] = "out"]
    /\ sequence' = [sequence EXCEPT ![w] = 0]
    /\ lock' = "nobody"
    /\ UNCHANGED <<clock, seen, engine_vars, faults>>

(***************************************************************************)
(* Writing or renaming fails: the flock is released first, the temporary   *)
(* file is unlinked after that, when somebody else may have cleaned it.    *)
(***************************************************************************)
WriteFails(w) ==
    /\ at[w] = "write" /\ (w \in temps => faults < MaxFaults)
    /\ at' = [at EXCEPT ![w] = "unwind"]
    /\ sequence' = [sequence EXCEPT ![w] = 0]
    /\ lock' = "nobody"
    /\ faults' = IF w \in temps THEN faults + 1 ELSE faults
    /\ UNCHANGED <<queue, temps, clock, seen, published, engine_vars>>

Unwind(w) ==
    /\ at[w] = "unwind"
    /\ at' = [at EXCEPT ![w] = "out"]
    /\ temps' = temps \ {w}
    /\ UNCHANGED <<queue, lock, clock, seen, sequence, published, engine_vars, faults>>

\* Mutant: the lock is a file that outlives its dead owner.
WriterCrash_Mutant(w) ==
    /\ at[w] # "out" /\ faults < MaxFaults
    /\ at' = [at EXCEPT ![w] = "out"]
    /\ seen' = [seen EXCEPT ![w] = {}]
    /\ sequence' = [sequence EXCEPT ![w] = 0]
    /\ faults' = faults + 1
    /\ UNCHANGED <<queue, temps, lock, clock, published, engine_vars>>

(***************************************************************************)
(* A producer dies; the kernel releases its flock with its descriptors.    *)
(***************************************************************************)
WriterCrash(w) ==
    /\ at[w] # "out" /\ faults < MaxFaults
    /\ at' = [at EXCEPT ![w] = "out"]
    /\ seen' = [seen EXCEPT ![w] = {}]
    /\ sequence' = [sequence EXCEPT ![w] = 0]
    /\ lock' = IF lock = w THEN "nobody" ELSE lock
    /\ faults' = faults + 1
    /\ UNCHANGED <<queue, temps, clock, published, engine_vars>>
-----------------------------------------------------------------------------
\* Mutant: the engine lists, and cleans, without taking the flock.
LockIsFree_Mutant == TRUE

LockIsFree == lock = "nobody"

\* Mutant: the batch is unlinked as a whole before its first dispatch.
ListCommands_Mutant ==
    /\ batch = {} /\ in_hand = 0 /\ LockIsFree
    /\ batch' = {f \in queue : Cardinality({g \in queue : g.sequence < f.sequence}) < limit}
    /\ queue' = queue \ batch'
    /\ temps' = {}
    /\ UNCHANGED <<writer_vars, in_hand, dispatched, stuck, losses, faults>>

(***************************************************************************)
(* list_committed_engine_commands(limit) at the start of a poll: the first *)
(* files in sequence order.  Nobody but the engine unlinks committed files,*)
(* so this critical section is one step.                                   *)
(***************************************************************************)
ListCommands ==
    /\ batch = {} /\ in_hand = 0 /\ LockIsFree
    /\ batch' = {f \in queue : Cardinality({g \in queue : g.sequence < f.sequence}) < limit}
    /\ temps' = {}
    /\ UNCHANGED <<queue, writer_vars, in_hand, dispatched, stuck, losses, faults>>

NextOfBatch(f) == f \in batch /\ \A g \in batch : f.sequence <= g.sequence

(***************************************************************************)
(* consume_engine_command_file: the file is read and unlinked.             *)
(***************************************************************************)
Consume(f) ==
    /\ in_hand = 0 /\ NextOfBatch(f)
    /\ batch' = batch \ {f}
    /\ queue' = queue \ {f}
    /\ in_hand' = f.id
    /\ UNCHANGED <<temps, writer_vars, dispatched, stuck, losses, faults>>

(***************************************************************************)
(* It cannot be read (it is unlinked all the same), or not unlinked (it is *)
(* not dispatched, and listed again by a later poll).                      *)
(***************************************************************************)
ReadFails(f) ==
    /\ in_hand = 0 /\ NextOfBatch(f) /\ faults < MaxFaults
    /\ batch' = batch \ {f}
    /\ queue' = queue \ {f}
    /\ losses' = losses + 1
    /\ faults' = faults + 1
    /\ UNCHANGED <<temps, writer_vars, in_hand, dispatched, stuck>>

UnlinkFails(f) ==
    /\ in_hand = 0 /\ NextOfBatch(f) /\ faults < MaxFaults
    /\ batch' = batch \ {f}
    /\ stuck' = stuck \cup {f.id}
    /\ faults' = faults + 1
    /\ UNCHANGED <<queue, temps, writer_vars, in_hand, dispatched, losses>>

(***************************************************************************)
(* _dispatch_engine_command_safely: a handler's exception ends here too.   *)
(***************************************************************************)
Dispatch ==
    /\ in_hand # 0
    /\ dispatched' = Append(dispatched, in_hand)
    /\ in_hand' = 0
    /\ UNCHANGED <<queue, temps, writer_vars, batch, stuck, losses, faults>>

(***************************************************************************)
(* The engine dies and is started again: only the directory is left.       *)
(***************************************************************************)
EngineCrash ==
    /\ batch # {} \/ in_hand # 0
    /\ faults < MaxFaults
    /\ batch' = {}
    /\ in_hand' = 0
    /\ losses' = losses + 1
    /\ faults' = faults + 1
    /\ UNCHANGED <<queue, temps, writer_vars, dispatched, stuck>>

Enqueue(w) == Scan(w) \/ Publish(w) \/ WriteFails(w) \/ Unwind(w)

Next ==
    \/ ClockStep
    \/ \E w \in Writers : Acquire(w) \/ Enqueue(w) \/ WriterCrash(w)
    \/ ListCommands
    \/ \E f \in batch : Consume(f) \/ ReadFails(f) \/ UnlinkFails(f)
    \/ Dispatch
    \/ EngineCrash

(***************************************************************************)
(* The engine's 250 ms poll goes on for ever; a poll waits in flock() and  *)
(* is woken when the holder, which either proceeds or dies, lets go.       *)
(***************************************************************************)
Fairness ==
    /\ \A w \in Writers : WF_vars(Enqueue(w))
    /\ SF_vars(ListCommands)
    /\ WF_vars(\E f \in batch : Consume(f))
    /\ WF_vars(Dispatch)

Spec == Init /\ [][Next]_vars /\ Fairness
-----------------------------------------------------------------------------
Ids(files) == {f.id : f \in files}

(***************************************************************************)
(* Types, and the depth that enqueue_engine_command must keep under        *)
(* concurrent producers.                                                   *)
(***************************************************************************)
TypeOK ==
    /\ queue \subseteq File /\ Cardinality(queue) <= max_depth
    /\ temps \subseteq Writers /\ lock \in Writers \cup {"nobody"}
    /\ clock \in Nat
    /\ at \in [Writers -> {"out", "scan", "write", "unwind"}]
    /\ seen \in [Writers -> SUBSET File] /\ sequence \in [Writers -> Nat]
    /\ batch \subseteq File /\ in_hand \in Nat
    /\ dispatched \in Seq(Nat) /\ stuck \subseteq Nat
    /\ published \in Nat /\ losses \in Nat /\ faults \in Nat

(***************************************************************************)
(* Queue order is publication order, whichever processes published, however*)
(* the clock was stepped and whatever the engine unlinked during a scan.   *)
(***************************************************************************)
SequenceIsPublicationOrder ==
    \A f, g \in queue : f.id < g.id => f.sequence < g.sequence

(***************************************************************************)
(* The temporary file of a live writer is never cleaned from under it, so  *)
(* its rename finds it.                                                    *)
(***************************************************************************)
LiveTempSurvives == \A w \in Writers : at[w] = "write" => w \in temps /\ lock = w

(***************************************************************************)
(* At most once and first in first out: an earlier command follows a later *)
(* one only if its file could not be unlinked at its turn.                 *)
(***************************************************************************)
DispatchedOnceInOrder ==
    \A i, j \in DOMAIN dispatched :
        i < j => /\ dispatched[i] # dispatched[j]
                 /\ dispatched[j] < dispatched[i] => dispatched[j] \in stuck

(***************************************************************************)
(* No published command vanishes: it is in the directory, in hand or       *)
(* dispatched, except for one per engine crash or failed read.             *)
(***************************************************************************)
LossesAreBounded ==
    Cardinality((1 .. published) \ (Ids(queue) \cup {in_hand}
                    \cup {dispatched[i] : i \in DOMAIN dispatched})) <= losses

Contract == INSTANCE CommandContract WITH
                waiting <- Ids(queue) \ stuck,
                late <- Ids(queue) \cap stuck,
                delivered <- dispatched

(***************************************************************************)
(* Producers with their flock, scans, clock and temporary files and the    *)
(* engine with its batches keep the contract of a queue: first in first    *)
(* out and at most once; what is lost is lost at its turn or with the      *)
(* engine, one at a time.                                                  *)
(***************************************************************************)
ImplementsContract == Contract!Spec

(***************************************************************************)
(* Every published command leaves the queue: neither a stream of producers *)
(* nor dead ones keep the engine from it.                                  *)
(***************************************************************************)
EveryCommandIsTaken ==
    \A n \in 1 .. MaxPublish : (n \in Ids(queue)) ~> (n \notin Ids(queue))
=============================================================================
