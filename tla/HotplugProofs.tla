---------------------------- MODULE HotplugProofs ----------------------------
(***************************************************************************)
(* The safety properties of OutputRecovery and MicRecovery, proved for any *)
(* devices and any number of generations, operations and faults.           *)
(*                                                                         *)
(* Both are owners of a SlotCoordinator.  What it promises comes from      *)
(* SlotCoordinatorProofs: every step of an owner is a step of its          *)
(* coordinator, or leaves it alone.  The lemmas about the coordinator's    *)
(* calls serve both owners.                                                *)
(***************************************************************************)
EXTENDS OutputRecovery, MicRecovery, TLAPS

SCP == INSTANCE SlotCoordinatorProofs

(***************************************************************************)
(* The owner asks for an operation only when the last one is over, so its  *)
(* record is the only one, and the coordinator's state says where it is.   *)
(***************************************************************************)
OneRecord ==
    /\ \A o \in DOMAIN rec : o = op
    /\ state \in {"OK", "DEGRADED"} /\ op # 0 => rec[op].done /\ rec[op].thread = "ended"

-----------------------------------------------------------------------------
(***************************************************************************)
(* Each call of the coordinator is one of its steps.                       *)
(***************************************************************************)
LEMMA MarkIsStep == SC!mark_degraded => SCP!Next
BY DEF SC!mark_degraded, SCP!mark_degraded, SCP!Next

LEMMA TickIsStep == SC!tick => SCP!Next
BY DEF SC!tick, SCP!tick, SCP!Next, SC!InFlight, SCP!InFlight

LEMMA RequestIsStep == SC!request_recovery => SCP!Next
BY DEF SC!request_recovery, SCP!request_recovery, SCP!Next, SC!RequestResult, SCP!RequestResult,
       SC!InFlight, SCP!InFlight, SC!_dispatch_locked, SCP!_dispatch_locked, SC!Collected,
       SCP!Collected

LEMMA ReturnIsStep ==
    ASSUME NEW o \in DOMAIN rec, NEW ok \in BOOLEAN, SC!WorkerReturns(o, ok)
    PROVE  SCP!Next
<1>1. SCP!WorkerReturns(o, ok)
  BY DEF SC!WorkerReturns, SCP!WorkerReturns, SC!Collected, SCP!Collected
<1> QED
  BY <1>1 DEF SCP!Next, SCP!WorkerStep

LEMMA ResolveIsStep ==
    ASSUME NEW o \in DOMAIN rec, SC!_on_worker_resolved(o)
    PROVE  SCP!Next
<1>1. SCP!_on_worker_resolved(o)
  BY DEF SC!_on_worker_resolved, SCP!_on_worker_resolved, SC!Collected, SCP!Collected,
         SC!ResultAccepted, SCP!ResultAccepted
<1> QED
  BY <1>1 DEF SCP!Next, SCP!WorkerStep

(***************************************************************************)
(* The coordinator that SlotCoordinatorProofs is about is the slot's.      *)
(***************************************************************************)
LEMMA SameStep == SCP!Next => SC!Next
<1>1. SCP!mark_degraded => SC!mark_degraded
  BY DEF SC!mark_degraded, SCP!mark_degraded
<1>2. SCP!request_recovery => SC!request_recovery
  BY DEF SC!request_recovery, SCP!request_recovery, SC!RequestResult, SCP!RequestResult,
         SC!InFlight, SCP!InFlight, SC!_dispatch_locked, SCP!_dispatch_locked, SC!Collected,
         SCP!Collected
<1>3. SCP!retry_now => SC!retry_now
  BY DEF SC!retry_now, SCP!retry_now, SC!InFlight, SCP!InFlight, SC!_dispatch_locked,
         SCP!_dispatch_locked, SC!Collected, SCP!Collected
<1>4. SCP!tick => SC!tick
  BY DEF SC!tick, SCP!tick, SC!InFlight, SCP!InFlight
<1>5. SCP!WorkerStep => SC!WorkerStep
  BY DEF SC!WorkerStep, SCP!WorkerStep, SC!WorkerReturns, SCP!WorkerReturns,
         SC!_on_worker_resolved, SCP!_on_worker_resolved, SC!Collected, SCP!Collected,
         SC!ResultAccepted, SCP!ResultAccepted
<1> QED
  BY <1>1, <1>2, <1>3, <1>4, <1>5 DEF SC!Next, SCP!Next

(***************************************************************************)
(* What the coordinator's invariant says of a slot with one record.        *)
(***************************************************************************)
LEMMA Facts ==
    ASSUME SCP!IInv, OneRecord
    PROVE  /\ state \in {"OK", "DEGRADED", "RECOVERING", "RESTART_REQUIRED"}
           /\ op \in Nat /\ next_op_id \in Nat /\ op # next_op_id /\ next_op_id # 0
           /\ op = 0 => DOMAIN rec = {}
           /\ op # 0 =>
                 /\ DOMAIN rec = {op}
                 /\ rec[op] \in SC!OperationRecord /\ rec[op].generation = generation
                 /\ rec[op].thread = "running" => ~rec[op].done
                 /\ rec[op].thread = "resolving" => rec[op].done
                 /\ rec[op].done => ~rec[op].abandoned
           /\ state = "RECOVERING" => op # 0
           /\ state = "RESTART_REQUIRED" <=> op # 0 /\ rec[op].abandoned
           /\ state = "OK" /\ op # 0 => rec[op].succeeded
<1>1. /\ state \in {"OK", "DEGRADED", "RECOVERING", "RESTART_REQUIRED"}
      /\ op \in Nat /\ next_op_id \in Nat \ {0}
      /\ rec \in [DOMAIN rec -> SC!OperationRecord]
      /\ DOMAIN rec \subseteq 1 .. (next_op_id - 1)
      /\ op = 0 \/ op \in DOMAIN rec
  BY DEF SCP!IInv, SCP!TypeOK, SCP!SlotState, SCP!OperationRecord, SC!OperationRecord
<1>2. op # next_op_id /\ 0 \notin DOMAIN rec
  BY <1>1
<1>3. op = 0 => DOMAIN rec = {}
  BY <1>2 DEF OneRecord
<1>4. op # 0 => DOMAIN rec = {op} /\ rec[op] \in SC!OperationRecord
  BY <1>1 DEF OneRecord
<1> QED
  BY <1>1, <1>2, <1>3, <1>4
     DEF SCP!IInv, SCP!RecordsConsistent, SCP!CurrentGeneration, SCP!RecoveringHasOwner,
         SCP!OkIsEarned, SCP!RestartIffAbandoned

(***************************************************************************)
(* A degraded slot that asks for an operation gets it, and the operation's *)
(* record replaces the old one.                                            *)
(***************************************************************************)
LEMMA Dispatched ==
    ASSUME SCP!IInv, OneRecord, state = "DEGRADED", SC!request_recovery
    PROVE  /\ SC!RequestResult = "dispatched"
           /\ state' = "RECOVERING" /\ op' \in Nat /\ op' # 0 /\ DOMAIN rec' = {op'}
           /\ ~rec'[op'].done
<1>1. /\ op \in Nat /\ next_op_id \in Nat /\ op # next_op_id /\ next_op_id # 0
      /\ op = 0 => DOMAIN rec = {}
      /\ op # 0 => DOMAIN rec = {op} /\ rec[op].done /\ rec[op].thread = "ended"
  BY Facts DEF OneRecord
<1>2. ~SC!InFlight
  BY <1>1 DEF SC!InFlight
<1>3. SC!RequestResult = "dispatched"
  BY <1>2 DEF SC!RequestResult
<1>4. SC!_dispatch_locked(TRUE)
  BY <1>3 DEF SC!request_recovery
<1>5. DOMAIN SC!Collected(rec, next_op_id) = {}
  BY <1>1 DEF SC!Collected
<1>6. /\ state' = "RECOVERING" /\ op' = next_op_id
      /\ DOMAIN rec' = {next_op_id} /\ ~rec'[next_op_id].done
  BY <1>4, <1>5 DEF SC!_dispatch_locked
<1> QED
  BY <1>1, <1>3, <1>6

(***************************************************************************)
(* A timeout ends a recovery, and leaves the record where it is.           *)
(***************************************************************************)
LEMMA Ticked ==
    ASSUME SCP!IInv, OneRecord, SC!tick
    PROVE  /\ state = "RECOVERING" /\ state' = "RESTART_REQUIRED"
           /\ op # 0 /\ op' = op /\ DOMAIN rec' = DOMAIN rec
           /\ ~rec'[op].done
<1>1. op # 0 => DOMAIN rec = {op} /\ rec[op] \in SC!OperationRecord
  BY Facts
<1>2. /\ op # 0 /\ ~rec[op].done /\ ~rec[op].abandoned
      /\ rec' = [rec EXCEPT ![op].abandoned = TRUE] /\ state' = "RESTART_REQUIRED" /\ op' = op
  BY DEF SC!tick, SC!InFlight
<1>3. state = "RECOVERING"
  BY <1>2, Facts DEF OneRecord
<1>4. DOMAIN rec' = DOMAIN rec /\ ~rec'[op].done
  BY <1>1, <1>2 DEF SC!OperationRecord
<1> QED
  BY <1>2, <1>3, <1>4

(***************************************************************************)
(* A worker's return files its result, unless it was given up.             *)
(***************************************************************************)
LEMMA Returned ==
    ASSUME SCP!IInv, OneRecord, NEW o \in DOMAIN rec, NEW ok \in BOOLEAN, SC!WorkerReturns(o, ok)
    PROVE  /\ o = op /\ op # 0 /\ op' = op /\ state' = state /\ DOMAIN rec' = DOMAIN rec
           /\ state \in {"RECOVERING", "RESTART_REQUIRED"}
           /\ rec'[op].done => rec'[op].succeeded = ok
<1>1. /\ o = op /\ op # 0 /\ DOMAIN rec = {op} /\ rec[op] \in SC!OperationRecord
      /\ rec[op].thread = "running" /\ ~rec[op].done
  BY Facts DEF OneRecord, SC!WorkerReturns
<1>2. op' = op /\ state' = state /\ state \in {"RECOVERING", "RESTART_REQUIRED"}
  BY <1>1, Facts DEF OneRecord, SC!WorkerReturns
<1>3. CASE rec[op].abandoned
  <2> DEFINE ended == [rec EXCEPT ![op].thread = "ended"]
  <2>1. rec' = SC!Collected(ended, op)
    BY <1>1, <1>3 DEF SC!WorkerReturns
  <2>2. DOMAIN ended = {op} /\ ended[op].done = rec[op].done
    BY <1>1 DEF SC!OperationRecord
  <2> HIDE DEF ended
  <2>3. DOMAIN rec' = {op} /\ rec'[op] = ended[op]
    BY <2>1, <2>2 DEF SC!Collected
  <2> QED
    BY <1>1, <1>2, <2>2, <2>3
<1>4. CASE ~rec[op].abandoned
  <2>1. rec' = [rec EXCEPT ![op] = [@ EXCEPT !.done = TRUE, !.succeeded = ok,
                                             !.thread = "resolving"]]
    BY <1>1, <1>4 DEF SC!WorkerReturns
  <2>2. DOMAIN rec' = {op} /\ rec'[op].succeeded = ok
    BY <1>1, <2>1 DEF SC!OperationRecord
  <2> QED
    BY <1>1, <1>2, <2>2
<1> QED
  BY <1>3, <1>4

(***************************************************************************)
(* A filed result is always that of the recovery in progress.              *)
(***************************************************************************)
LEMMA Resolved ==
    ASSUME SCP!IInv, OneRecord, NEW o \in DOMAIN rec, SC!_on_worker_resolved(o)
    PROVE  /\ o = op /\ op # 0 /\ op' = op /\ DOMAIN rec' = DOMAIN rec
           /\ state = "RECOVERING"
           /\ state' = IF rec[op].succeeded THEN "OK" ELSE "DEGRADED"
           /\ rec[op].done /\ rec'[op].done /\ rec'[op].thread = "ended"
           /\ rec'[op].succeeded = rec[op].succeeded
<1>1. /\ o = op /\ op # 0 /\ DOMAIN rec = {op} /\ rec[op] \in SC!OperationRecord
      /\ rec[op].thread = "resolving" /\ rec[op].done /\ ~rec[op].abandoned
      /\ rec[op].generation = generation
  BY Facts DEF OneRecord, SC!_on_worker_resolved
<1>2. state = "RECOVERING"
  BY <1>1, Facts DEF OneRecord
<1> DEFINE ended == [rec EXCEPT ![op].thread = "ended"]
<1>3. /\ op' = op /\ rec' = SC!Collected(ended, op)
      /\ state' = IF rec[op].succeeded THEN "OK" ELSE "DEGRADED"
  BY <1>1 DEF SC!_on_worker_resolved, SC!ResultAccepted
<1>4. /\ DOMAIN ended = {op} /\ ended[op].done = rec[op].done
      /\ ended[op].succeeded = rec[op].succeeded /\ ended[op].thread = "ended"
  BY <1>1 DEF SC!OperationRecord
<1> HIDE DEF ended
<1>5. DOMAIN rec' = {op} /\ rec'[op] = ended[op]
  BY <1>3, <1>4 DEF SC!Collected
<1> QED
  BY <1>1, <1>2, <1>3, <1>4, <1>5


-----------------------------------------------------------------------------
Places == {"idle", "error_close", "error_mark", "quiesce", "snapshot", "stale_close",
           "stale_mark", "redegrade", "discard", "discard_abandoned", "rebuild", "handled",
           "retarget_close", "retarget_1", "retarget_2", "retarget_3"}

Tasks == [kind : {"null", "rebuild"}, bin : Nat, epoch : Nat,
          at : {"null", "sync", "open", "verify", "gate", "close", "succeeded", "failed"}]

(***************************************************************************)
(* The shape of the state.                                                 *)
(***************************************************************************)
TypeInv ==
    /\ target \in Devices
    /\ device_of \in Seq(Devices)
    /\ current \in Nat /\ current <= Len(device_of)
    /\ pending \in Nat /\ pending <= Len(device_of)
    /\ pending_validation_epoch \in Int /\ epoch \in Nat
    /\ retarget_requested \in BOOLEAN /\ dispatched \in BOOLEAN /\ valve_open \in BOOLEAN
    /\ last_observed \in SC!SlotState
    /\ glib \in Places
    /\ DOMAIN task = DOMAIN rec /\ task \in [DOMAIN rec -> Tasks]
    /\ lost_seen \subseteq 1 .. Len(device_of)

(***************************************************************************)
(* A filed result is what the task came to.                                *)
(***************************************************************************)
ResultIsTasks ==
    op # 0 =>
        /\ task[op].kind = "null" <=> task[op].at = "null"
        /\ rec[op].done =>
              /\ task[op].at \in {"null", "succeeded", "failed"}
              /\ task[op].at = "succeeded" => rec[op].succeeded
              /\ task[op].at = "failed" => ~rec[op].succeeded

(***************************************************************************)
(* The valve is linked to the current generation, or else to the candidate.*)
(***************************************************************************)
LinkFollows == linked = IF current # NoBin THEN current ELSE pending

(***************************************************************************)
(* What the tick has yet to observe is still to be observed.               *)
(***************************************************************************)
Observed ==
    /\ dispatched => last_observed = "RECOVERING"
    /\ state = "RECOVERING" => last_observed = "RECOVERING"
    /\ pending # NoBin => last_observed = "RECOVERING"
    /\ state = "OK" /\ current = NoBin => last_observed = "RECOVERING"

(***************************************************************************)
(* What a callback knows at each of its places.                            *)
(***************************************************************************)
Invalidating == {"error_close", "error_mark", "quiesce", "stale_close", "stale_mark",
                 "retarget_close", "retarget_1", "retarget_2", "retarget_3"}

CallbackKnows ==
    /\ glib \in {"quiesce", "rebuild", "discard"} => state = "DEGRADED"
    /\ glib \in {"redegrade", "stale_close", "stale_mark"} => state = "OK"
    /\ glib = "discard_abandoned" => state = "RESTART_REQUIRED"
    /\ glib \in {"redegrade", "rebuild"} => pending = NoBin
    /\ glib \in {"stale_close", "stale_mark", "discard", "discard_abandoned"} => pending # NoBin
    /\ glib \in {"redegrade", "rebuild", "stale_close", "stale_mark", "discard",
                 "discard_abandoned", "retarget_2", "retarget_3"} => current = NoBin
    /\ glib \in Invalidating /\ pending # NoBin => pending_validation_epoch < epoch
    /\ glib = "handled" /\ ~dispatched =>
          /\ pending = NoBin
          /\ state # "RECOVERING"
          /\ state = "OK" => current # NoBin

(***************************************************************************)
(* A current generation plays, unless a callback is about to retire it.    *)
(***************************************************************************)
CurrentPlays ==
    current # NoBin =>
        /\ pending = NoBin
        /\ state = "OK" \/ (state = "DEGRADED" /\ glib = "quiesce")
        /\ last_observed = "OK" \/ (glib = "handled" /\ ~dispatched)
        /\ valve_open \/ glib \in {"error_mark", "retarget_1", "quiesce"}
        /\ current \notin lost_seen \/ glib \in {"error_close", "error_mark", "quiesce"}
        /\ device_of[current] = target \/ glib \in {"retarget_close", "retarget_1", "quiesce"}

(***************************************************************************)
(* A candidate belongs to the rebuild that is the current operation, unless*)
(* it has been invalidated; one that was not is sound.                     *)
(***************************************************************************)
CandidateIsSound ==
    /\ op # 0 /\ task[op].kind = "rebuild" =>
          /\ state = "RECOVERING" => pending # NoBin
          /\ pending # NoBin => /\ task[op].bin = pending
                                /\ task[op].epoch = pending_validation_epoch
    /\ pending # NoBin =>
          /\ pending_validation_epoch <= epoch
          /\ pending_validation_epoch = epoch =>
                /\ op # 0 /\ task[op].kind = "rebuild"
                /\ task[op].at \in {"verify", "gate", "succeeded"} => valve_open
                /\ pending \notin lost_seen
                /\ device_of[pending] = target

(***************************************************************************)
(* Why the valve may be open.                                              *)
(***************************************************************************)
ValveIsVouchedFor ==
    valve_open =>
        /\ state # "DEGRADED"
        /\ \/ current # NoBin /\ glib \notin {"error_mark", "retarget_1"}
           \/ /\ pending # NoBin /\ op # 0 /\ task[op].kind = "rebuild"
              /\ \/ task[op].at \in {"verify", "gate", "close"}
                 \/ /\ task[op].at = "succeeded"
                    /\ \/ pending_validation_epoch = epoch
                       \/ glib \in {"error_close", "retarget_close"}
           \/ state = "RESTART_REQUIRED" /\ current = NoBin /\ pending = NoBin

Inv ==
    /\ SCP!IInv
    /\ TypeInv /\ OneRecord /\ ResultIsTasks /\ LinkFollows /\ Observed
    /\ CallbackKnows /\ CurrentPlays /\ CandidateIsSound /\ ValveIsVouchedFor
-----------------------------------------------------------------------------
(***************************************************************************)
(* Every step of an output is one of its coordinator, or leaves it alone.  *)
(***************************************************************************)
LEMMA CoordinatorSteps == [Next]_vars => [SCP!Next]_(SCP!vars)
<1> SUFFICES ASSUME [Next]_vars PROVE SCP!Next \/ UNCHANGED sc_vars
  BY DEF SCP!vars, sc_vars
<1>1. CASE UNCHANGED vars
  BY <1>1 DEF vars
<1>2. CASE \E b \in {current, pending} \ {NoBin} : OnOutputError(b)
  BY <1>2 DEF OnOutputError
<1>3. CASE RecoveryTick
  BY <1>3, TickIsStep DEF RecoveryTick
<1>4. CASE QuietTick \/ BackoffExpires \/ \E d \in Devices : Retarget(d) \/ Unplug(d) \/ Plug(d)
  BY <1>4 DEF QuietTick, BackoffExpires, Retarget, Unplug, Plug, vars
<1>5. CASE _output_presence_probe_tick
  BY <1>5, RequestIsStep
     DEF _output_presence_probe_tick, _output_dispatch_rebuild, _output_request_recovery
<1>6. CASE Callback
  <2>1. CASE \E from, to \in Places : CloseValve(from, to)
    BY <2>1 DEF CloseValve
  <2>2. CASE OnOutputErrorMark \/ HandlerMark \/ RetargetCurrent \/ RetargetMark
    BY <2>2, MarkIsStep DEF OnOutputErrorMark, HandlerMark, RetargetCurrent, RetargetMark
  <2>3. CASE Quiesce
    BY <2>3, RequestIsStep DEF Quiesce, _output_quiesce_current_generation, _output_request_recovery
  <2>4. CASE HandlerDiscard
    BY <2>4, RequestIsStep DEF HandlerDiscard, _output_discard_pending_bin, _output_request_recovery
  <2>5. CASE HandlerRebuild \/ RetargetRebuild
    BY <2>5, RequestIsStep
       DEF HandlerRebuild, RetargetRebuild, _output_dispatch_rebuild, _output_request_recovery
  <2>6. CASE Snapshot \/ HandlerReturns
    BY <2>6 DEF Snapshot, HandlerReturns
  <2> QED
    BY <1>6, <2>1, <2>2, <2>3, <2>4, <2>5, <2>6 DEF Callback, Places
<1>7. CASE \E o \in DOMAIN rec : Worker(o)
  <2> SUFFICES ASSUME NEW o \in DOMAIN rec, Worker(o) PROVE SCP!Next \/ UNCHANGED sc_vars
    BY <1>7
  <2>1. CASE WorkerReturns(o)
    BY <2>1, ReturnIsStep DEF WorkerReturns
  <2>2. CASE WorkerResolved(o)
    BY <2>2, ResolveIsStep DEF WorkerResolved
  <2> QED
    BY <2>1, <2>2 DEF Worker, WorkerSync, WorkerOpens, WorkerVerifies, WorkerGate, WorkerCloses
<1> QED
  BY <1>1, <1>2, <1>3, <1>4, <1>5, <1>6, <1>7 DEF Next

(***************************************************************************)
(* The coordinator keeps its invariant inside the slot.                    *)
(***************************************************************************)
LEMMA CoordinatorKeeps == SCP!IInv /\ [Next]_vars => SCP!IInv'
BY CoordinatorSteps, SCP!NextIInv, SlotAssumption

(***************************************************************************)
(* A degraded output that asks for an operation gets it for its task.      *)
(***************************************************************************)
LEMMA Requested ==
    ASSUME Inv, NEW t \in Tasks, state = "DEGRADED", _output_request_recovery(t)
    PROVE  /\ state' = "RECOVERING" /\ last_observed' = "RECOVERING" /\ dispatched' = TRUE
           /\ op' \in Nat /\ op' # 0 /\ DOMAIN rec' = {op'}
           /\ ~rec'[op'].done
           /\ DOMAIN task' = DOMAIN rec' /\ task' \in [DOMAIN rec' -> Tasks] /\ task'[op'] = t
<1>1. /\ SC!RequestResult = "dispatched"
      /\ state' = "RECOVERING" /\ op' \in Nat /\ op' # 0 /\ DOMAIN rec' = {op'}
      /\ ~rec'[op'].done
  BY Dispatched DEF Inv, _output_request_recovery
<1>2. /\ last_observed' = "RECOVERING" /\ dispatched' = TRUE
      /\ task' = [o \in DOMAIN rec' |-> IF o = op' THEN t ELSE task[o]]
  BY <1>1 DEF _output_request_recovery
<1> QED
  BY <1>1, <1>2
-----------------------------------------------------------------------------
(***************************************************************************)
(* What the steps keep of Inv besides the coordinator's part.              *)
(***************************************************************************)
SlotInv ==
    /\ TypeInv /\ OneRecord /\ ResultIsTasks /\ LinkFollows /\ Observed
    /\ CallbackKnows /\ CurrentPlays /\ CandidateIsSound /\ ValveIsVouchedFor

(***************************************************************************)
(* Steps that touch neither the coordinator nor its operations' tasks.     *)
(***************************************************************************)
LEMMA ErrorKeeps ==
    ASSUME Inv, NEW b \in {current, pending} \ {NoBin}, OnOutputError(b)
    PROVE  SlotInv'
<1> USE DEF Inv
<1>1. TypeInv'
  BY DEF OnOutputError, TypeInv, Places, gst_vars, sc_vars, NoBin
<1>2. OneRecord' /\ ResultIsTasks' /\ LinkFollows' /\ Observed'
  BY DEF OnOutputError, OneRecord, ResultIsTasks, LinkFollows, Observed, gst_vars, sc_vars
<1>3. CallbackKnows'
  BY DEF OnOutputError, CallbackKnows, Invalidating, CandidateIsSound, TypeInv, gst_vars, sc_vars
<1>4. CurrentPlays'
  BY DEF OnOutputError, CurrentPlays, gst_vars, sc_vars
<1>5. CandidateIsSound'
  BY DEF OnOutputError, CandidateIsSound, TypeInv, gst_vars, sc_vars
<1>6. ValveIsVouchedFor'
  BY DEF OnOutputError, ValveIsVouchedFor, gst_vars, sc_vars
<1> QED
  BY <1>1, <1>2, <1>3, <1>4, <1>5, <1>6 DEF SlotInv

LEMMA RetargetKeeps ==
    ASSUME Inv, NEW d \in Devices, Retarget(d)
    PROVE  SlotInv'
<1> USE DEF Inv
<1>1. TypeInv'
  BY DEF Retarget, Invalidated, TypeInv, Places, gst_vars, sc_vars, NoBin
<1>2. OneRecord' /\ ResultIsTasks' /\ LinkFollows' /\ Observed'
  BY DEF Retarget, OneRecord, ResultIsTasks, LinkFollows, Observed, gst_vars, sc_vars
<1>3. CallbackKnows'
  BY DEF Retarget, Invalidated, CallbackKnows, Invalidating, CandidateIsSound, TypeInv, gst_vars,
         sc_vars
<1>4. CurrentPlays'
  BY DEF Retarget, CurrentPlays, gst_vars, sc_vars
<1>5. CandidateIsSound'
  BY DEF Retarget, Invalidated, CandidateIsSound, TypeInv, gst_vars, sc_vars
<1>6. ValveIsVouchedFor'
  BY DEF Retarget, ValveIsVouchedFor, gst_vars, sc_vars
<1> QED
  BY <1>1, <1>2, <1>3, <1>4, <1>5, <1>6 DEF SlotInv

LEMMA CloseKeeps ==
    ASSUME Inv,
           \/ CloseValve("error_close", "error_mark")
           \/ CloseValve("stale_close", "stale_mark")
           \/ CloseValve("retarget_close", "retarget_1")
    PROVE  SlotInv'
<1> USE DEF Inv
<1>0. TypeInv'
  BY DEF CloseValve, TypeInv, Places, sc_vars, slot_vars, env_vars
<1>1. OneRecord' /\ ResultIsTasks' /\ LinkFollows' /\ Observed'
  BY DEF CloseValve, OneRecord, ResultIsTasks, LinkFollows, Observed, sc_vars, slot_vars
<1>2. CallbackKnows'
  BY DEF CloseValve, CallbackKnows, Invalidating, sc_vars, slot_vars
<1>3. CurrentPlays'
  BY DEF CloseValve, CurrentPlays, CallbackKnows, sc_vars, slot_vars, env_vars
<1>4. CandidateIsSound'
  BY DEF CloseValve, CandidateIsSound, CallbackKnows, Invalidating, TypeInv, sc_vars, slot_vars,
         env_vars
<1>5. ValveIsVouchedFor'
  BY DEF CloseValve, ValveIsVouchedFor
<1> QED
  BY <1>0, <1>1, <1>2, <1>3, <1>4, <1>5 DEF SlotInv

(***************************************************************************)
(* A snapshot that has nothing new, or enters the handler; a promotion     *)
(* finds the candidate sound, for its epoch is still the one it was built  *)
(* in.                                                                     *)
(***************************************************************************)
LEMMA SnapshotKeeps ==
    ASSUME Inv, Snapshot
    PROVE  SlotInv'
<1> USE DEF Inv
<1>0. TypeInv'
  <2>1. /\ UNCHANGED <<target, device_of, epoch, retarget_requested, valve_open, last_observed,
                        task, rec, lost_seen>>
        /\ dispatched' = FALSE
        /\ current' \in {current, pending} /\ pending' \in {pending, NoBin}
        /\ pending_validation_epoch' \in {pending_validation_epoch, -1}
        /\ glib' \in Places
    BY DEF Snapshot, Promote, HandlerEntry, Places, sc_vars, gst_vars, env_vars
  <2>2. /\ current' \in Nat /\ current' <= Len(device_of')
        /\ pending' \in Nat /\ pending' <= Len(device_of')
    BY <2>1 DEF TypeInv, NoBin
  <2>3. pending_validation_epoch' \in Int /\ epoch' \in Nat
    BY <2>1 DEF TypeInv
  <2> QED
    BY <2>1, <2>2, <2>3 DEF TypeInv
<1>1. OneRecord' /\ ResultIsTasks' /\ LinkFollows'
  BY DEF Snapshot, Promote, HandlerEntry, OneRecord, ResultIsTasks, LinkFollows, CurrentPlays,
         sc_vars, gst_vars
<1>2. CASE HandlerEntry = "promote" /\ state # last_observed
  <2>1. /\ state = "OK" /\ pending # NoBin /\ pending_validation_epoch = epoch
        /\ current = NoBin
    BY <1>2 DEF HandlerEntry, CurrentPlays
  <2>2. /\ op # 0 /\ task[op].kind = "rebuild" /\ pending \notin lost_seen
        /\ device_of[pending] = target
    BY <2>1 DEF CandidateIsSound
  <2>3. task[op].at = "succeeded" /\ valve_open
    BY <2>1, <2>2, Facts DEF CandidateIsSound, ResultIsTasks, OneRecord
  <2>4. /\ current' = pending /\ pending' = NoBin /\ glib' = "handled" /\ dispatched' = FALSE
        /\ last_observed' = last_observed /\ target' = target
    BY <1>2 DEF Snapshot, Promote
  <2>5. UNCHANGED <<sc_vars, gst_vars, task, env_vars>>
    BY DEF Snapshot
  <2>6. Observed' /\ CallbackKnows' /\ CurrentPlays' /\ CandidateIsSound' /\ ValveIsVouchedFor'
    BY <2>1, <2>2, <2>3, <2>4, <2>5
       DEF Observed, CallbackKnows, Invalidating, CurrentPlays, CandidateIsSound,
           ValveIsVouchedFor, sc_vars, gst_vars, env_vars
  <2> QED
    BY <1>0, <1>1, <2>6 DEF SlotInv
<1>3. CASE ~(HandlerEntry = "promote" /\ state # last_observed)
  <2>1. /\ glib = "snapshot" /\ dispatched' = FALSE
        /\ glib' = IF state = last_observed THEN "idle" ELSE HandlerEntry
        /\ UNCHANGED <<target, current, pending, pending_validation_epoch, epoch, last_observed,
                       sc_vars, gst_vars, task, env_vars>>
    BY <1>3 DEF Snapshot
  <2>2. Observed' /\ CurrentPlays'
    BY <2>1 DEF Observed, CurrentPlays, sc_vars, gst_vars, env_vars
  <2>3. CallbackKnows'
    BY <1>3, <2>1, Facts
       DEF HandlerEntry, CallbackKnows, Invalidating, Observed, CurrentPlays, CandidateIsSound,
           TypeInv, sc_vars
  <2>4. CandidateIsSound'
    BY <2>1 DEF CandidateIsSound, sc_vars, gst_vars, env_vars
  <2>5. ValveIsVouchedFor'
    BY <1>3, <2>1 DEF HandlerEntry, ValveIsVouchedFor, sc_vars, gst_vars
  <2> QED
    BY <1>0, <1>1, <2>2, <2>3, <2>4, <2>5 DEF SlotInv
<1> QED
  BY <1>2, <1>3

LEMMA ReturnsKeeps ==
    ASSUME Inv, HandlerReturns
    PROVE  SlotInv'
<1> USE DEF Inv
<1>1. TypeInv' /\ OneRecord' /\ ResultIsTasks' /\ LinkFollows'
  BY Facts DEF HandlerReturns, TypeInv, Places, OneRecord, ResultIsTasks, LinkFollows, sc_vars, 
         SC!SlotState, gst_vars, env_vars
<1>2. Observed'
  BY DEF HandlerReturns, Observed, CallbackKnows, sc_vars
<1>3. CallbackKnows' /\ CurrentPlays'
  BY DEF HandlerReturns, CallbackKnows, Invalidating, CurrentPlays, Observed, sc_vars, gst_vars,
         env_vars
<1>4. CandidateIsSound' /\ ValveIsVouchedFor'
  BY DEF HandlerReturns, CandidateIsSound, ValveIsVouchedFor, sc_vars, gst_vars, env_vars
<1> QED
  BY <1>1, <1>2, <1>3, <1>4 DEF SlotInv

(***************************************************************************)
(* What the environment and the backoff do is not in the invariant.        *)
(***************************************************************************)
LEMMA OutsideKeeps ==
    ASSUME Inv,
           \/ QuietTick \/ BackoffExpires \/ UNCHANGED vars
           \/ \E d \in Devices : Unplug(d) \/ Plug(d)
    PROVE  SlotInv'
<1>1. UNCHANGED <<sc_vars, target, current, pending, pending_validation_epoch, epoch,
                  retarget_requested, last_observed, dispatched, gst_vars, glib, task, lost_seen>>
  BY DEF QuietTick, BackoffExpires, Unplug, Plug, vars, slot_vars, env_vars
<1> QED
  BY <1>1
     DEF Inv, SlotInv, TypeInv, OneRecord, ResultIsTasks, LinkFollows, Observed, CallbackKnows,
         CurrentPlays, CandidateIsSound, ValveIsVouchedFor, sc_vars, gst_vars
-----------------------------------------------------------------------------
(***************************************************************************)
(* Marking the slot degraded: nothing is left behind an open valve.        *)
(***************************************************************************)
LEMMA MarkKeeps ==
    ASSUME Inv, OnOutputErrorMark \/ HandlerMark \/ RetargetCurrent \/ RetargetMark
    PROVE  SlotInv'
<1> USE DEF Inv
<1>1. /\ UNCHANGED <<op, rec, task, target, current, pending, pending_validation_epoch, epoch,
                     retarget_requested, last_observed, dispatched, gst_vars, lost_seen>>
      /\ state' = IF state = "OK" /\ (glib # "retarget_1" \/ current # NoBin)
                  THEN "DEGRADED" ELSE state
      /\ glib' = CASE glib = "error_mark" -> IF state = "OK" THEN "quiesce" ELSE "idle"
                   [] glib = "stale_mark" -> "discard"
                   [] glib = "redegrade" -> IF retarget_requested THEN "rebuild" ELSE "handled"
                   [] glib = "retarget_1" -> IF state = "OK" /\ current # NoBin
                                             THEN "quiesce" ELSE "retarget_2"
                   [] glib = "retarget_2" -> "retarget_3"
      /\ glib \in {"error_mark", "stale_mark", "redegrade", "retarget_1", "retarget_2"}
  BY DEF OnOutputErrorMark, HandlerMark, RetargetCurrent, RetargetMark, SC!mark_degraded, sc_vars,
         slot_vars, env_vars
<1>2. glib' \in Places
  BY <1>1 DEF Places
<1>3. TypeInv'
  BY <1>1, <1>2 DEF TypeInv, gst_vars
<1>4. OneRecord' /\ ResultIsTasks' /\ LinkFollows'
  BY <1>1 DEF OneRecord, ResultIsTasks, LinkFollows, gst_vars
<1>5. Observed'
  BY <1>1 DEF Observed
<1>6. CallbackKnows'
  BY <1>1, Facts DEF CallbackKnows, Invalidating, CurrentPlays, Observed, TypeInv
<1>7. CurrentPlays'
  BY <1>1 DEF CurrentPlays, CallbackKnows, gst_vars
<1>8. CandidateIsSound'
  BY <1>1 DEF CandidateIsSound, gst_vars
<1>9. ValveIsVouchedFor'
  BY <1>1, Facts
     DEF ValveIsVouchedFor, CallbackKnows, Invalidating, CurrentPlays, CandidateIsSound, OneRecord,
         ResultIsTasks, TypeInv, gst_vars
<1> QED
  BY <1>3, <1>4, <1>5, <1>6, <1>7, <1>8, <1>9 DEF SlotInv

(***************************************************************************)
(* Dispatching a NULL: for the current generation, or for a candidate that *)
(* failed.                                                                 *)
(***************************************************************************)
LEMMA QuiesceKeeps ==
    ASSUME Inv, Quiesce
    PROVE  SlotInv'
<1> USE DEF Inv
<1>1. NullTask(current) \in Tasks /\ state = "DEGRADED"
  BY DEF NullTask, Tasks, TypeInv, CallbackKnows, Quiesce
<1>2. /\ state' = "RECOVERING" /\ last_observed' = "RECOVERING" /\ dispatched' = TRUE
      /\ op' \in Nat /\ op' # 0 /\ DOMAIN rec' = {op'} /\ ~rec'[op'].done
      /\ DOMAIN task' = DOMAIN rec' /\ task' \in [DOMAIN rec' -> Tasks]
      /\ task'[op'].kind = "null" /\ task'[op'].at = "null"
  <2>1. _output_request_recovery(NullTask(current))
    BY DEF Quiesce, _output_quiesce_current_generation
  <2> HIDE DEF Inv
  <2>2. /\ state' = "RECOVERING" /\ last_observed' = "RECOVERING" /\ dispatched' = TRUE
        /\ op' \in Nat /\ op' # 0 /\ DOMAIN rec' = {op'} /\ ~rec'[op'].done
        /\ DOMAIN task' = DOMAIN rec' /\ task' \in [DOMAIN rec' -> Tasks]
        /\ task'[op'] = NullTask(current)
    BY <1>1, <2>1, Requested
  <2> QED
    BY <2>2 DEF NullTask
<1>3. /\ linked' = IF linked = current THEN NoBin ELSE linked
      /\ current' = NoBin /\ glib = "quiesce" /\ glib' = "idle"
      /\ UNCHANGED <<target, pending, pending_validation_epoch, epoch, retarget_requested,
                     valve_open, device_of, lost_seen>>
  BY DEF Quiesce, _output_quiesce_current_generation, Detach, env_vars
<1>4. TypeInv'
  BY <1>2, <1>3 DEF TypeInv, Places, NoBin, SC!SlotState
<1>5. OneRecord' /\ ResultIsTasks' /\ Observed'
  BY <1>2, <1>3 DEF OneRecord, ResultIsTasks, Observed
<1>6. LinkFollows'
  BY <1>3 DEF LinkFollows, CurrentPlays
<1>7. CallbackKnows' /\ CurrentPlays'
  BY <1>2, <1>3 DEF CallbackKnows, CurrentPlays, Invalidating
<1>8. CandidateIsSound'
  BY <1>2, <1>3 DEF CandidateIsSound, CallbackKnows, Invalidating, TypeInv
<1>9. ValveIsVouchedFor'
  BY <1>1, <1>3 DEF ValveIsVouchedFor
<1> QED
  BY <1>4, <1>5, <1>6, <1>7, <1>8, <1>9 DEF SlotInv

LEMMA DiscardKeeps ==
    ASSUME Inv, HandlerDiscard
    PROVE  SlotInv'
<1> USE DEF Inv
<1>1. /\ linked' = NoBin /\ pending' = NoBin /\ pending_validation_epoch' = -1
      /\ glib' = "handled" /\ current = NoBin
      /\ UNCHANGED <<target, current, epoch, retarget_requested, valve_open, device_of, lost_seen>>
  BY DEF HandlerDiscard, _output_discard_pending_bin, Detach, env_vars, LinkFollows, CallbackKnows
<1>2. CASE glib = "discard"
  <2>1. NullTask(pending) \in Tasks /\ state = "DEGRADED"
    BY <1>2 DEF NullTask, Tasks, TypeInv, CallbackKnows
  <2>2. _output_request_recovery(NullTask(pending))
    BY <1>2 DEF HandlerDiscard, _output_discard_pending_bin
  <2>3. /\ state' = "RECOVERING" /\ last_observed' = "RECOVERING" /\ dispatched' = TRUE
        /\ op' \in Nat /\ op' # 0 /\ DOMAIN rec' = {op'} /\ ~rec'[op'].done
        /\ DOMAIN task' = DOMAIN rec' /\ task' \in [DOMAIN rec' -> Tasks]
        /\ task'[op'].kind = "null" /\ task'[op'].at = "null"
    <3> HIDE DEF Inv
    <3>1. /\ state' = "RECOVERING" /\ last_observed' = "RECOVERING" /\ dispatched' = TRUE
          /\ op' \in Nat /\ op' # 0 /\ DOMAIN rec' = {op'} /\ ~rec'[op'].done
          /\ DOMAIN task' = DOMAIN rec' /\ task' \in [DOMAIN rec' -> Tasks]
          /\ task'[op'] = NullTask(pending)
      BY <2>1, <2>2, Requested
    <3> QED
      BY <3>1 DEF NullTask
  <2>4. TypeInv'
    BY <1>1, <2>3 DEF TypeInv, Places, NoBin, SC!SlotState
  <2>5. OneRecord' /\ ResultIsTasks' /\ Observed' /\ LinkFollows'
    BY <1>1, <2>3 DEF OneRecord, ResultIsTasks, Observed, LinkFollows
  <2>6. CallbackKnows' /\ CurrentPlays' /\ CandidateIsSound'
    BY <1>1, <2>3 DEF CallbackKnows, CurrentPlays, Invalidating, CandidateIsSound
  <2>7. ValveIsVouchedFor'
    BY <1>1, <2>1 DEF ValveIsVouchedFor
  <2> QED
    BY <2>4, <2>5, <2>6, <2>7 DEF SlotInv
<1>3. CASE glib = "discard_abandoned"
  <2>1. state = "RESTART_REQUIRED"
    BY <1>3 DEF CallbackKnows
  <2>2. UNCHANGED <<sc_vars, last_observed, dispatched, task>>
    BY <1>3 DEF HandlerDiscard, _output_discard_pending_bin
  <2>4. TypeInv'
    BY <1>1, <2>2 DEF TypeInv, Places, NoBin, sc_vars
  <2>5. OneRecord' /\ ResultIsTasks' /\ Observed' /\ LinkFollows'
    BY <1>1, <2>2 DEF OneRecord, ResultIsTasks, Observed, LinkFollows, sc_vars
  <2>6. CallbackKnows' /\ CurrentPlays' /\ CandidateIsSound' /\ ValveIsVouchedFor'
    BY <1>1, <2>1, <2>2
       DEF CallbackKnows, CurrentPlays, Invalidating, CandidateIsSound, ValveIsVouchedFor, sc_vars
  <2> QED
    BY <2>4, <2>5, <2>6 DEF SlotInv
<1> QED
  BY <1>2, <1>3 DEF HandlerDiscard

(***************************************************************************)
(* Building a candidate: on a slot that is degraded and has nothing linked *)
(* it becomes the pending one, and otherwise it is forgotten.              *)
(***************************************************************************)
Rebuilt ==
    /\ TypeInv' /\ OneRecord' /\ ResultIsTasks' /\ LinkFollows' /\ Observed'
    /\ CurrentPlays' /\ CandidateIsSound' /\ ValveIsVouchedFor'

LEMMA BuildKeeps ==
    ASSUME Inv, state = "DEGRADED", current = NoBin, _output_dispatch_rebuild, glib' \in Places,
           glib' \notin Invalidating, retarget_requested' \in BOOLEAN
    PROVE  /\ Rebuilt
           /\ linked # NoBin => UNCHANGED <<state, current, pending, dispatched>>
           /\ linked = NoBin => dispatched' /\ state' = "RECOVERING"
<1> USE DEF Inv
<1> DEFINE b == Len(device_of) + 1
<1>1. /\ device_of' = Append(device_of, target)
      /\ UNCHANGED <<target, current, epoch, valve_open, lost_seen>>
  BY DEF _output_dispatch_rebuild
<1>2. /\ device_of' \in Seq(Devices) /\ Len(device_of') = b /\ b \in Nat /\ b # NoBin
      /\ device_of'[b] = target
      /\ \A i \in 1 .. Len(device_of) : device_of'[i] = device_of[i]
  BY <1>1 DEF TypeInv, NoBin
<1>3. /\ current \in 0 .. Len(device_of) /\ pending \in 0 .. Len(device_of)
      /\ lost_seen \subseteq 1 .. Len(device_of) /\ Len(device_of) \in Nat
  BY DEF TypeInv
<1>4. ~valve_open
  BY DEF ValveIsVouchedFor
<1>5. CASE linked # NoBin
  <2>1. UNCHANGED <<sc_vars, linked, pending, pending_validation_epoch, last_observed,
                    dispatched, task>>
    BY <1>5 DEF _output_dispatch_rebuild
  <2>2. TypeInv'
    BY <1>1, <1>2, <1>3, <2>1 DEF TypeInv, sc_vars
  <2>3. OneRecord' /\ ResultIsTasks' /\ LinkFollows' /\ Observed'
    BY <1>1, <2>1 DEF OneRecord, ResultIsTasks, LinkFollows, Observed, sc_vars
  <2>4. CurrentPlays' /\ ValveIsVouchedFor'
    BY <1>1, <1>4, <2>1 DEF CurrentPlays, ValveIsVouchedFor
  <2>5. CandidateIsSound'
    BY <1>1, <1>2, <1>3, <2>1 DEF CandidateIsSound, sc_vars, NoBin
  <2> QED
    BY <1>1, <1>5, <2>1, <2>2, <2>3, <2>4, <2>5 DEF Rebuilt, sc_vars
<1>6. CASE linked = NoBin
  <2>1. /\ linked' = b /\ pending' = b /\ pending_validation_epoch' = epoch
        /\ _output_request_recovery(RebuildTask(b))
    BY <1>6 DEF _output_dispatch_rebuild
  <2>2. RebuildTask(b) \in Tasks
    BY <1>2 DEF RebuildTask, Tasks, TypeInv
  <2>3. /\ state' = "RECOVERING" /\ last_observed' = "RECOVERING" /\ dispatched' = TRUE
        /\ op' \in Nat /\ op' # 0 /\ DOMAIN rec' = {op'} /\ ~rec'[op'].done
        /\ DOMAIN task' = DOMAIN rec' /\ task' \in [DOMAIN rec' -> Tasks]
        /\ task'[op'].kind = "rebuild" /\ task'[op'].at = "sync"
        /\ task'[op'].bin = b /\ task'[op'].epoch = epoch
    <3> HIDE DEF Inv
    <3>1. /\ state' = "RECOVERING" /\ last_observed' = "RECOVERING" /\ dispatched' = TRUE
          /\ op' \in Nat /\ op' # 0 /\ DOMAIN rec' = {op'} /\ ~rec'[op'].done
          /\ DOMAIN task' = DOMAIN rec' /\ task' \in [DOMAIN rec' -> Tasks]
          /\ task'[op'] = RebuildTask(b)
      BY <2>1, <2>2, Requested
    <3> QED
      BY <3>1 DEF RebuildTask
  <2>4. TypeInv'
    BY <1>1, <1>2, <1>3, <2>1, <2>3 DEF TypeInv, SC!SlotState
  <2>5. OneRecord' /\ ResultIsTasks' /\ LinkFollows' /\ Observed'
    BY <1>1, <1>2, <2>1, <2>3 DEF OneRecord, ResultIsTasks, LinkFollows, Observed
  <2>6. CurrentPlays' /\ ValveIsVouchedFor'
    BY <1>1, <1>4 DEF CurrentPlays, ValveIsVouchedFor
  <2>7. CandidateIsSound'
    BY <1>1, <1>2, <1>3, <2>1, <2>3 DEF CandidateIsSound, TypeInv
  <2> QED
    BY <1>6, <2>3, <2>4, <2>5, <2>6, <2>7 DEF Rebuilt
<1> QED
  BY <1>5, <1>6

LEMMA RebuildKeeps ==
    ASSUME Inv, HandlerRebuild \/ RetargetRebuild \/ _output_presence_probe_tick
    PROVE  SlotInv'
<1> USE DEF Inv
<1>1. CASE HandlerRebuild
  <2>1. /\ state = "DEGRADED" /\ current = NoBin /\ pending = NoBin /\ linked = NoBin
        /\ _output_dispatch_rebuild /\ glib' = "handled" /\ retarget_requested' = FALSE
    BY <1>1 DEF HandlerRebuild, CallbackKnows, LinkFollows
  <2>2. Rebuilt /\ dispatched'
    BY <2>1, BuildKeeps DEF Places, Invalidating
  <2>3. CallbackKnows'
    BY <2>1, <2>2 DEF CallbackKnows, Invalidating
  <2> QED
    BY <2>2, <2>3 DEF SlotInv, Rebuilt
<1>2. CASE RetargetRebuild /\ state = "DEGRADED" /\ pending = NoBin
  <2>1. /\ current = NoBin /\ linked = NoBin
        /\ _output_dispatch_rebuild /\ glib' = "idle" /\ retarget_requested' = FALSE
    BY <1>2 DEF RetargetRebuild, CallbackKnows, LinkFollows
  <2>2. Rebuilt
    BY <1>2, <2>1, BuildKeeps DEF Places, Invalidating
  <2>3. CallbackKnows'
    BY <2>1 DEF CallbackKnows, Invalidating
  <2> QED
    BY <2>2, <2>3 DEF SlotInv, Rebuilt
<1>3. CASE RetargetRebuild /\ ~(state = "DEGRADED" /\ pending = NoBin)
  <2>1. /\ glib = "retarget_3" /\ glib' = "idle"
        /\ UNCHANGED <<sc_vars, target, current, pending, pending_validation_epoch, epoch,
                       retarget_requested, last_observed, dispatched, gst_vars, task, lost_seen>>
    BY <1>3 DEF RetargetRebuild, env_vars
  <2>2. TypeInv' /\ OneRecord' /\ ResultIsTasks' /\ LinkFollows' /\ Observed'
    BY <2>1 DEF TypeInv, Places, OneRecord, ResultIsTasks, LinkFollows, Observed, sc_vars, gst_vars
  <2>3. CallbackKnows' /\ CurrentPlays' /\ CandidateIsSound' /\ ValveIsVouchedFor'
    BY <2>1
       DEF CallbackKnows, Invalidating, CurrentPlays, CandidateIsSound, ValveIsVouchedFor, sc_vars,
           gst_vars
  <2> QED
    BY <2>2, <2>3 DEF SlotInv
<1>4. CASE _output_presence_probe_tick
  <2>1. /\ state = "DEGRADED" /\ glib = "idle" /\ glib' = "idle"
        /\ retarget_requested' = retarget_requested /\ _output_dispatch_rebuild
    BY <1>4 DEF _output_presence_probe_tick, ProbeMayRebuild
  <2>2. current = NoBin
    BY <2>1 DEF CurrentPlays
  <2>3. Rebuilt
    BY <2>1, <2>2, BuildKeeps DEF Places, Invalidating, TypeInv
  <2>4. CallbackKnows'
    BY <2>1 DEF CallbackKnows, Invalidating
  <2> QED
    BY <2>3, <2>4 DEF SlotInv, Rebuilt
<1> QED
  BY <1>1, <1>2, <1>3, <1>4
-----------------------------------------------------------------------------
(***************************************************************************)
(* The timeout, and a poll that finds none.                                *)
(***************************************************************************)
LEMMA TickKeeps ==
    ASSUME Inv, RecoveryTick
    PROVE  SlotInv'
<1> USE DEF Inv
<1>1. /\ glib = "idle" /\ glib' = "snapshot"
      /\ UNCHANGED <<target, current, pending, pending_validation_epoch, epoch, retarget_requested,
                     last_observed, dispatched, gst_vars, task, lost_seen>>
  BY DEF RecoveryTick, slot_vars, env_vars
<1>2. CASE SC!tick
  <2>1. /\ state = "RECOVERING" /\ state' = "RESTART_REQUIRED"
        /\ op # 0 /\ op' = op /\ DOMAIN rec' = DOMAIN rec /\ ~rec'[op].done
    BY <1>2, Ticked
  <2>2. TypeInv' /\ OneRecord' /\ ResultIsTasks' /\ LinkFollows' /\ Observed'
    BY <1>1, <2>1
       DEF TypeInv, Places, OneRecord, ResultIsTasks, LinkFollows, Observed, gst_vars
  <2>3. CallbackKnows' /\ CurrentPlays' /\ CandidateIsSound' /\ ValveIsVouchedFor'
    BY <1>1, <2>1
       DEF CallbackKnows, Invalidating, CurrentPlays, CandidateIsSound, ValveIsVouchedFor, gst_vars
  <2> QED
    BY <2>2, <2>3 DEF SlotInv
<1>3. CASE UNCHANGED sc_vars
  <2>1. TypeInv' /\ OneRecord' /\ ResultIsTasks' /\ LinkFollows' /\ Observed'
    BY <1>1, <1>3
       DEF TypeInv, Places, OneRecord, ResultIsTasks, LinkFollows, Observed, gst_vars, sc_vars
  <2>2. CallbackKnows' /\ CurrentPlays' /\ CandidateIsSound' /\ ValveIsVouchedFor'
    BY <1>1, <1>3
       DEF CallbackKnows, Invalidating, CurrentPlays, CandidateIsSound, ValveIsVouchedFor, gst_vars,
           sc_vars
  <2> QED
    BY <2>1, <2>2 DEF SlotInv
<1> QED
  BY <1>2, <1>3 DEF RecoveryTick

(***************************************************************************)
(* A rebuild worker that runs is the one of the operation, and its slot is *)
(* recovering or was given up.                                             *)
(***************************************************************************)
LEMMA Runs ==
    ASSUME Inv, NEW o \in DOMAIN rec, NEW place, At(o, place), place # "null"
    PROVE  /\ o = op /\ op # 0 /\ task[op].at = place /\ task[op].kind = "rebuild"
           /\ task[op] \in Tasks
           /\ DOMAIN rec = {op} /\ ~rec[op].done
           /\ state \in {"RECOVERING", "RESTART_REQUIRED"} /\ current = NoBin
<1>1. o = op /\ op # 0 /\ DOMAIN rec = {op} /\ ~rec[op].done /\ task[op].at = place
  BY Facts DEF Inv, OneRecord, At
<1>2. task[op].kind = "rebuild" /\ task[op] \in Tasks
  BY <1>1 DEF Inv, ResultIsTasks, TypeInv, Tasks
<1>3. state \in {"RECOVERING", "RESTART_REQUIRED"}
  BY <1>1, Facts DEF Inv, OneRecord
<1> QED
  BY <1>1, <1>2, <1>3 DEF Inv, CurrentPlays

(***************************************************************************)
(* A worker moves on within its task.  It may open the valve for the       *)
(* candidate, and it has shut it when it fails.                            *)
(***************************************************************************)
LEMMA MoveKeeps ==
    ASSUME Inv, NEW o \in DOMAIN rec,
           NEW place \in {"open", "verify", "gate", "close", "succeeded", "failed"},
           \E from \in {"sync", "open", "verify", "gate", "close"} : At(o, from),
           Moves(o, place), valve_open' \in BOOLEAN,
           UNCHANGED <<sc_vars, slot_vars, linked, in_pipeline, device_of, glib, lost_seen>>,
           place \in {"open", "failed"} =>
               ~valve_open' \/ (state = "RESTART_REQUIRED" /\ pending = NoBin),
           place = "verify" => valve_open',
           place \in {"gate", "close", "succeeded"} =>
               valve_open' = valve_open /\ task[o].at \in {"verify", "gate"},
           place = "succeeded" => epoch = task[o].epoch
    PROVE  SlotInv'
<1> USE DEF Inv
<1>1. /\ o = op /\ op # 0 /\ task[op].kind = "rebuild" /\ task[op] \in Tasks
      /\ DOMAIN rec = {op} /\ ~rec[op].done
      /\ state \in {"RECOVERING", "RESTART_REQUIRED"} /\ current = NoBin
  BY Runs
<1>2. /\ DOMAIN task' = DOMAIN rec' /\ task' \in [DOMAIN rec' -> Tasks]
      /\ task'[op].kind = "rebuild" /\ task'[op].at = place
      /\ task'[op].bin = task[op].bin /\ task'[op].epoch = task[op].epoch
  <2>1. task' = [task EXCEPT ![op].at = place] /\ rec' = rec
    BY <1>1 DEF Moves, sc_vars
  <2>2. DOMAIN task = {op} /\ task \in [DOMAIN rec -> Tasks]
    BY <1>1 DEF TypeInv
  <2> QED
    BY <1>1, <2>1, <2>2 DEF Tasks
<1>3. TypeInv'
  BY <1>2 DEF TypeInv, sc_vars, slot_vars
<1>4. OneRecord' /\ ResultIsTasks' /\ LinkFollows' /\ Observed' /\ CallbackKnows' /\ CurrentPlays'
  BY <1>1, <1>2
     DEF OneRecord, ResultIsTasks, LinkFollows, Observed, CallbackKnows, CurrentPlays, sc_vars,
         slot_vars
<1>5. CandidateIsSound'
  BY <1>1, <1>2 DEF CandidateIsSound, sc_vars, slot_vars
<1>6. ValveIsVouchedFor'
  BY <1>1, <1>2 DEF ValveIsVouchedFor, CandidateIsSound, sc_vars, slot_vars
<1> QED
  BY <1>3, <1>4, <1>5, <1>6 DEF SlotInv

LEMMA WorkerMovesKeep ==
    ASSUME Inv, NEW o \in DOMAIN rec,
           WorkerSync(o) \/ WorkerOpens(o) \/ WorkerVerifies(o) \/ WorkerGate(o) \/ WorkerCloses(o)
    PROVE  SlotInv'
<1>1. valve_open \in BOOLEAN
  BY DEF Inv, TypeInv
<1>2. CASE WorkerSync(o)
  <2>1. /\ At(o, "sync") /\ (Moves(o, "open") \/ Moves(o, "failed"))
        /\ UNCHANGED <<sc_vars, slot_vars, valve_open, linked, in_pipeline, device_of, glib,
                       lost_seen>>
    BY <1>2 DEF WorkerSync, gst_vars
  <2>2. ~valve_open \/ (state = "RESTART_REQUIRED" /\ pending = NoBin)
    BY <2>1, Runs DEF Inv, ValveIsVouchedFor
  <2> QED
    BY <1>1, <2>1, <2>2, MoveKeeps
<1>3. CASE WorkerOpens(o)
  <2>1. /\ At(o, "open") /\ Moves(o, "verify") /\ valve_open' = TRUE
        /\ UNCHANGED <<sc_vars, slot_vars, linked, in_pipeline, device_of, glib, lost_seen>>
    BY <1>3 DEF WorkerOpens, env_vars
  <2> QED
    BY <2>1, MoveKeeps
<1>4. CASE WorkerVerifies(o)
  <2>1. /\ At(o, "verify") /\ (Moves(o, "gate") \/ Moves(o, "close"))
        /\ UNCHANGED <<sc_vars, slot_vars, valve_open, linked, in_pipeline, device_of, glib,
                       lost_seen>>
    BY <1>4 DEF WorkerVerifies, gst_vars
  <2>2. task[o].at = "verify"
    BY <2>1 DEF At
  <2> QED
    BY <1>1, <2>1, <2>2, MoveKeeps
<1>5. CASE WorkerGate(o)
  <2>1. /\ At(o, "gate")
        /\ Moves(o, "close") \/ (Moves(o, "succeeded") /\ epoch = task[o].epoch)
        /\ UNCHANGED <<sc_vars, slot_vars, valve_open, linked, in_pipeline, device_of, glib,
                       lost_seen>>
    BY <1>5 DEF WorkerGate, gst_vars, env_vars
  <2>2. task[o].at = "gate"
    BY <2>1 DEF At
  <2> QED
    BY <1>1, <2>1, <2>2, MoveKeeps
<1>6. CASE WorkerCloses(o)
  <2>1. /\ At(o, "close") /\ Moves(o, "failed") /\ valve_open' = FALSE
        /\ UNCHANGED <<sc_vars, slot_vars, linked, in_pipeline, device_of, glib, lost_seen>>
    BY <1>6 DEF WorkerCloses, env_vars
  <2> QED
    BY <2>1, MoveKeeps
<1> QED
  BY <1>2, <1>3, <1>4, <1>5, <1>6

(***************************************************************************)
(* A worker returns what its task came to.                                 *)
(***************************************************************************)
LEMMA WorkerReturnsKeeps ==
    ASSUME Inv, NEW o \in DOMAIN rec, WorkerReturns(o)
    PROVE  SlotInv'
<1>1. PICK ok \in BOOLEAN :
         /\ SC!WorkerReturns(o, ok)
         /\ task[o].at \in {"null", "succeeded", "failed"}
         /\ task[o].at = "succeeded" => ok
         /\ task[o].at = "failed" => ~ok
  BY DEF WorkerReturns, At
<1>2. /\ o = op /\ op # 0 /\ op' = op /\ state' = state /\ DOMAIN rec' = DOMAIN rec
      /\ state \in {"RECOVERING", "RESTART_REQUIRED"}
      /\ rec'[op].done => rec'[op].succeeded = ok
  BY <1>1, Returned DEF Inv
<1>3. /\ task' = task
      /\ UNCHANGED <<target, current, pending, pending_validation_epoch, epoch, retarget_requested,
                     last_observed, dispatched, gst_vars, glib, lost_seen>>
  BY <1>2 DEF Inv, TypeInv, WorkerReturns, slot_vars, env_vars
<1>4. TypeInv' /\ OneRecord' /\ LinkFollows' /\ Observed'
  BY <1>2, <1>3 DEF Inv, TypeInv, OneRecord, LinkFollows, Observed, gst_vars
<1>5. ResultIsTasks'
  BY <1>1, <1>2, <1>3 DEF Inv, ResultIsTasks
<1>6. CallbackKnows' /\ CurrentPlays' /\ CandidateIsSound' /\ ValveIsVouchedFor'
  BY <1>2, <1>3 DEF Inv, CallbackKnows, CurrentPlays, CandidateIsSound, ValveIsVouchedFor, gst_vars
<1> QED
  BY <1>4, <1>5, <1>6 DEF SlotInv

(***************************************************************************)
(* Applying a result: the state that the tick has not observed yet.        *)
(***************************************************************************)
LEMMA WorkerResolvedKeeps ==
    ASSUME Inv, NEW o \in DOMAIN rec, WorkerResolved(o)
    PROVE  SlotInv'
<1>1. /\ o = op /\ op # 0 /\ op' = op /\ DOMAIN rec' = DOMAIN rec
      /\ state = "RECOVERING"
      /\ state' = IF rec[op].succeeded THEN "OK" ELSE "DEGRADED"
      /\ rec[op].done /\ rec'[op].done /\ rec'[op].thread = "ended"
      /\ rec'[op].succeeded = rec[op].succeeded
  BY Resolved DEF Inv, WorkerResolved
<1>2. /\ task' = task
      /\ UNCHANGED <<target, current, pending, pending_validation_epoch, epoch, retarget_requested,
                     last_observed, dispatched, gst_vars, glib, lost_seen>>
  BY <1>1 DEF Inv, TypeInv, WorkerResolved, slot_vars, env_vars
<1>3. TypeInv' /\ OneRecord' /\ LinkFollows' /\ Observed'
  BY <1>1, <1>2 DEF Inv, TypeInv, OneRecord, LinkFollows, Observed, gst_vars
<1>4. ResultIsTasks'
  BY <1>1, <1>2 DEF Inv, ResultIsTasks
<1>5. CallbackKnows' /\ CurrentPlays' /\ CandidateIsSound'
  BY <1>1, <1>2 DEF Inv, CallbackKnows, CurrentPlays, CandidateIsSound, gst_vars
<1>6. ValveIsVouchedFor'
  BY <1>1, <1>2 DEF Inv, ValveIsVouchedFor, CurrentPlays, ResultIsTasks, gst_vars
<1> QED
  BY <1>3, <1>4, <1>5, <1>6 DEF SlotInv
-----------------------------------------------------------------------------
(***************************************************************************)
(* Cold start: the first generation plays.                                 *)
(***************************************************************************)
LEMMA InitInv == Init => Inv
<1> SUFFICES ASSUME Init PROVE Inv
  OBVIOUS
<1>1. SCP!IInv
  BY SCP!InitIInv, SlotAssumption DEF Init, SC!Init, SCP!Init
<1>2. op = 0 /\ state = "OK" /\ DOMAIN rec = {} /\ DOMAIN task = {}
  BY DEF Init, SC!Init
<1>3. device_of \in Seq(Devices) /\ Len(device_of) = 1 /\ device_of[1] = target
  BY DEF Init
<1>t. DOMAIN task = DOMAIN rec /\ task \in [DOMAIN rec -> Tasks]
  <2>1. task \in Seq(Tasks) /\ Len(task) = 0
    BY DEF Init
  <2>2. task \in [1 .. Len(task) -> Tasks]
    BY <2>1
  <2> QED
    BY <1>2, <2>1, <2>2
<1>4. TypeInv
  <2>1. /\ target \in Devices /\ current = 1 /\ pending = 0 /\ pending_validation_epoch = -1
        /\ epoch = 0 /\ retarget_requested = FALSE /\ dispatched = FALSE /\ valve_open = TRUE
        /\ last_observed = "OK" /\ glib = "idle" /\ lost_seen = {}
    BY DEF Init, NoBin
  <2>2. pending_validation_epoch \in Int /\ epoch \in Nat
    BY <2>1
  <2>3. /\ current \in Nat /\ current <= Len(device_of)
        /\ pending \in Nat /\ pending <= Len(device_of)
    BY <1>3, <2>1
  <2>4. retarget_requested \in BOOLEAN /\ dispatched \in BOOLEAN /\ valve_open \in BOOLEAN
    BY <2>1
  <2>5. last_observed \in SC!SlotState /\ glib \in Places
    BY <2>1 DEF SC!SlotState, Places
  <2> QED
    BY <1>3, <1>t, <2>1, <2>2, <2>3, <2>4, <2>5 DEF TypeInv
<1>5. OneRecord /\ ResultIsTasks /\ LinkFollows /\ Observed /\ CallbackKnows /\ CurrentPlays
  BY <1>2, <1>3
     DEF Init, OneRecord, ResultIsTasks, LinkFollows, Observed, CallbackKnows, Invalidating,
         CurrentPlays, NoBin
<1>6. CandidateIsSound /\ ValveIsVouchedFor
  BY <1>2 DEF Init, CandidateIsSound, ValveIsVouchedFor, NoBin
<1> QED
  BY <1>1, <1>4, <1>5, <1>6 DEF Inv

(***************************************************************************)
(* Every step keeps the invariant.                                         *)
(***************************************************************************)
LEMMA NextInv == Inv /\ [Next]_vars => Inv'
<1> SUFFICES ASSUME Inv, [Next]_vars PROVE SlotInv'
  BY CoordinatorKeeps DEF Inv, SlotInv
<1>1. CASE \E b \in {current, pending} \ {NoBin} : OnOutputError(b)
  BY <1>1, ErrorKeeps
<1>2. CASE RecoveryTick
  BY <1>2, TickKeeps
<1>3. CASE \E d \in Devices : Retarget(d)
  BY <1>3, RetargetKeeps
<1>4. CASE \/ QuietTick \/ BackoffExpires \/ UNCHANGED vars
           \/ \E d \in Devices : Unplug(d) \/ Plug(d)
  BY <1>4, OutsideKeeps
<1>5. CASE Callback \/ _output_presence_probe_tick
  BY <1>5, CloseKeeps, MarkKeeps, QuiesceKeeps, SnapshotKeeps, DiscardKeeps, RebuildKeeps,
     ReturnsKeeps DEF Callback
<1>6. CASE \E o \in DOMAIN rec : Worker(o)
  BY <1>6, WorkerMovesKeep, WorkerReturnsKeeps, WorkerResolvedKeeps DEF Worker
<1> QED
  BY <1>1, <1>2, <1>3, <1>4, <1>5, <1>6 DEF Next

(***************************************************************************)
(* Whatever is unplugged, fails, hangs or is retargeted while it recovers: *)
(* a slot that reports OK plays through a generation that no error was     *)
(* handled for, behind an open valve.                                      *)
(***************************************************************************)
THEOREM OkMeansPlaying == Spec => []SettledPlays
<1>1. Inv => SettledPlays
  BY DEF Inv, SettledPlays, Settled, Observed, CurrentPlays, LinkFollows
<1> QED
  BY <1>1, InitInv, NextInv, PTL DEF Spec

(***************************************************************************)
(* And on the device that is configured now.                               *)
(***************************************************************************)
THEOREM OkMeansOnTarget == Spec => []SettledOnTarget
<1>1. Inv => SettledOnTarget
  BY DEF Inv, SettledOnTarget, Settled, Observed, CurrentPlays
<1> QED
  BY <1>1, InitInv, NextInv, PTL DEF Spec

(***************************************************************************)
(* The tick never misses the end of an operation, however fast the worker  *)
(* was and whatever it was nested in.                                      *)
(***************************************************************************)
THEOREM NoCompletionIsMissed == Spec => []CompletionNeverLost
<1>1. Inv => CompletionNeverLost
  BY DEF Inv, CompletionNeverLost, Observed
<1> QED
  BY <1>1, InitInv, NextInv, PTL DEF Spec

(***************************************************************************)
(* Audio flows only into a healthy generation or into the candidate of the *)
(* current operation, even when a thread that was given up opens the valve.*)
(***************************************************************************)
THEOREM NoUnverifiedFlow == Spec => []FlowIsVouchedFor
<1>1. Inv => FlowIsVouchedFor
  <2> SUFFICES ASSUME Inv, valve_open, linked # NoBin, linked # current
               PROVE  /\ linked = pending
                      /\ \E o \in DOMAIN task :
                            /\ task[o].kind = "rebuild" /\ task[o].bin = linked
                            /\ task[o].at \in {"verify", "gate", "close", "succeeded"}
    BY DEF FlowIsVouchedFor
  <2>1. linked = pending /\ pending # NoBin /\ current = NoBin
    BY DEF Inv, LinkFollows
  <2>2. /\ op # 0 /\ task[op].kind = "rebuild" /\ task[op].bin = linked
        /\ task[op].at \in {"verify", "gate", "close", "succeeded"}
    BY <2>1 DEF Inv, ValveIsVouchedFor, CandidateIsSound
  <2>3. op \in DOMAIN task
    BY <2>2, Facts DEF Inv, TypeInv
  <2> QED
    BY <2>1, <2>2, <2>3
<1> QED
  BY <1>1, InitInv, NextInv, PTL DEF Spec

(***************************************************************************)
(* An output drives its coordinator only through the coordinator's own     *)
(* calls, as SlotCoordinator specifies them, in whatever order the bus, the*)
(* timers, the operator and the workers come: the output's specification   *)
(* implements the coordinator's, without its fairness.                     *)
(***************************************************************************)
THEOREM OutputDrivesCoordinator == Spec => SC!Init /\ [][SC!Next]_sc_vars
<1>1. Init => SC!Init
  BY DEF Init
<1>2. [Next]_vars => [SC!Next]_sc_vars
  BY CoordinatorSteps, SameStep DEF SCP!vars, sc_vars
<1> QED
  BY <1>1, <1>2, PTL DEF Spec
-----------------------------------------------------------------------------
(***************************************************************************)
(* The microphone.  It has no valve, no epoch and no target, so its        *)
(* invariant needs nothing of the tasks its workers run.                   *)
(*                                                                         *)
(* The queue is linked to the current generation, or else to the candidate.*)
(***************************************************************************)
MicLinkFollows == linked = IF hw # NoBin THEN hw ELSE pending

(***************************************************************************)
(* What the tick has yet to observe is still to be observed.               *)
(***************************************************************************)
MicObserved ==
    /\ dispatched => last_observed = "RECOVERING"
    /\ state = "RECOVERING" => last_observed = "RECOVERING"
    /\ pending # NoBin => last_observed = "RECOVERING"
    /\ state = "OK" /\ hw = NoBin => last_observed = "RECOVERING"

(***************************************************************************)
(* What a callback knows at each of its places.                            *)
(***************************************************************************)
MicCallbackKnows ==
    /\ glib \in {"quiesce", "discard"} => state = "DEGRADED"
    /\ glib = "redegrade" => state = "OK" /\ pending = NoBin
    /\ glib = "discard_abandoned" => state = "RESTART_REQUIRED"
    /\ glib \in {"discard", "discard_abandoned"} => pending # NoBin
    /\ glib \in {"redegrade", "discard", "discard_abandoned"} => hw = NoBin
    /\ glib = "handled" /\ ~dispatched =>
          /\ pending = NoBin
          /\ state # "RECOVERING"
          /\ state = "OK" => hw # NoBin

(***************************************************************************)
(* A current generation is healthy, unless a callback is about to retire   *)
(* it, and mic_ok is set exactly while it is.                              *)
(***************************************************************************)
MicCurrentIsOk ==
    /\ hw # NoBin =>
          /\ pending = NoBin
          /\ state = "OK" \/ (state = "DEGRADED" /\ glib = "quiesce")
          /\ last_observed = "OK" \/ (glib = "handled" /\ ~dispatched)
    /\ mic_ok <=> hw # NoBin /\ state = "OK"

MicSlotInv == OneRecord /\ MicLinkFollows /\ MicObserved /\ MicCallbackKnows /\ MicCurrentIsOk

MicInv == SCP!IInv /\ MicSlotInv

(***************************************************************************)
(* Every step of the microphone is one of its coordinator, or leaves it    *)
(* alone.                                                                  *)
(***************************************************************************)
LEMMA MicCoordinatorSteps == [MicNext]_mic_vars => [SCP!Next]_(SCP!vars)
<1> SUFFICES ASSUME [MicNext]_mic_vars PROVE SCP!Next \/ UNCHANGED sc_vars
  BY DEF SCP!vars, sc_vars
<1>1. CASE UNCHANGED mic_vars
  BY <1>1 DEF mic_vars
<1>2. CASE \E b \in in_bin : OnMicError(b)
  BY <1>2, MarkIsStep DEF OnMicError
<1>3. CASE MicRecoveryTick
  BY <1>3, TickIsStep DEF MicRecoveryTick
<1>4. CASE \/ MicQuietTick \/ MicBackoffExpires \/ MicUnplug \/ MicPlug \/ BuffersStop
           \/ \E active \in BOOLEAN : SetMicPtt(active)
  BY <1>4 DEF MicQuietTick, MicBackoffExpires, MicUnplug, MicPlug, BuffersStop,
              SetMicPtt, mic_vars
<1>5. CASE _mic_presence_probe_tick
  BY <1>5, RequestIsStep
     DEF _mic_presence_probe_tick, _mic_dispatch_rebuild, _mic_request_recovery
<1>6. CASE MicCallback
  <2>1. CASE MicQuiesce
    BY <2>1, RequestIsStep
       DEF MicQuiesce, _mic_quiesce_current_generation, _mic_request_recovery
  <2>2. CASE MicHandlerMark
    BY <2>2, MarkIsStep DEF MicHandlerMark
  <2>3. CASE MicHandlerDiscard
    BY <2>3, RequestIsStep
       DEF MicHandlerDiscard, _mic_discard_pending_hw_bin, _mic_request_recovery
  <2>4. CASE MicSnapshot \/ MicHandlerReturns
    BY <2>4 DEF MicSnapshot, MicHandlerReturns
  <2> QED
    BY <1>6, <2>1, <2>2, <2>3, <2>4 DEF MicCallback
<1>7. CASE \E o \in DOMAIN rec : MicWorker(o)
  <2> SUFFICES ASSUME NEW o \in DOMAIN rec, MicWorker(o) PROVE SCP!Next \/ UNCHANGED sc_vars
    BY <1>7
  <2>1. CASE MicWorkerReturns(o)
    BY <2>1, ReturnIsStep DEF MicWorkerReturns
  <2>2. CASE MicWorkerResolved(o)
    BY <2>2, ResolveIsStep DEF MicWorkerResolved
  <2> QED
    BY <2>1, <2>2 DEF MicWorker, MicWorkerSync, MicWorkerAge
<1> QED
  BY <1>1, <1>2, <1>3, <1>4, <1>5, <1>6, <1>7 DEF MicNext

(***************************************************************************)
(* A degraded microphone that asks for an operation gets it.               *)
(***************************************************************************)
LEMMA MicRequested ==
    ASSUME MicInv, NEW t, state = "DEGRADED", _mic_request_recovery(t)
    PROVE  /\ state' = "RECOVERING" /\ last_observed' = "RECOVERING" /\ dispatched' = TRUE
           /\ OneRecord'
<1>1. SC!request_recovery /\ SC!RequestResult = SC!RequestResult
  BY DEF _mic_request_recovery
<1>2. /\ SC!RequestResult = "dispatched"
      /\ state' = "RECOVERING" /\ op' \in Nat /\ op' # 0 /\ DOMAIN rec' = {op'}
  BY <1>1, Dispatched DEF MicInv, MicSlotInv
<1>3. last_observed' = "RECOVERING" /\ dispatched' = TRUE
  BY <1>1, <1>2 DEF _mic_request_recovery
<1>4. OneRecord'
  BY <1>2 DEF OneRecord
<1> QED
  BY <1>2, <1>3, <1>4

(***************************************************************************)
(* Steps that leave the slot alone: the operator, the devices, time, and a *)
(* worker inside its task.                                                 *)
(***************************************************************************)
LEMMA MicOutsideKeeps ==
    ASSUME MicInv,
           UNCHANGED <<state, op, rec, hw, pending, last_observed, dispatched, mic_ok, linked, glib>>
    PROVE  MicSlotInv'
BY DEF MicInv, MicSlotInv, OneRecord, MicLinkFollows, MicObserved, MicCallbackKnows, MicCurrentIsOk

(***************************************************************************)
(* An error switches the microphone off in any state.                      *)
(***************************************************************************)
LEMMA MicErrorKeeps ==
    ASSUME MicInv, NEW b, OnMicError(b)
    PROVE  MicSlotInv'
<1>1. /\ glib = "idle" /\ mic_ok' = FALSE
      /\ state' = IF state = "OK" THEN "DEGRADED" ELSE state
      /\ glib' = IF state = "OK" THEN "quiesce" ELSE "idle"
      /\ UNCHANGED <<op, rec, hw, pending, last_observed, dispatched, linked>>
  BY DEF OnMicError, SC!mark_degraded, mic_gst_vars
<1>2. OneRecord'
  BY <1>1, Facts DEF MicInv, MicSlotInv, OneRecord
<1>3. MicLinkFollows' /\ MicObserved' /\ MicCallbackKnows' /\ MicCurrentIsOk'
  BY <1>1 DEF MicInv, MicSlotInv, MicLinkFollows, MicObserved, MicCallbackKnows, MicCurrentIsOk
<1> QED
  BY <1>2, <1>3 DEF MicSlotInv

(***************************************************************************)
(* The tick: a timeout leaves the observer behind, as a result does.       *)
(***************************************************************************)
LEMMA MicTickKeeps ==
    ASSUME MicInv, MicRecoveryTick
    PROVE  MicSlotInv'
<1>1. /\ glib = "idle" /\ glib' = "snapshot"
      /\ UNCHANGED <<hw, pending, last_observed, dispatched, mic_ok, linked>>
  BY DEF MicRecoveryTick, mic_slot_vars, mic_gst_vars
<1>2. \/ /\ state = "RECOVERING" /\ state' = "RESTART_REQUIRED"
         /\ op' = op /\ DOMAIN rec' = DOMAIN rec
      \/ UNCHANGED <<state, op, rec>>
  BY Ticked DEF MicInv, MicSlotInv, MicRecoveryTick, sc_vars
<1>3. OneRecord'
  BY <1>2 DEF MicInv, MicSlotInv, OneRecord
<1>4. MicLinkFollows' /\ MicObserved' /\ MicCallbackKnows' /\ MicCurrentIsOk'
  BY <1>1, <1>2
     DEF MicInv, MicSlotInv, MicLinkFollows, MicObserved, MicCallbackKnows, MicCurrentIsOk
<1> QED
  BY <1>3, <1>4 DEF MicSlotInv

(***************************************************************************)
(* The snapshot sends the handler where the invariant says it belongs, and *)
(* a candidate is promoted only in OK.                                     *)
(***************************************************************************)
LEMMA MicSnapshotKeeps ==
    ASSUME MicInv, MicSnapshot
    PROVE  MicSlotInv'
<1> USE DEF MicInv, MicSlotInv
<1>1. /\ glib = "snapshot" /\ dispatched' = FALSE
      /\ glib' = IF state = last_observed THEN "idle" ELSE MicHandlerEntry
      /\ IF state # last_observed /\ state = "OK" /\ pending # NoBin
         THEN hw' = pending /\ pending' = NoBin /\ mic_ok' = TRUE
         ELSE UNCHANGED <<hw, pending, mic_ok>>
      /\ UNCHANGED <<state, op, rec, last_observed, linked>>
  BY DEF MicSnapshot, MicPromote, sc_vars, mic_gst_vars
<1>2. state \in {"OK", "DEGRADED", "RECOVERING", "RESTART_REQUIRED"}
  BY Facts
<1>3. OneRecord'
  BY <1>1 DEF OneRecord
<1>4. CASE state = last_observed
  BY <1>1, <1>3, <1>4 DEF MicLinkFollows, MicObserved, MicCallbackKnows, MicCurrentIsOk
<1>5. CASE state # last_observed /\ state = "OK" /\ pending # NoBin
  <2>1. glib' = "handled"
    BY <1>1, <1>5 DEF MicHandlerEntry
  <2>2. hw = NoBin
    BY <1>5 DEF MicCurrentIsOk
  <2> QED
    BY <1>1, <1>3, <1>5, <2>1, <2>2
       DEF MicLinkFollows, MicObserved, MicCallbackKnows, MicCurrentIsOk
<1>6. CASE state # last_observed /\ ~(state = "OK" /\ pending # NoBin)
  <2>1. UNCHANGED <<hw, pending, mic_ok>>
    BY <1>1, <1>6
  <2>2. hw = NoBin /\ state # "RECOVERING"
    BY <1>1, <1>6 DEF MicCurrentIsOk, MicObserved
  <2>3. /\ state = "OK" => glib' = "redegrade"
        /\ state = "DEGRADED" /\ pending # NoBin => glib' = "discard"
        /\ state = "RESTART_REQUIRED" /\ pending # NoBin => glib' = "discard_abandoned"
        /\ state # "OK" /\ pending = NoBin => glib' = "handled"
    BY <1>1, <1>2, <1>6, <2>2 DEF MicHandlerEntry
  <2> QED
    BY <1>1, <1>2, <1>3, <1>6, <2>1, <2>2, <2>3
       DEF MicLinkFollows, MicObserved, MicCallbackKnows, MicCurrentIsOk
<1> QED
  BY <1>4, <1>5, <1>6

(***************************************************************************)
(* Quiescing retires the current generation, if there still is one.        *)
(***************************************************************************)
LEMMA MicQuiesceKeeps ==
    ASSUME MicInv, MicQuiesce
    PROVE  MicSlotInv'
<1>1. /\ glib = "quiesce" /\ glib' = "idle" /\ state = "DEGRADED" /\ hw' = NoBin
      /\ UNCHANGED <<pending, mic_ok>>
  BY DEF MicInv, MicSlotInv, MicCallbackKnows, MicQuiesce, _mic_quiesce_current_generation
<1>2. CASE hw = NoBin
  BY <1>1, <1>2
     DEF MicInv, MicSlotInv, OneRecord, MicLinkFollows, MicObserved, MicCallbackKnows,
         MicCurrentIsOk, MicQuiesce, _mic_quiesce_current_generation, sc_vars
<1>3. CASE hw # NoBin
  <2>1. /\ linked' = IF linked = hw THEN NoBin ELSE linked
        /\ _mic_request_recovery(MicNullTask(hw))
    BY <1>3
       DEF MicQuiesce, _mic_quiesce_current_generation, MicDetach
  <2>2. /\ state' = "RECOVERING" /\ last_observed' = "RECOVERING" /\ dispatched' = TRUE
        /\ OneRecord'
    BY <1>1, <2>1, MicRequested
  <2> QED
    BY <1>1, <1>3, <2>1, <2>2
       DEF MicInv, MicSlotInv, MicLinkFollows, MicObserved, MicCallbackKnows, MicCurrentIsOk
<1> QED
  BY <1>2, <1>3

(***************************************************************************)
(* The OK of a finished teardown is no health: it is degraded again.       *)
(***************************************************************************)
LEMMA MicMarkKeeps ==
    ASSUME MicInv, MicHandlerMark
    PROVE  MicSlotInv'
<1>1. /\ glib = "redegrade" /\ glib' = "handled"
      /\ state' = IF state = "OK" THEN "DEGRADED" ELSE state
      /\ UNCHANGED <<op, rec, hw, pending, last_observed, dispatched, mic_ok, linked>>
  BY DEF MicHandlerMark, SC!mark_degraded, mic_slot_vars, mic_gst_vars
<1>2. OneRecord'
  BY <1>1 DEF MicInv, MicSlotInv, OneRecord
<1> QED
  BY <1>1, <1>2
     DEF MicInv, MicSlotInv, MicLinkFollows, MicObserved, MicCallbackKnows, MicCurrentIsOk

(***************************************************************************)
(* A failed candidate is torn down by an operation of its own, one of a    *)
(* worker that was given up is let go.                                     *)
(***************************************************************************)
LEMMA MicDiscardKeeps ==
    ASSUME MicInv, MicHandlerDiscard
    PROVE  MicSlotInv'
<1>1. /\ glib \in {"discard", "discard_abandoned"} /\ glib' = "handled"
      /\ linked' = IF linked = pending THEN NoBin ELSE linked
      /\ pending' = NoBin /\ UNCHANGED <<hw, mic_ok>>
  BY DEF MicHandlerDiscard, _mic_discard_pending_hw_bin, MicDetach
<1>2. MicLinkFollows'
  BY <1>1 DEF MicInv, MicSlotInv, MicLinkFollows, MicCallbackKnows
<1>3. CASE glib = "discard"
  <2>1. _mic_request_recovery(MicNullTask(pending)) /\ state = "DEGRADED"
    BY <1>3 DEF MicInv, MicSlotInv, MicCallbackKnows, MicHandlerDiscard,
                _mic_discard_pending_hw_bin
  <2>2. /\ state' = "RECOVERING" /\ last_observed' = "RECOVERING" /\ dispatched' = TRUE
        /\ OneRecord'
    BY <2>1, MicRequested
  <2> QED
    BY <1>1, <1>2, <1>3, <2>1, <2>2
       DEF MicInv, MicSlotInv, MicObserved, MicCallbackKnows, MicCurrentIsOk
<1>4. CASE glib = "discard_abandoned"
  <2>1. UNCHANGED <<state, op, rec, last_observed, dispatched>>
    BY <1>4 DEF MicHandlerDiscard, _mic_discard_pending_hw_bin, sc_vars
  <2> QED
    BY <1>1, <1>2, <1>4, <2>1
       DEF MicInv, MicSlotInv, OneRecord, MicObserved, MicCallbackKnows, MicCurrentIsOk
<1> QED
  BY <1>1, <1>3, <1>4

(***************************************************************************)
(* The observer catches up, unless the handler has dispatched.             *)
(***************************************************************************)
LEMMA MicReturnsKeeps ==
    ASSUME MicInv, MicHandlerReturns
    PROVE  MicSlotInv'
<1>1. /\ glib = "handled" /\ glib' = "idle"
      /\ last_observed' = IF dispatched THEN last_observed ELSE state
      /\ UNCHANGED <<state, op, rec, hw, pending, dispatched, mic_ok, linked>>
  BY DEF MicHandlerReturns, sc_vars, mic_gst_vars
<1> QED
  BY <1>1
     DEF MicInv, MicSlotInv, OneRecord, MicLinkFollows, MicObserved, MicCallbackKnows,
         MicCurrentIsOk

(***************************************************************************)
(* A rebuild gets a candidate only with nothing linked; otherwise Pad.link *)
(* has raised, and the slot is as it was.                                  *)
(***************************************************************************)
LEMMA MicProbeKeeps ==
    ASSUME MicInv, _mic_presence_probe_tick
    PROVE  MicSlotInv'
<1>1. glib = "idle" /\ state = "DEGRADED" /\ UNCHANGED <<glib, hw, mic_ok>>
  BY DEF _mic_presence_probe_tick, _mic_dispatch_rebuild
<1>2. hw = NoBin
  BY <1>1 DEF MicInv, MicSlotInv, MicCurrentIsOk
<1>3. CASE linked # NoBin
  <2>1. UNCHANGED <<state, op, rec, pending, last_observed, dispatched, linked>>
    BY <1>3
       DEF _mic_presence_probe_tick, _mic_dispatch_rebuild, sc_vars
  <2> QED
    BY <1>1, <2>1, MicOutsideKeeps
<1>4. CASE linked = NoBin
  <2>1. /\ linked' = pending'
        /\ _mic_request_recovery(MicRebuildTask(built + 1))
    BY <1>4 DEF _mic_presence_probe_tick, _mic_dispatch_rebuild
  <2>2. /\ state' = "RECOVERING" /\ last_observed' = "RECOVERING" /\ dispatched' = TRUE
        /\ OneRecord'
    BY <1>1, <2>1, MicRequested
  <2> QED
    BY <1>1, <1>2, <2>1, <2>2
       DEF MicInv, MicSlotInv, MicLinkFollows, MicObserved, MicCallbackKnows, MicCurrentIsOk
<1> QED
  BY <1>3, <1>4

(***************************************************************************)
(* The workers: a filed result changes no state, an applied one ends the   *)
(* recovery that the tick still has to observe.                            *)
(***************************************************************************)
LEMMA MicWorkerKeeps ==
    ASSUME MicInv, NEW o \in DOMAIN rec, MicWorker(o)
    PROVE  MicSlotInv'
<1>1. CASE MicWorkerSync(o) \/ MicWorkerAge(o)
  BY <1>1, MicOutsideKeeps
     DEF MicWorkerSync, MicWorkerAge, sc_vars, mic_slot_vars, mic_gst_vars
<1>2. CASE MicWorkerReturns(o)
  <2>1. PICK ok \in BOOLEAN : SC!WorkerReturns(o, ok)
    BY <1>2 DEF MicWorkerReturns
  <2>2. /\ op' = op /\ state' = state /\ DOMAIN rec' = DOMAIN rec
        /\ state \in {"RECOVERING", "RESTART_REQUIRED"}
    BY <2>1, Returned DEF MicInv, MicSlotInv
  <2>3. UNCHANGED <<hw, pending, last_observed, dispatched, mic_ok, linked, glib>>
    BY <1>2 DEF MicWorkerReturns, mic_slot_vars, mic_gst_vars
  <2> QED
    BY <2>2, <2>3
       DEF MicInv, MicSlotInv, OneRecord, MicLinkFollows, MicObserved, MicCallbackKnows,
           MicCurrentIsOk
<1>3. CASE MicWorkerResolved(o)
  <2>1. SC!_on_worker_resolved(o)
    BY <1>3 DEF MicWorkerResolved
  <2>2. /\ op' = op /\ DOMAIN rec' = DOMAIN rec /\ state = "RECOVERING"
        /\ state' \in {"OK", "DEGRADED"} /\ rec'[op].done /\ rec'[op].thread = "ended"
    BY <2>1, Resolved DEF MicInv, MicSlotInv
  <2>3. UNCHANGED <<hw, pending, last_observed, dispatched, mic_ok, linked, glib>>
    BY <1>3 DEF MicWorkerResolved, mic_slot_vars, mic_gst_vars
  <2> QED
    BY <2>2, <2>3
       DEF MicInv, MicSlotInv, OneRecord, MicLinkFollows, MicObserved, MicCallbackKnows,
           MicCurrentIsOk
<1> QED
  BY <1>1, <1>2, <1>3 DEF MicWorker
-----------------------------------------------------------------------------
(***************************************************************************)
(* Cold start: the first generation is the microphone.                     *)
(***************************************************************************)
LEMMA MicInitInv == MicInit => MicInv
<1> SUFFICES ASSUME MicInit PROVE MicInv
  OBVIOUS
<1>1. SC!Init
  BY DEF MicInit
<1>2. SCP!IInv
  BY <1>1, SCP!InitIInv, SlotAssumption DEF SC!Init, SCP!Init
<1>3. op = 0 /\ state = "OK" /\ DOMAIN rec = {}
  BY <1>1 DEF SC!Init
<1>4. /\ hw = 1 /\ pending = NoBin /\ last_observed = "OK" /\ dispatched = FALSE
      /\ mic_ok = TRUE /\ linked = 1 /\ glib = "idle"
  BY DEF MicInit
<1> QED
  BY <1>2, <1>3, <1>4
     DEF MicInv, MicSlotInv, OneRecord, MicLinkFollows, MicObserved, MicCallbackKnows,
         MicCurrentIsOk, NoBin

(***************************************************************************)
(* Every step keeps the invariant.                                         *)
(***************************************************************************)
LEMMA MicNextInv == MicInv /\ [MicNext]_mic_vars => MicInv'
<1> SUFFICES ASSUME MicInv, [MicNext]_mic_vars PROVE MicInv'
  OBVIOUS
<1>1. SCP!IInv'
  BY MicCoordinatorSteps, SCP!NextIInv, SlotAssumption DEF MicInv
<1>2. CASE \E b \in in_bin : OnMicError(b)
  BY <1>1, <1>2, MicErrorKeeps DEF MicInv
<1>3. CASE MicRecoveryTick
  BY <1>1, <1>3, MicTickKeeps DEF MicInv
<1>4. CASE \/ MicQuietTick \/ MicBackoffExpires \/ MicUnplug \/ MicPlug \/ BuffersStop
           \/ UNCHANGED mic_vars
           \/ \E active \in BOOLEAN : SetMicPtt(active)
  <2>1. UNCHANGED <<state, op, rec, hw, pending, last_observed, dispatched, mic_ok, linked, glib>>
    BY <1>4 DEF MicQuietTick, MicBackoffExpires, MicUnplug, MicPlug, BuffersStop,
                SetMicPtt, mic_vars, sc_vars, mic_slot_vars, mic_gst_vars
  <2> QED
    BY <1>1, <2>1, MicOutsideKeeps DEF MicInv
<1>5. CASE _mic_presence_probe_tick
  BY <1>1, <1>5, MicProbeKeeps DEF MicInv
<1>6. CASE MicCallback
  BY <1>1, <1>6, MicQuiesceKeeps, MicSnapshotKeeps, MicMarkKeeps, MicDiscardKeeps,
     MicReturnsKeeps DEF MicInv, MicCallback
<1>7. CASE \E o \in DOMAIN rec : MicWorker(o)
  BY <1>1, <1>7, MicWorkerKeeps DEF MicInv
<1> QED
  BY <1>2, <1>3, <1>4, <1>5, <1>6, <1>7 DEF MicNext

(***************************************************************************)
(* mic_ok, and the selector's device pad, tell the truth about the slot,   *)
(* whatever is unplugged, fails or hangs while it recovers.                *)
(***************************************************************************)
THEOREM MicReportsTheTruth == MicSpec => []MicOkIsTrue
<1>1. MicInv => MicOkIsTrue
  BY DEF MicInv, MicSlotInv, MicOkIsTrue, Settled, MicObserved, MicCurrentIsOk,
         MicLinkFollows
<1> QED
  BY <1>1, MicInitInv, MicNextInv, PTL DEF MicSpec

(***************************************************************************)
(* _mic_recovery_tick never misses the end of an operation.                *)
(***************************************************************************)
THEOREM MicCompletionIsSeen == MicSpec => []MicCompletionNeverLost
<1>1. MicInv => MicCompletionNeverLost
  BY DEF MicInv, MicSlotInv, MicCompletionNeverLost, MicObserved
<1> QED
  BY <1>1, MicInitInv, MicNextInv, PTL DEF MicSpec

(***************************************************************************)
(* The microphone drives its coordinator only through the coordinator's own*)
(* calls, as the outputs do.                                               *)
(***************************************************************************)
THEOREM MicDrivesCoordinator == MicSpec => SC!Init /\ [][SC!Next]_sc_vars
<1>1. MicInit => SC!Init
  BY DEF MicInit
<1>2. [MicNext]_mic_vars => [SC!Next]_sc_vars
  BY MicCoordinatorSteps, SameStep DEF SCP!vars, sc_vars
<1> QED
  BY <1>1, <1>2, PTL DEF MicSpec
=============================================================================
