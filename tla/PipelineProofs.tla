--------------------------- MODULE PipelineProofs ---------------------------
(***************************************************************************)
(* Proofs about Pipeline for any sets of notifications, requests,          *)
(* schedulers and batches, any batch size, any number of attempts and any  *)
(* faults.                                                                 *)
(***************************************************************************)
EXTENDS Pipeline, TLAPS

USE DomainAssumption, FaultsAssumption, ApiAssumption
    DEF DomainAssumption, FaultsAssumption, ApiAssumption

-----------------------------------------------------------------------------
(***************************************************************************)
(* The inductive invariant.                                                *)
(***************************************************************************)
Handling == {"retry", "delay", "fail", "deadLetter", "itemAck"}

\* What a batch holds at each of its calls.
BatchShape(w) ==
    /\ wpc[w] \in Handling => cur[w] \in Notif /\ cur[w] \notin todo[w] \union ok[w]
    /\ wpc[w] \in {"idle", "popped", "registered"} => todo[w] = {} /\ ok[w] = {}
    /\ wpc[w] = "ack" => todo[w] = {}
    /\ todo[w] \intersect ok[w] = {}

\* Requests and polls only hold ids of rows that exist.
CreatedOnly ==
    /\ \A h \in Handler : \A n \in hids[h] : status[n] # "absent"
    /\ \A n \in cancelling : status[n] # "absent"
    /\ \A s \in Sched : phase[s] = "scheduled" =>
        \A n \in items[s] \union ({item[s]} \intersect Notif) : status[n] # "absent"
    /\ \A s \in Sched : phase[s] = "idle" => items[s] = {} /\ item[s] = None

\* A row nobody has claimed yet has had only failed sends, all of them counted.
Unclaimed(n) ==
    status[n] \in Waiting \union {"absent"} =>
        /\ attempts[n] = calls[n]
        /\ calls[n] < MaxAttempts
        /\ delivered[n] = 0
        /\ deadLetters[n] = 0
        /\ status[n] = "absent" => calls[n] = 0

\* What a batch that owns n knows of it.
OwnerKnows(w, n) ==
    /\ n \in todo[w] =>
        /\ status[n] = "processing"
        /\ att[w][n] = calls[n]
        /\ calls[n] < MaxAttempts
        /\ delivered[n] = 0
        /\ deadLetters[n] = 0
    /\ n \in ok[w] =>
        /\ status[n] = "processing" \/ (wpc[w] = "ack" /\ status[n] = "sent")
        /\ delivered[n] = 1
    /\ n = cur[w] /\ wpc[w] \in {"retry", "fail", "deadLetter"} =>
        /\ status[n] = "processing" \/ (wpc[w] = "deadLetter" /\ status[n] = "failed")
        /\ att[w][n] = calls[n]
        /\ calls[n] > 0
        /\ wpc[w] = "retry" => calls[n] < MaxAttempts
        /\ wpc[w] # "retry" => calls[n] = MaxAttempts
        /\ delivered[n] = 0
        /\ deadLetters[n] = 0

SoleOwner(n) == \A v, w \in Worker : Owns(v, n) /\ Owns(w, n) => v = w

Kept(n) ==
    n \notin clobbered =>
        /\ Unclaimed(n)
        /\ \A w \in Worker : OwnerKnows(w, n)
        /\ SoleOwner(n)

IInv ==
    /\ TypeOK
    /\ \A w \in Worker : BatchShape(w)
    /\ CreatedOnly
    /\ \A n \in Notif : Kept(n)

-----------------------------------------------------------------------------
(***************************************************************************)
(* Type correctness.  That handleFailure works on a notification, and not  *)
(* on None, is part of it: the attempts it writes come from there.         *)
(***************************************************************************)
Shape == TypeOK /\ \A w \in Worker : BatchShape(w)

\* The statements keep the types of the tables.
LEMMA CreateBatchType ==
    ASSUME StoreTypeOK, NEW ids, CreateBatch(ids)
    PROVE  StoreTypeOK'
BY DEF StoreTypeOK, CreateBatch, InitialStatus, Statuses

\* UpdateStatus and UpdateBatchStatus write known statuses to known rows.
LEMMA UpdateBatchStatusType ==
    ASSUME StoreTypeOK, NEW ids \in SUBSET Notif, NEW st \in Statuses,
           UpdateBatchStatus(ids, st)
    PROVE  StoreTypeOK'
BY DEF StoreTypeOK, UpdateBatchStatus

\* UpdateStatusWithError keeps the tables' types.
LEMMA UpdateStatusWithErrorType ==
    ASSUME StoreTypeOK, NEW n \in Notif, NEW st \in Statuses, NEW a \in Nat,
           UpdateStatusWithError(n, st, a)
    PROVE  StoreTypeOK'
BY DEF StoreTypeOK, UpdateStatusWithError

\* GetAndMarkProcessingBatch keeps the tables' types.
LEMMA ClaimType ==
    ASSUME StoreTypeOK, NEW ids, GetAndMarkProcessingBatch(ids)
    PROVE  StoreTypeOK'
BY DEF StoreTypeOK, GetAndMarkProcessingBatch, Statuses

\* UpdateBatchSent keeps the tables' types.
LEMMA SentType ==
    ASSUME StoreTypeOK, NEW ids, UpdateBatchSent(ids)
    PROVE  StoreTypeOK'
BY DEF StoreTypeOK, UpdateBatchSent, Statuses

\* The insert of a dead letter keeps the tables' types.
LEMMA DeadLetterType ==
    ASSUME StoreTypeOK, NEW n \in Notif, InsertDeadLetter(n)
    PROVE  StoreTypeOK'
BY DEF StoreTypeOK, InsertDeadLetter

\* A step that writes no row keeps the tables' types.
LEMMA StoreUnchanged ==
    ASSUME StoreTypeOK, UNCHANGED storeVars
    PROVE  StoreTypeOK'
BY DEF StoreTypeOK, storeVars

\* The commands keep the types of the sorted sets.
LEMMA QueueType ==
    ASSUME QueueTypeOK,
           \/ \E ids \in SUBSET Notif :
                Enqueue(ids) \/ Pop(ids) \/ RegisterProcessing(ids) \/ Ack(ids)
           \/ \E n \in Notif :
                \/ EnqueueDelayed(n) \/ RemoveDelayed({n})
                \/ VisibilityTimeout(n) \/ RetryDelayElapses(n)
           \/ UNCHANGED queueVars
    PROVE  QueueTypeOK'
BY DEF QueueTypeOK, Enqueue, Pop, RegisterProcessing, Ack, EnqueueDelayed,
       RemoveDelayed, VisibilityTimeout, RetryDelayElapses, queueVars

\* The faults stay within their budget.
LEMMA FaultType ==
    ASSUME faults \in 0..MaxFaults, NEW kind, Fault(kind)
    PROVE  faults' \in 0..MaxFaults
BY DEF Fault

\* A step that leaves the batches alone keeps their types and shapes.
LEMMA ProcUnchanged ==
    ASSUME Shape, UNCHANGED procVars
    PROVE  ProcTypeOK' /\ \A w \in Worker : BatchShape(w)'
BY DEF Shape, TypeOK, ProcTypeOK, BatchShape, procVars

\* A step of another process keeps the types of the requests.
LEMMA ApiUnchanged ==
    ASSUME ApiTypeOK, UNCHANGED apiVars
    PROVE  ApiTypeOK'
BY DEF ApiTypeOK, apiVars

\* A step of another process keeps the types of the polls.
LEMMA SchedUnchanged ==
    ASSUME SchedTypeOK, UNCHANGED schedVars
    PROVE  SchedTypeOK'
BY DEF SchedTypeOK, schedVars

\* Every step of the API handlers preserves Shape.
LEMMA ApiType ==
    ASSUME Shape, ApiNext, UNCHANGED <<schedVars, procVars>>
    PROVE  Shape'
<1> USE DEF Shape, TypeOK
<1>1. ProcTypeOK' /\ (\A w \in Worker : BatchShape(w)') /\ SchedTypeOK'
  BY ProcUnchanged, SchedUnchanged
<1> SUFFICES StoreTypeOK' /\ QueueTypeOK' /\ faults' \in 0..MaxFaults /\ ApiTypeOK'
  BY <1>1
<1>2. ASSUME NEW h \in Handler, Create(h) \/ CreateFails(h)
      PROVE  StoreTypeOK' /\ QueueTypeOK' /\ faults' \in 0..MaxFaults /\ ApiTypeOK'
  <2>1. StoreTypeOK'
    BY <1>2, CreateBatchType DEF Create, CreateFails
  <2>2. QueueTypeOK'
    BY <1>2, QueueType DEF Create, CreateFails
  <2>3. faults' \in 0..MaxFaults
    BY <1>2, FaultType DEF Create, CreateFails
  <2>4. ApiTypeOK'
    BY <1>2, ApiUnchanged DEF Create, CreateFails, ApiTypeOK, apiVars
  <2> QED
    BY <2>1, <2>2, <2>3, <2>4
<1>3. ASSUME NEW h \in Handler, EnqueueCreated(h) \/ EnqueueCreatedFails(h)
      PROVE  StoreTypeOK' /\ QueueTypeOK' /\ faults' \in 0..MaxFaults /\ ApiTypeOK'
  <2>1. hids[h] \in SUBSET Notif
    BY DEF ApiTypeOK
  <2>2. StoreTypeOK'
    BY <1>3, StoreUnchanged DEF EnqueueCreated, EnqueueCreatedFails
  <2>3. QueueTypeOK'
    BY <1>3, <2>1, QueueType DEF EnqueueCreated, EnqueueCreatedFails
  <2>4. faults' \in 0..MaxFaults
    BY <1>3, FaultType DEF EnqueueCreated, EnqueueCreatedFails
  <2>5. ApiTypeOK'
    BY <1>3 DEF EnqueueCreated, EnqueueCreatedFails, Respond, ApiTypeOK
  <2> QED
    BY <2>2, <2>3, <2>4, <2>5
<1>4. ASSUME NEW h \in Handler, MarkQueued(h) \/ MarkQueuedFails(h) \/ ApiCrash(h)
      PROVE  StoreTypeOK' /\ QueueTypeOK' /\ faults' \in 0..MaxFaults /\ ApiTypeOK'
  <2>1. hids[h] \in SUBSET Notif /\ "queued" \in Statuses
    BY DEF ApiTypeOK, Statuses
  <2>2. StoreTypeOK'
    BY <1>4, <2>1, UpdateBatchStatusType, StoreUnchanged
       DEF MarkQueued, MarkQueuedFails, ApiCrash, Uncertain
  <2>3. QueueTypeOK'
    BY <1>4, QueueType DEF MarkQueued, MarkQueuedFails, ApiCrash
  <2>4. faults' \in 0..MaxFaults
    BY <1>4, FaultType DEF MarkQueued, MarkQueuedFails, ApiCrash
  <2>5. ApiTypeOK'
    BY <1>4 DEF MarkQueued, MarkQueuedFails, ApiCrash, Respond, ApiTypeOK
  <2> QED
    BY <2>2, <2>3, <2>4, <2>5
<1>5. ASSUME NEW n \in Notif, CancelRead(n) \/ CancelWrite(n) \/ CancelFails(n)
      PROVE  StoreTypeOK' /\ QueueTypeOK' /\ faults' \in 0..MaxFaults /\ ApiTypeOK'
  <2>1. {n} \in SUBSET Notif /\ "cancelled" \in Statuses
    BY DEF Statuses
  <2>2. StoreTypeOK'
    BY <1>5, <2>1, UpdateBatchStatusType, StoreUnchanged
       DEF CancelRead, CancelWrite, CancelFails
  <2>3. QueueTypeOK'
    BY <1>5, QueueType DEF CancelRead, CancelWrite, CancelFails
  <2>4. faults' \in 0..MaxFaults
    BY <1>5, FaultType DEF CancelRead, CancelWrite, CancelFails
  <2>5. ApiTypeOK'
    BY <1>5 DEF CancelRead, CancelWrite, CancelFails, ApiTypeOK
  <2> QED
    BY <2>2, <2>3, <2>4, <2>5
<1> QED
  BY <1>2, <1>3, <1>4, <1>5 DEF ApiNext

\* Every step of the schedulers preserves Shape.
LEMMA SchedType ==
    ASSUME Shape, SchedNext, UNCHANGED <<apiVars, procVars>>
    PROVE  Shape'
<1> USE DEF Shape, TypeOK
<1>1. ProcTypeOK' /\ (\A w \in Worker : BatchShape(w)') /\ ApiTypeOK'
  BY ProcUnchanged, ApiUnchanged
<1> SUFFICES StoreTypeOK' /\ QueueTypeOK' /\ faults' \in 0..MaxFaults /\ SchedTypeOK'
  BY <1>1
<1>2. CASE \E n \in Scheduled : ScheduledTimeArrives(n)
  BY <1>2, StoreUnchanged, QueueType DEF ScheduledTimeArrives, SchedTypeOK
<1>3. CASE LockExpires
  BY <1>3, StoreUnchanged, QueueType DEF LockExpires, SchedTypeOK
<1>4. ASSUME NEW s \in Sched, Poll(s) \/ PollFails(s)
      PROVE  StoreTypeOK' /\ QueueTypeOK' /\ faults' \in 0..MaxFaults /\ SchedTypeOK'
  <2>1. StoreTypeOK' /\ QueueTypeOK'
    BY <1>4, StoreUnchanged, QueueType DEF Poll, PollFails
  <2>2. faults' \in 0..MaxFaults
    BY <1>4, FaultType DEF Poll, PollFails
  <2>3. SchedTypeOK'
    BY <1>4 DEF Poll, PollFails, SchedTypeOK
  <2> QED
    BY <2>1, <2>2, <2>3
<1>5. ASSUME NEW s \in Sched, List(s) \/ ListFails(s)
      PROVE  StoreTypeOK' /\ QueueTypeOK' /\ faults' \in 0..MaxFaults /\ SchedTypeOK'
  <2>1. StoreTypeOK' /\ QueueTypeOK'
    BY <1>5, StoreUnchanged, QueueType DEF List, ListFails
  <2>2. faults' \in 0..MaxFaults
    BY <1>5, FaultType DEF List, ListFails
  <2>3. Listed(phase[s]) \in SUBSET Notif
    BY DEF Listed, SchedTypeOK, QueueTypeOK
  <2>4. SchedTypeOK'
    BY <1>5, <2>3 DEF List, ListFails, Following, SchedTypeOK
  <2> QED
    BY <2>1, <2>2, <2>4
<1>6. ASSUME NEW s \in Sched, EnqueueItem(s) \/ EnqueueItemFails(s)
      PROVE  StoreTypeOK' /\ QueueTypeOK' /\ faults' \in 0..MaxFaults /\ SchedTypeOK'
  <2>1. PICK n \in items[s] :
            /\ Enqueue({n}) \/ UNCHANGED queueVars
            /\ \/ /\ item' = [item EXCEPT ![s] = n]
                  /\ items' = [items EXCEPT ![s] = @ \ {n}]
                  /\ UNCHANGED phase
               \/ ItemDone(s, items[s] \ {n})
    BY <1>6 DEF EnqueueItem, EnqueueItemFails, Uncertain
  <2>2. n \in Notif /\ {n} \in SUBSET Notif /\ items[s] \in SUBSET Notif
    BY DEF SchedTypeOK
  <2>3. StoreTypeOK'
    BY <1>6, StoreUnchanged DEF EnqueueItem, EnqueueItemFails
  <2>4. QueueTypeOK'
    BY <2>1, <2>2, QueueType
  <2>5. faults' \in 0..MaxFaults
    BY <1>6, FaultType DEF EnqueueItem, EnqueueItemFails
  <2>6. SchedTypeOK'
    <3>1. UNCHANGED <<lock, arrived, overtaken>>
      BY <1>6 DEF EnqueueItem, EnqueueItemFails
    <3> QED
      BY <2>1, <2>2, <3>1 DEF ItemDone, Following, SchedTypeOK
  <2> QED
    BY <2>3, <2>4, <2>5, <2>6
<1>7. ASSUME NEW s \in Sched, FinishItem(s) \/ FinishItemFails(s)
      PROVE  StoreTypeOK' /\ QueueTypeOK' /\ faults' \in 0..MaxFaults /\ SchedTypeOK'
  <2>1. item[s] \in Notif /\ {item[s]} \in SUBSET Notif /\ "queued" \in Statuses
    BY <1>7 DEF FinishItem, FinishItemFails, SchedTypeOK, Statuses
  <2>2. StoreTypeOK'
    BY <1>7, <2>1, StoreUnchanged, UpdateBatchStatusType
       DEF FinishItem, FinishItemFails, Release, Promote, Reclaim
  <2>3. QueueTypeOK'
    BY <1>7, <2>1, QueueType DEF FinishItem, FinishItemFails, Release, Promote, Reclaim
  <2>4. faults' \in 0..MaxFaults
    BY <1>7, FaultType DEF FinishItem, FinishItemFails
  <2>5. SchedTypeOK'
    BY <1>7, <2>1 DEF FinishItem, FinishItemFails, ItemDone, Following, SchedTypeOK
  <2> QED
    BY <2>2, <2>3, <2>4, <2>5
<1>8. ASSUME NEW s \in Sched, SchedCrash(s)
      PROVE  StoreTypeOK' /\ QueueTypeOK' /\ faults' \in 0..MaxFaults /\ SchedTypeOK'
  <2>1. StoreTypeOK' /\ QueueTypeOK' /\ faults' \in 0..MaxFaults
    BY <1>8, StoreUnchanged, QueueType, FaultType DEF SchedCrash
  <2> QED
    BY <1>8, <2>1 DEF SchedCrash, SchedTypeOK
<1> QED
  BY <1>2, <1>3, <1>4, <1>5, <1>6, <1>7, <1>8 DEF SchedNext

\* The batches.  ProcShape is the part of Shape that their steps disturb.
ProcShape == ProcTypeOK /\ \A w \in Worker : BatchShape(w)

\* A batch that ends or dies leaves an idle place.
LEMMA ForgetShape ==
    ASSUME Shape, NEW w \in Worker, Forget(w)
    PROVE  ProcShape'
BY DEF Shape, TypeOK, ProcShape, ProcTypeOK, BatchShape, Forget, Handling

\* handleFailure makes its next call, or is done.
LEMMA GotoShape ==
    ASSUME Shape, NEW w \in Worker, NEW from \in Handling, NEW to \in Handling \union {"sending"},
           Goto(w, from, to),
           \/ UNCHANGED cur
           \/ to = "sending" /\ cur' = [cur EXCEPT ![w] = None]
    PROVE  ProcShape'
BY DEF Shape, TypeOK, ProcShape, ProcTypeOK, BatchShape, Goto, Handling

\* A step of a batch keeps the shape of every batch.
LEMMA WorkerProcShape ==
    ASSUME Shape, NEW w \in Worker, Dispatch(w) \/ WorkerStep(w) \/ WorkerFault(w)
    PROVE  ProcShape'
<1> USE DEF Shape, TypeOK
<1>1. CASE Dispatch(w)
  BY <1>1 DEF Dispatch, Poppable, QueueTypeOK, ProcShape, ProcTypeOK, BatchShape, Handling
<1>2. CASE DispatchFails(w)
  BY <1>2 DEF DispatchFails, procVars, ProcShape, ProcTypeOK, BatchShape
<1>3. CASE Register(w)
  BY <1>3 DEF Register, Goto, ProcShape, ProcTypeOK, BatchShape, Handling
<1>4. CASE Mark(w)
  <2>1. CASE Claimable(msgs[w]) = {}
    BY <1>4, <2>1, ForgetShape DEF Mark
  <2>2. CASE Claimable(msgs[w]) # {}
    <3>1. Claimable(msgs[w]) \in SUBSET Notif
      BY DEF Claimable, ProcTypeOK
    <3>2. attempts \in [Notif -> Nat]
      BY DEF StoreTypeOK
    <3>3. att' \in [Worker -> [Notif -> Nat]]
      <4> DEFINE copy == [n \in Notif |->
                            IF n \in Claimable(msgs[w]) THEN attempts[n] ELSE 0]
      <4>1. copy \in [Notif -> Nat]
        BY <3>2
      <4>2. att' = [att EXCEPT ![w] = copy] /\ att \in [Worker -> [Notif -> Nat]]
        BY <1>4, <2>2 DEF Mark, scanNotifications, ProcTypeOK
      <4> HIDE DEF copy
      <4> QED
        BY <4>1, <4>2
    <3>4. /\ wpc' = [wpc EXCEPT ![w] = "sending"]
          /\ todo' = [todo EXCEPT ![w] = Claimable(msgs[w])]
          /\ UNCHANGED <<msgs, ok, cur, calls, delivered>>
          /\ wpc[w] = "registered"
      BY <1>4, <2>2 DEF Mark
    <3>5. ProcTypeOK'
      BY <3>1, <3>3, <3>4 DEF ProcTypeOK
    <3>6. \A v \in Worker : BatchShape(v)'
      BY <3>1, <3>4 DEF ProcTypeOK, BatchShape, Handling
    <3> QED
      BY <3>5, <3>6 DEF ProcShape
  <2> QED
    BY <2>1, <2>2
<1>5. CASE SendSucceeds(w)
  BY <1>5 DEF SendSucceeds, ProcShape, ProcTypeOK, BatchShape, Handling
<1>6. CASE SendFails(w)
  BY <1>6 DEF SendFails, ProcShape, ProcTypeOK, BatchShape, Handling
<1>7. CASE HandleFailure(w)
  BY <1>7, GotoShape
     DEF HandleFailure, Retry, Delay, Fail, DeadLetter, ItemAck, NextRow, Handling
<1>8. CASE \/ RetryFails(w) \/ DelayFails(w) \/ FailFails(w)
           \/ DeadLetterFails(w) \/ ItemAckFails(w)
  BY <1>8, GotoShape
     DEF RetryFails, DelayFails, FailFails, DeadLetterFails, ItemAckFails, NextRow, Handling
<1>9. CASE WriteSent(w) \/ WriteSentFails(w)
  BY <1>9 DEF WriteSent, WriteSentFails, Goto, ProcShape, ProcTypeOK, BatchShape, Handling
<1>10. CASE \/ RegisterFails(w) \/ MarkFails(w) \/ AckBatch(w)
            \/ AckBatchFails(w) \/ WorkerCrash(w)
  BY <1>10, ForgetShape DEF RegisterFails, MarkFails, AckBatch, AckBatchFails, WorkerCrash
<1> QED
  BY <1>1, <1>2, <1>3, <1>4, <1>5, <1>6, <1>7, <1>8, <1>9, <1>10
     DEF WorkerStep, WorkerFault

\* A step of a batch keeps the tables' types.
LEMMA WorkerStoreType ==
    ASSUME Shape, NEW w \in Worker, Dispatch(w) \/ WorkerStep(w) \/ WorkerFault(w)
    PROVE  StoreTypeOK'
<1> USE DEF Shape, TypeOK
<1>0. {"queued", "failed"} \subseteq Statuses
  BY DEF Statuses
<1>1. wpc[w] \in Handling => cur[w] \in Notif /\ att[w][cur[w]] \in Nat
  BY DEF BatchShape, ProcTypeOK
<1>2. CASE Retry(w) \/ RetryFails(w) \/ Fail(w) \/ FailFails(w)
  BY <1>0, <1>1, <1>2, UpdateStatusWithErrorType, StoreUnchanged
     DEF Retry, RetryFails, Fail, FailFails, NextRow, Goto, Uncertain, Handling
<1>3. CASE DeadLetter(w) \/ DeadLetterFails(w)
  BY <1>1, <1>3, DeadLetterType, StoreUnchanged
     DEF DeadLetter, DeadLetterFails, Goto, Handling
<1>4. CASE WriteSent(w) \/ WriteSentFails(w)
  BY <1>4, SentType, StoreUnchanged DEF WriteSent, WriteSentFails
<1>5. CASE Mark(w) \/ MarkFails(w)
  BY <1>5, ClaimType, StoreUnchanged DEF Mark, MarkFails, Uncertain
<1>6. CASE \/ Dispatch(w) \/ DispatchFails(w) \/ Register(w) \/ RegisterFails(w)
           \/ SendSucceeds(w) \/ SendFails(w) \/ Delay(w) \/ DelayFails(w)
           \/ ItemAck(w) \/ ItemAckFails(w) \/ AckBatch(w) \/ AckBatchFails(w)
           \/ WorkerCrash(w)
  BY <1>6, StoreUnchanged
     DEF Dispatch, DispatchFails, Register, RegisterFails, SendSucceeds,
         SendFails, Delay, DelayFails, ItemAck, ItemAckFails, AckBatch,
         AckBatchFails, WorkerCrash
<1> QED
  BY <1>2, <1>3, <1>4, <1>5, <1>6 DEF WorkerStep, WorkerFault, HandleFailure

\* A step of a batch keeps the sorted sets' types.
LEMMA WorkerQueueType ==
    ASSUME Shape, NEW w \in Worker, Dispatch(w) \/ WorkerStep(w) \/ WorkerFault(w)
    PROVE  QueueTypeOK' /\ faults' \in 0..MaxFaults
<1> USE DEF Shape, TypeOK
<1>1. wpc[w] \in Handling => cur[w] \in Notif /\ {cur[w]} \in SUBSET Notif
  BY DEF BatchShape
<1>2. msgs[w] \in SUBSET Notif /\ \A ids \in SUBSET msgs[w] : ids \in SUBSET Notif
  BY DEF ProcTypeOK
<1>3. \A ids \in Poppable : ids \in SUBSET Notif
  BY DEF Poppable, QueueTypeOK
<1>4. CASE \/ Retry(w) \/ RetryFails(w) \/ Fail(w) \/ FailFails(w)
           \/ DeadLetter(w) \/ DeadLetterFails(w) \/ WriteSent(w)
           \/ WriteSentFails(w) \/ Mark(w) \/ MarkFails(w) \/ SendSucceeds(w)
           \/ SendFails(w) \/ WorkerCrash(w) \/ ItemAckFails(w) \/ AckBatchFails(w)
  <2>1. UNCHANGED queueVars /\ (faults' = faults \/ \E kind \in FaultKinds : Fault(kind))
    BY <1>4 DEF Retry, RetryFails, Fail, FailFails, DeadLetter, DeadLetterFails,
                WriteSent, WriteSentFails, Mark, MarkFails, SendSucceeds,
                SendFails, WorkerCrash, ItemAckFails, AckBatchFails, Fault
  <2> QED
    BY <2>1, QueueType, FaultType
<1>5. CASE Delay(w) \/ DelayFails(w) \/ ItemAck(w)
  <2>1. QueueTypeOK'
    BY <1>1, <1>5, QueueType
       DEF Delay, DelayFails, ItemAck, NextRow, Goto, Uncertain, Handling
  <2> QED
    BY <1>5, <2>1, FaultType DEF Delay, DelayFails, ItemAck
<1>6. CASE Dispatch(w) \/ DispatchFails(w)
  <2>1. QueueTypeOK'
    BY <1>3, <1>6, QueueType DEF Dispatch, DispatchFails
  <2> QED
    BY <1>6, <2>1, FaultType DEF Dispatch, DispatchFails
<1>7. CASE Register(w) \/ RegisterFails(w) \/ AckBatch(w)
  <2>1. QueueTypeOK'
    BY <1>2, <1>7, QueueType DEF Register, RegisterFails, AckBatch
  <2> QED
    BY <1>7, <2>1, FaultType DEF Register, RegisterFails, AckBatch
<1> QED
  BY <1>4, <1>5, <1>6, <1>7 DEF WorkerStep, WorkerFault, HandleFailure

\* Every step of every process preserves Shape.
LEMMA ShapeStep == Shape /\ [Next]_vars => Shape'
<1> SUFFICES ASSUME Shape, [Next]_vars PROVE Shape'
  OBVIOUS
<1>1. CASE ApiNext /\ UNCHANGED <<schedVars, procVars>>
  BY <1>1, ApiType
<1>2. CASE SchedNext /\ UNCHANGED <<apiVars, procVars>>
  BY <1>2, SchedType
<1>3. CASE ProcNext /\ UNCHANGED <<apiVars, schedVars>>
  <2>1. PICK w \in Worker : Dispatch(w) \/ WorkerStep(w) \/ WorkerFault(w)
    BY <1>3 DEF ProcNext
  <2>2. ProcShape' /\ StoreTypeOK' /\ QueueTypeOK' /\ faults' \in 0..MaxFaults
    BY <2>1, WorkerProcShape, WorkerStoreType, WorkerQueueType
  <2>3. ApiTypeOK' /\ SchedTypeOK'
    BY <1>3, ApiUnchanged, SchedUnchanged DEF Shape, TypeOK
  <2> QED
    BY <2>2, <2>3 DEF Shape, TypeOK, ProcShape
<1>4. CASE Timers /\ UNCHANGED <<apiVars, schedVars, procVars>>
  BY <1>4, StoreUnchanged, QueueType, ApiUnchanged, SchedUnchanged, ProcUnchanged
     DEF Timers, Shape, TypeOK
<1>5. CASE UNCHANGED vars
  BY <1>5, StoreUnchanged, QueueType, ApiUnchanged, SchedUnchanged, ProcUnchanged
     DEF vars, Shape, TypeOK
<1> QED
  BY <1>1, <1>2, <1>3, <1>4, <1>5 DEF Next

\* Shape holds before the first request.
LEMMA ShapeInit == Init => Shape
BY DEF Init, StoreInit, QueueInit, ApiInit, SchedInit, ProcInit, Shape, TypeOK,
       StoreTypeOK, QueueTypeOK, ApiTypeOK, SchedTypeOK, ProcTypeOK, BatchShape,
       Handling

\* Type correctness: rows, sorted sets, requests, polls and batches keep their
\* types whatever fails (all handlers).
THEOREM PipelineTypeOK == Spec => []TypeOK
<1>1. Shape => TypeOK
  BY DEF Shape
<1> QED
  BY <1>1, ShapeInit, ShapeStep, PTL DEF Spec


-----------------------------------------------------------------------------
(***************************************************************************)
(* The inductive invariant, and what follows from it: a notification has   *)
(* one owner at a time, and the pipeline implements Lifecycle.  The        *)
(* argument is about one notification n: a step either leaves n alone, or  *)
(* is a status write of the API or of a scheduler (and then n was waiting, *)
(* or its promise is off), or is a step of the batch that owns n or claims *)
(* it.                                                                     *)
(***************************************************************************)
HIDE DEF FaultsAssumption, ApiAssumption

\* What of the state Kept and LifeOf depend on.
batchVars == <<wpc, todo, ok, cur, att, calls, delivered>>

\* A step that touches neither the rows nor the batches.
LEMMA KeptUnchanged ==
    ASSUME NEW n \in Notif, Kept(n), UNCHANGED <<storeVars, batchVars>>
    PROVE  Kept(n)'
BY DEF Kept, Unclaimed, OwnerKnows, SoleOwner, Owns, storeVars, batchVars

\* Nobody owns a row that is waiting or not there.
LEMMA WaitingUnowned ==
    ASSUME NEW n \in Notif, Kept(n), n \notin clobbered, NEW w \in Worker,
           status[n] \in Waiting \union {"absent"}
    PROVE  ~Owns(w, n)
BY DEF Kept, OwnerKnows, Owns, Waiting

\* An insert (Create, BatchCreate) makes a row that no batch owns.
LEMMA KeptCreate ==
    ASSUME Shape, NEW n \in Notif, Kept(n),
           NEW ids \in SUBSET {m \in Notif : status[m] = "absent"},
           CreateBatch(ids), UNCHANGED batchVars
    PROVE  Kept(n)'
<1> SUFFICES ASSUME n \notin clobbered PROVE Kept(n)'
  BY DEF Kept, CreateBatch
<1>1. CASE n \in ids
  <2>1. \A w \in Worker : ~Owns(w, n)
    BY <1>1, WaitingUnowned
  <2> QED
    BY <1>1, <2>1 DEF CreateBatch, Kept, Unclaimed, OwnerKnows, SoleOwner, Owns,
            batchVars, Waiting, Shape, TypeOK, StoreTypeOK
<1>2. CASE n \notin ids
  BY <1>2 DEF CreateBatch, Kept, Unclaimed, OwnerKnows, SoleOwner, Owns,
              batchVars, Shape, TypeOK, StoreTypeOK
<1> QED
  BY <1>1, <1>2

\* The status writes of the API and of the schedulers.
LEMMA KeptStatusWrite ==
    ASSUME Shape, NEW n \in Notif, Kept(n), NEW ids \in SUBSET Notif,
           NEW st \in {"queued", "cancelled"}, n \in ids => status[n] # "absent",
           UpdateBatchStatus(ids, st), UNCHANGED batchVars
    PROVE  Kept(n)'
<1> SUFFICES ASSUME n \notin clobbered, n \notin clobbered' PROVE Kept(n)'
  BY DEF Kept, UpdateBatchStatus
<1>1. CASE n \in ids /\ status[n] # st
  <2>1. status[n] \in Waiting /\ status'[n] = st
    BY <1>1 DEF UpdateBatchStatus
  <2>2. \A w \in Worker : ~Owns(w, n)
    BY <2>1, WaitingUnowned
  <2> QED
    BY <1>1, <2>1, <2>2 DEF UpdateBatchStatus, Kept, Unclaimed, OwnerKnows, SoleOwner,
            Owns, batchVars, Waiting
<1>2. CASE n \notin ids \/ status[n] = st
  <2>1. status'[n] = status[n]
    BY <1>2 DEF UpdateBatchStatus
  <2> QED
    BY <2>1 DEF UpdateBatchStatus, Kept, Unclaimed, OwnerKnows, SoleOwner, Owns,
                batchVars
<1> QED
  BY <1>1, <1>2

\* A batch that ends or dies gives up what it owns.
LEMMA KeptForget ==
    ASSUME Shape, NEW n \in Notif, Kept(n), NEW w \in Worker, Forget(w),
           UNCHANGED storeVars
    PROVE  Kept(n)'
BY DEF Kept, Unclaimed, OwnerKnows, SoleOwner, Owns, Forget, storeVars,
       Shape, TypeOK, ProcTypeOK

\* ProcessBatch claims rows nobody owns.
LEMMA KeptClaim ==
    ASSUME Shape, NEW n \in Notif, Kept(n), NEW w \in Worker,
           wpc[w] = "registered", GetAndMarkProcessingBatch(msgs[w]),
           \/ Forget(w)
           \/ /\ wpc' = [wpc EXCEPT ![w] = "sending"]
              /\ todo' = [todo EXCEPT ![w] = Claimable(msgs[w])]
              /\ \A m \in Claimable(msgs[w]) : att'[w][m] = attempts[m]
              /\ \A v \in Worker \ {w} : att'[v] = att[v]
              /\ UNCHANGED <<ok, cur, calls, delivered>>
    PROVE  Kept(n)'
<1> SUFFICES ASSUME n \notin clobbered PROVE Kept(n)'
  BY DEF Kept, GetAndMarkProcessingBatch
<1> USE DEF Shape, TypeOK, ProcTypeOK, StoreTypeOK
<1>1. CASE n \in Claimable(msgs[w])
  <2>1. \A v \in Worker : ~Owns(v, n)
    BY <1>1, WaitingUnowned DEF Claimable, Waiting
  <2>2. status'[n] = "processing" /\ UNCHANGED <<attempts, deadLetters, clobbered>>
    BY <1>1 DEF GetAndMarkProcessingBatch
  <2>3. Unclaimed(n)
    BY DEF Kept
  <2>4. Unclaimed(n)'
    BY <2>2 DEF Unclaimed, Waiting
  <2>5. attempts[n] = calls[n] /\ calls[n] < MaxAttempts /\ delivered[n] = 0 /\ deadLetters[n] = 0
    BY <1>1, <2>3 DEF Unclaimed, Claimable, Waiting
  <2>6. todo[w] = {} /\ ok[w] = {}
    BY DEF BatchShape
  <2>7. CASE Forget(w)
    BY <2>1, <2>2, <2>4, <2>5, <2>6, <2>7 DEF Forget, Kept, OwnerKnows, SoleOwner, Owns
  <2>8. CASE ~Forget(w)
    BY <1>1, <2>1, <2>2, <2>4, <2>5, <2>6, <2>8 DEF Kept, OwnerKnows, SoleOwner, Owns
  <2> QED
    BY <2>7, <2>8
<1>2. CASE n \notin Claimable(msgs[w])
  <2>1. status'[n] = status[n] /\ UNCHANGED <<attempts, deadLetters, clobbered>>
    BY <1>2 DEF GetAndMarkProcessingBatch
  <2>2. todo[w] = {} /\ ok[w] = {}
    BY DEF BatchShape
  <2>3. CASE Forget(w)
    <3>1. Unclaimed(n)'
      BY <2>1, <2>3 DEF Forget, Kept, Unclaimed
    <3>2. ASSUME NEW v \in Worker PROVE OwnerKnows(v, n)'
      <4>1. OwnerKnows(v, n)
        BY DEF Kept
      <4> QED BY <2>1, <2>2, <2>3, <4>1 DEF Forget, OwnerKnows
    <3>3. SoleOwner(n)'
      BY <2>2, <2>3 DEF Forget, Kept, SoleOwner, Owns
    <3> QED BY <3>1, <3>2, <3>3 DEF Kept
  <2>4. CASE ~Forget(w)
    <3>1. Unclaimed(n)'
      BY <2>1, <2>4 DEF Kept, Unclaimed
    <3>2. ASSUME NEW v \in Worker PROVE OwnerKnows(v, n)'
      <4>1. OwnerKnows(v, n)
        BY DEF Kept
      <4> QED BY <1>2, <2>1, <2>2, <2>4, <4>1 DEF OwnerKnows
    <3>3. SoleOwner(n)'
      BY <1>2, <2>2, <2>4 DEF Kept, SoleOwner, Owns
    <3> QED BY <3>1, <3>2, <3>3 DEF Kept
  <2> QED
    BY <2>3, <2>4
<1> QED
  BY <1>1, <1>2

\* A send that succeeds moves the row from todo to ok of its only owner.
LEMMA KeptSendSucceeds ==
    ASSUME Shape, NEW n \in Notif, Kept(n), NEW w \in Worker, SendSucceeds(w)
    PROVE  Kept(n)'
<1> USE DEF Shape, TypeOK, ProcTypeOK, StoreTypeOK
<1>1. PICK m \in todo[w] :
        /\ todo' = [todo EXCEPT ![w] = @ \ {m}]
        /\ ok' = [ok EXCEPT ![w] = @ \union {m}]
        /\ calls' = [calls EXCEPT ![m] = @ + 1]
        /\ delivered' = [delivered EXCEPT ![m] = @ + 1]
  BY DEF SendSucceeds
<1>2. UNCHANGED <<storeVars, wpc, cur, att>> /\ wpc[w] = "sending"
  BY DEF SendSucceeds
<1>3. CASE n = m
  BY <1>1, <1>2, <1>3 DEF Kept, Unclaimed, OwnerKnows, SoleOwner, Owns, storeVars, Waiting
<1>4. CASE n # m
  BY <1>1, <1>2, <1>4 DEF Kept, Unclaimed, OwnerKnows, SoleOwner, Owns, storeVars
<1> QED
  BY <1>3, <1>4

\* A send that fails makes the row the one handleFailure works on, with its
\* attempts counted in the batch's copy.
LEMMA KeptSendFails ==
    ASSUME Shape, NEW n \in Notif, Kept(n), NEW w \in Worker, SendFails(w)
    PROVE  Kept(n)'
<1> USE DEF Shape, TypeOK, ProcTypeOK, StoreTypeOK
<1>1. PICK m \in todo[w] :
        /\ todo' = [todo EXCEPT ![w] = @ \ {m}]
        /\ calls' = [calls EXCEPT ![m] = @ + 1]
        /\ att' = [att EXCEPT ![w][m] = att[w][m] + 1]
        /\ cur' = [cur EXCEPT ![w] = m]
        /\ wpc' = [wpc EXCEPT ![w] =
                    IF att[w][m] + 1 >= MaxAttempts THEN "fail" ELSE "retry"]
  BY DEF SendFails
<1>2. UNCHANGED <<storeVars, ok, delivered>> /\ wpc[w] = "sending"
  BY DEF SendFails
<1>3. CASE n = m /\ n \notin clobbered
  <2>1. \A v \in Worker \ {w} : ~Owns(v, n)
    BY <1>3 DEF Kept, SoleOwner, Owns
  <2>2. \A v \in Worker \ {w} : ~Owns(v, n)'
    BY <1>1, <1>2, <2>1 DEF Owns
  <2>3. OwnerKnows(w, n) /\ n \notin ok[w]
    BY <1>3 DEF Kept, BatchShape
  <2>4. att'[w][n] = att[w][n] + 1 /\ calls'[n] = calls[n] + 1
    BY <1>1, <1>3
  <2>5. OwnerKnows(w, n)'
    <3>1. n \notin todo'[w] /\ n \notin ok'[w]
      BY <1>1, <1>2, <1>3, <2>3
    <3>2. /\ status'[n] = "processing"
          /\ att'[w][n] = calls'[n] /\ calls'[n] > 0
          /\ delivered'[n] = 0 /\ deadLetters'[n] = 0
      BY <1>2, <1>3, <2>3, <2>4 DEF OwnerKnows, storeVars
    <3>3. /\ wpc'[w] = "retry" => calls'[n] < MaxAttempts
          /\ wpc'[w] = "fail" => calls'[n] = MaxAttempts
          /\ wpc'[w] \in {"retry", "fail"}
      <4>1. att[w][n] = calls[n] /\ calls[n] < MaxAttempts /\ calls[n] \in Nat
        BY <1>3, <2>3 DEF OwnerKnows
      <4>2. wpc'[w] = IF att[w][n] + 1 >= MaxAttempts THEN "fail" ELSE "retry"
        BY <1>1, <1>3
      <4>3. CASE att[w][n] + 1 >= MaxAttempts
        BY <2>4, <4>1, <4>2, <4>3
      <4>4. CASE ~(att[w][n] + 1 >= MaxAttempts)
        BY <2>4, <4>1, <4>2, <4>4
      <4> QED
        BY <4>3, <4>4
    <3> QED
      BY <3>1, <3>2, <3>3 DEF OwnerKnows
  <2>6. Unclaimed(n)'
    BY <1>2, <1>3, <2>3 DEF Unclaimed, OwnerKnows, storeVars, Waiting
  <2>7. SoleOwner(n)' /\ \A v \in Worker : OwnerKnows(v, n)'
    BY <2>2, <2>5 DEF SoleOwner, OwnerKnows, Owns
  <2> QED
    BY <2>6, <2>7 DEF Kept
<1>4. CASE n # m
  BY <1>1, <1>2, <1>4 DEF Kept, Unclaimed, OwnerKnows, SoleOwner, Owns, storeVars
<1>5. CASE n \in clobbered
  BY <1>2, <1>5 DEF Kept, storeVars
<1> QED
  BY <1>3, <1>4, <1>5

\* A batch moves on to its next call without writing a row.
LEMMA KeptGoto ==
    ASSUME Shape, NEW n \in Notif, Kept(n), NEW w \in Worker, UNCHANGED storeVars,
           wpc[w] # "ack",
           \/ wpc' = [wpc EXCEPT ![w] = "registered"]
           \/ wpc' = [wpc EXCEPT ![w] = "itemAck"]
           \/ wpc' = [wpc EXCEPT ![w] = "sending"]
           \/ wpc' = [wpc EXCEPT ![w] = "ack"]
           \/ wpc[w] = "fail" /\ wpc' = [wpc EXCEPT ![w] = "deadLetter"],
           UNCHANGED <<todo, ok, att, calls, delivered>>,
           UNCHANGED cur \/ cur' = [cur EXCEPT ![w] = None]
    PROVE  Kept(n)'
<1> USE DEF Shape, TypeOK, ProcTypeOK
<1>0. /\ wpc'[w] \notin {"retry", "fail"}
      /\ wpc'[w] = "deadLetter" => wpc[w] = "fail"
      /\ \A v \in Worker \ {w} : wpc'[v] = wpc[v]
  OBVIOUS
<1>1. /\ n = cur'[w] => n = cur[w]
      /\ \A v \in Worker \ {w} : cur'[v] = cur[v]
  <2>1. n # None
    OBVIOUS
  <2>2. cur'[w] \in {cur[w], None} /\ \A v \in Worker \ {w} : cur'[v] = cur[v]
    BY Zenon
  <2> QED
    BY <2>1, <2>2
<1>2. ASSUME NEW v \in Worker, OwnerKnows(v, n) PROVE OwnerKnows(v, n)'
  <2>1. CASE v # w
    BY <1>0, <1>1, <1>2, <2>1 DEF OwnerKnows, storeVars
  <2>2. CASE v = w
    BY <1>0, <1>1, <1>2, <2>2 DEF OwnerKnows, storeVars
  <2> QED
    BY <2>1, <2>2
<1>3. ASSUME NEW v \in Worker, Owns(v, n)' PROVE Owns(v, n)
  <2>1. CASE v # w
    BY <1>0, <1>1, <1>3, <2>1 DEF Owns
  <2>2. CASE v = w
    BY <1>0, <1>1, <1>3, <2>2 DEF Owns
  <2> QED
    BY <2>1, <2>2
<1>4. Unclaimed(n) => Unclaimed(n)'
  BY DEF Unclaimed, storeVars
<1> QED
  BY <1>2, <1>3, <1>4 DEF Kept, SoleOwner, storeVars

\* handleFailure writes the row: back to queued, or failed.
LEMMA KeptWriteFailure ==
    ASSUME Shape, NEW n \in Notif, Kept(n), NEW w \in Worker,
           UpdateStatusWithError(cur[w], IF wpc[w] = "retry" THEN "queued" ELSE "failed",
                                 att[w][cur[w]]),
           \/ Goto(w, "retry", "delay") \/ Goto(w, "retry", "sending")
           \/ Goto(w, "fail", "deadLetter"),
           \/ UNCHANGED cur
           \/ wpc'[w] = "sending" /\ cur' = [cur EXCEPT ![w] = None]
    PROVE  Kept(n)'
<1> USE DEF Shape, TypeOK, ProcTypeOK, StoreTypeOK
<1>1. cur[w] \in Notif /\ wpc[w] \in {"retry", "fail"} /\ cur[w] \notin todo[w] \union ok[w]
  BY DEF Goto, BatchShape, Handling
<1>2. CASE n # cur[w]
  <2>1. ASSUME NEW v \in Worker, OwnerKnows(v, n) PROVE OwnerKnows(v, n)'
    BY <1>1, <1>2, <2>1 DEF OwnerKnows, Goto, UpdateStatusWithError
  <2>2. ASSUME NEW v \in Worker, Owns(v, n)' PROVE Owns(v, n)
    BY <1>1, <1>2, <2>2 DEF Owns, Goto
  <2>3. Unclaimed(n) => Unclaimed(n)'
    BY <1>2 DEF Unclaimed, Goto, UpdateStatusWithError
  <2> QED
    BY <2>1, <2>2, <2>3 DEF Kept, SoleOwner, UpdateStatusWithError
<1>3. CASE n = cur[w] /\ n \notin clobbered
  <2>1. \A v \in Worker \ {w} : ~Owns(v, n)
    BY <1>1, <1>3 DEF Kept, SoleOwner, Owns
  <2>2. OwnerKnows(w, n)
    BY <1>3 DEF Kept
  <2>3. \A v \in Worker \ {w} : ~Owns(v, n)'
    BY <2>1 DEF Goto, Owns
  <2>4. /\ att[w][n] = calls[n] /\ calls[n] > 0 /\ delivered[n] = 0 /\ deadLetters[n] = 0
        /\ wpc[w] = "retry" => calls[n] < MaxAttempts
        /\ wpc[w] = "fail" => calls[n] = MaxAttempts
    BY <1>1, <1>3, <2>2 DEF OwnerKnows
  <2>5. /\ status'[n] = IF wpc[w] = "retry" THEN "queued" ELSE "failed"
        /\ attempts'[n] = calls'[n] /\ calls'[n] = calls[n]
        /\ delivered'[n] = 0 /\ deadLetters'[n] = 0
    BY <1>1, <1>3, <2>4 DEF UpdateStatusWithError, Goto
  <2>6. Unclaimed(n)'
    BY <1>1, <2>4, <2>5 DEF Unclaimed, Waiting
  <2>7. /\ n \notin todo'[w] \union ok'[w]
        /\ wpc[w] = "retry" => wpc'[w] \in {"delay", "sending"}
        /\ wpc[w] = "fail" => wpc'[w] = "deadLetter"
    BY <1>1, <1>3 DEF Goto
  <2>8. att'[w][n] = calls'[n]
    BY <2>4, <2>5 DEF Goto
  <2>9. OwnerKnows(w, n)'
    BY <1>1, <2>4, <2>5, <2>7, <2>8 DEF OwnerKnows
  <2>10. SoleOwner(n)' /\ \A v \in Worker : OwnerKnows(v, n)'
    BY <2>3, <2>9 DEF SoleOwner, OwnerKnows, Owns
  <2> QED
    BY <2>6, <2>10 DEF Kept
<1>4. CASE n \in clobbered
  BY <1>4 DEF UpdateStatusWithError, Kept
<1> QED
  BY <1>2, <1>3, <1>4

\* DeadLetterHandler.Handle inserts the first letter of a row that is given up.
LEMMA KeptDeadLetter ==
    ASSUME Shape, NEW n \in Notif, Kept(n), NEW w \in Worker, DeadLetter(w)
    PROVE  Kept(n)'
<1> USE DEF Shape, TypeOK, ProcTypeOK, StoreTypeOK
<1>1. cur[w] \in Notif /\ wpc[w] = "deadLetter" /\ cur[w] \notin todo[w] \union ok[w]
  BY DEF DeadLetter, Goto, BatchShape, Handling
<1>2. CASE n # cur[w]
  BY <1>1, <1>2 DEF DeadLetter, InsertDeadLetter, Goto, Kept, Unclaimed,
                    OwnerKnows, SoleOwner, Owns
<1>3. CASE n = cur[w] /\ n \notin clobbered
  <2>1. \A v \in Worker \ {w} : ~Owns(v, n)
    BY <1>1, <1>3 DEF Kept, SoleOwner, Owns
  <2>2. OwnerKnows(w, n)
    BY <1>3 DEF Kept
  <2> QED
    BY <1>1, <1>3, <2>1, <2>2
       DEF DeadLetter, InsertDeadLetter, Goto, Kept, Unclaimed, OwnerKnows,
           SoleOwner, Owns, Waiting
<1>4. CASE n \in clobbered
  BY <1>4 DEF DeadLetter, InsertDeadLetter, Kept
<1> QED
  BY <1>2, <1>3, <1>4

\* UpdateBatchSent closes the rows the batch has delivered.
LEMMA KeptWriteSent ==
    ASSUME Shape, NEW n \in Notif, Kept(n), NEW w \in Worker, WriteSent(w)
    PROVE  Kept(n)'
<1> USE DEF Shape, TypeOK, ProcTypeOK, StoreTypeOK
<1>1. todo[w] = {} /\ wpc[w] = "sending"
  BY DEF WriteSent, Goto
<1>2. CASE n \notin ok[w]
  BY <1>1, <1>2 DEF WriteSent, UpdateBatchSent, Goto, Kept, Unclaimed,
                    OwnerKnows, SoleOwner, Owns
<1>3. CASE n \in ok[w] /\ n \notin clobbered
  <2>1. \A v \in Worker \ {w} : ~Owns(v, n)
    BY <1>3 DEF Kept, SoleOwner, Owns
  <2>2. OwnerKnows(w, n)
    BY <1>3 DEF Kept
  <2> QED
    BY <1>1, <1>3, <2>1, <2>2
       DEF WriteSent, UpdateBatchSent, Goto, Kept, Unclaimed, OwnerKnows,
           SoleOwner, Owns, Waiting
<1>4. CASE n \in clobbered
  BY <1>4 DEF WriteSent, UpdateBatchSent, Kept
<1> QED
  BY <1>2, <1>3, <1>4

\* The steps of a batch.
LEMMA KeptWorker ==
    ASSUME Shape, NEW n \in Notif, Kept(n), NEW w \in Worker,
           Dispatch(w) \/ WorkerStep(w) \/ WorkerFault(w)
    PROVE  Kept(n)'
<1>1. CASE Dispatch(w)
  <2>1. wpc[w] = "idle" /\ wpc' = [wpc EXCEPT ![w] = "popped"]
    BY <1>1 DEF Dispatch
  <2>2. UNCHANGED <<storeVars, todo, ok, cur, att, calls, delivered>>
    BY <1>1 DEF Dispatch
  <2> QED
    BY <2>1, <2>2 DEF Kept, Unclaimed, OwnerKnows, SoleOwner, Owns, storeVars,
                      Shape, TypeOK, ProcTypeOK
<1>2. CASE DispatchFails(w)
  BY <1>2, KeptUnchanged DEF DispatchFails, procVars, batchVars
<1>3. CASE \/ Register(w) \/ Delay(w) \/ DelayFails(w) \/ FailFails(w)
           \/ DeadLetterFails(w) \/ ItemAck(w) \/ ItemAckFails(w) \/ WriteSentFails(w)
  BY <1>3, KeptGoto
     DEF Register, Delay, DelayFails, FailFails, DeadLetterFails,
         ItemAck, ItemAckFails, WriteSentFails, NextRow, Goto
<1>4. CASE Mark(w)
  <2>1. CASE Claimable(msgs[w]) = {}
    BY <1>4, <2>1, KeptClaim DEF Mark
  <2>2. CASE Claimable(msgs[w]) # {}
    <3>1. /\ wpc[w] = "registered" /\ GetAndMarkProcessingBatch(msgs[w])
          /\ wpc' = [wpc EXCEPT ![w] = "sending"]
          /\ todo' = [todo EXCEPT ![w] = Claimable(msgs[w])]
          /\ UNCHANGED <<ok, cur, calls, delivered>>
      BY <1>4, <2>2 DEF Mark
    <3>2. /\ \A m \in Claimable(msgs[w]) : att'[w][m] = attempts[m]
          /\ \A v \in Worker \ {w} : att'[v] = att[v]
      <4>1. Claimable(msgs[w]) \subseteq Notif
        BY DEF Claimable, Shape, TypeOK, ProcTypeOK
      <4> QED
        BY <1>4, <2>2, <4>1 DEF Mark, scanNotifications, Shape, TypeOK, ProcTypeOK
    <3> QED
      BY <3>1, <3>2, KeptClaim
  <2> QED
    BY <2>1, <2>2
<1>5. CASE MarkFails(w)
  BY <1>5, KeptClaim, KeptForget DEF MarkFails, Uncertain
<1>6. CASE SendSucceeds(w) \/ SendFails(w)
  BY <1>6, KeptSendSucceeds, KeptSendFails
<1>7. CASE Retry(w) \/ RetryFails(w)
  <2>1. \/ UpdateStatusWithError(cur[w], "queued", att[w][cur[w]])
        \/ RetryFails(w) /\ UNCHANGED storeVars
    BY <1>7 DEF Retry, RetryFails, Uncertain
  <2>2. CASE UpdateStatusWithError(cur[w], "queued", att[w][cur[w]])
    <3>1. wpc[w] = "retry"
      BY <1>7 DEF Retry, RetryFails, NextRow, Goto
    <3>2. \/ Goto(w, "retry", "delay") /\ UNCHANGED cur
          \/ /\ Goto(w, "retry", "sending") /\ wpc'[w] = "sending"
             /\ cur' = [cur EXCEPT ![w] = None]
      BY <1>7 DEF Retry, RetryFails, NextRow, Goto, Shape, TypeOK, ProcTypeOK
    <3> QED
      BY <2>2, <3>1, <3>2, KeptWriteFailure
  <2>3. CASE RetryFails(w) /\ UNCHANGED storeVars
    BY <2>3, KeptGoto DEF RetryFails, NextRow, Goto
  <2> QED
    BY <2>1, <2>2, <2>3
<1>8. CASE Fail(w)
  <2>1. wpc[w] = "fail" /\ UpdateStatusWithError(cur[w], "failed", att[w][cur[w]])
    BY <1>8 DEF Fail, Goto
  <2> QED
    BY <1>8, <2>1, KeptWriteFailure DEF Fail
<1>9. CASE DeadLetter(w) \/ WriteSent(w)
  BY <1>9, KeptDeadLetter, KeptWriteSent
<1>10. CASE RegisterFails(w) \/ AckBatch(w) \/ AckBatchFails(w) \/ WorkerCrash(w)
  BY <1>10, KeptForget DEF RegisterFails, AckBatch, AckBatchFails, WorkerCrash
<1> QED
  BY <1>1, <1>2, <1>3, <1>4, <1>5, <1>6, <1>7, <1>8, <1>9, <1>10
     DEF WorkerStep, WorkerFault, HandleFailure

\* The steps of the API and of the schedulers.
LEMMA KeptOthers ==
    ASSUME Shape, CreatedOnly, NEW n \in Notif, Kept(n), UNCHANGED procVars,
           ApiNext \/ SchedNext \/ Timers
    PROVE  Kept(n)'
<1>0. UNCHANGED batchVars
  BY DEF procVars, batchVars
<1>1. CASE UNCHANGED storeVars
  BY <1>0, <1>1, KeptUnchanged
<1>2. ASSUME NEW h \in Handler, Create(h) \/ CreateFails(h) PROVE Kept(n)'
  BY <1>0, <1>2, KeptCreate DEF Create, CreateFails
<1>3. ASSUME NEW h \in Handler, UpdateBatchStatus(hids[h], "queued") PROVE Kept(n)'
  <2>1. hids[h] \in SUBSET Notif /\ (n \in hids[h] => status[n] # "absent")
    BY DEF Shape, TypeOK, ApiTypeOK, CreatedOnly
  <2> QED
    BY <1>0, <1>3, <2>1, KeptStatusWrite
<1>4. ASSUME NEW m \in cancelling, UpdateBatchStatus({m}, "cancelled") PROVE Kept(n)'
  <2>1. {m} \in SUBSET Notif /\ (n \in {m} => status[n] # "absent")
    BY ApiAssumption DEF ApiAssumption, Shape, TypeOK, ApiTypeOK, CreatedOnly
  <2> QED
    BY <1>0, <1>4, <2>1, KeptStatusWrite
<1>5. ASSUME NEW r \in Sched, item[r] # None, phase[r] = "scheduled",
             UpdateBatchStatus({item[r]}, "queued")
      PROVE Kept(n)'
  <2>1. {item[r]} \in SUBSET Notif /\ (n \in {item[r]} => status[n] # "absent")
    BY <1>5 DEF Shape, TypeOK, SchedTypeOK, CreatedOnly
  <2> QED
    BY <1>0, <1>5, <2>1, KeptStatusWrite
<1>6. CASE ApiNext
  BY <1>1, <1>2, <1>3, <1>4, <1>6
     DEF ApiNext, EnqueueCreated, MarkQueued, EnqueueCreatedFails,
         MarkQueuedFails, ApiCrash, CancelRead, CancelWrite, CancelFails, Uncertain
<1>7. CASE SchedNext
  <2>1. ASSUME NEW r \in Sched, FinishItem(r) PROVE Kept(n)'
    BY <1>1, <1>5, <2>1 DEF FinishItem, Release, Promote, Reclaim
  <2> QED
    BY <1>1, <1>7, <2>1
       DEF SchedNext, ScheduledTimeArrives, LockExpires, Poll, List,
           EnqueueItem, PollFails, ListFails, EnqueueItemFails,
           FinishItemFails, SchedCrash
<1> QED
  BY <1>1, <1>6, <1>7 DEF Timers

\* No statement deletes a row.
LEMMA RowsStay ==
    ASSUME Shape, [Next]_vars, NEW n \in Notif, status[n] # "absent"
    PROVE  status'[n] # "absent"
<1> USE DEF Shape, TypeOK, StoreTypeOK
<1>1. CASE UNCHANGED storeVars
  BY <1>1 DEF storeVars
<1>2. ASSUME NEW ids, CreateBatch(ids) PROVE status'[n] # "absent"
  BY <1>2 DEF CreateBatch, InitialStatus
<1>3. ASSUME NEW ids, NEW st \in {"queued", "cancelled"}, UpdateBatchStatus(ids, st)
      PROVE status'[n] # "absent"
  BY <1>3 DEF UpdateBatchStatus
<1>4. CASE ApiNext
  BY <1>1, <1>2, <1>3, <1>4
     DEF ApiNext, Create, CreateFails, EnqueueCreated, MarkQueued,
         EnqueueCreatedFails, MarkQueuedFails, ApiCrash, CancelRead,
         CancelWrite, CancelFails, Uncertain
<1>5. CASE SchedNext
  BY <1>1, <1>3, <1>5
     DEF SchedNext, ScheduledTimeArrives, LockExpires, Poll, List, EnqueueItem,
         FinishItem, PollFails, ListFails, EnqueueItemFails, FinishItemFails,
         SchedCrash, Release, Promote, Reclaim
<1>6. ASSUME NEW w \in Worker, Dispatch(w) \/ WorkerStep(w) \/ WorkerFault(w)
      PROVE  status'[n] # "absent"
  <2>1. CASE Mark(w) \/ MarkFails(w)
    BY <1>1, <2>1 DEF Mark, MarkFails, Uncertain, GetAndMarkProcessingBatch
  <2>2. CASE Retry(w) \/ RetryFails(w) \/ Fail(w)
    BY <1>1, <2>2 DEF Retry, RetryFails, Fail, Uncertain, UpdateStatusWithError
  <2>3. CASE DeadLetter(w) \/ WriteSent(w)
    BY <2>3 DEF DeadLetter, InsertDeadLetter, WriteSent, UpdateBatchSent
  <2> QED
    BY <1>1, <1>6, <2>1, <2>2, <2>3
       DEF WorkerStep, WorkerFault, HandleFailure, Dispatch, DispatchFails,
           Register, RegisterFails, SendSucceeds, SendFails, Delay, DelayFails,
           FailFails, DeadLetterFails, ItemAck, ItemAckFails, WriteSentFails,
           AckBatch, AckBatchFails, WorkerCrash
<1> QED
  BY <1>1, <1>4, <1>5, <1>6 DEF Next, ProcNext, Timers, vars

\* Requests, cancels and polls go on holding only ids of rows that exist.
LEMMA CreatedOnlyStep ==
    ASSUME Shape, CreatedOnly, [Next]_vars
    PROVE  CreatedOnly'
<1> USE DEF Shape, TypeOK, ApiTypeOK, SchedTypeOK
<1>0. \A n \in Notif : status[n] # "absent" => status'[n] # "absent"
  BY RowsStay
<1>1. \A h \in Handler : \A n \in hids'[h] : status'[n] # "absent"
  <2> SUFFICES ASSUME NEW h \in Handler, NEW n \in hids'[h]
               PROVE  status'[n] # "absent"
    OBVIOUS
  <2>1. CASE n \in hids[h]
    BY <1>0, <2>1 DEF CreatedOnly
  <2>2. CASE n \notin hids[h]
    <3>1. PICK g \in Handler : Create(g)
      BY <2>2 DEF Next, ApiNext, CreateFails, EnqueueCreated, MarkQueued,
                  EnqueueCreatedFails, MarkQueuedFails, ApiCrash, CancelRead,
                  CancelWrite, CancelFails, Respond, apiVars, vars
    <3>2. PICK ids \in SUBSET {m \in Notif : status[m] = "absent"} :
            CreateBatch(ids) /\ hids' = [hids EXCEPT ![g] = ids \ Scheduled]
      BY <3>1 DEF Create
    <3>3. n \in ids \ Scheduled
      BY <2>2, <3>2
    <3> QED
      BY <3>2, <3>3 DEF CreateBatch, InitialStatus
  <2> QED
    BY <2>1, <2>2
<1>2. \A n \in cancelling' : status'[n] # "absent"
  <2> SUFFICES ASSUME NEW n \in cancelling'
               PROVE  status'[n] # "absent"
    OBVIOUS
  <2>1. CASE n \in cancelling
    BY <1>0, <2>1, ApiAssumption DEF CreatedOnly, ApiAssumption
  <2>2. CASE n \notin cancelling
    <3>1. CancelRead(n)
      BY <2>2 DEF Next, ApiNext, Create, CreateFails, EnqueueCreated, MarkQueued,
                  EnqueueCreatedFails, MarkQueuedFails, ApiCrash, CancelRead,
                  CancelWrite, CancelFails, Respond, apiVars, vars
    <3> QED
      BY <3>1 DEF CancelRead, storeVars, Waiting
  <2> QED
    BY <2>1, <2>2
<1>3. ASSUME NEW s \in Sched
      PROVE  /\ phase'[s] = "scheduled" =>
                \A n \in items'[s] \union ({item'[s]} \intersect Notif) :
                    status'[n] # "absent"
             /\ phase'[s] = "idle" => items'[s] = {} /\ item'[s] = None
  <2> DEFINE Held == items[s] \union ({item[s]} \intersect Notif)
  <2>0. /\ phase[s] = "scheduled" => \A n \in Held : status'[n] # "absent"
        /\ phase[s] = "idle" => items[s] = {} /\ item[s] = None
    BY <1>0 DEF CreatedOnly
  <2>1. CASE phase'[s] = phase[s] /\ items'[s] = items[s] /\ item'[s] = item[s]
    BY <2>0, <2>1
  <2>2. CASE Poll(s)
    BY <2>0, <2>2 DEF Poll
  <2>3. CASE List(s)
    <3>1. /\ items[s] = {} /\ item'[s] = None /\ UNCHANGED status
          /\ items'[s] = Listed(phase[s])
          /\ phase'[s] = IF Listed(phase[s]) = {} THEN Following(phase[s]) ELSE phase[s]
          /\ phase[s] # "idle"
      BY <2>3 DEF List, AboutToList, storeVars
    <3>2. phase'[s] = "scheduled" => phase[s] = "scheduled"
      BY <3>1 DEF Following
    <3>3. phase[s] = "scheduled" => \A n \in Listed(phase[s]) : status[n] = "scheduled"
      BY DEF Listed
    <3> QED
      BY <3>1, <3>2, <3>3
  <2>4. CASE EnqueueItem(s)
    <3>1. PICK n \in items[s] : item'[s] = n /\ items'[s] = items[s] \ {n} /\ UNCHANGED phase
      BY <2>4 DEF EnqueueItem
    <3> QED
      BY <2>0, <3>1
  <2>5. ASSUME NEW rest \in SUBSET items[s], ItemDone(s, rest), phase[s] # "idle"
        PROVE  /\ items'[s] \subseteq items[s] /\ item'[s] = None
               /\ phase'[s] = "scheduled" => phase[s] = "scheduled"
               /\ phase'[s] = "idle" => items'[s] = {}
    BY <2>5 DEF ItemDone, Following
  <2>6. CASE EnqueueItemFails(s)
    <3>1. phase[s] # "idle"
      BY <2>0, <2>6 DEF EnqueueItemFails
    <3>2. PICK n \in items[s] : ItemDone(s, items[s] \ {n})
      BY <2>6 DEF EnqueueItemFails
    <3> QED
      BY <2>0, <2>5, <3>1, <3>2
  <2>7. CASE FinishItem(s) \/ FinishItemFails(s)
    <3>1. phase[s] # "idle"
      BY <2>0, <2>7 DEF FinishItem, FinishItemFails
    <3>2. ItemDone(s, items[s])
      BY <2>7 DEF FinishItem, FinishItemFails
    <3> QED
      BY <2>0, <2>5, <3>1, <3>2
  <2>8. CASE ListFails(s)
    BY <2>8 DEF ListFails, AboutToList, Following
  <2>9. CASE SchedCrash(s)
    BY <2>9 DEF SchedCrash
  <2>10. ASSUME NEW r \in Sched, r # s,
                \/ Poll(r) \/ List(r) \/ EnqueueItem(r) \/ FinishItem(r)
                \/ ListFails(r) \/ EnqueueItemFails(r) \/ FinishItemFails(r)
                \/ SchedCrash(r)
         PROVE  phase'[s] = phase[s] /\ items'[s] = items[s] /\ item'[s] = item[s]
    BY <2>10 DEF Poll, List, EnqueueItem, FinishItem, ListFails,
                 EnqueueItemFails, FinishItemFails, SchedCrash, ItemDone
  <2>11. CASE ~SchedNext
    BY <2>1, <2>11 DEF Next, schedVars, vars
  <2>12. CASE (\E n \in Scheduled : ScheduledTimeArrives(n)) \/ LockExpires
              \/ \E r \in Sched : PollFails(r)
    BY <2>1, <2>12 DEF ScheduledTimeArrives, LockExpires, PollFails
  <2> HIDE DEF Held
  <2> QED
    BY <2>1, <2>2, <2>3, <2>4, <2>6, <2>7, <2>8, <2>9, <2>10, <2>11, <2>12
       DEF SchedNext
<1> QED
  BY <1>1, <1>2, <1>3 DEF CreatedOnly

\* The inductive invariant holds before the first request.
LEMMA IInvInit == Init => IInv
<1> SUFFICES ASSUME Init PROVE IInv
  OBVIOUS
<1>1. TypeOK /\ \A w \in Worker : BatchShape(w)
  BY ShapeInit DEF Shape
<1>2. CreatedOnly
  BY DEF Init, ApiInit, SchedInit, CreatedOnly
<1>3. \A n \in Notif : Kept(n)
  BY DEF Init, StoreInit, ProcInit, Kept, Unclaimed, OwnerKnows, SoleOwner, Owns
<1> QED
  BY <1>1, <1>2, <1>3 DEF IInv

\* Every step of every process preserves the inductive invariant.
LEMMA IInvStep == IInv /\ [Next]_vars => IInv'
<1> SUFFICES ASSUME IInv, [Next]_vars PROVE IInv'
  OBVIOUS
<1>1. Shape /\ Shape'
  BY ShapeStep DEF IInv, Shape
<1>2. CreatedOnly'
  BY <1>1, CreatedOnlyStep DEF IInv
<1>3. ASSUME NEW n \in Notif PROVE Kept(n)'
  <2>1. Kept(n) /\ CreatedOnly
    BY DEF IInv
  <2>2. CASE ProcNext
    BY <1>1, <2>1, <2>2, KeptWorker DEF ProcNext
  <2>3. CASE UNCHANGED procVars /\ (ApiNext \/ SchedNext \/ Timers)
    BY <1>1, <2>1, <2>3, KeptOthers
  <2>4. CASE UNCHANGED vars
    BY <2>1, <2>4, KeptUnchanged DEF vars, procVars, batchVars
  <2> QED
    BY <2>2, <2>3, <2>4 DEF Next
<1> QED
  BY <1>1, <1>2, <1>3 DEF IInv, Shape

\* The inductive invariant holds in every reachable state.
LEMMA PipelineIInv == Spec => []IInv
BY IInvInit, IInvStep, PTL DEF Spec

\* Two batches never both work on a covered notification, for any number of
\* batches and whatever crashes, reclaims and duplicates do
\* (getAndMarkProcessingBatch is the only arbiter).
THEOREM PipelineOneOwner == Spec => []OneOwner
<1>1. IInv => OneOwner
  BY DEF IInv, Kept, SoleOwner, OneOwner
<1> QED
  BY <1>1, PipelineIInv, PTL


-----------------------------------------------------------------------------
(***************************************************************************)
(* The refinement: every step takes every notification one step along      *)
(* Lifecycle, or leaves it where it is.                                    *)
(***************************************************************************)
Lives(n) == LifeOf(n)' = LifeOf(n) \/ L!Step(n, LifeOf(n), LifeOf(n)')

\* What of n's history Lifecycle sees besides its status.
Sends(n) == <<calls[n], delivered[n], deadLetters[n]>>

\* A step that changes nothing Lifecycle sees of n is a stutter for n.
LEMMA LivesUnchanged ==
    ASSUME NEW n \in Notif, status'[n] = status[n], UNCHANGED Sends(n),
           UNCHANGED clobbered
    PROVE  Lives(n)
BY DEF Lives, LifeOf, Sends

\* The promise stays off.
LEMMA LivesVoid ==
    ASSUME NEW n \in Notif, n \in clobbered, clobbered \subseteq clobbered'
    PROVE  Lives(n)
BY DEF Lives, LifeOf

\* A status move is a move of Lifecycle.
LEMMA LivesMove ==
    ASSUME NEW n \in Notif, n \notin clobbered, n \notin clobbered', UNCHANGED Sends(n)
    PROVE  L!Moves(LifeOf(n), LifeOf(n)', status'[n])
BY DEF L!Moves, LifeOf, Sends

\* The insert of a notification is Lifecycle's Insert.
LEMMA LivesCreate ==
    ASSUME Shape, NEW n \in Notif, Kept(n),
           NEW ids \in SUBSET {m \in Notif : status[m] = "absent"},
           CreateBatch(ids), UNCHANGED batchVars
    PROVE  Lives(n)
<1>1. UNCHANGED clobbered /\ UNCHANGED Sends(n)
  BY DEF CreateBatch, batchVars, Sends
<1>2. CASE n \in clobbered \/ n \notin ids
  <2>1. CASE n \in clobbered
    BY <1>1, <2>1, LivesVoid
  <2>2. CASE n \notin ids
    <3>1. status'[n] = status[n]
      BY <2>2 DEF CreateBatch
    <3> QED
      BY <1>1, <3>1, LivesUnchanged
  <2> QED
    BY <1>2, <2>1, <2>2
<1>3. CASE n \notin clobbered /\ n \in ids
  <2>1. status'[n] = IF n \in Scheduled THEN "scheduled" ELSE "pending"
    BY <1>3 DEF CreateBatch, InitialStatus
  <2>2. LifeOf(n) = L!Unborn
    BY <1>3 DEF Kept, Unclaimed, Waiting, LifeOf, L!Unborn
  <2>3. L!Moves(LifeOf(n), LifeOf(n)', status'[n])
    BY <1>1, <1>3, LivesMove
  <2> QED
    BY <2>1, <2>2, <2>3 DEF Lives, L!Step, L!Insert, L!InitialStatus, InitialStatus
<1> QED
  BY <1>2, <1>3

\* A status write of the API or of a scheduler is ToQueue or Cancel on a
\* waiting row, and takes the promise off on any other.
LEMMA LivesStatusWrite ==
    ASSUME Shape, NEW n \in Notif, Kept(n), NEW ids \in SUBSET Notif,
           NEW st \in {"queued", "cancelled"}, n \in ids => status[n] # "absent",
           UpdateBatchStatus(ids, st), UNCHANGED batchVars
    PROVE  Lives(n)
<1>1. UNCHANGED Sends(n) /\ clobbered \subseteq clobbered'
  BY DEF UpdateBatchStatus, batchVars, Sends
<1>2. CASE n \in clobbered
  BY <1>1, <1>2, LivesVoid
<1>3. CASE n \notin clobbered /\ n \in clobbered'
  <2>1. status[n] \notin Waiting \union {"absent"}
    BY <1>3 DEF UpdateBatchStatus
  <2>2. LifeOf(n).st = status[n] /\ LifeOf(n)' = L!Void
    BY <1>3 DEF LifeOf, L!Void
  <2> QED
    BY <2>1, <2>2 DEF Lives, L!Step, L!Voided, L!Waiting, Waiting
<1>4. CASE n \notin clobbered' /\ status'[n] # status[n]
  <2>1. n \notin clobbered /\ status'[n] = st /\ status[n] \in Waiting
    BY <1>1, <1>4 DEF UpdateBatchStatus, Shape, TypeOK, StoreTypeOK
  <2>2. L!Moves(LifeOf(n), LifeOf(n)', st) /\ LifeOf(n).st = status[n]
    BY <1>1, <1>4, <2>1, LivesMove DEF LifeOf
  <2>3. CASE st = "cancelled"
    BY <2>1, <2>2, <2>3 DEF Lives, L!Step, L!Cancel, L!Waiting, Waiting
  <2>4. CASE st = "queued"
    BY <1>4, <2>1, <2>2, <2>4 DEF Lives, L!Step, L!ToQueue, Waiting
  <2> QED
    BY <2>3, <2>4
<1>5. CASE n \notin clobbered' /\ status'[n] = status[n]
  BY <1>1, <1>5 DEF Lives, LifeOf, Sends
<1> QED
  BY <1>2, <1>3, <1>4, <1>5

\* GetAndMarkProcessingBatch is Lifecycle's Claim, for each row it updates.
LEMMA LivesClaim ==
    ASSUME Shape, NEW n \in Notif, Kept(n), NEW ids \in SUBSET Notif,
           GetAndMarkProcessingBatch(ids), UNCHANGED <<calls, delivered>>
    PROVE  Lives(n)
<1>1. UNCHANGED Sends(n) /\ UNCHANGED clobbered
  BY DEF GetAndMarkProcessingBatch, Sends
<1>2. CASE n \in clobbered
  BY <1>1, <1>2, LivesVoid
<1>3. CASE n \notin Claimable(ids)
  <2>1. status'[n] = status[n]
    BY <1>3 DEF GetAndMarkProcessingBatch
  <2> QED
    BY <1>1, <2>1, LivesUnchanged
<1>4. CASE n \notin clobbered /\ n \in Claimable(ids)
  <2>1. status'[n] = "processing" /\ status[n] \in {"pending", "queued"}
    BY <1>4 DEF GetAndMarkProcessingBatch, Claimable
  <2>2. L!Moves(LifeOf(n), LifeOf(n)', status'[n]) /\ LifeOf(n).st = status[n]
    BY <1>1, <1>4, LivesMove DEF LifeOf
  <2> QED
    BY <2>1, <2>2 DEF Lives, L!Step, L!Claim
<1> QED
  BY <1>2, <1>3, <1>4

\* One send for m, with or without success.
LEMMA LivesSend ==
    ASSUME Shape, NEW n \in Notif, Kept(n), NEW w \in Worker,
           SendSucceeds(w) \/ SendFails(w)
    PROVE  Lives(n)
<1> USE DEF Shape, TypeOK, ProcTypeOK, StoreTypeOK
<1>1. PICK m \in todo[w] :
        /\ calls' = [calls EXCEPT ![m] = @ + 1]
        /\ \/ delivered' = [delivered EXCEPT ![m] = @ + 1]
           \/ UNCHANGED delivered
  BY DEF SendSucceeds, SendFails
<1>2. UNCHANGED <<status, deadLetters, clobbered>>
  BY DEF SendSucceeds, SendFails, storeVars
<1>3. CASE n \in clobbered
  BY <1>2, <1>3, LivesVoid
<1>4. CASE n # m
  BY <1>1, <1>2, <1>4, LivesUnchanged DEF Sends
<1>5. CASE n = m /\ n \notin clobbered
  <2>1. /\ status[n] = "processing" /\ calls[n] < MaxAttempts
        /\ delivered[n] = 0 /\ deadLetters[n] = 0
    BY <1>5 DEF Kept, OwnerKnows
  <2>2. calls'[n] = calls[n] + 1 /\ delivered'[n] \in {0, 1}
    BY <1>1, <1>5, <2>1
  <2>3. LifeOf(n) = [st |-> "processing", calls |-> calls[n], delivered |-> 0, letters |-> 0]
    BY <1>5, <2>1 DEF LifeOf
  <2>4. LifeOf(n)' = [st |-> "processing", calls |-> calls[n] + 1,
                      delivered |-> delivered'[n], letters |-> 0]
    BY <1>2, <1>5, <2>1, <2>2 DEF LifeOf
  <2>5. /\ LifeOf(n).st = "processing" /\ LifeOf(n).delivered = 0
        /\ LifeOf(n).letters = 0 /\ LifeOf(n).calls < MaxAttempts
    BY <2>1, <2>3
  <2>6. L!Send(LifeOf(n), LifeOf(n)')
    BY <2>2, <2>3, <2>4, <2>5 DEF L!Send
  <2> QED
    BY <2>6 DEF Lives, L!Step
<1> QED
  BY <1>3, <1>4, <1>5

\* handleFailure's write is BackToQueue or GiveUp.
LEMMA LivesWriteFailure ==
    ASSUME Shape, NEW n \in Notif, Kept(n), NEW w \in Worker,
           wpc[w] \in {"retry", "fail"},
           UpdateStatusWithError(cur[w], IF wpc[w] = "retry" THEN "queued" ELSE "failed",
                                 att[w][cur[w]]),
           UNCHANGED <<calls, delivered>>
    PROVE  Lives(n)
<1> USE DEF Shape, TypeOK, ProcTypeOK, StoreTypeOK
<1>1. UNCHANGED Sends(n) /\ UNCHANGED clobbered
  BY DEF UpdateStatusWithError, Sends
<1>2. CASE n \in clobbered
  BY <1>1, <1>2, LivesVoid
<1>3. CASE n # cur[w]
  <2>1. status'[n] = status[n]
    BY <1>3 DEF UpdateStatusWithError
  <2> QED
    BY <1>1, <2>1, LivesUnchanged
<1>4. CASE n = cur[w] /\ n \notin clobbered
  <2>1. /\ status[n] = "processing" /\ calls[n] > 0 /\ delivered[n] = 0
        /\ wpc[w] = "retry" => calls[n] < MaxAttempts
        /\ wpc[w] = "fail" => calls[n] = MaxAttempts
    BY <1>4 DEF Kept, OwnerKnows
  <2>2. status'[n] = IF wpc[w] = "retry" THEN "queued" ELSE "failed"
    BY <1>4 DEF UpdateStatusWithError
  <2>3. /\ L!Moves(LifeOf(n), LifeOf(n)', status'[n])
        /\ LifeOf(n).st = "processing" /\ LifeOf(n).calls = calls[n]
        /\ LifeOf(n).delivered = 0
    BY <1>1, <1>4, <2>1, LivesMove DEF LifeOf
  <2>4. CASE wpc[w] = "retry"
    <3>1. calls[n] \in 1..(MaxAttempts - 1)
      BY <2>1, <2>4
    <3> QED
      BY <2>2, <2>3, <2>4, <3>1 DEF Lives, L!Step, L!BackToQueue
  <2>5. CASE wpc[w] = "fail"
    BY <2>1, <2>2, <2>3, <2>5 DEF Lives, L!Step, L!GiveUp, L!Exhausted
  <2> QED
    BY <2>4, <2>5
<1> QED
  BY <1>2, <1>3, <1>4

\* The dead letter is Lifecycle's Bury: the first one, of an exhausted row.
LEMMA LivesDeadLetter ==
    ASSUME Shape, NEW n \in Notif, Kept(n), NEW w \in Worker, DeadLetter(w)
    PROVE  Lives(n)
<1> USE DEF Shape, TypeOK, ProcTypeOK, StoreTypeOK
<1>1. /\ UNCHANGED <<calls, delivered, status, clobbered>> /\ wpc[w] = "deadLetter"
      /\ deadLetters' = [deadLetters EXCEPT ![cur[w]] = @ + 1]
  BY DEF DeadLetter, Goto, InsertDeadLetter
<1>2. CASE n \in clobbered
  BY <1>1, <1>2, LivesVoid
<1>3. CASE n # cur[w]
  BY <1>1, <1>3, LivesUnchanged DEF Sends
<1>4. CASE n = cur[w] /\ n \notin clobbered
  <2>1. /\ status[n] \in {"processing", "failed"} /\ calls[n] = MaxAttempts
        /\ delivered[n] = 0 /\ deadLetters[n] = 0
    BY <1>1, <1>4 DEF Kept, OwnerKnows
  <2>2. LifeOf(n) = [st |-> status[n], calls |-> calls[n], delivered |-> 0, letters |-> 0]
    BY <1>4, <2>1 DEF LifeOf
  <2>3. LifeOf(n)' = [st |-> status[n], calls |-> calls[n], delivered |-> 0, letters |-> 1]
    BY <1>1, <1>4, <2>1 DEF LifeOf
  <2> QED
    BY <2>1, <2>2, <2>3 DEF Lives, L!Step, L!Bury, L!Exhausted
<1> QED
  BY <1>2, <1>3, <1>4

\* UpdateBatchSent is Lifecycle's Deliver, for each row it updates.
LEMMA LivesWriteSent ==
    ASSUME Shape, NEW n \in Notif, Kept(n), NEW w \in Worker, WriteSent(w)
    PROVE  Lives(n)
<1>1. /\ UNCHANGED Sends(n) /\ UNCHANGED clobbered /\ wpc[w] = "sending"
      /\ UpdateBatchSent(ok[w])
  BY DEF WriteSent, Goto, UpdateBatchSent, Sends
<1>2. CASE n \in clobbered
  BY <1>1, <1>2, LivesVoid
<1>3. CASE n \notin ok[w]
  <2>1. status'[n] = status[n]
    BY <1>1, <1>3 DEF UpdateBatchSent
  <2> QED
    BY <1>1, <2>1, LivesUnchanged
<1>4. CASE n \in ok[w] /\ n \notin clobbered
  <2>1. status[n] = "processing" /\ delivered[n] = 1 /\ status'[n] = "sent"
    BY <1>1, <1>4 DEF Kept, OwnerKnows, UpdateBatchSent
  <2>2. /\ L!Moves(LifeOf(n), LifeOf(n)', status'[n])
        /\ LifeOf(n).st = "processing" /\ LifeOf(n).delivered = 1
    BY <1>1, <1>4, <2>1, LivesMove DEF LifeOf
  <2> QED
    BY <2>1, <2>2 DEF Lives, L!Step, L!Deliver
<1> QED
  BY <1>2, <1>3, <1>4

\* A step of a batch takes every notification along Lifecycle.
LEMMA LivesWorker ==
    ASSUME Shape, NEW n \in Notif, Kept(n), NEW w \in Worker,
           Dispatch(w) \/ WorkerStep(w) \/ WorkerFault(w)
    PROVE  Lives(n)
<1>1. CASE UNCHANGED <<storeVars, calls, delivered>>
  BY <1>1, LivesUnchanged DEF storeVars, Sends
<1>2. CASE Mark(w) \/ MarkFails(w)
  <2>1. UNCHANGED <<calls, delivered>> /\ msgs[w] \in SUBSET Notif
    BY <1>2 DEF Mark, MarkFails, Forget, Shape, TypeOK, ProcTypeOK
  <2>2. GetAndMarkProcessingBatch(msgs[w]) \/ UNCHANGED storeVars
    BY <1>2 DEF Mark, MarkFails, Uncertain
  <2> QED
    BY <1>1, <2>1, <2>2, LivesClaim
<1>3. CASE Retry(w) \/ RetryFails(w)
  <2>1. wpc[w] = "retry" /\ UNCHANGED <<calls, delivered>>
    BY <1>3 DEF Retry, RetryFails, NextRow, Goto
  <2>2. \/ UpdateStatusWithError(cur[w], "queued", att[w][cur[w]])
        \/ UNCHANGED storeVars
    BY <1>3 DEF Retry, RetryFails, Uncertain
  <2> QED
    BY <1>1, <2>1, <2>2, LivesWriteFailure
<1>4. CASE Fail(w)
  <2>1. /\ wpc[w] = "fail" /\ UNCHANGED <<calls, delivered>>
        /\ UpdateStatusWithError(cur[w], "failed", att[w][cur[w]])
    BY <1>4 DEF Fail, Goto
  <2> QED
    BY <2>1, LivesWriteFailure
<1>5. CASE SendSucceeds(w) \/ SendFails(w) \/ DeadLetter(w) \/ WriteSent(w)
  BY <1>5, LivesSend, LivesDeadLetter, LivesWriteSent
<1> QED
  BY <1>1, <1>2, <1>3, <1>4, <1>5
     DEF WorkerStep, WorkerFault, HandleFailure, Dispatch, DispatchFails,
         Register, RegisterFails, Delay, DelayFails, FailFails,
         DeadLetterFails, ItemAck, ItemAckFails, WriteSentFails, AckBatch,
         AckBatchFails, WorkerCrash, Goto, Forget, NextRow, procVars

\* So does a step of the API, of a scheduler or of time.
LEMMA LivesOthers ==
    ASSUME Shape, CreatedOnly, NEW n \in Notif, Kept(n), UNCHANGED procVars,
           ApiNext \/ SchedNext \/ Timers
    PROVE  Lives(n)
<1>0. UNCHANGED batchVars
  BY DEF procVars, batchVars
<1>1. CASE UNCHANGED storeVars
  BY <1>0, <1>1, LivesUnchanged DEF storeVars, batchVars, Sends
<1>2. ASSUME NEW h \in Handler, Create(h) \/ CreateFails(h) PROVE Lives(n)
  BY <1>0, <1>2, LivesCreate DEF Create, CreateFails
<1>3. ASSUME NEW h \in Handler, UpdateBatchStatus(hids[h], "queued") PROVE Lives(n)
  <2>1. hids[h] \in SUBSET Notif /\ (n \in hids[h] => status[n] # "absent")
    BY DEF Shape, TypeOK, ApiTypeOK, CreatedOnly
  <2> QED
    BY <1>0, <1>3, <2>1, LivesStatusWrite
<1>4. ASSUME NEW m \in cancelling, UpdateBatchStatus({m}, "cancelled") PROVE Lives(n)
  <2>1. {m} \in SUBSET Notif /\ (n \in {m} => status[n] # "absent")
    BY ApiAssumption DEF ApiAssumption, Shape, TypeOK, ApiTypeOK, CreatedOnly
  <2> QED
    BY <1>0, <1>4, <2>1, LivesStatusWrite
<1>5. ASSUME NEW r \in Sched, item[r] # None, phase[r] = "scheduled",
             UpdateBatchStatus({item[r]}, "queued")
      PROVE Lives(n)
  <2>1. {item[r]} \in SUBSET Notif /\ (n \in {item[r]} => status[n] # "absent")
    BY <1>5 DEF Shape, TypeOK, SchedTypeOK, CreatedOnly
  <2> QED
    BY <1>0, <1>5, <2>1, LivesStatusWrite
<1>6. CASE ApiNext
  BY <1>1, <1>2, <1>3, <1>4, <1>6
     DEF ApiNext, EnqueueCreated, MarkQueued, EnqueueCreatedFails,
         MarkQueuedFails, ApiCrash, CancelRead, CancelWrite, CancelFails, Uncertain
<1>7. CASE SchedNext
  <2>1. ASSUME NEW r \in Sched, FinishItem(r) PROVE Lives(n)
    BY <1>1, <1>5, <2>1 DEF FinishItem, Release, Promote, Reclaim
  <2> QED
    BY <1>1, <1>7, <2>1
       DEF SchedNext, ScheduledTimeArrives, LockExpires, Poll, List,
           EnqueueItem, PollFails, ListFails, EnqueueItemFails,
           FinishItemFails, SchedCrash
<1> QED
  BY <1>1, <1>6, <1>7 DEF Timers

\* The pipeline implements Lifecycle: for any number of processes, batches and
\* notifications and whatever fails, a covered notification is claimed, sent,
\* retried, failed and buried only as the status flow allows.
THEOREM PipelineImplementsLifecycle == Spec => ImplementsLifecycle
<1>1. Init => L!LifeInit
  BY DEF Init, StoreInit, ProcInit, L!LifeInit, L!Unborn, LifeOf
<1>2. IInv /\ [Next]_vars => [L!LifeNext]_([n \in Notif |-> LifeOf(n)])
  <2> SUFFICES ASSUME IInv, [Next]_vars PROVE L!LifeNext
    OBVIOUS
  <2>1. Shape /\ CreatedOnly
    BY DEF IInv, Shape
  <2>2. ASSUME NEW n \in Notif PROVE Lives(n)
    <3>1. Kept(n)
      BY DEF IInv
    <3>2. CASE ProcNext
      BY <2>1, <3>1, <3>2, LivesWorker DEF ProcNext
    <3>3. CASE UNCHANGED procVars /\ (ApiNext \/ SchedNext \/ Timers)
      BY <2>1, <3>1, <3>3, LivesOthers
    <3>4. CASE UNCHANGED vars
      BY <3>4, LivesUnchanged DEF vars, storeVars, procVars, Sends
    <3> QED
      BY <3>2, <3>3, <3>4 DEF Next
  <2> QED
    BY <2>2 DEF Lives, L!LifeNext
<1> QED
  BY <1>1, <1>2, PipelineIInv, PTL DEF Spec, ImplementsLifecycle, L!LifeSpec

-----------------------------------------------------------------------------
(***************************************************************************)
(* What Lifecycle promises, and by the refinement the pipeline with it.    *)
(***************************************************************************)
\* The lives a notification can lead.
Lived ==
    [st : Statuses \union {"absent", "void"}, calls : 0..MaxAttempts,
     delivered : {0, 1}, letters : {0, 1}]

\* Promise for one life, with what makes it inductive.
Honest(l) ==
    /\ l \in Lived
    /\ l.st = "sent" => l.delivered = 1
    /\ l.st \in Waiting \union {"absent", "cancelled", "failed"} => l.delivered = 0
    /\ l.letters = 1 => L!Exhausted(l)

\* A life with another status.
LEMMA MovesFields ==
    ASSUME NEW l \in Lived, NEW m, NEW st \in Statuses, L!Moves(l, m, st)
    PROVE  /\ m \in Lived /\ m.st = st
           /\ m.calls = l.calls /\ m.delivered = l.delivered /\ m.letters = l.letters
BY DEF L!Moves, Lived

\* The steps of Lifecycle keep lives honest.
LEMMA HonestStep ==
    ASSUME NEW n \in Notif, NEW l, Honest(l), NEW m, L!Step(n, l, m)
    PROVE  Honest(m)
<1> USE DEF Honest, L!Exhausted
<1>0. l \in Lived
  OBVIOUS
<1>1. CASE L!Insert(n, l, m)
  <2>1. InitialStatus(n) \in Waiting /\ InitialStatus(n) \in Statuses
    BY DEF InitialStatus, Waiting, Statuses
  <2>2. L!Moves(l, m, InitialStatus(n)) /\ l.delivered = 0 /\ l.letters = 0
    BY <1>1 DEF L!Insert, L!Unborn, L!InitialStatus, InitialStatus
  <2> QED BY <1>0, <2>1, <2>2, MovesFields DEF Waiting
<1>2. CASE L!ToQueue(l, m) \/ L!BackToQueue(l, m)
  <2>1. L!Moves(l, m, "queued") /\ l.delivered = 0
    BY <1>2 DEF L!ToQueue, L!BackToQueue, Waiting
  <2> QED BY <1>0, <2>1, MovesFields DEF Statuses
<1>3. CASE L!Cancel(l, m)
  <2>1. L!Moves(l, m, "cancelled") /\ l.delivered = 0
    BY <1>3 DEF L!Cancel, L!Waiting, Waiting
  <2> QED BY <1>0, <2>1, MovesFields DEF Statuses
<1>4. CASE L!Claim(l, m)
  <2>1. L!Moves(l, m, "processing")
    BY <1>4 DEF L!Claim
  <2> QED BY <1>0, <2>1, MovesFields DEF Statuses, Waiting
<1>5. CASE L!Send(l, m)
  <2>1. l.calls \in 0..MaxAttempts /\ l.calls < MaxAttempts
    BY <1>0, <1>5 DEF L!Send, Lived
  <2>2. PICK d \in {0, 1} : m = [st |-> "processing", calls |-> l.calls + 1,
                                 delivered |-> d, letters |-> 0]
    BY <1>5 DEF L!Send
  <2> QED BY <2>1, <2>2 DEF Lived, Statuses, Waiting
<1>6. CASE L!Deliver(l, m)
  <2>1. L!Moves(l, m, "sent") /\ l.delivered = 1
    BY <1>6 DEF L!Deliver
  <2> QED BY <1>0, <2>1, MovesFields DEF Statuses, Waiting
<1>7. CASE L!GiveUp(l, m)
  <2>1. L!Moves(l, m, "failed") /\ l.delivered = 0
    BY <1>7 DEF L!GiveUp
  <2> QED BY <1>0, <2>1, MovesFields DEF Statuses
<1>8. CASE L!Bury(l, m)
  <2>1. m = [l EXCEPT !.letters = 1] /\ L!Exhausted(l) /\ l.st \in {"processing", "failed"}
    BY <1>8 DEF L!Bury
  <2>2. /\ m \in Lived /\ m.st = l.st /\ m.calls = l.calls
        /\ m.delivered = l.delivered /\ m.letters = 1
    BY <1>0, <2>1 DEF Lived
  <2> QED BY <2>1, <2>2
<1>9. CASE L!Voided(l, m)
  BY <1>9 DEF L!Voided, L!Void, Lived, Waiting
<1> QED
  BY <1>1, <1>2, <1>3, <1>4, <1>5, <1>6, <1>7, <1>8, <1>9 DEF L!Step

\* Every notification the pipeline still answers for is sent at most
\* MaxAttempts times and delivered at most once, and its status and its dead
\* letter tell the truth about it, for any number of processes and whatever
\* fails (ProcessBatch, handleFailure, getAndMarkProcessingBatch).
THEOREM PipelineDeliveredOnce == Spec => []DeliveredOnce
<1> DEFINE Inv == \A n \in Notif : Honest(LifeOf(n))
<1>1. L!LifeInit => Inv
  <2> SUFFICES ASSUME L!LifeInit, NEW n \in Notif PROVE Honest(LifeOf(n))
    OBVIOUS
  <2>1. LifeOf(n) = L!Unborn
    BY DEF L!LifeInit
  <2> QED BY <2>1 DEF L!Unborn, Honest, Lived
<1>2. Inv /\ [L!LifeNext]_([n \in Notif |-> LifeOf(n)]) => Inv'
  <2> SUFFICES ASSUME Inv, [L!LifeNext]_([n \in Notif |-> LifeOf(n)]), NEW n \in Notif
               PROVE  Honest(LifeOf(n))'
    OBVIOUS
  <2>1. LifeOf(n)' = LifeOf(n) \/ L!Step(n, LifeOf(n), LifeOf(n)')
    BY DEF L!LifeNext
  <2>2. Honest(LifeOf(n)')
    BY <2>1, HonestStep
  <2> QED BY <2>2 DEF Honest, L!Exhausted
<1>3. Inv => DeliveredOnce
  <2> SUFFICES ASSUME Inv PROVE L!Promise
    BY DEF DeliveredOnce
  <2>1. ASSUME NEW n \in Notif
        PROVE  LET l == LifeOf(n) IN
               /\ l.calls <= MaxAttempts /\ l.delivered <= 1
               /\ l.st = "sent" => l.delivered = 1
               /\ l.st \in L!Waiting \union {"cancelled", "failed"} => l.delivered = 0
               /\ l.letters > 0 => l.letters = 1 /\ L!Exhausted(l)
    <3> DEFINE l == LifeOf(n)
    <3>1. Honest(l)
      OBVIOUS
    <3> HIDE DEF l
    <3>2. /\ l.calls \in 0..MaxAttempts /\ l.delivered \in {0, 1} /\ l.letters \in {0, 1}
      BY <3>1 DEF Honest, Lived
    <3>3. /\ l.st = "sent" => l.delivered = 1
          /\ l.st \in L!Waiting \union {"cancelled", "failed"} => l.delivered = 0
          /\ l.letters = 1 => L!Exhausted(l)
      BY <3>1 DEF Honest, Waiting, L!Waiting
    <3>4. l.calls <= MaxAttempts /\ l.delivered <= 1 /\ (l.letters > 0 => l.letters = 1)
      BY <3>2
    <3> QED BY <3>2, <3>3, <3>4 DEF l
  <2> QED BY <2>1 DEF L!Promise
<1>4. Spec => L!LifeInit /\ [][L!LifeNext]_([n \in Notif |-> LifeOf(n)])
  BY PipelineImplementsLifecycle, PTL DEF ImplementsLifecycle, L!LifeSpec
<1> QED
  BY <1>1, <1>2, <1>3, <1>4, PTL
=============================================================================
