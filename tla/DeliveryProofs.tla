--------------------------- MODULE DeliveryProofs ---------------------------
(***************************************************************************)
(* What holds in Pipeline until the first fault, for any sets of           *)
(* notifications, requests, schedulers and batches: a waiting notification *)
(* keeps a message, and one that has failed for good is buried.            *)
(*                                                                         *)
(* For the first a stronger claim is inductive: the message is on the      *)
(* queue, in retry:delayed or in flight.  processing:<ch>, the set stale   *)
(* acknowledgements interfere with, is not needed, because without a fault *)
(* a batch claims every row whose message it has taken.                    *)
(***************************************************************************)
EXTENDS PipelineProofs

USE DomainAssumption, ApiAssumption DEF DomainAssumption, ApiAssumption

\* A message of n leads to its row.
Carried(n) ==
    status[n] \in {"pending", "queued"} =>
        n \in queue \union delayed \/ InFlight(n)

\* Carried, for the notifications NoLostMessage is about.
CarriedSoFar(n) ==
    faults = 0 /\ n \notin clobbered \union overtaken => Carried(n)

\* What handleFailure has done about a notification whose attempts are used up.
Buried(n) ==
    /\ \A w \in Worker : wpc[w] = "deadLetter" /\ cur[w] = n => status[n] = "failed"
    /\ status[n] = "failed" =>
        \/ deadLetters[n] = 1
        \/ \E w \in Worker : wpc[w] = "deadLetter" /\ cur[w] = n
    /\ deadLetters[n] > 0 => status[n] = "failed"

\* Buried, for the notifications FailedIsBuried is about.
BuriedSoFar(n) == faults = 0 /\ n \notin clobbered => Buried(n)

\* Only scheduled notifications have the status scheduled, and no request
\* enqueues one.
ScheduledApart ==
    /\ \A h \in Handler : hids[h] \intersect Scheduled = {}
    /\ \A n \in Notif : status[n] = "scheduled" => n \in Scheduled

-----------------------------------------------------------------------------
(***************************************************************************)
(* ScheduledApart.                                                         *)
(***************************************************************************)
\* A fault is counted.
LEMMA FaultCounts ==
    ASSUME Shape, NEW kind, Fault(kind)
    PROVE  faults' # 0
BY DEF Shape, TypeOK, Fault

\* No statement but the insert writes the status scheduled.
LEMMA ScheduledRows ==
    ASSUME Shape, ScheduledApart,
           \/ \E ids \in SUBSET Notif :
                \/ CreateBatch(ids) \/ UpdateBatchSent(ids)
                \/ GetAndMarkProcessingBatch(ids)
                \/ \E st \in {"queued", "cancelled"} : UpdateBatchStatus(ids, st)
           \/ \E n \in Notif, st \in {"queued", "failed"} :
                \E a \in Nat : UpdateStatusWithError(n, st, a)
           \/ \E n \in Notif : InsertDeadLetter(n)
           \/ UNCHANGED storeVars
    PROVE  \A n \in Notif : status'[n] = "scheduled" => n \in Scheduled
BY DEF Shape, TypeOK, StoreTypeOK, ScheduledApart, CreateBatch, InitialStatus,
       UpdateBatchSent, GetAndMarkProcessingBatch, UpdateBatchStatus,
       UpdateStatusWithError, InsertDeadLetter, storeVars

\* Every step keeps the scheduled notifications apart.
LEMMA ScheduledApartStep ==
    ASSUME Shape, ScheduledApart, [Next]_vars
    PROVE  ScheduledApart'
<1> USE DEF Shape, TypeOK
<1>1. CASE ApiNext /\ UNCHANGED <<schedVars, procVars>>
  <2>1. \A g \in Handler : hids'[g] \intersect Scheduled = {}
    <3>1. ASSUME NEW h \in Handler, Create(h)
          PROVE  \E now \in SUBSET Notif :
                    now \intersect Scheduled = {} /\ hids' = [hids EXCEPT ![h] = now]
      <4>1. PICK ids \in SUBSET Notif : hids' = [hids EXCEPT ![h] = ids \ Scheduled]
        BY <3>1 DEF Create
      <4> QED
        BY <4>1
    <3>2. ASSUME NEW h \in Handler, Respond(h)
          PROVE  hids' = [hids EXCEPT ![h] = {}]
      BY <3>2 DEF Respond
    <3>3. \/ \E h \in Handler : Create(h) \/ Respond(h)
          \/ hids' = hids
      BY <1>1 DEF ApiNext, CreateFails, EnqueueCreated, EnqueueCreatedFails,
                  MarkQueued, MarkQueuedFails, ApiCrash, CancelRead, CancelWrite,
                  CancelFails, apiVars
    <3> QED
      BY <3>1, <3>2, <3>3 DEF ApiTypeOK, ScheduledApart
  <2>2. \/ \E ids \in SUBSET Notif :
            \/ CreateBatch(ids)
            \/ \E st \in {"queued", "cancelled"} : UpdateBatchStatus(ids, st)
        \/ UNCHANGED storeVars
    BY <1>1 DEF ApiNext, Create, CreateFails, EnqueueCreated, EnqueueCreatedFails,
                MarkQueued, MarkQueuedFails, ApiCrash, CancelRead, CancelWrite,
                CancelFails, Uncertain, ApiTypeOK
  <2> QED
    BY <2>1, <2>2, ScheduledRows DEF ScheduledApart
<1>2. CASE SchedNext /\ UNCHANGED <<apiVars, procVars>>
  <2>1. ASSUME NEW s \in Sched, FinishItem(s)
        PROVE  \/ \E ids \in SUBSET Notif : UpdateBatchStatus(ids, "queued")
               \/ UNCHANGED storeVars
    <3>1. {item[s]} \in SUBSET Notif
      BY <2>1 DEF FinishItem, SchedTypeOK
    <3> QED
      BY <2>1, <3>1 DEF FinishItem, Release, Promote, Reclaim
  <2>2. \/ \E ids \in SUBSET Notif : UpdateBatchStatus(ids, "queued")
        \/ UNCHANGED storeVars
    BY <1>2, <2>1
       DEF SchedNext, ScheduledTimeArrives, LockExpires, Poll, List, EnqueueItem,
           PollFails, ListFails, EnqueueItemFails, FinishItemFails, SchedCrash
  <2> QED
    BY <1>2, <2>2, ScheduledRows DEF ScheduledApart, apiVars
<1>3. CASE ProcNext /\ UNCHANGED <<apiVars, schedVars>>
  <2>1. PICK w \in Worker : Dispatch(w) \/ WorkerStep(w) \/ WorkerFault(w)
    BY <1>3 DEF ProcNext
  <2>2. wpc[w] \in Handling => cur[w] \in Notif /\ att[w][cur[w]] \in Nat
    BY DEF BatchShape, ProcTypeOK
  <2>3. CASE Retry(w) \/ RetryFails(w) \/ Fail(w) \/ FailFails(w)
    <3>1. \/ \E n \in Notif, st \in {"queued", "failed"} :
                \E a \in Nat : UpdateStatusWithError(n, st, a)
          \/ UNCHANGED storeVars
      BY <2>2, <2>3 DEF Retry, RetryFails, Fail, FailFails, NextRow, Goto, Uncertain, Handling
    <3> QED
      BY <1>3, <3>1, ScheduledRows DEF ScheduledApart, apiVars
  <2>4. CASE DeadLetter(w) \/ DeadLetterFails(w)
    BY <1>3, <2>2, <2>4, ScheduledRows
       DEF DeadLetter, DeadLetterFails, Goto, Handling, ScheduledApart, apiVars
  <2>5. CASE WriteSent(w) \/ WriteSentFails(w) \/ Mark(w) \/ MarkFails(w)
    <3>1. ok[w] \in SUBSET Notif /\ msgs[w] \in SUBSET Notif
      BY DEF ProcTypeOK
    <3>2. \/ \E ids \in SUBSET Notif :
                UpdateBatchSent(ids) \/ GetAndMarkProcessingBatch(ids)
          \/ UNCHANGED storeVars
      BY <2>5, <3>1 DEF WriteSent, WriteSentFails, Mark, MarkFails, Uncertain
    <3> QED
      BY <1>3, <3>2, ScheduledRows DEF ScheduledApart, apiVars
  <2>6. CASE UNCHANGED storeVars
    BY <1>3, <2>6, ScheduledRows DEF ScheduledApart, apiVars
  <2> QED
    BY <2>1, <2>3, <2>4, <2>5, <2>6
       DEF WorkerStep, WorkerFault, HandleFailure, Dispatch, DispatchFails,
           Register, RegisterFails, SendSucceeds, SendFails, Delay, DelayFails,
           ItemAck, ItemAckFails, AckBatch, AckBatchFails, WorkerCrash
<1>4. CASE UNCHANGED <<storeVars, apiVars>>
  BY <1>4 DEF ScheduledApart, storeVars, apiVars
<1> QED
  BY <1>1, <1>2, <1>3, <1>4 DEF Next, Timers, vars

-----------------------------------------------------------------------------
(***************************************************************************)
(* CarriedSoFar.                                                           *)
(***************************************************************************)
\* A message of n is on the queue, delayed or in flight.
Carrier(n) == n \in queue \union delayed \/ InFlight(n)

\* The parts of InFlight, by the process that holds the message.
HeldByRequest(n, h) == hpc[h] = "enqueue" /\ n \in hids[h]
HeldByBatch(n, w) ==
    \/ wpc[w] \in {"popped", "registered"} /\ n \in msgs[w]
    \/ wpc[w] = "delay" /\ n = cur[w]

\* A step that makes nothing waiting that was not, and keeps a carrier of what
\* still is.
LEMMA CarriedOn ==
    ASSUME NEW n \in Notif, CarriedSoFar(n), faults' = 0 => faults = 0,
           clobbered \subseteq clobbered', overtaken \subseteq overtaken',
           status'[n] \in {"pending", "queued"} /\ n \notin clobbered' \union overtaken'
              => \/ Carrier(n)'
                 \/ status[n] \in {"pending", "queued"} /\ (Carrier(n) => Carrier(n)')
    PROVE  CarriedSoFar(n)'
BY DEF CarriedSoFar, Carried, Carrier

\* The API: a created notification is in flight until its message is on the
\* queue, and marking it queued does not need another message.
LEMMA CarriedApi ==
    ASSUME Shape, CreatedOnly, ScheduledApart, NEW n \in Notif, CarriedSoFar(n),
           ApiNext, UNCHANGED <<schedVars, procVars>>
    PROVE  CarriedSoFar(n)'
<1> USE DEF Shape, TypeOK, ApiTypeOK, StoreTypeOK
<1> SUFFICES ASSUME faults' = 0 PROVE CarriedSoFar(n)'
  BY DEF CarriedSoFar
<1>1. overtaken' = overtaken /\ \A w \in Worker : HeldByBatch(n, w)' <=> HeldByBatch(n, w)
  BY DEF schedVars, procVars, HeldByBatch
<1>2. ASSUME NEW h \in Handler, Create(h) PROVE CarriedSoFar(n)'
  <2>1. PICK ids \in SUBSET {m \in Notif : status[m] = "absent"} :
          /\ CreateBatch(ids)
          /\ hpc' = [hpc EXCEPT ![h] = IF ids \ Scheduled = {} THEN "idle" ELSE "enqueue"]
          /\ hids' = [hids EXCEPT ![h] = ids \ Scheduled]
    BY <1>2 DEF Create
  <2>2. hpc[h] = "idle" /\ UNCHANGED <<queue, delayed, faults, clobbered>>
    BY <1>2, <2>1 DEF Create, CreateBatch, queueVars
  <2>3. CASE n \in ids
    <3>1. CASE n \in Scheduled
      <4>1. status'[n] = "scheduled"
        BY <2>1, <2>3, <3>1 DEF CreateBatch, InitialStatus
      <4> QED
        BY <1>1, <2>2, <4>1, CarriedOn
    <3>2. CASE n \notin Scheduled
      <4>1. HeldByRequest(n, h)'
        BY <2>1, <2>3, <3>2 DEF HeldByRequest
      <4>2. InFlight(n)'
        BY <4>1 DEF InFlight, HeldByRequest
      <4> QED
        BY <1>1, <2>2, <4>2, CarriedOn DEF Carrier
    <3> QED
      BY <3>1, <3>2
  <2>4. CASE n \notin ids
    <3>1. status'[n] = status[n]
      BY <2>1, <2>4 DEF CreateBatch
    <3>2. \A g \in Handler : HeldByRequest(n, g) => HeldByRequest(n, g)'
      BY <2>1, <2>2 DEF HeldByRequest
    <3>3. InFlight(n) => InFlight(n)'
      BY <1>1, <3>2 DEF InFlight, HeldByRequest, HeldByBatch
    <3> QED
      BY <1>1, <2>2, <3>1, <3>3, CarriedOn DEF Carrier
  <2> QED
    BY <2>3, <2>4
<1>3. ASSUME NEW h \in Handler, EnqueueCreated(h) PROVE CarriedSoFar(n)'
  <2>1. /\ queue' = queue \union hids[h]
        /\ UNCHANGED <<storeVars, faults, delayed, hids>>
        /\ hpc' = [hpc EXCEPT ![h] = "update"]
    BY <1>3 DEF EnqueueCreated, Enqueue
  <2>2. \A g \in Handler : HeldByRequest(n, g) => HeldByRequest(n, g)' \/ n \in queue'
    BY <2>1 DEF HeldByRequest
  <2>3. InFlight(n) => InFlight(n)' \/ n \in queue'
    BY <1>1, <2>2 DEF InFlight, HeldByRequest, HeldByBatch
  <2> QED
    BY <1>1, <2>1, <2>3, CarriedOn DEF Carrier, storeVars
<1>4. ASSUME NEW h \in Handler, MarkQueued(h) PROVE CarriedSoFar(n)'
  <2>1. /\ hpc[h] = "update" /\ UpdateBatchStatus(hids[h], "queued")
        /\ hpc' = [hpc EXCEPT ![h] = "idle"] /\ hids' = [hids EXCEPT ![h] = {}]
        /\ UNCHANGED <<queue, delayed, faults>>
    BY <1>4 DEF MarkQueued, Respond, queueVars
  <2>2. \A g \in Handler : HeldByRequest(n, g) => HeldByRequest(n, g)'
    BY <2>1 DEF HeldByRequest
  <2>3. InFlight(n) => InFlight(n)'
    BY <1>1, <2>2 DEF InFlight, HeldByRequest, HeldByBatch
  <2>4. clobbered \subseteq clobbered'
    BY <2>1 DEF UpdateBatchStatus
  <2>5. status'[n] \in {"pending", "queued"} /\ n \notin clobbered'
            => status[n] \in {"pending", "queued"}
    <3>1. n \in hids[h] => status[n] \notin {"absent", "scheduled"}
      BY DEF CreatedOnly, ScheduledApart
    <3> QED
      BY <2>1, <3>1 DEF UpdateBatchStatus, Waiting
  <2> QED
    BY <1>1, <2>1, <2>3, <2>4, <2>5, CarriedOn DEF Carrier
<1>5. ASSUME NEW m \in Notif, CancelRead(m) \/ CancelWrite(m) PROVE CarriedSoFar(n)'
  <2>1. UNCHANGED <<queue, delayed, faults, hpc, hids>>
    BY <1>5 DEF CancelRead, CancelWrite, queueVars
  <2>2. clobbered \subseteq clobbered' /\ (status'[n] = status[n] \/ status'[n] = "cancelled")
    BY <1>5 DEF CancelRead, CancelWrite, UpdateBatchStatus, storeVars
  <2>3. InFlight(n) => InFlight(n)'
    BY <1>1, <2>1 DEF InFlight, HeldByRequest, HeldByBatch
  <2> QED
    BY <1>1, <2>1, <2>2, <2>3, CarriedOn DEF Carrier
<1> QED
  BY <1>2, <1>3, <1>4, <1>5, FaultCounts
     DEF ApiNext, CreateFails, EnqueueCreatedFails, MarkQueuedFails, ApiCrash, CancelFails

\* The schedulers: an item is put on the queue before its other half is
\* removed or its row is released, and overtaken if it has left the queue
\* meanwhile.
LEMMA CarriedSched ==
    ASSUME Shape, NEW n \in Notif, CarriedSoFar(n),
           SchedNext, UNCHANGED <<apiVars, procVars>>
    PROVE  CarriedSoFar(n)'
<1> USE DEF Shape, TypeOK, SchedTypeOK, StoreTypeOK
<1> SUFFICES ASSUME faults' = 0 PROVE CarriedSoFar(n)'
  BY DEF CarriedSoFar
<1>1. InFlight(n)' <=> InFlight(n)
  BY DEF apiVars, procVars, InFlight
<1>2. CASE UNCHANGED <<storeVars, queueVars, faults, overtaken>>
  BY <1>1, <1>2, CarriedOn DEF Carrier, storeVars, queueVars
<1>3. ASSUME NEW s \in Sched, EnqueueItem(s) PROVE CarriedSoFar(n)'
  <2>1. queue \subseteq queue' /\ UNCHANGED <<storeVars, faults, delayed, overtaken>>
    BY <1>3 DEF EnqueueItem, Enqueue
  <2> QED
    BY <1>1, <2>1, CarriedOn DEF Carrier, storeVars
<1>4. ASSUME NEW s \in Sched, FinishItem(s) PROVE CarriedSoFar(n)'
  <2>1. /\ overtaken' = overtaken \union ({item[s]} \ queue)
        /\ UNCHANGED <<queue, faults>>
    BY <1>4 DEF FinishItem, Release, Promote, Reclaim, RemoveDelayed, Ack, queueVars
  <2>2. clobbered \subseteq clobbered' /\ delayed \ {item[s]} \subseteq delayed'
    BY <1>4 DEF FinishItem, Release, Promote, Reclaim, RemoveDelayed, Ack,
                UpdateBatchStatus, queueVars, storeVars
  <2>3. CASE n = item[s]
    BY <2>1, <2>2, <2>3, CarriedOn DEF Carrier
  <2>4. CASE n # item[s]
    <3>1. status'[n] = status[n]
      BY <1>4, <2>4 DEF FinishItem, Release, Promote, Reclaim, UpdateBatchStatus, storeVars
    <3> QED
      BY <1>1, <2>1, <2>2, <2>4, <3>1, CarriedOn DEF Carrier
  <2> QED
    BY <2>3, <2>4
<1> QED
  BY <1>2, <1>3, <1>4, FaultCounts
     DEF SchedNext, ScheduledTimeArrives, LockExpires, Poll, List, PollFails,
         ListFails, EnqueueItemFails, FinishItemFails, SchedCrash

\* The batches: a message that leaves the queue is held until its row is
\* claimed, and a row that goes back to queued is held until its message is
\* in retry:delayed.
LEMMA CarriedWorker ==
    ASSUME Shape, NEW n \in Notif, CarriedSoFar(n), NEW w \in Worker,
           Dispatch(w) \/ WorkerStep(w) \/ WorkerFault(w),
           UNCHANGED <<apiVars, schedVars>>
    PROVE  CarriedSoFar(n)'
<1> USE DEF Shape, TypeOK, ProcTypeOK, StoreTypeOK
<1> SUFFICES ASSUME faults' = 0 PROVE CarriedSoFar(n)'
  BY DEF CarriedSoFar
<1>1. overtaken' = overtaken /\ \A h \in Handler : HeldByRequest(n, h)' <=> HeldByRequest(n, h)
  BY DEF apiVars, schedVars, HeldByRequest
<1>2. ASSUME \A v \in Worker : HeldByBatch(n, v) => HeldByBatch(n, v)' \/ n \in queue' \union delayed',
             queue \union delayed \subseteq queue' \union delayed',
             UNCHANGED <<faults, clobbered>>,
             status'[n] \in {"pending", "queued"} => status[n] \in {"pending", "queued"}
      PROVE  CarriedSoFar(n)'
  <2>1. InFlight(n) => InFlight(n)' \/ n \in queue' \union delayed'
    BY <1>1, <1>2 DEF InFlight, HeldByRequest, HeldByBatch
  <2> QED
    BY <1>1, <1>2, <2>1, CarriedOn DEF Carrier
<1>3. CASE Dispatch(w)
  <2>1. PICK ids \in Poppable : Pop(ids) /\ msgs' = [msgs EXCEPT ![w] = ids]
    BY <1>3 DEF Dispatch
  <2>2. /\ wpc[w] = "idle" /\ wpc' = [wpc EXCEPT ![w] = "popped"]
        /\ queue' = queue \ ids
        /\ UNCHANGED <<storeVars, delayed, faults, cur>>
    BY <1>3, <2>1 DEF Dispatch, Pop
  <2>3. n \in ids => HeldByBatch(n, w)'
    BY <2>1, <2>2 DEF HeldByBatch
  <2>4. \A v \in Worker : HeldByBatch(n, v) => HeldByBatch(n, v)'
    BY <2>1, <2>2 DEF HeldByBatch
  <2>5. Carrier(n) => Carrier(n)'
    BY <1>1, <2>2, <2>3, <2>4 DEF Carrier, InFlight, HeldByRequest, HeldByBatch
  <2> QED
    BY <1>1, <2>2, <2>5, CarriedOn DEF storeVars
<1>4. CASE Register(w)
  <2>1. \A v \in Worker : HeldByBatch(n, v) => HeldByBatch(n, v)'
    BY <1>4 DEF Register, Goto, HeldByBatch
  <2> QED
    BY <1>2, <1>4, <2>1 DEF Register, RegisterProcessing, storeVars
<1>5. CASE Mark(w)
  <2>1. \A v \in Worker \ {w} : HeldByBatch(n, v) => HeldByBatch(n, v)'
    BY <1>5 DEF Mark, Forget, HeldByBatch
  <2>2. status'[n] \in {"pending", "queued"} => ~HeldByBatch(n, w) /\ status'[n] = status[n]
    BY <1>5 DEF Mark, GetAndMarkProcessingBatch, Claimable, HeldByBatch
  <2>3. UNCHANGED <<queue, delayed, faults, clobbered>>
    BY <1>5 DEF Mark, GetAndMarkProcessingBatch, queueVars
  <2>4. status'[n] \in {"pending", "queued"} => (Carrier(n) => Carrier(n)')
    BY <1>1, <2>1, <2>2, <2>3 DEF Carrier, InFlight, HeldByRequest, HeldByBatch
  <2> QED
    BY <1>1, <2>2, <2>3, <2>4, CarriedOn
<1>6. CASE SendSucceeds(w) \/ SendFails(w)
  <2>1. \A v \in Worker : HeldByBatch(n, v) => HeldByBatch(n, v)'
    BY <1>6 DEF SendSucceeds, SendFails, HeldByBatch
  <2> QED
    BY <1>2, <1>6, <2>1 DEF SendSucceeds, SendFails, storeVars, queueVars
<1>7. CASE Retry(w)
  <2>1. wpc[w] = "retry" /\ wpc' = [wpc EXCEPT ![w] = "delay"] /\ UNCHANGED <<msgs, cur>>
    BY <1>7 DEF Retry, Goto
  <2>2. \A v \in Worker : HeldByBatch(n, v) => HeldByBatch(n, v)'
    BY <2>1 DEF HeldByBatch
  <2>3. UNCHANGED <<queue, delayed, faults, clobbered>>
    BY <1>7 DEF Retry, UpdateStatusWithError, queueVars
  <2>4. CASE n = cur[w]
    <3>1. HeldByBatch(n, w)'
      BY <2>1, <2>4 DEF HeldByBatch
    <3>2. InFlight(n)'
      BY <3>1 DEF InFlight, HeldByBatch
    <3> QED
      BY <1>1, <2>3, <3>2, CarriedOn DEF Carrier
  <2>5. CASE n # cur[w]
    <3>1. status'[n] = status[n]
      BY <1>7, <2>5 DEF Retry, UpdateStatusWithError
    <3> QED
      BY <1>2, <2>2, <2>3, <3>1
  <2> QED
    BY <2>4, <2>5
<1>8. CASE Delay(w)
  <2>1. /\ wpc[w] = "delay" /\ wpc' = [wpc EXCEPT ![w] = "itemAck"]
        /\ delayed' = delayed \union {cur[w]}
        /\ UNCHANGED <<msgs, cur, queue, storeVars, faults>>
    BY <1>8 DEF Delay, Goto, EnqueueDelayed
  <2>2. \A v \in Worker : HeldByBatch(n, v) => HeldByBatch(n, v)' \/ n \in delayed'
    BY <2>1 DEF HeldByBatch
  <2> QED
    BY <1>2, <2>1, <2>2 DEF storeVars
<1>9. CASE Fail(w) \/ DeadLetter(w) \/ ItemAck(w) \/ WriteSent(w) \/ AckBatch(w)
  <2>1. \A v \in Worker : HeldByBatch(n, v) => HeldByBatch(n, v)'
    BY <1>9 DEF Fail, DeadLetter, ItemAck, WriteSent, AckBatch, NextRow, Goto, Forget,
                HeldByBatch
  <2>2. UNCHANGED <<queue, delayed, faults, clobbered>>
    BY <1>9 DEF Fail, DeadLetter, ItemAck, WriteSent, AckBatch, Ack, queueVars, storeVars,
                UpdateStatusWithError, InsertDeadLetter, UpdateBatchSent
  <2>3. status'[n] \in {"pending", "queued"} => status[n] \in {"pending", "queued"}
    BY <1>9 DEF Fail, DeadLetter, ItemAck, WriteSent, AckBatch, storeVars,
                UpdateStatusWithError, InsertDeadLetter, UpdateBatchSent
  <2> QED
    BY <1>2, <2>1, <2>2, <2>3
<1>10. CASE WorkerFault(w)
  BY <1>10, FaultCounts
     DEF WorkerFault, DispatchFails, RegisterFails, MarkFails, RetryFails, DelayFails,
         FailFails, DeadLetterFails, ItemAckFails, WriteSentFails, AckBatchFails,
         WorkerCrash
<1> QED
  BY <1>3, <1>4, <1>5, <1>6, <1>7, <1>8, <1>9, <1>10 DEF WorkerStep, HandleFailure

\* Every step keeps a message for every waiting notification.
LEMMA CarriedStep ==
    ASSUME Shape, CreatedOnly, ScheduledApart, NEW n \in Notif, CarriedSoFar(n),
           [Next]_vars
    PROVE  CarriedSoFar(n)'
<1>1. CASE UNCHANGED <<apiVars, schedVars, procVars, storeVars, faults, queue, delayed>>
  BY <1>1 DEF CarriedSoFar, Carried, InFlight, apiVars, schedVars, procVars, storeVars
<1>2. CASE Timers /\ UNCHANGED <<apiVars, schedVars, procVars>>
  BY <1>1, <1>2 DEF Timers, VisibilityTimeout, RetryDelayElapses
<1> QED
  BY <1>1, <1>2, CarriedApi, CarriedSched, CarriedWorker
     DEF Next, ProcNext, vars, queueVars

-----------------------------------------------------------------------------
(***************************************************************************)
(* BuriedSoFar.                                                            *)
(***************************************************************************)
\* handleFailure of w is about to insert the dead letter of n.
Burying(w, n) == wpc[w] = "deadLetter" /\ cur[w] = n

\* A step that inserts no dead letter of n, and neither makes n failed nor
\* takes that status away.
LEMMA BuriedOn ==
    ASSUME NEW n \in Notif, BuriedSoFar(n), faults' = 0 => faults = 0,
           clobbered \subseteq clobbered', deadLetters'[n] = deadLetters[n],
           \A w \in Worker : Burying(w, n)' <=> Burying(w, n),
           n \notin clobbered' =>
              \/ status'[n] = status[n]
              \/ (status[n] # "failed" /\ status'[n] # "failed")
    PROVE  BuriedSoFar(n)'
BY DEF BuriedSoFar, Buried, Burying

\* The API and the schedulers write over a failed row only if they clobber it.
LEMMA BuriedOthers ==
    ASSUME Shape, NEW n \in Notif, BuriedSoFar(n), UNCHANGED procVars,
           ApiNext \/ SchedNext \/ Timers
    PROVE  BuriedSoFar(n)'
<1> USE DEF Shape, TypeOK, StoreTypeOK
<1> SUFFICES ASSUME faults' = 0 PROVE BuriedSoFar(n)'
  BY DEF BuriedSoFar
<1>1. \A w \in Worker : Burying(w, n)' <=> Burying(w, n)
  BY DEF Burying, procVars
<1>2. CASE UNCHANGED <<storeVars, faults>>
  BY <1>1, <1>2, BuriedOn DEF storeVars
<1>3. ASSUME NEW ids \in SUBSET {m \in Notif : status[m] = "absent"}, CreateBatch(ids),
             UNCHANGED faults
      PROVE  BuriedSoFar(n)'
  BY <1>1, <1>3, BuriedOn DEF CreateBatch, InitialStatus
<1>4. ASSUME NEW ids, NEW st \in {"queued", "cancelled"}, UpdateBatchStatus(ids, st),
             UNCHANGED faults
      PROVE  BuriedSoFar(n)'
  <2>1. n \notin clobbered' => status'[n] = status[n] \/ (status[n] # "failed" /\ status'[n] # "failed")
    BY <1>4 DEF UpdateBatchStatus, Waiting
  <2> QED
    BY <1>1, <1>4, <2>1, BuriedOn DEF UpdateBatchStatus
<1>5. CASE ApiNext
  BY <1>2, <1>3, <1>4, <1>5, FaultCounts
     DEF ApiNext, Create, EnqueueCreated, MarkQueued, CancelRead, CancelWrite,
         CreateFails, EnqueueCreatedFails, MarkQueuedFails, ApiCrash, CancelFails
<1>6. CASE SchedNext
  <2>1. ASSUME NEW r \in Sched, FinishItem(r) PROVE BuriedSoFar(n)'
    BY <1>2, <1>4, <2>1 DEF FinishItem, Release, Promote, Reclaim
  <2> QED
    BY <1>2, <1>6, <2>1, FaultCounts
       DEF SchedNext, ScheduledTimeArrives, LockExpires, Poll, List, EnqueueItem,
           PollFails, ListFails, EnqueueItemFails, FinishItemFails, SchedCrash
<1> QED
  BY <1>2, <1>5, <1>6 DEF Timers

\* The batches: only the owner of a row in processing makes it failed, and it
\* inserts the first dead letter of a row that is.
LEMMA BuriedWorker ==
    ASSUME Shape, NEW n \in Notif, Kept(n), BuriedSoFar(n), NEW w \in Worker,
           Dispatch(w) \/ WorkerStep(w) \/ WorkerFault(w)
    PROVE  BuriedSoFar(n)'
<1> USE DEF Shape, TypeOK, ProcTypeOK, StoreTypeOK
<1> SUFFICES ASSUME faults' = 0, n \notin clobbered' PROVE BuriedSoFar(n)'
  BY DEF BuriedSoFar
<1>1. CASE WorkerFault(w)
  BY <1>1, FaultCounts
     DEF WorkerFault, DispatchFails, RegisterFails, MarkFails, RetryFails, DelayFails,
         FailFails, DeadLetterFails, ItemAckFails, WriteSentFails, AckBatchFails,
         WorkerCrash
<1>2. CASE \/ Dispatch(w) \/ Register(w) \/ SendSucceeds(w) \/ SendFails(w)
           \/ Delay(w) \/ ItemAck(w) \/ AckBatch(w)
  <2>1. UNCHANGED <<storeVars, faults>>
    BY <1>2 DEF Dispatch, Register, SendSucceeds, SendFails, Delay, ItemAck, AckBatch
  <2>2. \A v \in Worker : Burying(v, n)' <=> Burying(v, n)
    BY <1>2 DEF Dispatch, Register, SendSucceeds, SendFails, Delay, ItemAck, AckBatch,
                NextRow, Goto, Forget, Burying
  <2> QED
    BY <2>1, <2>2, BuriedOn DEF storeVars
<1>3. CASE Mark(w)
  <2>1. \A v \in Worker : Burying(v, n)' <=> Burying(v, n)
    BY <1>3 DEF Mark, Forget, Burying
  <2>2. /\ status'[n] = status[n] \/ (status[n] # "failed" /\ status'[n] # "failed")
        /\ UNCHANGED <<faults, deadLetters, clobbered>>
    BY <1>3 DEF Mark, GetAndMarkProcessingBatch, Claimable
  <2> QED
    BY <2>1, <2>2, BuriedOn
<1>4. CASE Retry(w)
  <2>1. \A v \in Worker : Burying(v, n)' <=> Burying(v, n)
    BY <1>4 DEF Retry, Goto, Burying
  <2>2. UNCHANGED <<faults, deadLetters, clobbered>>
    BY <1>4 DEF Retry, UpdateStatusWithError
  <2>3. n = cur[w] => status[n] = "processing"
    BY <1>4, <2>2 DEF Retry, Goto, Kept, OwnerKnows
  <2>4. status'[n] = status[n] \/ (status[n] # "failed" /\ status'[n] # "failed")
    BY <1>4, <2>3 DEF Retry, UpdateStatusWithError
  <2> QED
    BY <2>1, <2>2, <2>4, BuriedOn
<1>5. CASE WriteSent(w)
  <2>1. \A v \in Worker : Burying(v, n)' <=> Burying(v, n)
    BY <1>5 DEF WriteSent, Goto, Burying
  <2>2. UNCHANGED <<faults, deadLetters, clobbered>>
    BY <1>5 DEF WriteSent, UpdateBatchSent
  <2>3. n \in ok[w] => status[n] = "processing"
    BY <1>5, <2>2 DEF WriteSent, Goto, Kept, OwnerKnows
  <2>4. status'[n] = status[n] \/ (status[n] # "failed" /\ status'[n] # "failed")
    BY <1>5, <2>3 DEF WriteSent, UpdateBatchSent
  <2> QED
    BY <2>1, <2>2, <2>4, BuriedOn
<1>6. CASE Fail(w)
  <2>1. /\ wpc[w] = "fail" /\ wpc' = [wpc EXCEPT ![w] = "deadLetter"]
        /\ status' = [status EXCEPT ![cur[w]] = "failed"]
        /\ UNCHANGED <<cur, faults, deadLetters, clobbered>>
    BY <1>6 DEF Fail, Goto, UpdateStatusWithError
  <2>2. CASE n = cur[w]
    <3>1. status'[n] = "failed" /\ Burying(w, n)'
      BY <2>1, <2>2 DEF Burying
    <3> QED
      BY <3>1 DEF BuriedSoFar, Buried, Burying
  <2>3. CASE n # cur[w]
    <3>1. \A v \in Worker : Burying(v, n)' <=> Burying(v, n)
      BY <2>1, <2>3 DEF Burying
    <3> QED
      BY <2>1, <2>3, <3>1, BuriedOn
  <2> QED
    BY <2>2, <2>3
<1>7. CASE DeadLetter(w)
  <2>1. /\ wpc[w] = "deadLetter" /\ wpc' = [wpc EXCEPT ![w] = "itemAck"]
        /\ deadLetters' = [deadLetters EXCEPT ![cur[w]] = @ + 1]
        /\ UNCHANGED <<cur, faults, status, clobbered>>
    BY <1>7 DEF DeadLetter, Goto, InsertDeadLetter
  <2>2. CASE n = cur[w]
    <3>1. deadLetters[n] = 0 /\ status[n] = "failed"
      BY <2>1, <2>2 DEF Kept, OwnerKnows, BuriedSoFar, Buried
    <3>2. deadLetters'[n] = 1 /\ status'[n] = "failed"
      BY <2>1, <2>2, <3>1
    <3> QED
      BY <3>2 DEF BuriedSoFar, Buried
  <2>3. CASE n # cur[w]
    <3>1. \A v \in Worker : Burying(v, n)' <=> Burying(v, n)
      BY <2>1, <2>3 DEF Burying
    <3> QED
      BY <2>1, <2>3, <3>1, BuriedOn
  <2> QED
    BY <2>2, <2>3
<1> QED
  BY <1>1, <1>2, <1>3, <1>4, <1>5, <1>6, <1>7 DEF WorkerStep, HandleFailure

-----------------------------------------------------------------------------
(***************************************************************************)
(* The theorems.                                                           *)
(***************************************************************************)
DInv ==
    /\ IInv
    /\ ScheduledApart
    /\ \A n \in Notif : CarriedSoFar(n) /\ BuriedSoFar(n)

\* DInv holds before the first request.
LEMMA DInvInit == Init => DInv
<1> SUFFICES ASSUME Init PROVE DInv
  OBVIOUS
<1>1. IInv
  BY IInvInit
<1>2. ScheduledApart /\ \A n \in Notif : CarriedSoFar(n) /\ BuriedSoFar(n)
  BY DEF Init, StoreInit, ApiInit, ProcInit, ScheduledApart, CarriedSoFar, Carried,
         BuriedSoFar, Buried
<1> QED
  BY <1>1, <1>2 DEF DInv

\* Every step of every process preserves DInv.
LEMMA DInvStep == DInv /\ [Next]_vars => DInv'
<1> SUFFICES ASSUME DInv, [Next]_vars PROVE DInv'
  OBVIOUS
<1>1. IInv' /\ Shape /\ CreatedOnly /\ ScheduledApart
  BY IInvStep DEF DInv, IInv, Shape
<1>2. ScheduledApart'
  BY <1>1, ScheduledApartStep
<1>3. ASSUME NEW n \in Notif PROVE CarriedSoFar(n)' /\ BuriedSoFar(n)'
  <2>1. CarriedSoFar(n) /\ BuriedSoFar(n) /\ Kept(n)
    BY DEF DInv, IInv
  <2>2. CarriedSoFar(n)'
    BY <1>1, <2>1, CarriedStep
  <2>3. BuriedSoFar(n)'
    <3>1. CASE ProcNext
      BY <1>1, <2>1, <3>1, BuriedWorker DEF ProcNext
    <3>2. CASE UNCHANGED procVars /\ (ApiNext \/ SchedNext \/ Timers)
      BY <1>1, <2>1, <3>2, BuriedOthers
    <3>3. CASE UNCHANGED vars
      BY <2>1, <3>3 DEF vars, storeVars, procVars, BuriedSoFar, Buried
    <3> QED
      BY <3>1, <3>2, <3>3 DEF Next
  <2> QED
    BY <2>2, <2>3
<1> QED
  BY <1>1, <1>2, <1>3 DEF DInv

\* Without a fault a waiting notification is never stranded, for any numbers
\* of notifications, batches and schedulers, except by the two accidents that
\* clobbered and overtaken record (Create, ProcessBatch, handleFailure, poll).
THEOREM PipelineNoLostMessage == Spec => []NoLostMessage
<1>1. DInv => NoLostMessage
  BY DEF DInv, CarriedSoFar, Carried, NoLostMessage, Stranded, InRedis
<1> QED
  BY <1>1, DInvInit, DInvStep, PTL DEF Spec

\* Without a fault a notification that has used up its attempts has exactly
\* one dead letter, and no other has one (handleFailure).
THEOREM PipelineFailedIsBuried == Spec => []FailedIsBuried
<1>1. DInv => FailedIsBuried
  BY DEF DInv, BuriedSoFar, Buried, FailedIsBuried
<1> QED
  BY <1>1, DInvInit, DInvStep, PTL DEF Spec

=============================================================================
