----------------------------- MODULE Processor ------------------------------
(***************************************************************************)
(* A batch on its way through a worker process: Dispatcher.dispatch pops   *)
(* it, DequeueBatch registers it, the pool hands it to                     *)
(* Processor.ProcessBatch, which claims its rows, sends them one by one,   *)
(* deals with each failed send (handleFailure) before the next one, writes *)
(* the sent ones and acknowledges the whole batch.  A Worker is a place    *)
(* for one such batch (a goroutine of a pool, or a slot of its channel).   *)
(***************************************************************************)
EXTENDS Store, RedisQueue, Faults, FiniteSets

CONSTANTS
    Worker,         \* batches that can be under way at the same time
    BatchSize       \* Dispatcher.batchSize

ASSUME ProcessorAssumption == BatchSize \in Nat \ {0}

VARIABLES
    wpc,            \* the call the batch is about to make
    msgs,           \* the messages of the batch
    todo,           \* rows claimed for it and not sent yet
    ok,             \* rows whose send succeeded (sentIDs)
    cur,            \* the notification handleFailure is working on
    att,            \* Attempts in the batch's copies of the rows it claimed
    calls,          \* history: sends made for a notification
    delivered       \* history: the ones that returned without an error

procVars == <<wpc, msgs, todo, ok, cur, att, calls, delivered>>

ProcTypeOK ==
    /\ wpc \in [Worker -> {"idle", "popped", "registered", "sending", "retry",
                           "delay", "fail", "deadLetter", "itemAck", "ack"}]
    /\ msgs \in [Worker -> SUBSET Notif]
    /\ todo \in [Worker -> SUBSET Notif]
    /\ ok \in [Worker -> SUBSET Notif]
    /\ cur \in [Worker -> Notif \union {None}]
    /\ att \in [Worker -> [Notif -> Nat]]
    /\ calls \in [Notif -> Nat]
    /\ delivered \in [Notif -> Nat]

ProcInit ==
    /\ wpc = [w \in Worker |-> "idle"]
    /\ msgs = [w \in Worker |-> {}]
    /\ todo = [w \in Worker |-> {}]
    /\ ok = [w \in Worker |-> {}]
    /\ cur = [w \in Worker |-> None]
    /\ att = [w \in Worker |-> [n \in Notif |-> 0]]
    /\ calls = [n \in Notif |-> 0]
    /\ delivered = [n \in Notif |-> 0]

\* Step w from one call to the next, the rest of the batch as it is.
Goto(w, from, to) ==
    /\ wpc[w] = from
    /\ wpc' = [wpc EXCEPT ![w] = to]
    /\ UNCHANGED <<msgs, todo, ok, att, calls, delivered>>

\* The batch is over (or dies with its process): its memory is gone.
Forget(w) ==
    /\ wpc' = [wpc EXCEPT ![w] = "idle"]
    /\ msgs' = [msgs EXCEPT ![w] = {}]
    /\ todo' = [todo EXCEPT ![w] = {}]
    /\ ok' = [ok EXCEPT ![w] = {}]
    /\ cur' = [cur EXCEPT ![w] = None]
    /\ att' = [att EXCEPT ![w] = [n \in Notif |-> 0]]
    /\ UNCHANGED <<calls, delivered>>

\* What a ZPOPMIN can return: the rate limiter decides how many, the scores
\* which ones.
Poppable == {ids \in SUBSET queue : ids # {} /\ Cardinality(ids) <= BatchSize}

\* dispatch: AllowN granted some of the batch size, ZPOPMIN found messages.
Dispatch(w) ==
    /\ wpc[w] = "idle"
    /\ \E ids \in Poppable :
        /\ Pop(ids)
        /\ msgs' = [msgs EXCEPT ![w] = ids]
    /\ wpc' = [wpc EXCEPT ![w] = "popped"]
    /\ UNCHANGED <<storeVars, faults, todo, ok, cur, att, calls, delivered>>

\* The reply to the ZPOPMIN is lost, and with it what it took off the queue.
DispatchFails(w) ==
    /\ wpc[w] = "idle"
    /\ Fault("redis")
    /\ \E ids \in Poppable : Pop(ids)
    /\ UNCHANGED <<storeVars, procVars>>

\* The rest of DequeueBatch, and Pool.Submit.
Register(w) ==
    /\ RegisterProcessing(msgs[w])
    /\ Goto(w, "popped", "registered")
    /\ UNCHANGED <<storeVars, faults, cur>>

\* The pipeline fails after some of its ZADDs: the batch is dropped.
RegisterFails(w) ==
    /\ wpc[w] = "popped"
    /\ Fault("redis")
    /\ \E ids \in SUBSET msgs[w] : RegisterProcessing(ids)
    /\ Forget(w)
    /\ UNCHANGED storeVars

\* ProcessBatch: claim.  With no row claimed it returns without an ack.
Mark(w) ==
    LET mine == Claimable(msgs[w]) IN
    /\ wpc[w] = "registered"
    /\ GetAndMarkProcessingBatch(msgs[w])
    /\ \/ /\ mine = {}
          /\ Forget(w)
       \/ /\ mine # {}
          /\ wpc' = [wpc EXCEPT ![w] = "sending"]
          /\ todo' = [todo EXCEPT ![w] = mine]
          /\ att' = [att EXCEPT ![w] = scanNotifications(msgs[w])]
          /\ UNCHANGED <<msgs, ok, cur, calls, delivered>>
    /\ UNCHANGED <<queueVars, faults>>

MarkFails(w) ==
    /\ wpc[w] = "registered"
    /\ Fault("postgres")
    /\ Uncertain(GetAndMarkProcessingBatch(msgs[w]), storeVars)
    /\ Forget(w)
    /\ UNCHANGED queueVars

\* provider.Send returns without an error.
SendSucceeds(w) ==
    /\ wpc[w] = "sending"
    /\ \E n \in todo[w] :
        /\ todo' = [todo EXCEPT ![w] = @ \ {n}]
        /\ ok' = [ok EXCEPT ![w] = @ \union {n}]
        /\ calls' = [calls EXCEPT ![n] = @ + 1]
        /\ delivered' = [delivered EXCEPT ![n] = @ + 1]
    /\ UNCHANGED <<storeVars, queueVars, faults, wpc, msgs, cur, att>>

\* Mutant: one attempt too many.
SendFailsOnceMore(w) ==
    /\ wpc[w] = "sending"
    /\ \E n \in todo[w] :
        LET tried == att[w][n] + 1 IN
        /\ todo' = [todo EXCEPT ![w] = @ \ {n}]
        /\ calls' = [calls EXCEPT ![n] = @ + 1]
        /\ att' = [att EXCEPT ![w][n] = tried]
        /\ cur' = [cur EXCEPT ![w] = n]
        /\ wpc' = [wpc EXCEPT ![w] =
                    IF tried > MaxAttempts THEN "fail" ELSE "retry"]
    /\ UNCHANGED <<storeVars, queueVars, faults, msgs, ok, delivered>>

\* provider.Send returns an error (the webhook's, a timeout's, or the circuit
\* breaker's): handleFailure counts the attempt and decides.
SendFails(w) ==
    /\ wpc[w] = "sending"
    /\ \E n \in todo[w] :
        LET tried == att[w][n] + 1 IN
        /\ todo' = [todo EXCEPT ![w] = @ \ {n}]
        /\ calls' = [calls EXCEPT ![n] = @ + 1]
        /\ att' = [att EXCEPT ![w][n] = tried]
        /\ cur' = [cur EXCEPT ![w] = n]
        /\ wpc' = [wpc EXCEPT ![w] =
                    IF tried >= MaxAttempts THEN "fail" ELSE "retry"]
    /\ UNCHANGED <<storeVars, queueVars, faults, msgs, ok, delivered>>

\* handleFailure returns, ProcessBatch goes on with the next row.
NextRow(w, from) ==
    /\ Goto(w, from, "sending")
    /\ cur' = [cur EXCEPT ![w] = None]

\* handleFailure, attempts left: back to queued, then to the delayed set.
Retry(w) ==
    /\ Goto(w, "retry", "delay")
    /\ UpdateStatusWithError(cur[w], "queued", att[w][cur[w]])
    /\ UNCHANGED <<queueVars, faults, cur>>

RetryFails(w) ==
    /\ NextRow(w, "retry")
    /\ Fault("postgres")
    /\ Uncertain(UpdateStatusWithError(cur[w], "queued", att[w][cur[w]]),
                 storeVars)
    /\ UNCHANGED queueVars

Delay(w) ==
    /\ Goto(w, "delay", "itemAck")
    /\ EnqueueDelayed(cur[w])
    /\ UNCHANGED <<storeVars, faults, cur>>

DelayFails(w) ==
    /\ NextRow(w, "delay")
    /\ Fault("redis")
    /\ Uncertain(EnqueueDelayed(cur[w]), queueVars)
    /\ UNCHANGED storeVars

\* Mutant: no dead letter.
FailUnburied(w) ==
    /\ Goto(w, "fail", "itemAck")
    /\ UpdateStatusWithError(cur[w], "failed", att[w][cur[w]])
    /\ UNCHANGED <<queueVars, faults, cur>>

\* handleFailure, attempts used up: failed, then a dead letter, whatever
\* becomes of either.
Fail(w) ==
    /\ Goto(w, "fail", "deadLetter")
    /\ UpdateStatusWithError(cur[w], "failed", att[w][cur[w]])
    /\ UNCHANGED <<queueVars, faults, cur>>

FailFails(w) ==
    /\ Goto(w, "fail", "deadLetter")
    /\ Fault("postgres")
    /\ UNCHANGED <<storeVars, queueVars, cur>>

DeadLetter(w) ==
    /\ Goto(w, "deadLetter", "itemAck")
    /\ InsertDeadLetter(cur[w])
    /\ UNCHANGED <<queueVars, faults, cur>>

DeadLetterFails(w) ==
    /\ Goto(w, "deadLetter", "itemAck")
    /\ Fault("postgres")
    /\ UNCHANGED <<storeVars, queueVars, cur>>

ItemAck(w) ==
    /\ NextRow(w, "itemAck")
    /\ Ack({cur[w]})
    /\ UNCHANGED <<storeVars, faults>>

ItemAckFails(w) ==
    /\ NextRow(w, "itemAck")
    /\ Fault("redis")
    /\ UNCHANGED <<storeVars, queueVars>>

\* The rest of ProcessBatch: write the sent ones, if there are any, ...
WriteSent(w) ==
    /\ todo[w] = {}
    /\ Goto(w, "sending", "ack")
    /\ UpdateBatchSent(ok[w])
    /\ UNCHANGED <<queueVars, faults, cur>>

WriteSentFails(w) ==
    /\ todo[w] = {}
    /\ ok[w] # {}
    /\ Goto(w, "sending", "ack")
    /\ Fault("postgres")
    /\ UNCHANGED <<storeVars, queueVars, cur>>

\* ... and acknowledge every message of the batch.
AckBatch(w) ==
    /\ wpc[w] = "ack"
    /\ Ack(msgs[w])
    /\ Forget(w)
    /\ UNCHANGED <<storeVars, faults>>

AckBatchFails(w) ==
    /\ wpc[w] = "ack"
    /\ Fault("redis")
    /\ Forget(w)
    /\ UNCHANGED <<storeVars, queueVars>>

WorkerCrash(w) ==
    /\ wpc[w] # "idle"
    /\ Fault("crash")
    /\ Forget(w)
    /\ UNCHANGED <<storeVars, queueVars>>

\* handleFailure.
HandleFailure(w) ==
    \/ Retry(w) \/ Delay(w) \/ Fail(w) \/ DeadLetter(w) \/ ItemAck(w)

\* A batch makes its next call and the call succeeds.
WorkerStep(w) ==
    \/ Register(w) \/ Mark(w) \/ SendSucceeds(w) \/ SendFails(w)
    \/ HandleFailure(w) \/ WriteSent(w) \/ AckBatch(w)

\* A call fails, or the process dies.
WorkerFault(w) ==
    \/ DispatchFails(w) \/ RegisterFails(w) \/ MarkFails(w) \/ RetryFails(w)
    \/ DelayFails(w) \/ FailFails(w) \/ DeadLetterFails(w) \/ ItemAckFails(w)
    \/ WriteSentFails(w) \/ AckBatchFails(w) \/ WorkerCrash(w)

ProcNext == \E w \in Worker : Dispatch(w) \/ WorkerStep(w) \/ WorkerFault(w)
=============================================================================
