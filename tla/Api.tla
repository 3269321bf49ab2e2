-------------------------------- MODULE Api ---------------------------------
(***************************************************************************)
(* The HTTP handlers that write: create (single and batch) and cancel of   *)
(* internal/api/handler/notification.go.  A create is three calls that     *)
(* other processes can come between: insert, enqueue, mark queued.         *)
(***************************************************************************)
EXTENDS Store, RedisQueue, Faults

CONSTANTS
    Handler,        \* requests the API serves at the same time
    Cancellable     \* notifications some client asks to cancel

ASSUME ApiAssumption == Cancellable \subseteq Notif

VARIABLES
    hpc,            \* the call a create request is about to make
    hids,           \* the notifications it inserted that are not scheduled
    cancelling      \* Cancel has read a waiting status, not written yet

apiVars == <<hpc, hids, cancelling>>

ApiTypeOK ==
    /\ hpc \in [Handler -> {"idle", "enqueue", "update"}]
    /\ hids \in [Handler -> SUBSET Notif]
    /\ cancelling \subseteq Cancellable

ApiInit ==
    /\ hpc = [h \in Handler |-> "idle"]
    /\ hids = [h \in Handler |-> {}]
    /\ cancelling = {}

\* The request is answered (or dies): its volatile state is gone.
Respond(h) ==
    /\ hpc' = [hpc EXCEPT ![h] = "idle"]
    /\ hids' = [hids EXCEPT ![h] = {}]
    /\ UNCHANGED cancelling

\* Create and BatchCreate up to the insert; scheduled ones are left to the
\* scheduler.
Create(h) ==
    /\ hpc[h] = "idle"
    /\ \E ids \in (SUBSET {n \in Notif : status[n] = "absent"}) \ {{}} :
        LET now == ids \ Scheduled IN
        /\ CreateBatch(ids)
        /\ hpc' = [hpc EXCEPT ![h] = IF now = {} THEN "idle" ELSE "enqueue"]
        /\ hids' = [hids EXCEPT ![h] = now]
    /\ UNCHANGED <<queueVars, faults, cancelling>>

\* The insert returns an error after it was committed: 500, no enqueue.
CreateFails(h) ==
    /\ hpc[h] = "idle"
    /\ Fault("postgres")
    /\ \E ids \in (SUBSET {n \in Notif : status[n] = "absent"}) \ {{}} :
        CreateBatch(ids)
    /\ UNCHANGED <<queueVars, apiVars>>

\* batchEnqueue and enqueue: put the messages on the queue ...
EnqueueCreated(h) ==
    /\ hpc[h] = "enqueue"
    /\ Enqueue(hids[h])
    /\ hpc' = [hpc EXCEPT ![h] = "update"]
    /\ UNCHANGED <<storeVars, faults, hids, cancelling>>

\* ... which can fail part of the way through the pipeline ...
EnqueueCreatedFails(h) ==
    /\ hpc[h] = "enqueue"
    /\ Fault("redis")
    /\ \E ids \in SUBSET hids[h] : Enqueue(ids)
    /\ Respond(h)
    /\ UNCHANGED storeVars

\* ... and then mark the rows queued, whatever happened to them meanwhile.
MarkQueued(h) ==
    /\ hpc[h] = "update"
    /\ UpdateBatchStatus(hids[h], "queued")
    /\ Respond(h)
    /\ UNCHANGED <<queueVars, faults>>

MarkQueuedFails(h) ==
    /\ hpc[h] = "update"
    /\ Fault("postgres")
    /\ Uncertain(UpdateBatchStatus(hids[h], "queued"), storeVars)
    /\ Respond(h)
    /\ UNCHANGED queueVars

ApiCrash(h) ==
    /\ hpc[h] # "idle"
    /\ Fault("crash")
    /\ Respond(h)
    /\ UNCHANGED <<storeVars, queueVars>>

\* Cancel, first call: GetByID, and the switch on the status it returned.
CancelRead(n) ==
    /\ n \in Cancellable \ cancelling
    /\ status[n] \in Waiting
    /\ cancelling' = cancelling \union {n}
    /\ UNCHANGED <<storeVars, queueVars, faults, hpc, hids>>

\* Cancel, second call: the write does not repeat the test.
CancelWrite(n) ==
    /\ n \in cancelling
    /\ UpdateBatchStatus({n}, "cancelled")
    /\ cancelling' = cancelling \ {n}
    /\ UNCHANGED <<queueVars, faults, hpc, hids>>

\* The write fails, or the API dies before it.
CancelFails(n) ==
    /\ n \in cancelling
    /\ Fault("postgres") \/ Fault("crash")
    /\ cancelling' = cancelling \ {n}
    /\ UNCHANGED <<storeVars, queueVars, hpc, hids>>

ApiNext ==
    \/ \E h \in Handler :
        \/ Create(h) \/ EnqueueCreated(h) \/ MarkQueued(h)
        \/ CreateFails(h) \/ EnqueueCreatedFails(h) \/ MarkQueuedFails(h)
        \/ ApiCrash(h)
    \/ \E n \in Notif : CancelRead(n) \/ CancelWrite(n) \/ CancelFails(n)
=============================================================================
