------------------------------ MODULE Pipeline ------------------------------
(***************************************************************************)
(* The notification pipeline: API, schedulers and workers, sharing the     *)
(* rows in Postgres and the sorted sets in Redis.                          *)
(***************************************************************************)
EXTENDS Api, Scheduler, Processor

vars == <<storeVars, queueVars, faults, apiVars, schedVars, procVars>>

TypeOK ==
    /\ StoreTypeOK
    /\ QueueTypeOK
    /\ faults \in 0..MaxFaults
    /\ ApiTypeOK
    /\ SchedTypeOK
    /\ ProcTypeOK

Init ==
    /\ StoreInit
    /\ QueueInit
    /\ faults = 0
    /\ ApiInit
    /\ SchedInit
    /\ ProcInit

\* Time passing in Redis.
Timers ==
    /\ \E n \in Notif : VisibilityTimeout(n) \/ RetryDelayElapses(n)
    /\ UNCHANGED <<storeVars, faults>>

Next ==
    \/ ApiNext /\ UNCHANGED <<schedVars, procVars>>
    \/ SchedNext /\ UNCHANGED <<apiVars, procVars>>
    \/ ProcNext /\ UNCHANGED <<apiVars, schedVars>>
    \/ Timers /\ UNCHANGED <<apiVars, schedVars, procVars>>

Spec == Init /\ [][Next]_vars

-----------------------------------------------------------------------------
(***************************************************************************)
(* Fairness.  A request, a poll and a batch that have begun make their     *)
(* next call (the Go scheduler runs every goroutine, every call has a      *)
(* timeout); tickers tick and clocks advance; ZPOPMIN takes a message that *)
(* keeps coming back to the head of the queue sooner or later, because     *)
(* scores grow with time.  Clients need not create or cancel anything, and *)
(* the provider need not ever accept.                                      *)
(***************************************************************************)
ApiStep(h) ==
    /\ EnqueueCreated(h) \/ MarkQueued(h)
    /\ UNCHANGED <<schedVars, procVars>>

CancelStep(n) == CancelWrite(n) /\ UNCHANGED <<schedVars, procVars>>

SchedStep(s) ==
    /\ Poll(s) \/ List(s) \/ EnqueueItem(s) \/ FinishItem(s)
    /\ UNCHANGED <<apiVars, procVars>>

DispatchOf(n) ==
    /\ n \in queue
    /\ \E w \in Worker : Dispatch(w) /\ n \in msgs'[w]
    /\ UNCHANGED <<apiVars, schedVars>>

Clock(n) ==
    \/ /\ VisibilityTimeout(n) \/ RetryDelayElapses(n)
       /\ UNCHANGED <<storeVars, faults, apiVars, schedVars, procVars>>
    \/ /\ ScheduledTimeArrives(n)
       /\ UNCHANGED <<apiVars, procVars>>

Fairness ==
    /\ \A h \in Handler : WF_vars(ApiStep(h))
    /\ \A s \in Sched : WF_vars(SchedStep(s))
    /\ WF_vars(LockExpires /\ UNCHANGED <<apiVars, procVars>>)
    /\ \A w \in Worker : WF_vars(WorkerStep(w) /\ UNCHANGED <<apiVars, schedVars>>)
    /\ \A n \in Notif : WF_vars(CancelStep(n)) /\ WF_vars(Clock(n))
    /\ \A n \in Notif : SF_vars(DispatchOf(n))

FairSpec == Spec /\ Fairness

-----------------------------------------------------------------------------
(***************************************************************************)
(* The promise.                                                            *)
(***************************************************************************)
\* The life of n as Lifecycle sees it: the promise lasts until a late status
\* write of the API or of a scheduler hits the row.
LifeOf(n) ==
    IF n \in clobbered
    THEN [st |-> "void", calls |-> 0, delivered |-> 0, letters |-> 0]
    ELSE [st |-> status[n], calls |-> calls[n],
          delivered |-> delivered[n], letters |-> deadLetters[n]]

L == INSTANCE Lifecycle WITH life <- [n \in Notif |-> LifeOf(n)]

\* Whatever fails, the pipeline takes every notification through Lifecycle:
\* it is claimed by one batch at a time, sent at most MaxAttempts times, never
\* again after a send that succeeded, and buried at most once and only if no
\* send succeeded (getAndMarkProcessingBatch, ProcessBatch, handleFailure).
ImplementsLifecycle == L!LifeSpec

\* Until a late write hits its row a notification is delivered at most once and
\* sent at most MaxAttempts times, whatever crashes, is retried, reclaimed or
\* popped twice; its status and its dead letter tell whether it was delivered
\* (ProcessBatch, handleFailure, getAndMarkProcessingBatch).
DeliveredOnce == L!Promise

\* The batch w has n in its hands: it will send n or write its outcome.
Owns(w, n) ==
    \/ n \in todo[w] \union ok[w]
    \/ n = cur[w] /\ wpc[w] \in {"retry", "fail", "deadLetter"}

\* Two batches never both work on a notification whose row only workers have
\* written since it was claimed, although nothing ties a claim to its batch:
\* messages are duplicated, reclaimed and popped again while the first batch
\* is still sending.
OneOwner ==
    \A n \in Notif \ clobbered : \A v, w \in Worker :
        Owns(v, n) /\ Owns(w, n) => v = w

InRedis(n) == n \in queue \union processing \union delayed

\* n's message is in the memory of a process that will put it into Redis or
\* claim the row.
InFlight(n) ==
    \/ \E h \in Handler : hpc[h] = "enqueue" /\ n \in hids[h]
    \/ \E w \in Worker : wpc[w] \in {"popped", "registered"} /\ n \in msgs[w]
    \/ \E w \in Worker : wpc[w] = "delay" /\ n = cur[w]

Stranded(n) ==
    /\ status[n] \in {"pending", "queued"}
    /\ ~InRedis(n)
    /\ ~InFlight(n)

\* Until a fault happens a waiting notification keeps a message that leads to
\* it, whatever batches, retries, reclaims and stale acknowledgements do,
\* unless a late write hit its row or a worker took its message between the
\* two halves of a scheduler's move (poll, promoteDelayedRetries,
\* reclaimExpiredProcessing).
NoLostMessage ==
    faults = 0 => \A n \in Notif \ (clobbered \union overtaken) : ~Stranded(n)

\* Until a fault happens a notification whose attempts are used up has its
\* dead letter as soon as handleFailure is done with it, and nothing else has
\* one.
FailedIsBuried ==
    faults = 0 => \A n \in Notif \ clobbered :
        /\ status[n] = "failed" =>
            \/ deadLetters[n] = 1
            \/ \E w \in Worker : wpc[w] = "deadLetter" /\ cur[w] = n
        /\ deadLetters[n] > 0 => status[n] = "failed"

\* Unless a fault happens every notification created is sent, fails for good
\* or is cancelled, whatever the provider answers, with the same two
\* exceptions.
Settles ==
    \A n \in Notif :
        status[n] # "absent" ~>
            \/ status[n] \in Terminal
            \/ n \in clobbered \union overtaken
            \/ faults > 0

\* Nobody can still act on an old copy of n's message.
Unheld(n) ==
    /\ \A w \in Worker : n \notin msgs[w]
    /\ \A s \in Sched : n \notin items[s] /\ n # item[s]

\* After the last fault a claimable notification whose message is in one of
\* the sorted sets, and a scheduled one that was not released, is taken up
\* again and settled, if it is in nobody's hands (reclaimExpiredProcessing,
\* poll).
Recovers ==
    \A n \in Notif :
        /\ faults = MaxFaults
        /\ \/ status[n] \in {"pending", "queued"} /\ InRedis(n)
           \/ status[n] = "scheduled"
        /\ Unheld(n)
        ~> status[n] \in Terminal \/ n \in clobbered \union overtaken
=============================================================================
