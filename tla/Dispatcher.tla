----------------------------- MODULE Dispatcher -----------------------------
(***************************************************************************)
(* A worker process: the dispatch loop of internal/worker/dispatcher.go    *)
(* between the queue and the pool, and RunWorker's start and shutdown.     *)
(*                                                                         *)
(* What the rate limiter allows is any number up to the batch size         *)
(* (RateLimiter has its own module).  Other worker processes take messages *)
(* off the same queue.  What becomes of a message afterwards is Pipeline's *)
(* subject; here it may be enqueued again at any time, also while it is in *)
(* a batch of this process.                                                *)
(***************************************************************************)
EXTENDS ScoreQueue, Pool

CONSTANT BatchSize  \* Dispatcher.batchSize

ASSUME DispatcherAssumption == BatchSize \in Nat \ {0}

VARIABLES
    pc,             \* where the dispatch loop is
    allowed,        \* what AllowN returned
    held,           \* the size of the batch it is about to submit
    ended           \* "no" while the process runs

loopVars == <<pc, allowed, held, ended>>
vars == <<orderVars, poolVars, loopVars>>

TypeOK ==
    /\ OrderTypeOK
    /\ PoolTypeOK
    /\ pc \in {"select", "allow", "dequeue", "submit", "returned"}
    /\ allowed \in 0..BatchSize
    /\ held \in 0..BatchSize
    /\ pc = "submit" <=> held > 0
    /\ ended \in {"no", "exit", "panic"}

Init ==
    /\ OrderInit
    /\ PoolInit
    /\ pc = "select"
    /\ allowed = 0
    /\ held = 0
    /\ ended = "no"

\* Producers, and the schedulers of all workers, which also reclaim messages
\* that this process still has in a batch.
Arrive(m) ==
    /\ Enqueue(m)
    /\ UNCHANGED <<poolVars, loopVars>>

\* Another worker process takes messages (the queue changes as if it took them
\* one by one).
TakenElsewhere ==
    /\ queue # <<>>
    /\ ZPopMin(1)
    /\ UNCHANGED <<poolVars, loopVars>>

Time == Tick /\ UNCHANGED <<poolVars, loopVars>>

\* dispatchLoop goes from one of its calls to the next.
Goto(from, to) ==
    /\ ended = "no"
    /\ pc = from
    /\ pc' = to
    /\ UNCHANGED ended

\* The select of dispatchLoop: the ticker, also when the context is done, ...
TickerFires ==
    /\ Goto("select", "allow")
    /\ UNCHANGED <<orderVars, poolVars, allowed, held>>

\* ... or the context.
LoopReturns ==
    /\ ctxDone
    /\ Goto("select", "returned")
    /\ UNCHANGED <<orderVars, poolVars, allowed, held>>

\* dispatch: AllowN for a full batch, whatever there is on the queue ...
AllowN ==
    /\ ~ctxDone
    /\ allowed' \in 1..BatchSize
    /\ Goto("allow", "dequeue")
    /\ UNCHANGED <<orderVars, poolVars, held>>

\* ... which allows nothing or fails (always, once the context is done).
NothingAllowed ==
    /\ Goto("allow", "select")
    /\ UNCHANGED <<orderVars, poolVars, allowed, held>>

\* DequeueBatch.
DequeueBatch ==
    LET n == IF allowed <= Len(queue) THEN allowed ELSE Len(queue) IN
    /\ ~ctxDone
    /\ ZPopMin(n)
    /\ held' = n
    /\ allowed' = 0
    /\ Goto("dequeue", IF n = 0 THEN "select" ELSE "submit")
    /\ UNCHANGED poolVars

\* It fails, with its messages still on the queue or already taken off.
DequeueFails ==
    /\ \E n \in 0..allowed : n <= Len(queue) /\ ZPopMin(n)
    /\ allowed' = 0
    /\ Goto("dequeue", "select")
    /\ UNCHANGED <<poolVars, held>>

\* Pool.Submit and the return to dispatchLoop, which polls again at once
\* after a full batch.
SubmitBatch ==
    /\ Submit
    /\ held' = 0
    /\ Goto("submit", IF held < BatchSize THEN "select"
                      ELSE IF ctxDone THEN "returned" ELSE "allow")
    /\ UNCHANGED <<orderVars, allowed>>

\* The process dies or exits with whatever is in its memory.
End(how) ==
    /\ PoolGone
    /\ ended' = how
    /\ pc' = "returned"
    /\ allowed' = 0
    /\ held' = 0
    /\ UNCHANGED orderVars

\* Submit on the channel that Stop has closed, also if the loop was already
\* waiting in it: the runtime panics.
SubmitPanics ==
    /\ ended = "no"
    /\ pc = "submit"
    /\ closed
    /\ End("panic")

\* SIGINT or SIGTERM.
Signal ==
    /\ ~ctxDone
    /\ ctxDone' = TRUE
    /\ UNCHANGED <<orderVars, tasks, closed, running, live, loopVars>>

\* RunWorker, after <-ctx.Done(): Dispatcher.Stop closes the channel ...
Stop == ended = "no" /\ Close /\ UNCHANGED <<orderVars, loopVars>>

\* Mutant: Stop does not wait.
ExitAtOnce ==
    /\ ended = "no"
    /\ closed
    /\ End("exit")

\* ... waits for the goroutines of the pool, and main returns.  The dispatch
\* loop is not waited for.
Exit ==
    /\ ended = "no"
    /\ closed
    /\ live = {}
    /\ End("exit")

PoolStep(g) ==
    /\ Take(g) \/ Finish(g) \/ Return(g)
    /\ UNCHANGED <<orderVars, loopVars>>

Next ==
    \/ \E m \in Msg : Arrive(m)
    \/ TakenElsewhere \/ Time
    \/ TickerFires \/ LoopReturns \/ AllowN \/ NothingAllowed
    \/ DequeueBatch \/ DequeueFails \/ SubmitBatch \/ SubmitPanics
    \/ Signal \/ Stop \/ Exit
    \/ \E g \in Goroutine : PoolStep(g)

Spec == Init /\ [][Next]_vars

\* Time passes; the loop and the goroutines of the pool are scheduled, and
\* tasks come to an end; a limiter that is asked again and again allows
\* something, and Redis answers (KeepsGranting of RateLimiter); RunWorker
\* goes on after the signal, if there is one.
Fairness ==
    /\ WF_vars(Time)
    /\ WF_vars(TickerFires)
    /\ SF_vars(AllowN)
    /\ SF_vars(DequeueBatch)
    /\ WF_vars(SubmitBatch)
    /\ \A g \in Goroutine : WF_vars(PoolStep(g))
    /\ WF_vars(Stop)
    /\ WF_vars(Exit)

FairSpec == Spec /\ Fairness

-----------------------------------------------------------------------------
\* A message that was enqueued later leaves the queue earlier only if it is
\* more urgent and came within Gap per level of priority; in particular
\* messages of one priority leave in the order they came, tick by tick
\* (calculateScore, ZPOPMIN).  Ages at their bound cannot be compared.
OvertakesByPriority ==
    [][\A k \in Queued \ Queued', m \in Queued \intersect Queued' :
        age[k] < MaxAge /\ age[m] < MaxAge =>
            Level(k) * Gap + age[m] <= Level(m) * Gap + age[k]]_vars

\* No message stays on the queue for good, however many more urgent ones are
\* enqueued behind it, unless the process is told to stop: a message that has
\* waited long enough is ahead of every new one, and the pool's backpressure
\* does not stop the loop.  (A message that is enqueued over and over while it
\* is on the queue gets a new score each time, and may starve.)
Served ==
    \A m \in Msg :
        \/ []<><<m \in Queued' /\ age'[m] < age[m]>>_vars
        \/ m \in Queued ~> m \notin Queued \/ ctxDone

\* A batch that was taken off the queue is processed to its end before the
\* process ends, or is never begun; it is cut off only if the loop was still
\* holding another one when Stop closed the channel.
CleanExit ==
    [][ended = "no" /\ ended' # "no" =>
        \/ running = {}
        \/ pc = "submit"]_vars

\* The process stops when it is told to, although nobody receives from the
\* channel any more.
Stops == ctxDone ~> ended # "no"
=============================================================================
