-------------------------------- MODULE Pool --------------------------------
(***************************************************************************)
(* internal/worker/pool.go: a fixed number of goroutines that take batches *)
(* from a channel, the context they watch, and Stop.                       *)
(*                                                                         *)
(* A task is a call of ProcessBatch, and the pool cannot tell one from     *)
(* another: of the channel it matters how many it holds, and of a          *)
(* goroutine whether it is in one.                                         *)
(***************************************************************************)
EXTENDS Naturals, FiniteSets

CONSTANT Goroutine  \* the goroutines of the pool (Pool.size of them)

ASSUME PoolAssumption == IsFiniteSet(Goroutine)

VARIABLES
    tasks,          \* how many tasks wait in Pool.tasks
    closed,         \* close(p.tasks) has been called
    running,        \* goroutines that are in a task
    live,           \* goroutines that have not returned (Pool.wg)
    ctxDone         \* the context of the process is cancelled

poolVars == <<tasks, closed, running, live, ctxDone>>

Capacity == 2 * Cardinality(Goroutine)

PoolTypeOK ==
    /\ tasks \in 0..Capacity
    /\ closed \in BOOLEAN
    /\ running \subseteq live
    /\ live \subseteq Goroutine
    /\ ctxDone \in BOOLEAN

\* NewPool and Start.
PoolInit ==
    /\ tasks = 0
    /\ closed = FALSE
    /\ running = {}
    /\ live = Goroutine
    /\ ctxDone = FALSE

\* Mutant: the send is not held up by a full channel.
SubmitUnbounded ==
    /\ ~closed
    /\ tasks' = tasks + 1
    /\ UNCHANGED <<closed, running, live, ctxDone>>

\* Submit, where it does not block and does not panic.
Submit ==
    /\ ~closed
    /\ tasks < Capacity
    /\ tasks' = tasks + 1
    /\ UNCHANGED <<closed, running, live, ctxDone>>

Idle(g) == g \in live \ running

\* The select of a goroutine takes a task, also when the context is done or
\* the channel is closed ...
Take(g) ==
    /\ Idle(g)
    /\ tasks > 0
    /\ running' = running \union {g}
    /\ tasks' = tasks - 1
    /\ UNCHANGED <<closed, live, ctxDone>>

\* ... and runs it to its end.
Finish(g) ==
    /\ g \in running
    /\ running' = running \ {g}
    /\ UNCHANGED <<tasks, closed, live, ctxDone>>

\* Mutant: the goroutine watches the channel only.
ReturnsWhenDrained(g) ==
    /\ Idle(g)
    /\ closed /\ tasks = 0 /\ ~ctxDone
    /\ live' = live \ {g}
    /\ UNCHANGED <<tasks, closed, running, ctxDone>>

\* It returns when the context is done, or the channel closed and empty.
Return(g) ==
    /\ Idle(g)
    /\ ctxDone \/ (closed /\ tasks = 0)
    /\ live' = live \ {g}
    /\ UNCHANGED <<tasks, closed, running, ctxDone>>

\* The first half of Stop: close(p.tasks).
Close ==
    /\ ctxDone
    /\ ~closed
    /\ closed' = TRUE
    /\ UNCHANGED <<tasks, running, live, ctxDone>>

\* The process is gone, and what its goroutines were doing.
PoolGone ==
    /\ tasks' = 0
    /\ running' = {}
    /\ live' = {}
    /\ UNCHANGED <<closed, ctxDone>>
=============================================================================
