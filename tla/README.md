# A TLA+ development of the notification service

The service accepts notifications over HTTP, keeps them in Postgres, moves
their ids through sorted sets in Redis and sends them to a webhook provider
from a pool of workers. This directory models the parts of it that can go wrong
between processes, checks them with TLC on small instances and proves the main
results with TLAPS for instances of any size.

Paths below are relative to the repository (`src/`). `PROJECT.json` maps every
definition to the lines it stands for.

## 1. Inventory

| Part | Source | State | Operations |
|---|---|---|---|
| Notification store | `internal/repository/postgres/notification.go`, `internal/retry/deadletter.go` | rows of `notifications` (status, attempts), rows of `dead_letters` | insert (single, batch), status writes, claim (`GetAndMarkProcessingBatch`), batch-sent write, dead-letter insert, queries |
| Redis queue | `internal/queue/redis/{producer,consumer}.go` | `queue:<ch>`, `processing:<ch>`, `retry:delayed` | enqueue, delayed enqueue, pop + register, ack |
| API: create and cancel | `internal/api/handler/notification.go` | a request's local variables | create, batch create, cancel; get only reads |
| Listing | `List` in `internal/api/handler/notification.go` and `internal/repository/postgres/notification.go` | none; the client's cursor | a page by cursor or offset |
| Scheduler | `internal/queue/redis/scheduler.go` | `scheduler:lock`; a poll's lists | release scheduled, promote delayed retries, reclaim expired messages |
| Dispatcher and pool | `internal/worker/{dispatcher,pool}.go`, `internal/app/worker.go` | the task channel, goroutines, the process's context | dispatch loop, submit, stop |
| Processor | `internal/worker/processor.go` | a batch and the rows claimed for it | process batch, handle failure |
| Priority order | `internal/queue/redis/producer.go`, `internal/domain/notification.go` | the scores of `queue:<ch>` | `calculateScore`, ZPOPMIN |
| Circuit breaker | `internal/provider/circuitbreaker.go` | state, failure count, time of the last failure | `Send`, `recordFailure`, `recordSuccess` |
| Rate limiter | `internal/queue/redis/ratelimiter.go` | `ratelimit:<ch>` | `AllowN` (a Lua script) |
| Templates | `internal/template/engine.go`, `internal/api/handler/template.go`, `internal/repository/postgres/template.go` | the `templates` table, the cache of parsed templates | create, update, delete, render |
| Retry strategy | `internal/retry/strategy.go` | none | a pure function |
| WebSocket hub | `internal/websocket/`, `internal/api/handler/websocket.go` | registered clients, their filters and buffers | register, subscribe, broadcast, unregister, two pumps per client |
| Webhook client, HTTP plumbing, metrics, configuration, migrations | rest of `internal/`, `cmd/` | none of interest here | |

How they interact. The API inserts a row, puts the id on the queue and then
marks the row `queued`: three calls to two servers. A dispatcher asks the rate
limiter, pops a batch off the queue and registers it under a visibility
deadline; a pool goroutine claims the batch's rows, sends each through the
circuit breaker, deals with failures one by one, writes the sent ones and
acknowledges the batch. Every worker process runs a scheduler that puts back
what is due: scheduled notifications, delayed retries and expired messages. The
API and any number of workers share nothing but the two servers, and no call is
tied to another by a transaction, a version or a token.

What is hard, and what correctness means:

* **Interleavings of writers of one row.** Only the claim tests the status it
  overwrites. *A notification is worked on by one batch at a time, sent at most
  `MaxAttempts` times, never again after success.*
* **Messages named by their text.** Every set holds the same member for a
  notification, so a stale removal hits somebody else's entry. *A waiting
  notification keeps a message that leads to it.*
* **Crashes and half-executed calls** between any two calls. *They may stop a
  notification, but not send it twice or bury it wrongly.*
* **Timeouts**: visibility deadline, lock TTL, retry delay, breaker timeout.
  *Every notification is settled in the end; a recovered provider gets its
  traffic back; a limiter goes on granting.*
* **Copies that go stale**: the breaker's state, a cancel's status, a
  scheduler's list, a cached template.
* **Backpressure and priority.** A blocking submit stops the polling, and a score
  mixes urgency with age. *Nobody starves, and only what is more urgent and not
  too late overtakes.*
* **Shutdown at any moment**, with a loop, a channel and goroutines that watch one
  context. *The process ends, and cuts off running batches in one known case only.*
* **Fan-out under a lock** to clients that are slow or gone. *Broadcasts return,
  clients get events in order, pumps and registrations do not leak.*
* **Pages of a changing table.** *A client that follows the cursor sees no row
  twice and misses none that was there all along.*

`PROJECT.json` lists these hazards line by line with the properties aimed at
them.

## 2. The modules

```
Domain ─┬─ Store ──────┐
        ├─ RedisQueue ─┼─ Api ───────┐
Faults ─┴──────────────┼─ Scheduler ─┼─ Pipeline ─┬─ MCPipeline    (TLC)
                       └─ Processor ─┘      │     ├─ DocClaims     (TLC)
Domain ─── Lifecycle <──── refined by ──────┘     └─ PipelineProofs ── DeliveryProofs

ScoreQueue ─┬─ Dispatcher (TLC) ── DispatcherProofs
Pool ───────┘
Hub (TLC) ── HubProofs                           RateLimiter (TLC) ── RateLimiterProofs
CircuitBreaker (TLC) ── CircuitBreakerProofs     Listing (TLC) ── ListingProofs
Templates ─┬─ MCTemplates (TLC)
           └─ TemplatesProofs
```

* **Domain** holds the ids, the statuses and what a fresh notification is.
* **Store** has one operator per SQL statement that the binaries use to write.
  `clobbered` is a history variable: the rows that an unconditional status write
  (API or scheduler) hit after they had left the waiting statuses.
* **RedisQueue** has the three sorted sets with one operator per Redis command.
  Scores are reduced to the two questions the code asks of them: has the
  visibility deadline passed (`expired`), has the retry delay elapsed (`due`).
* **Faults** is the budget of crashes and failed calls. A call that returns an
  error has been executed or has not (`Uncertain`); a pipelined one may have
  been executed in part.
* **Api**: `Create`, `EnqueueCreated`, `MarkQueued` are the three calls of
  `Create`/`BatchCreate`; `CancelRead`, `CancelWrite` the two of `Cancel`.
* **Scheduler**: `poll` call by call. `Poll` is the SETNX, `List` what a pass
  reads, `EnqueueItem` and `FinishItem` the two calls it makes per item.
  `overtaken` is history: the notifications whose message a worker took between
  these two calls.
* **Processor**: one batch from ZPOPMIN to the last ack. `wpc` names the next
  call; every call has its failing counterpart with the early return the code
  takes. `calls` and `delivered` are history: sends made, sends that returned
  without an error.
* **Lifecycle** is the abstract specification: for each notification on its own,
  a status, the number of sends, of successes and of dead letters, and the moves
  the status flow of the repository's README allows. `Promise` is what these moves
  come to for the client. It knows no queue, batch,
  process or fault. A notification leaves the promise (`Voided`) once something
  overwrites its claimed or closed row.
* **Pipeline** composes the three kinds of process and time, states the fairness
  and the properties, and maps its state to Lifecycle (`LifeOf`).
* **ScoreQueue**: `queue:<ch>` as a sequence in the order of its scores. A
  message carries its age instead of its score; `Lead` is the difference of two
  scores.
* **Pool**: the goroutines of `Start`, the bounded channel, `Submit` and the two
  halves of `Stop` (`Close` here, the wait in `Dispatcher.Exit`).
* **Dispatcher** composes the two into a worker process: `dispatchLoop` with `pc`
  at its next call, the signal, `Stop` and the end of the process. It looks at what
  Pipeline abstracts (which message is popped, when a popped batch begins to run,
  what a shutdown does) and leaves out what Pipeline has (what becomes of a batch).
  `Served` is what Pipeline assumes as the fairness of `DispatchOf`.
* **Hub**: clients with their two pumps, and goroutines that broadcast. The writers
  of `Hub.mu` are single steps that need `NoReaders`; a broadcast holds the lock
  for reading from `Broadcast` to `BroadcastReturns` and visits a client at a time.
  `written`, `events` and `prior` are history.
* **CircuitBreaker**: callers that take copies under the read lock, decide on
  them, and record outcomes under the write lock. Time is kept as ages.
* **RateLimiter**: dispatchers that read their clock and have Redis run the
  script later. Entries and readings are kept by age.
* **Templates**: the table, its handlers, the double-checked cache and the part
  of a create that reads, renders and inserts, and restarts of the API. `known`
  is history: the texts that templates of a name have had.
* **Listing**: a client that follows `next_cursor` until a page is empty, while
  rows are inserted and move into and out of the filter. `steady` is history: the
  rows that have passed the filter since the walk began.
* **DocClaims** states what the repository's documents and comments say of the
  pipeline and the code does not do.

Definitions under a comment that begins with "Mutant" are not part of the model.
Each is a plausible slip in the definition that follows it (a dropped guard, an
off-by-one, a missing reset) that some property is known to catch; `PROJECT.json`
pairs them.

### Abstractions

* One channel. Channels share `retry:delayed` and the lock, but a message never
  changes its channel, and passes treat items one by one.
* In Pipeline ZPOPMIN may return any messages: the order of scores is left free,
  so the properties hold for every order. LIMIT 500 in the scheduled pass is left out:
  its loop lists until nothing is left.
* Payloads, idempotency keys (a conflict inserts nothing), JSON errors, logging,
  metrics and WebSocket events are left out.
* A send is one step. "Delivered" means that it returned without an error; an
  error covers the webhook's answer, a timeout and a rejection by the breaker,
  which handleFailure counts alike.
* A SIGTERM is a crash: it cancels the context of the calls that follow.
* A failed call takes effect at the time of the call or never.
* Listing: a row's columns are reduced to its stamp and whether it passes the
  filter; the client escapes the cursor it sends back.
* Templates: one API process at a time; ids are not reused.
* ScoreQueue: time in ticks, with equal scores inside one (a float64 of this size
  holds nanoseconds in steps of 256, and Redis orders equal scores by the text,
  that is, by random ids). Ages stop at `MaxAge`, where a message is ahead of every
  new one. `calculateScore` has a branch for `ScheduledAt`, but no message is built
  with that field.
* Dispatcher: what AllowN allows is any number up to the batch size. A message may
  come back at any time, also while this process has it in a batch, as a reclaimed one
  does. The pool does not look into its tasks: the channel is how many it holds, a task
  a step that ends. The metrics are left out.
* Hub: the package as it behaves once a connection is accepted. A worker's batch has
  one channel, so BroadcastBatch and Broadcast choose their clients alike. The wait
  for a lock is the time between two steps.

## 3. What TLC checks

### Passing runs

| Run | Instance | Shows |
|---|---|---|
| `lifecycle_faults` | 1 notification, 2 batches, 1 cancel, any 2 faults | `ImplementsLifecycle`, `OneOwner`, `TypeOK` and `DeliveredOnce` (one delivery, at most `MaxAttempts` sends, and a status that tells the truth about them) with crashes, lost replies and half-executed pipelines; before the first fault `NoLostMessage` and `FailedIsBuried`, also when a stale batch acknowledges what another works on |
| `settles` | 1 notification, 2 batches, 1 fault of any kind, fair | `Settles`: without the fault every created notification is settled, whatever the provider answers. `Recovers`: after it, a claimable row whose message is in Redis, and a row still `scheduled`, is taken up and settled |
| `settles_scheduled` | scheduled, 2 schedulers, 1 cancel, 1 fault, fair | `Settles` and `ImplementsLifecycle` through the scheduled pass, with overlapping polls; `Recovers`: a notification whose release a fault has hit is released again |
| `breaker` | 3 callers, 2 failures to trip, fair | `TripsAtMaxFailures`, `OnlyStaleCallersPass`; `ClosesAgain`: once the provider is healthy the breaker closes for good |
| `rate_limit` | 2 dispatchers, late and reordered scripts, fair | `WithinLimit`: the limit holds once a window has passed since the last reordered or equal reading; `KeepsGranting` |
| `templates` | 2 ids, 2 names, 2 creates, 1 editor, restarts | `HeldIsCached` (double-checked locking), `ReferencedExist` (the foreign key against a delete in between), `RendersNamesake` (what the cache may serve after renames and deletes) |
| `listing` | 4 rows, 3 stamps, pages of 2, fair | `SeenOnce`: no row twice in a walk; `SkipsOnlyTies`: none skipped but rows that share `created_at` with a page's last one; `WalkEnds` |
| `dispatch` | 3 messages, the highest and the lowest priority, 2 goroutines, batches of 2, fair | `OvertakesByPriority`: a later message leaves earlier only if it is more urgent and came within `Gap` per level; `Served`: no message starves, unless its own score is renewed for ever; `CleanExit`: a shutdown cuts off running batches only if the loop sits in `Submit`; `Stops`: it comes to an end |
| `hub` | 1 client, 2 channels, 2 broadcasters, buffer of 2, fair | `InOrder`: no event twice or ahead of one whose broadcast was over before; `OnlyRegistered`: nothing for a client that has left; `BroadcastEnds`; `PumpsEnd`: when the peer goes, both pumps end and the hub forgets it |

The exceptions inside the properties are not conveniences: the code really does
leave the promise there. A row is *clobbered* when the API marks it `queued`
after a quick worker has claimed or sent it, when a cancel writes on the strength
of a status it read before the claim, or when a second scheduler releases from an
old list. A message is *overtaken* when a worker pops it between a scheduler's
enqueue and the removal or status write that belongs to it. Two of the runs
below show what follows from these. In `SkipsOnlyTies` the exception is the cursor
itself: it is a `created_at` alone, so rows with an equal one behind a page's end
are never shown. In `CleanExit` it is the panic of a send on a closed channel:
`Stop` closes the channel while the loop, which nobody waits for, may be blocked in
`Submit`; rows of the batches that were running stay in `processing`.
`RendersNamesake` says *a* template of that name, because the cache knows no more.

### Bounds and why they are enough

* `MaxAttempts = 2` has a first failure, a retry and an exhausted attempt.
* Two batches are what overlapping needs; three add no new pair, and the theorems
  cover any number. Two schedulers likewise.
* `MaxFaults = 2` (`lifecycle_faults`) allows a fault during the recovery from
  another one; the liveness runs have one.
* One notification at a time: a batch's rows are handled one after another, and
  what happens between two of them is covered by the proofs, which are about batches
  of any size and any number of notifications.
* `SomeCovered` and `SomeRegular` cut a behaviour once every notification has
  left the promise. `clobbered` and `overtaken` only grow. Under `SomeCovered`
  the properties claim nothing about what follows; under `SomeRegular` this is so
  for `NoLostMessage`, `Settles` and `Recovers`, and what `ImplementsLifecycle`
  claims behind an overtaking is covered by `lifecycle_faults` and the proof.
* Breaker: ages run to `Timeout + 1` and failures to `MaxFailures`, beyond which
  the code cannot tell values apart.
* Limiter: `Window = 3`, `Limit = 3`, `BatchSize = 2` make the limit fall inside
  a batch; `MaxDelay = 2` lets a script run after one that read its clock later.
  `Old` is beyond what any script can compare; `Enough` stops a history counter
  above the limit.
* Listing: four rows on three stamps give ties inside a page and at its end, and
  walks of several pages with inserts on both sides of the cursor.
* Symmetry is used in runs without liveness properties only.
* Dispatcher: messages come back, so three of them keep both goroutines busy, fill the
  channel and block `Submit`; two of one priority have an order, and `Gap = 1` and
  `MaxAge = 3` let them be overtaken by the urgent one, tie with it and get ahead. With
  two goroutines one can have returned while the other is in a task. The middle priority
  is in the proofs.
* Hub: the properties are about each client on its own, and clients meet only at the
  lock, which broadcasters hold too. Three events overflow a buffer of two; two
  broadcasters overlap.
* `hub` switches the deadlock check off: with the events used up and the connection
  closed there is nothing left to do.

### Fairness

A request, poll or batch that has begun makes its next call (weak fairness of
`ApiStep`, `SchedStep`, `WorkerStep`): goroutines are scheduled and calls have
timeouts. Tickers tick and clocks advance (`Clock`, `LockExpires`, `Tick`). A
message that keeps coming back to the queue is popped at some time
(`SF(DispatchOf)`): this is what `Served` shows of the dispatch loop, the pool and the
scores. Nobody has to create or cancel, the
provider need never accept, and which batch pops is free. For the breaker,
traffic goes on and calls return; for the limiter, dispatch loops poll and Redis
answers; for the listing, the client asks for the next page. In Dispatcher the loop
and the goroutines are scheduled, tasks end (every call in ProcessBatch has a
timeout or a context), and a loop that asks again and again is allowed something and
answered (`SF(AllowN)`, `SF(DequeueBatch)`): that the limiter goes on granting is
`KeepsGranting`, that it is not always the same dispatcher is an assumption. Nobody
has to send a signal. In Hub a goroutine waiting for the write lock gets it, because
an RWMutex lets no new reader in ahead of it (`SF`); a handler returns, because
`Upgrade` does nothing after `Register`, and net/http then cancels the context of the
request; nobody has to read, write or broadcast.

### What the documents say and the code does not do

Each run checks one sentence of a document or comment and finds it violated.

| Run | Sentence | Counterexample |
|---|---|---|
| `doc_duplicate_processing` | README.md: "No duplicate processing" | Two overlapping polls list a scheduled notification; the second releases it after it was sent; it is sent again. |
| `doc_retry_requeued` | README.md: "re-queues with exponential backoff" | A retry is promoted; before the ZREM a worker pops it, fails again and delays it; the ZREM removes the new entry. The row stays `queued` without a message. |
| `doc_crash_recovery` | scheduler.go: "continuous crash recovery" | A worker dies behind the claim; the message is reclaimed over and over, but the row is `processing` and no batch may claim it. |

More sentences disagree with the code in ways a reading shows; they have no run
of their own. `README.md` describes a recovery sweep at worker start-up, but
`GetPendingForRecovery` has no caller, so a crash between insert and enqueue is
final. `openapi.yaml` promises 409 for a cancel that comes too late, but the
UPDATE has no condition on the status. The status flow has no arrow out of
`sent`, but `enqueue` writes `queued` over it. `processor.go` calls the messages it
acknowledges "processed", but they include the ones whose row it did not claim: a
scheduled notification popped between the scheduler's enqueue and its status write
loses its message there. `failed` and its dead letter are
two statements, and a crash between them is final; `FailedIsBuried` therefore
speaks of the time before the first fault. The README's example renders "the template"
of a `template_id`, but the cache is keyed by name and `Invalidate` is never called:
an updated template is rendered from its old text until a restart, and one that takes
over a name from the other's. "Ensures priority ordering" holds within 1000 seconds per
level, and "FIFO within same priority" up to 256 ns (`OvertakesByPriority`). The README
promises real-time events at `/ws/notifications`, but workers broadcast into a hub of
their own that has no clients, the API's hub is never broadcast to, and `Accept` fails
behind the logging middleware, whose response writer can neither be hijacked nor
unwrapped; Hub therefore describes the package, not traffic the deployed binaries have.
The `processing` count of `/metrics` is raised for every message and never lowered.

## 4. What is proved

For any sets of notifications, requests, schedulers and batches, any batch size,
any number of attempts and any faults:

* `PipelineTypeOK`: `Spec => []TypeOK`.
* `PipelineOneOwner`: `Spec => []OneOwner`.
* `PipelineImplementsLifecycle`: `Spec => ImplementsLifecycle`, step simulation
  under the mapping `LifeOf`.
* `PipelineDeliveredOnce`: `Spec => []DeliveredOnce`.
* `PipelineNoLostMessage`: `Spec => []NoLostMessage`.
* `PipelineFailedIsBuried`: `Spec => []FailedIsBuried`;

for any number of callers, any threshold and any timeout:

* `BreakerTypeOK`, `BreakerTrips`, `BreakerBars`: the invariants `TypeOK`,
  `TripsAtMaxFailures` and `OnlyStaleCallersPass` of the run `breaker`;

for any number of dispatchers, any limit, window, batch size and delay:

* `RateLimiterTypeOK`, `RateLimiterWithinLimit`: `TypeOK`, with the bound on the
  members of `ratelimit:<ch>`, and `WithinLimit`;

for any messages and priorities, any gap, batch size and pool:

* `DispatcherTypeOK`, `DispatcherOvertakes`, `DispatcherCleanExit`: the invariant
  `TypeOK` and the action properties `OvertakesByPriority` and `CleanExit`;

for any number of clients, channels, broadcasters and events and any buffer:

* `HubTypeOK`, `HubInOrder`, `HubOnlyRegistered`: the invariants `TypeOK` and
  `InOrder` and the action property `OnlyRegistered`;

for any number of rows, any stamps and any page size:

* `ListingTypeOK`, `ListingSeenOnce`, `ListingSkipsOnlyTies`: the three invariants of
  the run `listing`;

and for any number of templates, names, texts, requests and editors:

* `TemplatesTypeOK`, `TemplatesHeldIsCached`, `TemplatesReferencedExist`,
  `TemplatesRendersNamesake`: the four invariants of the run `templates`.

These are all the safety properties of the passing runs.

The assumptions are the named ones of the modules (`DomainAssumption`,
`FaultsAssumption`, `ApiAssumption`, `ProcessorAssumption`, `BreakerAssumption`,
`RateLimiterAssumption`, `ScoreQueueAssumption`, `PoolAssumption`,
`DispatcherAssumption`, `HubAssumption`, `ListingAssumption`, `TemplatesAssumption`): at least one attempt; `None` is no
notification, row or text; scheduled and cancellable ids are ids; no message has two
priorities; finitely many goroutines; numbers are naturals, and a page, a batch, a
window or a buffer is not empty. TLC evaluates them in every run.

**Argument for the pipeline.** None of the results is inductive as it stands.
That two batches do not own the same row follows from what an owner knows: its
row is in `processing`, and only the claim writes `processing`, and only over
`pending` or `queued`. That it is sent at most `MaxAttempts` times needs the
attempts in the batch's copy to be the number of sends made, which in turn needs
the row's `attempts` to be that number whenever the row can be claimed again.
The invariant `IInv` (in PipelineProofs) is made of these parts:

* `Shape`: types, and what a batch holds at each call (`BatchShape`): nothing
  before the claim, disjoint `todo` and `ok`, a current row in handleFailure;
* `CreatedOnly`: requests, cancels and polls hold only ids of rows that exist, so
  that no status write creates a row;
* for every notification that is not clobbered (`Kept`): `Unclaimed` (a waiting
  row has had only failed sends, all counted, fewer than `MaxAttempts`, and no
  dead letter), `OwnerKnows` (what holds of a row in `todo`, in `ok`, or in
  handleFailure), and `SoleOwner`.

PipelineProofs proves first that `Shape` is inductive, then the rest, with one lemma
per statement or action (`KeptClaim`, `KeptSendFails`, …), and then one lemma per
action that it moves every notification along Lifecycle (`LivesClaim`, …). A fault is
no special case: an executed call is the step of the successful one, and a lost batch
owns nothing.

`DeliveredOnce` comes out of the refinement: it is Lifecycle's `Promise` under the
mapping, so its proof needs no queue and no process, only that every move of Lifecycle
keeps a single life `Honest`. That is `Promise` for one notification, together with
what makes it inductive: a life that has not begun was not delivered, and the counters
are in their bounds.

**Argument for delivery.** `DInv` (in DeliveryProofs) adds to `IInv`, for the time
before the first fault, that a waiting row's message is on the queue, in
`retry:delayed` or in flight (`CarriedSoFar`), that a failed row is buried or about to
be (`BuriedSoFar`), and that requests enqueue no scheduled notification
(`ScheduledApart`). `CarriedSoFar` is stronger than `NoLostMessage`: it does not count
`processing:<ch>`, the set that stale acknowledgements take entries from. It is
inductive all the same, because without a fault a batch claims every waiting row whose
message it has taken, and a row leaves `processing` for `queued` only on its way to the
delayed set.

**Argument for the breaker.** `TripsAtMaxFailures` is inductive with the types.
`OnlyStaleCallersPass` needs `CopiesInv`: a caller under way whose copies are not
older than the last failure saw the open breaker that is there now, with the same
age, and was let through only if the timeout had elapsed by that age.

**Argument for the limiter.** `WithinLimit` counts grants, the code counts the members
of a sorted set, and the two differ after an accident. `RInv` says where they agree:
a grant on a reading in the window, made after the last accident, has its entry
(`GrantsRecorded`). Since `entries` never has more than `Limit` members (the script adds
what fits), that bounds the grants. `GrantsRecorded` survives a script because
nothing was granted on a reading newer than the newest (`NothingNewer`): a script in order on a
fresh reading writes over no member, and only removes entries that have left the window.

**Argument for the dispatcher.** `OvertakesByPriority` is about two messages, one of which
leaves. It needs the queue to be `Sorted` by what the ages tell of the scores (`Before`).
ZADD keeps it sorted: with its old entry gone, the message goes behind scores that are not
larger and ahead of scores that are not smaller, and removing and inserting leave the order
of the others as it was. ZPOPMIN removes a prefix. A tick adds one to every age, and a message at the
bound can no longer be compared. `CleanExit` needs from the types that only live
goroutines are in a task: `Exit` waits until there are none.

**Argument for the hub.** `HInv` follows an event from the broadcast to the connection. The
read lock keeps a client registered until a broadcast has reached it (`LockInv`); broadcasts
under way have events of their own, which no broadcast can have found ended (`CastInv`); a
client's stream, that is, what was written, what WritePump has in hand and the buffer, holds no event that is
still on its way to it (`StreamInv`, `HandInv`). What is appended is therefore new to
the stream, and its broadcast, being under way, is among the ended ones of no event there.

**Argument for the listing.** `WalkInv` adds to the types that only rows with a
stamp pass the filter (`Stamped`), that what has been shown was shown once and is
not older than the cursor (`Behind`), and that steady rows the cursor has passed
are shown or tie with one that is (`Passed`). A page is below the old cursor and
at or above the new one, and what it leaves out is at or below the new one; a row
inserted meanwhile has not been shown and is not steady.

**Argument for the templates.** `TInv` adds that a create under way has a row's copy
and, at its end, a cached text (`Copies`), and that table, cache and copies hold only
texts known under their name (`Written`). An entry of the cache is written only when
there is none, so it does not change while a create holds its text.

**Only model-checked.** Liveness: `Settles`, `Recovers`, `ClosesAgain`, `KeepsGranting`,
`WalkEnds`, `Served`, `Stops`, `BroadcastEnds` and `PumpsEnd`. They rest on fairness and
so on ENABLED, which is outside the prover's reach.

## 5. What is not modelled

* Retry strategy: floating-point delays with random jitter. The pipeline uses
  only that a delay ends.
* Of the listing: the total, which is an estimate when there is no filter, paging
  by offset, and the rows of a batch.
* Webhook client, HTTP plumbing, metrics, configuration, migrations: no protocol
  state of their own.
* Code no binary calls: `Process` (single message), `GetAndMarkProcessing`,
  `UpdateSent`, `GetPendingForRecovery`, `RateLimiter.Allow`, `Consumer.Dequeue`,
  `Pool.TrySubmit`, `Pool.Pending`, `Engine.Invalidate`, `NewDispatcher` (several
  channels in one process).
* Idempotency keys: a create whose key exists gets 409 and changes nothing, also when
  the first create was never enqueued.
* Several fields of a template: of two concurrent partial updates one can be lost.

## 6. Plan

Done, in this order: Domain, Store, RedisQueue, Faults; Api, Scheduler,
Processor; Pipeline with its abstract specification Lifecycle; DocClaims;
CircuitBreaker; RateLimiter; Templates; Listing; the proofs of the pipeline, of the
breaker and of the listing; ScoreQueue, Pool and Dispatcher; Hub; the proofs of
delivery and of the templates; the proofs of the hub, the limiter and the dispatcher,
and of `DeliveredOnce` through the refinement.

Next:

1. **Steps toward liveness** that are safety: what the dispatcher and the hub never do
   that would stop them (a message popped but neither run, held nor returned; an event
   dropped while there is room in the buffer).
2. **Proofs**: shorter leaves, and lemmas shared between the modules.
