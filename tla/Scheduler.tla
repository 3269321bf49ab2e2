----------------------------- MODULE Scheduler ------------------------------
(***************************************************************************)
(* internal/queue/redis/scheduler.go, one instance per worker process.  A  *)
(* poll releases the scheduled notifications that are due, then promotes   *)
(* the retries whose delay has elapsed, then reclaims the messages whose   *)
(* visibility timeout has passed.  Each of the three lists some items and, *)
(* item by item, enqueues it and then removes it from where it was listed. *)
(***************************************************************************)
EXTENDS Store, RedisQueue, Faults

CONSTANT Sched      \* scheduler instances

VARIABLES
    lock,           \* scheduler:lock, "held" while the key exists
    arrived,        \* notifications whose scheduled_at has passed
    phase,          \* which of the three passes an instance is in
    items,          \* what it listed and has not come to yet
    item,           \* the one it has enqueued and not removed yet
    overtaken       \* history: notifications whose message a worker took
                    \* between the enqueue and the removal

schedVars == <<lock, arrived, phase, items, item, overtaken>>

SchedTypeOK ==
    /\ lock \in {"free", "held"}
    /\ arrived \subseteq Scheduled
    /\ phase \in [Sched -> {"idle", "scheduled", "delayed", "expired"}]
    /\ items \in [Sched -> SUBSET Notif]
    /\ item \in [Sched -> Notif \union {None}]
    /\ overtaken \subseteq Notif

SchedInit ==
    /\ lock = "free"
    /\ arrived = {}
    /\ phase = [s \in Sched |-> "idle"]
    /\ items = [s \in Sched |-> {}]
    /\ item = [s \in Sched |-> None]
    /\ overtaken = {}

\* Time: a scheduled_at passes, the lock's TTL runs out.  Nothing ties the
\* TTL to the length of a poll, and no code releases the lock.
ScheduledTimeArrives(n) ==
    /\ n \in Scheduled \ arrived
    /\ arrived' = arrived \union {n}
    /\ UNCHANGED <<storeVars, queueVars, faults, lock, phase, items, item,
                   overtaken>>

\* Mutant: the key has no TTL.
LockStays ==
    /\ lock = "held"
    /\ UNCHANGED <<storeVars, queueVars, faults, schedVars>>

LockExpires ==
    /\ lock = "held"
    /\ lock' = "free"
    /\ UNCHANGED <<storeVars, queueVars, faults, arrived, phase, items, item,
                   overtaken>>

\* poll: SETNX.  (If the lock is there, poll returns and nothing changes.)
Poll(s) ==
    /\ phase[s] = "idle"
    /\ lock = "free"
    /\ lock' = "held"
    /\ phase' = [phase EXCEPT ![s] = "scheduled"]
    /\ UNCHANGED <<storeVars, queueVars, faults, arrived, items, item, overtaken>>

\* The SETNX took effect but its reply was an error: nobody polls until the
\* TTL runs out.
PollFails(s) ==
    /\ phase[s] = "idle"
    /\ lock = "free"
    /\ Fault("redis")
    /\ lock' = "held"
    /\ UNCHANGED <<storeVars, queueVars, arrived, phase, items, item, overtaken>>

\* Mutant: the query asks for pending rows.
ListedPending(p) ==
    CASE p = "scheduled" -> {n \in arrived : status[n] = "pending"}
      [] p = "delayed"   -> due
      [] p = "expired"   -> expired
      [] OTHER           -> {}

\* What a pass lists.
Listed(p) ==
    CASE p = "scheduled" -> {n \in arrived : status[n] = "scheduled"}
      [] p = "delayed"   -> due
      [] p = "expired"   -> expired
      [] OTHER           -> {}

\* Mutants: poll leaves out promoteDelayedRetries, or reclaimExpiredProcessing.
SkipsPromote(p) == IF p = "scheduled" THEN "expired" ELSE "idle"
SkipsReclaim(p) == IF p = "scheduled" THEN "delayed" ELSE "idle"

\* The pass after p.
Following(p) ==
    CASE p = "scheduled" -> "delayed"
      [] p = "delayed"   -> "expired"
      [] OTHER           -> "idle"

AboutToList(s) == phase[s] # "idle" /\ items[s] = {} /\ item[s] = None

\* An empty list ends the pass.
List(s) ==
    /\ AboutToList(s)
    /\ items' = [items EXCEPT ![s] = Listed(phase[s])]
    /\ phase' = [phase EXCEPT ![s] =
                    IF Listed(@) = {} THEN Following(@) ELSE @]
    /\ UNCHANGED <<storeVars, queueVars, faults, lock, arrived, item, overtaken>>

ListFails(s) ==
    /\ AboutToList(s)
    /\ Fault(IF phase[s] = "scheduled" THEN "postgres" ELSE "redis")
    /\ phase' = [phase EXCEPT ![s] = Following(@)]
    /\ UNCHANGED <<storeVars, queueVars, lock, arrived, items, item, overtaken>>

\* After its last item the scheduled pass lists again; the others are over.
ItemDone(s, rest) ==
    /\ items' = [items EXCEPT ![s] = rest]
    /\ item' = [item EXCEPT ![s] = None]
    /\ phase' = [phase EXCEPT ![s] =
                    IF rest = {} /\ @ # "scheduled" THEN Following(@) ELSE @]

EnqueueItem(s) ==
    /\ item[s] = None
    /\ \E n \in items[s] :
        /\ Enqueue({n})
        /\ item' = [item EXCEPT ![s] = n]
        /\ items' = [items EXCEPT ![s] = @ \ {n}]
    /\ UNCHANGED <<storeVars, faults, lock, arrived, phase, overtaken>>

\* The loops skip an item whose enqueue failed.
EnqueueItemFails(s) ==
    /\ item[s] = None
    /\ Fault("redis")
    /\ \E n \in items[s] :
        /\ Uncertain(Enqueue({n}), queueVars)
        /\ ItemDone(s, items[s] \ {n})
    /\ UNCHANGED <<storeVars, lock, arrived, overtaken>>

\* What follows the enqueue of n: UpdateStatus, or one of two ZREMs.
Release(n) == UpdateBatchStatus({n}, "queued") /\ UNCHANGED queueVars
Promote(n) == RemoveDelayed({n}) /\ UNCHANGED storeVars
Reclaim(n) == Ack({n}) /\ UNCHANGED storeVars

FinishItem(s) ==
    /\ item[s] # None
    /\ \/ phase[s] = "scheduled" /\ Release(item[s])
       \/ phase[s] = "delayed" /\ Promote(item[s])
       \/ phase[s] = "expired" /\ Reclaim(item[s])
    /\ ItemDone(s, items[s])
    /\ overtaken' = overtaken \union ({item[s]} \ queue)
    /\ UNCHANGED <<faults, lock, arrived>>

\* The error is logged, or not even looked at.  (If the call did take effect
\* the step is FinishItem, whose error nobody sees either.)
FinishItemFails(s) ==
    /\ item[s] # None
    /\ Fault(IF phase[s] = "scheduled" THEN "postgres" ELSE "redis")
    /\ ItemDone(s, items[s])
    /\ UNCHANGED <<storeVars, queueVars, lock, arrived, overtaken>>

SchedCrash(s) ==
    /\ phase[s] # "idle"
    /\ Fault("crash")
    /\ phase' = [phase EXCEPT ![s] = "idle"]
    /\ items' = [items EXCEPT ![s] = {}]
    /\ item' = [item EXCEPT ![s] = None]
    /\ UNCHANGED <<storeVars, queueVars, lock, arrived, overtaken>>

SchedNext ==
    \/ \E n \in Scheduled : ScheduledTimeArrives(n)
    \/ LockExpires
    \/ \E s \in Sched :
        \/ Poll(s) \/ List(s) \/ EnqueueItem(s) \/ FinishItem(s)
        \/ PollFails(s) \/ ListFails(s) \/ EnqueueItemFails(s)
        \/ FinishItemFails(s) \/ SchedCrash(s)
=============================================================================
