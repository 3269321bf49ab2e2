----------------------------- MODULE RedisQueue -----------------------------
(***************************************************************************)
(* The sorted sets internal/queue/redis keeps for a channel: queue:<ch>,   *)
(* processing:<ch> and retry:delayed.  The member of a notification is the *)
(* same JSON text in every set and from every producer, so a second ZADD   *)
(* only moves the score and a ZREM cannot tell whose entry it removes.     *)
(* Scores are abstracted to what the code compares them for: whether a     *)
(* deadline has passed.                                                    *)
(***************************************************************************)
EXTENDS Domain

VARIABLES
    queue,          \* members of queue:<ch>
    processing,     \* members of processing:<ch>
    expired,        \* the ones whose visibility deadline has passed
    delayed,        \* members of retry:delayed
    due             \* the ones whose delay has elapsed

queueVars == <<queue, processing, expired, delayed, due>>

QueueTypeOK ==
    /\ queue \subseteq Notif
    /\ processing \subseteq Notif
    /\ expired \subseteq processing
    /\ delayed \subseteq Notif
    /\ due \subseteq delayed

QueueInit ==
    /\ queue = {}
    /\ processing = {}
    /\ expired = {}
    /\ delayed = {}
    /\ due = {}

\* Producer.Enqueue and EnqueueBatch.
Enqueue(ids) ==
    /\ queue' = queue \union ids
    /\ UNCHANGED <<processing, expired, delayed, due>>

\* Producer.EnqueueDelayed: a new score starts a new delay.
EnqueueDelayed(n) ==
    /\ delayed' = delayed \union {n}
    /\ due' = due \ {n}
    /\ UNCHANGED <<queue, processing, expired>>

\* First half of Consumer.DequeueBatch: ZPOPMIN.
Pop(ids) ==
    /\ queue' = queue \ ids
    /\ UNCHANGED <<processing, expired, delayed, due>>

\* Second half: the pipelined ZADDs with a fresh visibility deadline.
RegisterProcessing(ids) ==
    /\ processing' = processing \union ids
    /\ expired' = expired \ ids
    /\ UNCHANGED <<queue, delayed, due>>

\* Mutant: the message is removed from retry:delayed too.
AckEverywhere(ids) ==
    /\ processing' = processing \ ids
    /\ expired' = expired \ ids
    /\ delayed' = delayed \ ids
    /\ due' = due \ ids
    /\ UNCHANGED queue

\* Consumer.Ack, and the ZREM of reclaimExpiredProcessing.
Ack(ids) ==
    /\ processing' = processing \ ids
    /\ expired' = expired \ ids
    /\ UNCHANGED <<queue, delayed, due>>

\* The ZREM of promoteDelayedRetries.
RemoveDelayed(ids) ==
    /\ delayed' = delayed \ ids
    /\ due' = due \ ids
    /\ UNCHANGED <<queue, processing, expired>>

\* Time: a message stays unacknowledged past its visibility timeout.
VisibilityTimeout(n) ==
    /\ n \in processing \ expired
    /\ expired' = expired \union {n}
    /\ UNCHANGED <<queue, processing, delayed, due>>

\* Time: the delay before a retry elapses.
RetryDelayElapses(n) ==
    /\ n \in delayed \ due
    /\ due' = due \union {n}
    /\ UNCHANGED <<queue, processing, expired, delayed>>
=============================================================================
