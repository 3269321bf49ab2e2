----------------------------- MODULE ScoreQueue -----------------------------
(***************************************************************************)
(* The order of queue:<ch>.  calculateScore gives a message the score      *)
(*    level * 1e12 + unix nanoseconds                                      *)
(* when it is enqueued, and ZPOPMIN takes the lowest ones.  RedisQueue     *)
(* leaves this order out; here it is all there is.                         *)
(*                                                                         *)
(* Time is in ticks.  Two messages enqueued in one tick have equal scores  *)
(* (a float64 of this size holds nanoseconds in steps of 256) and Redis    *)
(* orders them by their text, that is, by their random ids.  Instead of a  *)
(* score a message carries its age, up to the age at which it is ahead of  *)
(* every new message.                                                      *)
(***************************************************************************)
EXTENDS Integers, Sequences, SequencesExt

CONSTANTS
    Msg,            \* messages of the channel
    High, Low,      \* the ones with these priorities; the others are normal
    Gap             \* 1e12 ns, in ticks

ASSUME ScoreQueueAssumption ==
    /\ High \subseteq Msg
    /\ Low \subseteq Msg \ High
    /\ Gap \in Nat \ {0}

VARIABLES
    queue,          \* queue:<ch> in the order of its scores
    age             \* time since a message was enqueued, 0 if it is not there

orderVars == <<queue, age>>

MaxAge == 2 * Gap + 1

OrderTypeOK ==
    /\ queue \in Seq(Msg)
    /\ IsInjective(queue)
    /\ age \in [Msg -> 0..MaxAge]

OrderInit ==
    /\ queue = <<>>
    /\ age = [m \in Msg |-> 0]

Queued == ToSet(queue)

\* Priority.Score.
Level(m) == IF m \in High THEN 0 ELSE IF m \in Low THEN 2 ELSE 1

\* Mutant: the score is the time.
LeadByAge(k, m) == age[k]

\* Mutant: the score is the level.
LeadByLevel(k, m) == Level(m) - Level(k)

\* How far the score of k, on the queue, is below the score of m, enqueued now.
Lead(k, m) == (Level(m) - Level(k)) * Gap + age[k]

\* Producer.Enqueue.  A message that is on the queue already gets a new score.
Enqueue(m) ==
    LET others == RemoveFirst(queue, m) IN
    /\ \E i \in 1..(Len(others) + 1) :
        /\ \A j \in 1..(i - 1) : Lead(others[j], m) >= 0
        /\ \A j \in i..Len(others) : Lead(others[j], m) <= 0
        /\ queue' = InsertAt(others, i, m)
    /\ age' = [age EXCEPT ![m] = 0]

\* ZPOPMIN with this count.
ZPopMin(n) ==
    /\ queue' = SubSeq(queue, n + 1, Len(queue))
    /\ age' = [m \in Msg |-> IF m \in ToSet(queue') THEN age[m] ELSE 0]

Tick ==
    /\ age' = [m \in Msg |->
                IF m \in Queued /\ age[m] < MaxAge THEN age[m] + 1 ELSE age[m]]
    /\ UNCHANGED queue
=============================================================================
