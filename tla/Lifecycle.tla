----------------------------- MODULE Lifecycle ------------------------------
(***************************************************************************)
(* What the service promises about one notification, without queues,       *)
(* batches or processes: the status flow of README.md with the sends and   *)
(* the dead letter it allows at each point.  Every notification follows it *)
(* on its own; a step of the system may move several of them.              *)
(***************************************************************************)
EXTENDS Domain

VARIABLE life       \* life[n]: where n is, its sends, its dead letters

\* A notification the promise no longer covers.
Void == [st |-> "void", calls |-> 0, delivered |-> 0, letters |-> 0]

Unborn == [st |-> "absent", calls |-> 0, delivered |-> 0, letters |-> 0]

LifeInit == life = [n \in Notif |-> Unborn]

\* l moves on to the status st, and nothing else changes.
Moves(l, m, st) == m = [l EXCEPT !.st = st]

Insert(n, l, m) ==
    /\ l = Unborn
    /\ Moves(l, m, InitialStatus(n))

ToQueue(l, m) == l.st \in {"pending", "scheduled"} /\ Moves(l, m, "queued")

Cancel(l, m) == l.st \in Waiting /\ Moves(l, m, "cancelled")

Claim(l, m) == l.st \in {"pending", "queued"} /\ Moves(l, m, "processing")

\* One more send, to a notification that is claimed, undelivered, not dead
\* and has attempts left.
Send(l, m) ==
    /\ l.st = "processing"
    /\ l.delivered = 0
    /\ l.letters = 0
    /\ l.calls < MaxAttempts
    /\ \E d \in {0, 1} : m = [st |-> "processing", calls |-> l.calls + 1,
                              delivered |-> d, letters |-> 0]

BackToQueue(l, m) ==
    /\ l.st = "processing"
    /\ l.delivered = 0
    /\ l.calls \in 1..(MaxAttempts - 1)
    /\ Moves(l, m, "queued")

Deliver(l, m) ==
    /\ l.st = "processing"
    /\ l.delivered = 1
    /\ Moves(l, m, "sent")

\* All attempts made and none delivered: failed, and one dead letter.
Exhausted(l) == l.calls = MaxAttempts /\ l.delivered = 0

GiveUp(l, m) ==
    /\ l.st = "processing"
    /\ Exhausted(l)
    /\ Moves(l, m, "failed")

Bury(l, m) ==
    /\ l.st \in {"processing", "failed"}
    /\ Exhausted(l)
    /\ l.letters = 0
    /\ m = [l EXCEPT !.letters = 1]

\* The promise is off once something overwrites a claimed or closed row.
Voided(l, m) == l.st \notin Waiting \union {"absent"} /\ m = Void

Step(n, l, m) ==
    \/ Insert(n, l, m) \/ ToQueue(l, m) \/ Cancel(l, m) \/ Claim(l, m)
    \/ Send(l, m) \/ BackToQueue(l, m) \/ Deliver(l, m)
    \/ GiveUp(l, m) \/ Bury(l, m) \/ Voided(l, m)

LifeNext == \A n \in Notif : life'[n] = life[n] \/ Step(n, life[n], life'[n])

LifeSpec == LifeInit /\ [][LifeNext]_life

-----------------------------------------------------------------------------
\* What it comes to for the client: a notification is sent at most MaxAttempts
\* times and delivered at most once, "sent" only if it was delivered, and it
\* is waiting, cancelled, failed or buried only if it was not.
Promise ==
    \A n \in Notif :
        /\ life[n].calls <= MaxAttempts
        /\ life[n].delivered <= 1
        /\ life[n].st = "sent" => life[n].delivered = 1
        /\ life[n].st \in Waiting \union {"cancelled", "failed"} => life[n].delivered = 0
        /\ life[n].letters > 0 => life[n].letters = 1 /\ Exhausted(life[n])
=============================================================================
