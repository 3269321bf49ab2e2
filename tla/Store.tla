------------------------------- MODULE Store --------------------------------
(***************************************************************************)
(* The notifications and dead_letters tables in Postgres, and the          *)
(* statements internal/repository/postgres runs on them.  Every statement  *)
(* is atomic; only the one that claims rows for a worker looks at the      *)
(* status it overwrites.                                                   *)
(***************************************************************************)
EXTENDS Domain

VARIABLES
    status,         \* notifications.status, "absent" before the insert
    attempts,       \* notifications.attempts
    deadLetters,    \* number of dead_letters rows of a notification
    clobbered       \* history: rows that a status write of the API or of the
                    \* scheduler hit after they had left the waiting statuses

storeVars == <<status, attempts, deadLetters, clobbered>>

StoreTypeOK ==
    /\ status \in [Notif -> Statuses \union {"absent"}]
    /\ attempts \in [Notif -> Nat]
    /\ deadLetters \in [Notif -> Nat]
    /\ clobbered \subseteq Notif

StoreInit ==
    /\ status = [n \in Notif |-> "absent"]
    /\ attempts = [n \in Notif |-> 0]
    /\ deadLetters = [n \in Notif |-> 0]
    /\ clobbered = {}

\* Create and CreateBatch: the inserts of one batch are one transaction.
CreateBatch(ids) ==
    /\ status' = [n \in Notif |->
                    IF n \in ids THEN InitialStatus(n) ELSE status[n]]
    /\ UNCHANGED <<attempts, deadLetters, clobbered>>

\* UpdateStatus and UpdateBatchStatus: "WHERE id = ..." whatever the status.
UpdateBatchStatus(ids, st) ==
    /\ status' = [n \in Notif |-> IF n \in ids THEN st ELSE status[n]]
    /\ clobbered' = clobbered \union
            {n \in ids : status[n] \notin Waiting /\ status[n] # st}
    /\ UNCHANGED <<attempts, deadLetters>>

\* UpdateStatusWithError, the processor's write after a failed send.
UpdateStatusWithError(n, st, att) ==
    /\ status' = [status EXCEPT ![n] = st]
    /\ attempts' = [attempts EXCEPT ![n] = att]
    /\ UNCHANGED <<deadLetters, clobbered>>

\* Mutant: a status the domain does not know.
UpdateBatchDelivered(ids) ==
    /\ status' = [n \in Notif |-> IF n \in ids THEN "delivered" ELSE status[n]]
    /\ UNCHANGED <<attempts, deadLetters, clobbered>>

\* UpdateBatchSent, one transaction.
UpdateBatchSent(ids) ==
    /\ status' = [n \in Notif |-> IF n \in ids THEN "sent" ELSE status[n]]
    /\ UNCHANGED <<attempts, deadLetters, clobbered>>

\* Mutants: the claim takes over rows in processing, or unreleased ones.
TakesOver(ids) == {n \in ids : status[n] \in {"pending", "queued", "processing"}}
TakesUnreleased(ids) == {n \in ids : status[n] \in Waiting}

\* The rows getAndMarkProcessingBatch updates and returns.
Claimable(ids) == {n \in ids : status[n] \in {"pending", "queued"}}

\* GetAndMarkProcessingBatch: test and set in one statement.
GetAndMarkProcessingBatch(ids) ==
    /\ status' = [n \in Notif |->
                    IF n \in Claimable(ids) THEN "processing" ELSE status[n]]
    /\ UNCHANGED <<attempts, deadLetters, clobbered>>

\* The Attempts of the rows it returns (RETURNING ... attempts).
scanNotifications(ids) ==
    [n \in Notif |-> IF n \in Claimable(ids) THEN attempts[n] ELSE 0]

\* DeadLetterHandler.Handle: a plain insert under a fresh id.
InsertDeadLetter(n) ==
    /\ deadLetters' = [deadLetters EXCEPT ![n] = @ + 1]
    /\ UNCHANGED <<status, attempts, clobbered>>
=============================================================================
