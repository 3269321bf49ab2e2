----------------------------- MODULE DocClaims ------------------------------
(***************************************************************************)
(* What the repository's documents and comments say about the pipeline and *)
(* the code does not do.  Each is violated by Pipeline; the README lists   *)
(* the counterexamples.                                                    *)
(***************************************************************************)
EXTENDS Pipeline

\* README.md: "No duplicate processing without distributed locks".  (Two
\* overlapping polls release the same notification twice.)
NoDuplicateProcessing == \A n \in Notif : delivered[n] <= 1

\* README.md, "Failure - increments attempts, re-queues with exponential
\* backoff": a failed send that leaves attempts leaves a message to retry
\* it, on a row no late write has touched.  (The ZREM of
\* promoteDelayedRetries removes the next retry if the worker is quicker.)
RetryIsRequeued ==
    \A n \in Notif \ clobbered : attempts[n] > 0 => ~Stranded(n)

\* reclaimExpiredProcessing: "continuous crash recovery".  (A message whose
\* row was claimed before the crash is reclaimed, but its row is not.)
CrashRecovery ==
    \A n \in Notif : status[n] = "processing" ~> status[n] # "processing"
=============================================================================
