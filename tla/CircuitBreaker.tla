--------------------------- MODULE CircuitBreaker ---------------------------
(***************************************************************************)
(* internal/provider/circuitbreaker.go under concurrent callers (the       *)
(* goroutines of the worker pools).  Send reads the state and the time of  *)
(* the last failure under the read lock, decides on that copy, and records *)
(* the outcome of the call under the write lock, so other callers come     *)
(* between any two of these.                                               *)
(*                                                                         *)
(* Time is what time.Since(lastFailure) returns, for the shared field and  *)
(* for every copy, in ticks up to Timeout + 1: only the comparison with    *)
(* the timeout matters.  For the same reason failures stops at             *)
(* MaxFailures.                                                            *)
(***************************************************************************)
EXTENDS Naturals

CONSTANTS
    Thread,         \* concurrent callers of Send
    MaxFailures,    \* CircuitBreaker.maxFailures
    Timeout         \* CircuitBreaker.timeout, in ticks

ASSUME BreakerAssumption ==
    /\ MaxFailures \in Nat \ {0}
    /\ Timeout \in Nat

VARIABLES
    state,          \* CircuitBreaker.state
    failures,       \* CircuitBreaker.failures
    since,          \* time.Since(lastFailure)
    tpc,            \* where each caller is in Send
    seenState,      \* its copy of state
    seenSince,      \* time.Since of its copy of lastFailure
    stale,          \* history: a failure was recorded since it took the copies
    healthy         \* the provider has recovered (external)

shared == <<state, failures, since>>
vars == <<shared, tpc, seenState, seenSince, stale, healthy>>

States == {"closed", "open", "halfOpen"}

Over == Timeout + 1     \* any time beyond the timeout

TypeOK ==
    /\ state \in States
    /\ failures \in 0..MaxFailures
    /\ since \in 0..Over
    /\ tpc \in [Thread -> {"idle", "decide", "halfOpen", "sending"}]
    /\ seenState \in [Thread -> States]
    /\ seenSince \in [Thread -> 0..Over]
    /\ stale \subseteq Thread
    /\ healthy \in BOOLEAN

Init ==
    /\ state = "closed"
    /\ failures = 0
    /\ since = Over
    /\ tpc = [t \in Thread |-> "idle"]
    /\ seenState = [t \in Thread |-> "closed"]
    /\ seenSince = [t \in Thread |-> Over]
    /\ stale = {}
    /\ healthy = FALSE

\* Send: the copies taken under the read lock.
Read(t) ==
    /\ tpc[t] = "idle"
    /\ tpc' = [tpc EXCEPT ![t] = "decide"]
    /\ seenState' = [seenState EXCEPT ![t] = state]
    /\ seenSince' = [seenSince EXCEPT ![t] = since]
    /\ stale' = stale \ {t}
    /\ UNCHANGED <<shared, healthy>>

Elapsed(age) == age > Timeout

\* Send: the switch on the copies.
Reject(t) ==
    /\ tpc[t] = "decide"
    /\ seenState[t] = "open" /\ ~Elapsed(seenSince[t])
    /\ tpc' = [tpc EXCEPT ![t] = "idle"]
    /\ UNCHANGED <<shared, seenState, seenSince, stale, healthy>>

\* Mutant: an open breaker lets callers try at once.
AdmitEarly(t) ==
    /\ tpc[t] = "decide"
    /\ tpc' = [tpc EXCEPT ![t] =
                IF seenState[t] = "open" THEN "halfOpen" ELSE "sending"]
    /\ UNCHANGED <<shared, seenState, seenSince, stale, healthy>>

Admit(t) ==
    /\ tpc[t] = "decide"
    /\ seenState[t] = "open" => Elapsed(seenSince[t])
    /\ tpc' = [tpc EXCEPT ![t] =
                IF seenState[t] = "open" THEN "halfOpen" ELSE "sending"]
    /\ UNCHANGED <<shared, seenState, seenSince, stale, healthy>>

\* Send: the transition under the write lock, which checks the state again
\* but not the time.
ToHalfOpen(t) ==
    /\ tpc[t] = "halfOpen"
    /\ state' = IF state = "open" THEN "halfOpen" ELSE state
    /\ tpc' = [tpc EXCEPT ![t] = "sending"]
    /\ UNCHANGED <<failures, since, seenState, seenSince, stale, healthy>>

\* doSend, recordFailure.
SendFails(t) ==
    /\ tpc[t] = "sending"
    /\ ~healthy
    /\ failures' = IF failures < MaxFailures THEN failures + 1 ELSE failures
    /\ since' = 0
    /\ state' = IF failures' >= MaxFailures THEN "open" ELSE state
    /\ tpc' = [tpc EXCEPT ![t] = "idle"]
    /\ stale' = Thread
    /\ UNCHANGED <<seenState, seenSince, healthy>>

\* Mutants: a success takes one failure back, resets no failures, or does not
\* close the breaker.
SuccessDecrements(t) ==
    /\ tpc[t] = "sending"
    /\ failures' = failures - 1
    /\ state' = "closed"
    /\ tpc' = [tpc EXCEPT ![t] = "idle"]
    /\ UNCHANGED <<since, seenState, seenSince, stale, healthy>>

SuccessKeepsCount(t) ==
    /\ tpc[t] = "sending"
    /\ state' = "closed"
    /\ tpc' = [tpc EXCEPT ![t] = "idle"]
    /\ UNCHANGED <<failures, since, seenState, seenSince, stale, healthy>>

SuccessKeepsState(t) ==
    /\ tpc[t] = "sending"
    /\ failures' = 0
    /\ tpc' = [tpc EXCEPT ![t] = "idle"]
    /\ UNCHANGED <<state, since, seenState, seenSince, stale, healthy>>

\* doSend, recordSuccess.
SendSucceeds(t) ==
    /\ tpc[t] = "sending"
    /\ failures' = 0
    /\ state' = "closed"
    /\ tpc' = [tpc EXCEPT ![t] = "idle"]
    /\ UNCHANGED <<since, seenState, seenSince, stale, healthy>>

Later(age) == IF age < Over THEN age + 1 ELSE age

Tick ==
    /\ since' = Later(since)
    /\ seenSince' = [t \in Thread |-> Later(seenSince[t])]
    /\ UNCHANGED <<state, failures, tpc, seenState, stale, healthy>>

\* External: from some time on the provider accepts every call.
ProviderRecovers ==
    /\ ~healthy
    /\ healthy' = TRUE
    /\ UNCHANGED <<shared, tpc, seenState, seenSince, stale>>

Caller(t) ==
    \/ Read(t) \/ Reject(t) \/ Admit(t) \/ ToHalfOpen(t)
    \/ SendFails(t) \/ SendSucceeds(t)

Next == (\E t \in Thread : Caller(t)) \/ Tick \/ ProviderRecovers

Spec == Init /\ [][Next]_vars

\* Traffic goes on, every call to the provider returns, and time passes.
FairSpec == Spec /\ WF_vars(Tick) /\ \A t \in Thread : WF_vars(Caller(t))

-----------------------------------------------------------------------------
\* The breaker is closed exactly while fewer than MaxFailures failures have
\* been recorded since the last success, whatever the order in which
\* concurrent callers record outcomes and move it to half-open.
TripsAtMaxFailures == state = "closed" <=> failures < MaxFailures

\* While the breaker is open and its timeout has not elapsed, the only
\* callers on their way to the provider are those whose copies are older than
\* the last failure: nobody who came later is let through early.
OnlyStaleCallersPass ==
    state = "open" /\ ~Elapsed(since) =>
        \A t \in Thread \ stale : tpc[t] \notin {"halfOpen", "sending"}

\* A provider that has recovered gets its traffic back: the breaker closes
\* for good, whatever callers were under way and however old their copies.
ClosesAgain == healthy ~> [](state = "closed")
=============================================================================
