------------------------ MODULE CircuitBreakerProofs ------------------------
(***************************************************************************)
(* Proofs of the breaker's invariants for any number of callers, any       *)
(* failure threshold and any timeout.                                      *)
(***************************************************************************)
EXTENDS CircuitBreaker, TLAPS

\* The copies of a caller under way, if no failure was recorded since it took
\* them: an open breaker is the one it saw, and it was let through only if
\* the timeout had elapsed by its copy.
Current(t) ==
    tpc[t] # "idle" =>
        /\ t \notin stale /\ state = "open" =>
            seenState[t] = "open" /\ seenSince[t] = since
        /\ tpc[t] \in {"halfOpen", "sending"} /\ seenState[t] = "open" =>
            Elapsed(seenSince[t])

\* The inductive invariant.
CopiesInv == \A t \in Thread : Current(t)

USE BreakerAssumption DEF BreakerAssumption, Over, States

\* Type correctness of the breaker and of the callers' copies.
THEOREM BreakerTypeOK == Spec => []TypeOK
<1>1. Init => TypeOK
  <2> SUFFICES ASSUME Init PROVE TypeOK
    OBVIOUS
  <2>1. healthy \in BOOLEAN
    BY Zenon DEF Init
  <2>2. since \in 0..Over /\ seenSince \in [Thread -> 0..Over]
    BY DEF Init
  <2> QED
    BY <2>1, <2>2 DEF Init, TypeOK
<1>2. TypeOK /\ [Next]_vars => TypeOK'
  <2> SUFFICES ASSUME TypeOK, [Next]_vars
               PROVE  TypeOK'
    OBVIOUS
  <2> USE DEF TypeOK
  <2>1. ASSUME NEW t \in Thread, Caller(t)
        PROVE  TypeOK'
    <3>1. CASE Read(t)
      BY <3>1 DEF Read, shared
    <3>2. CASE Reject(t) \/ Admit(t)
      BY <3>2 DEF Reject, Admit, shared
    <3>3. CASE ToHalfOpen(t)
      BY <3>3 DEF ToHalfOpen
    <3>4. CASE SendFails(t)
      BY <3>4 DEF SendFails
    <3>5. CASE SendSucceeds(t)
      BY <3>5 DEF SendSucceeds
    <3> QED
      BY <2>1, <3>1, <3>2, <3>3, <3>4, <3>5 DEF Caller
  <2>2. CASE Tick
    <3>1. \A a \in 0..Over : Later(a) \in 0..Over
      BY DEF Later
    <3> QED
      BY <2>2, <3>1 DEF Tick
  <2>3. CASE ProviderRecovers
    BY <2>3 DEF ProviderRecovers, shared
  <2>4. CASE UNCHANGED vars
    BY <2>4 DEF vars, shared
  <2> QED
    BY <2>1, <2>2, <2>3, <2>4 DEF Next
<1> QED
  BY <1>1, <1>2, PTL DEF Spec

\* The breaker is closed exactly while fewer than MaxFailures failures have
\* been recorded since the last success (recordFailure, recordSuccess and the
\* half-open transition of Send).
THEOREM BreakerTrips == Spec => []TripsAtMaxFailures
<1>1. Init => TripsAtMaxFailures
  BY DEF Init, TripsAtMaxFailures
<1>2. TypeOK /\ TripsAtMaxFailures /\ [Next]_vars => TripsAtMaxFailures'
  <2> SUFFICES ASSUME TypeOK, TripsAtMaxFailures, [Next]_vars
               PROVE  TripsAtMaxFailures'
    OBVIOUS
  <2> USE DEF TypeOK, TripsAtMaxFailures
  <2>1. ASSUME NEW t \in Thread, Caller(t)
        PROVE  TripsAtMaxFailures'
    <3>1. CASE Read(t) \/ Reject(t) \/ Admit(t)
      BY <3>1 DEF Read, Reject, Admit, shared
    <3>2. CASE ToHalfOpen(t)
      BY <3>2 DEF ToHalfOpen
    <3>3. CASE SendFails(t)
      BY <3>3 DEF SendFails
    <3>4. CASE SendSucceeds(t)
      BY <3>4 DEF SendSucceeds
    <3> QED
      BY <2>1, <3>1, <3>2, <3>3, <3>4 DEF Caller
  <2>2. CASE Tick \/ ProviderRecovers \/ UNCHANGED vars
    BY <2>2 DEF Tick, ProviderRecovers, vars, shared
  <2> QED
    BY <2>1, <2>2 DEF Next
<1> QED
  BY <1>1, <1>2, BreakerTypeOK, PTL DEF Spec

\* What a step does to the copies of every caller.
LEMMA CopiesStep ==
    TypeOK /\ CopiesInv /\ [Next]_vars => CopiesInv'
<1> SUFFICES ASSUME TypeOK, CopiesInv, [Next]_vars, NEW u \in Thread
             PROVE  Current(u)'
  BY DEF CopiesInv
<1> USE DEF TypeOK, Current, Elapsed
<1>0. Current(u)
  BY DEF CopiesInv
<1>1. ASSUME NEW t \in Thread, Caller(t)
      PROVE  Current(u)'
  <2>1. CASE Read(t)
    BY <1>0, <2>1 DEF Read, shared
  <2>2. CASE Reject(t)
    BY <1>0, <2>2 DEF Reject, shared
  <2>3. CASE Admit(t)
    BY <1>0, <2>3 DEF Admit, shared
  <2>4. CASE ToHalfOpen(t)
    BY <1>0, <2>4 DEF ToHalfOpen
  <2>5. CASE SendFails(t)
    BY <1>0, <2>5 DEF SendFails
  <2>6. CASE SendSucceeds(t)
    BY <1>0, <2>6 DEF SendSucceeds
  <2> QED
    BY <1>1, <2>1, <2>2, <2>3, <2>4, <2>5, <2>6 DEF Caller
<1>2. CASE Tick
  BY <1>0, <1>2 DEF Tick, Later
<1>3. CASE ProviderRecovers \/ UNCHANGED vars
  BY <1>0, <1>3 DEF ProviderRecovers, vars, shared
<1> QED
  BY <1>1, <1>2, <1>3 DEF Next

\* While the breaker is open and its timeout has not elapsed, only callers
\* whose copies are older than the last failure go through (Send).
THEOREM BreakerBars == Spec => []OnlyStaleCallersPass
<1>1. Init => CopiesInv
  BY DEF Init, CopiesInv, Current
<1>2. CopiesInv => OnlyStaleCallersPass
  BY DEF CopiesInv, Current, OnlyStaleCallersPass
<1> QED
  BY <1>1, <1>2, CopiesStep, BreakerTypeOK, PTL DEF Spec
=============================================================================
