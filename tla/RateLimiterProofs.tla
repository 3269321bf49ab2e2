-------------------------- MODULE RateLimiterProofs --------------------------
(***************************************************************************)
(* The limiter never records more than Limit entries, and grants no more   *)
(* in a window unless scripts ran out of order, for any number of          *)
(* dispatchers and any limit, window, batch size and delay.                *)
(*                                                                         *)
(* The argument: while scripts run in the order of their readings, every   *)
(* grant of the current window is an entry of its own, and AllowN keeps    *)
(* the number of entries within the limit whatever the order.              *)
(***************************************************************************)
EXTENDS RateLimiter, FiniteSetTheorems, TLAPS

USE RateLimiterAssumption DEF RateLimiterAssumption, Old, Enough

\* Nothing was granted on a reading later than the latest one.
NothingNewer == \A a \in 0..Old : a < newest => granted[a] = 0

\* A grant on a reading that is in the window, and that was made after the
\* last accident, has an entry.
GrantsRecorded ==
    \A a \in 0..(Window - 1) : a < disturbed =>
        \A i \in 1..granted[a] : <<a, i>> \in entries

\* The inductive invariant.
RInv == TypeOK /\ IsFiniteSet(entries) /\ NothingNewer /\ GrantsRecorded

-----------------------------------------------------------------------------
\* A script adds what fits, and no more members than there are in a batch.
LEMMA AllowedFits ==
    ASSUME RInv, NEW d \in Dispatcher
    PROVE  /\ Live(d) \subseteq entries
           /\ IsFiniteSet(Live(d)) /\ Cardinality(Live(d)) \in Nat
           /\ Allowed(d) \in 0..BatchSize
           /\ Cardinality(Live(d)) + Allowed(d) <= Limit
<1>1. Live(d) \subseteq entries
  BY DEF Live
<1>2. IsFiniteSet(Live(d)) /\ Cardinality(Live(d)) <= Cardinality(entries)
  BY <1>1, FS_Subset DEF RInv
<1>3. Cardinality(Live(d)) \in Nat /\ Cardinality(entries) \in Nat
  BY <1>2, FS_CardinalityType DEF RInv
<1>4. Cardinality(entries) <= Limit
  BY DEF RInv, TypeOK
<1> QED BY <1>1, <1>2, <1>3, <1>4 DEF Allowed, Capped

\* The members it adds are as many as it allows.
LEMMA AddedCount ==
    ASSUME RInv, NEW d \in Dispatcher
    PROVE  IsFiniteSet(Added(d)) /\ Cardinality(Added(d)) <= Allowed(d)
<1> DEFINE n == Allowed(d)
           f == [i \in 1..n |-> <<reading[d], i>>]
<1>1. n \in Nat
  BY AllowedFits
<1>2. f \in Surjection(1..n, Added(d))
  BY DEF Surjection, Added
<1>3. IsFiniteSet(1..n) /\ Cardinality(1..n) = n
  BY <1>1, FS_Interval
<1> HIDE DEF n, f
<1> QED BY <1>2, <1>3, FS_Surjection DEF n

-----------------------------------------------------------------------------
\* AllowN's script, also when it runs late or out of order.
LEMMA RunScriptRInv == ASSUME RInv, NEW d \in Dispatcher, RunScript(d) PROVE RInv'
<1> DEFINE r == reading[d]
<1>0. /\ r \in 0..MaxDelay /\ newest \in 0..Old /\ disturbed \in 0..Old
      /\ granted \in [0..Old -> 0..Enough]
  BY DEF RInv, TypeOK
<1>1. IsFiniteSet(entries') /\ Cardinality(entries') <= Limit
  <2>1. entries' = Live(d) \union Added(d)
    BY DEF RunScript
  <2>2. /\ IsFiniteSet(entries')
        /\ Cardinality(entries') = Cardinality(Live(d)) + Cardinality(Added(d))
                                     - Cardinality(Live(d) \intersect Added(d))
    BY <2>1, AllowedFits, AddedCount, FS_Union
  <2>3. Cardinality(Live(d) \intersect Added(d)) \in Nat /\ Cardinality(Added(d)) \in Nat
    BY AllowedFits, AddedCount, FS_Intersection, FS_CardinalityType
  <2> QED BY <2>2, <2>3, AllowedFits, AddedCount
<1>2. entries' \subseteq (0..Old) \X (1..BatchSize)
  <2>1. Added(d) \subseteq (0..Old) \X (1..BatchSize)
    <3>1. Allowed(d) \in 0..BatchSize /\ r \in 0..Old
      BY <1>0, AllowedFits
    <3>2. 1..Allowed(d) \subseteq 1..BatchSize
      BY <3>1
    <3> QED BY <3>1, <3>2 DEF Added
  <2>2. Live(d) \subseteq (0..Old) \X (1..BatchSize)
    BY AllowedFits DEF RInv, TypeOK
  <2> QED BY <2>1, <2>2 DEF RunScript
<1>3. /\ newest' = Capped(r, newest) /\ newest' \in 0..Old
      /\ disturbed' = (IF newest <= r THEN 0 ELSE disturbed) /\ disturbed' \in 0..Old
  BY <1>0 DEF RunScript, Capped
<1>4. /\ granted' = [granted EXCEPT ![r] = Capped(granted[r] + Allowed(d), Enough)]
      /\ granted' \in [0..Old -> 0..Enough]
  <2>1. granted[r] \in Nat /\ Allowed(d) \in Nat
    BY <1>0, AllowedFits
  <2>2. Capped(granted[r] + Allowed(d), Enough) \in 0..Enough
    BY <2>1 DEF Capped
  <2> QED BY <1>0, <2>2 DEF RunScript
<1>5. TypeOK'
  BY <1>1, <1>2, <1>3, <1>4 DEF RunScript, RInv, TypeOK
<1>6. NothingNewer'
  BY <1>0, <1>3, <1>4 DEF NothingNewer, RInv, Capped
<1>7. GrantsRecorded'
  <2> SUFFICES ASSUME NEW a \in 0..(Window - 1), a < disturbed', NEW i \in 1..granted'[a]
               PROVE  <<a, i>> \in entries'
    BY DEF GrantsRecorded
  <2>1. r < newest /\ disturbed' = disturbed
    BY <1>0, <1>3
  <2>2. CASE a = r
    <3>1. granted[r] = 0 /\ Allowed(d) \in Nat
      BY <1>0, <2>1, AllowedFits DEF RInv, NothingNewer
    <3>2. granted'[a] <= Allowed(d)
      BY <1>0, <1>4, <2>2, <3>1 DEF Capped
    <3>3. granted'[a] \in Nat
      BY <1>0, <1>4, <2>2
    <3>4. i \in 1..Allowed(d)
      BY <3>1, <3>2, <3>3
    <3> QED BY <2>2, <3>4 DEF RunScript, Added
  <2>3. CASE a # r
    <3>1. granted'[a] = granted[a]
      BY <1>0, <1>4, <2>3
    <3>2. <<a, i>> \in entries
      BY <2>1, <3>1 DEF RInv, GrantsRecorded
    <3>3. <<a, i>> \in Live(d)
      BY <1>0, <3>2 DEF Live
    <3> QED BY <3>3 DEF RunScript
  <2> QED BY <2>2, <2>3
<1> QED BY <1>1, <1>5, <1>6, <1>7 DEF RInv

\* Time: entries, readings and grants grow older together.
LEMMA TickRInv == ASSUME RInv, Tick PROVE RInv'
<1>0. /\ newest \in 0..Old /\ disturbed \in 0..Old /\ granted \in [0..Old -> 0..Enough]
      /\ entries \subseteq (0..Old) \X (1..BatchSize)
  BY DEF RInv, TypeOK
<1>1. entries' \subseteq (0..Old) \X (1..BatchSize)
  BY <1>0 DEF Tick, Older, Capped
<1>2. IsFiniteSet(entries') /\ Cardinality(entries') <= Limit
  <2> DEFINE f == [e \in entries |-> <<Older(e[1]), e[2]>>]
  <2>1. f \in Surjection(entries, entries')
    BY DEF Surjection, Tick
  <2> HIDE DEF f
  <2>2. IsFiniteSet(entries') /\ Cardinality(entries') <= Cardinality(entries)
    BY <2>1, FS_Surjection DEF RInv
  <2>3. Cardinality(entries) \in Nat /\ Cardinality(entries') \in Nat
    BY <2>2, FS_CardinalityType DEF RInv
  <2> QED BY <2>2, <2>3 DEF RInv, TypeOK
<1>3. /\ newest' = Older(newest) /\ newest' \in 0..Old
      /\ disturbed' = Older(disturbed) /\ disturbed' \in 0..Old
  BY <1>0 DEF Tick, Older, Capped
<1>4. /\ granted' \in [0..Old -> 0..Enough]
      /\ \A a \in 0..Old :
            granted'[a] = IF a \in 1..(Old - 1) THEN granted[a - 1] ELSE 0
  BY <1>0 DEF Tick
<1>5. reading' \in [Dispatcher -> 0..MaxDelay]
  BY DEF Tick, RInv, TypeOK
<1>6. TypeOK'
  BY <1>1, <1>2, <1>3, <1>4, <1>5 DEF Tick, RInv, TypeOK
<1>7. NothingNewer'
  BY <1>0, <1>3, <1>4 DEF NothingNewer, RInv, Older, Capped
<1>8. GrantsRecorded'
  <2> SUFFICES ASSUME NEW a \in 0..(Window - 1), a < disturbed', NEW i \in 1..granted'[a]
               PROVE  <<a, i>> \in entries'
    BY DEF GrantsRecorded
  <2>1. a \in 1..(Old - 1) /\ granted'[a] = granted[a - 1]
    BY <1>0, <1>4
  <2>2. a - 1 \in 0..(Window - 1) /\ a - 1 < disturbed /\ Older(a - 1) = a
    BY <1>0, <1>3, <2>1 DEF Older, Capped
  <2>3. <<a - 1, i>> \in entries
    BY <2>1, <2>2 DEF RInv, GrantsRecorded
  <2> QED BY <2>2, <2>3 DEF Tick
<1> QED BY <1>2, <1>6, <1>7, <1>8 DEF RInv

-----------------------------------------------------------------------------
\* The invariant holds of an empty limiter ...
LEMMA InitRInv == Init => RInv
<1> SUFFICES ASSUME Init PROVE RInv
  OBVIOUS
<1>1. IsFiniteSet(entries) /\ Cardinality(entries) <= Limit
  BY FS_EmptySet DEF Init
<1>2. TypeOK
  BY <1>1 DEF Init, TypeOK
<1> QED BY <1>1, <1>2 DEF Init, RInv, NothingNewer, GrantsRecorded

\* ... and every step keeps it.
LEMMA NextRInv == RInv /\ [Next]_vars => RInv'
<1> SUFFICES ASSUME RInv, [Next]_vars PROVE RInv'
  OBVIOUS
<1>1. ASSUME NEW d \in Dispatcher, Ask(d) PROVE RInv'
  <2>1. reading' \in [Dispatcher -> 0..MaxDelay] /\ asking' \subseteq Dispatcher
    BY <1>1 DEF Ask, RInv, TypeOK
  <2> QED BY <1>1, <2>1 DEF Ask, RInv, TypeOK, NothingNewer, GrantsRecorded
<1>2. CASE UNCHANGED vars
  BY <1>2 DEF vars, RInv, TypeOK, NothingNewer, GrantsRecorded
<1> QED BY <1>1, <1>2, RunScriptRInv, TickRInv DEF Next

\* The inductive invariant is one.
THEOREM RateLimiterInvariant == Spec => []RInv
BY InitRInv, NextRInv, PTL DEF Spec

\* The types, and in them that ratelimit:<ch> never holds more than Limit
\* members, however late the scripts run and in whatever order (AllowN).
THEOREM RateLimiterTypeOK == Spec => []TypeOK
<1>1. RInv => TypeOK
  BY DEF RInv
<1> QED BY <1>1, RateLimiterInvariant, PTL

\* No window lets more than Limit messages through once the last script that
\* ran out of order, or on a reading already used, is a window in the past
\* (AllowN).
THEOREM RateLimiterWithinLimit == Spec => []WithinLimit
<1>1. RInv => WithinLimit
  <2> SUFFICES ASSUME RInv, disturbed >= Window
               PROVE  Cardinality(GrantedInWindow) <= Limit
    BY DEF WithinLimit
  <2>0. granted \in [0..Old -> 0..Enough] /\ disturbed \in 0..Old
    BY DEF RInv, TypeOK
  <2>1. GrantedInWindow \subseteq entries
    <3> SUFFICES ASSUME NEW a \in 0..(Window - 1), NEW i \in 1..Enough, i <= granted[a]
                 PROVE  <<a, i>> \in entries
      BY DEF GrantedInWindow
    <3>1. a < disturbed /\ i \in 1..granted[a]
      BY <2>0
    <3> QED BY <3>1 DEF RInv, GrantsRecorded
  <2>2. Cardinality(GrantedInWindow) <= Cardinality(entries) /\ IsFiniteSet(GrantedInWindow)
    BY <2>1, FS_Subset DEF RInv
  <2>3. Cardinality(GrantedInWindow) \in Nat /\ Cardinality(entries) \in Nat
    BY <2>2, FS_CardinalityType DEF RInv
  <2> QED BY <2>2, <2>3 DEF RInv, TypeOK
<1> QED BY <1>1, RateLimiterInvariant, PTL
=============================================================================
