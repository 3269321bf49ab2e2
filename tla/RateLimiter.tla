---------------------------- MODULE RateLimiter -----------------------------
(***************************************************************************)
(* internal/queue/redis/ratelimiter.go: AllowN, the sliding window the     *)
(* dispatchers of one channel share.  A dispatcher reads its clock, then   *)
(* Redis runs the script, atomically but as late as the network makes it.  *)
(*                                                                         *)
(* Time is in ticks, a tick being the shortest time that changes the text  *)
(* of a clock reading in the script (Lua prints 14 digits, about 0.1 ms).  *)
(* Entries and readings are kept by age.  The random number in a member's  *)
(* name is left out: Redis seeds it alike for every run of a script, so it *)
(* is a function of the index before it.                                   *)
(***************************************************************************)
EXTENDS Naturals, FiniteSets

CONSTANTS
    Dispatcher,     \* dispatch loops of the channel, in any process
    Limit,          \* RateLimiter.limit
    Window,         \* RateLimiter.windowNs, in ticks
    BatchSize,      \* Dispatcher.batchSize, the count asked for
    MaxDelay        \* longest time from a reading to its script (a bound)

ASSUME RateLimiterAssumption ==
    /\ Limit \in Nat \ {0}
    /\ Window \in Nat \ {0}
    /\ BatchSize \in Nat \ {0}
    /\ MaxDelay \in Nat

VARIABLES
    entries,        \* members of ratelimit:<ch>: age of the reading, index
    asking,         \* dispatchers whose script has not run yet
    reading,        \* age of the clock reading they sent
    granted,        \* history: what was allowed on readings of each age
    newest,         \* history: age of the latest reading a script ran with
    disturbed       \* history: time since two scripts last ran out of order
                    \* or on the same reading

vars == <<entries, asking, reading, granted, newest, disturbed>>

Old == Window + MaxDelay        \* beyond what any script can tell apart
Enough == Limit + BatchSize     \* where granted stops counting (a bound)

Capped(n, cap) == IF n < cap THEN n ELSE cap

TypeOK ==
    /\ entries \subseteq (0..Old) \X (1..BatchSize)
    /\ Cardinality(entries) <= Limit
    /\ asking \subseteq Dispatcher
    /\ reading \in [Dispatcher -> 0..MaxDelay]
    /\ granted \in [0..Old -> 0..Enough]
    /\ newest \in 0..Old
    /\ disturbed \in 0..Old

Init ==
    /\ entries = {}
    /\ asking = {}
    /\ reading = [d \in Dispatcher |-> 0]
    /\ granted = [a \in 0..Old |-> 0]
    /\ newest = Old
    /\ disturbed = Old

\* AllowN: the clock is read in the dispatcher.
Ask(d) ==
    /\ d \notin asking
    /\ asking' = asking \union {d}
    /\ reading' = [reading EXCEPT ![d] = 0]
    /\ UNCHANGED <<entries, granted, newest, disturbed>>

\* Mutant: everything expires a tick too early.
LiveBriefly(d) == {e \in entries : e[1] + 1 < reading[d] + Window}

\* The script: what ZREMRANGEBYSCORE leaves, ...
Live(d) == {e \in entries : e[1] < reading[d] + Window}

\* Mutant: "count <= limit".
AllowedOneMore(d) ==
    Capped(BatchSize, Capped(Limit + 1 - Cardinality(Live(d)), Limit + 1))

\* ... how many of the count fit below the limit, ...
Allowed(d) ==
    IF Cardinality(Live(d)) >= Limit THEN 0
    ELSE Capped(BatchSize, Limit - Cardinality(Live(d)))

\* Mutant: what is refused is recorded too.
AddedAlways(d) == {<<reading[d], i>> : i \in 1..BatchSize}

\* ... and the members it adds, named after the reading and the index.
Added(d) == {<<reading[d], i>> : i \in 1..Allowed(d)}

RunScript(d) ==
    /\ d \in asking
    /\ asking' = asking \ {d}
    /\ entries' = Live(d) \union Added(d)
    /\ granted' = [granted EXCEPT ![reading[d]] = Capped(@ + Allowed(d), Enough)]
    /\ newest' = Capped(reading[d], newest)
    /\ disturbed' = IF newest <= reading[d] THEN 0 ELSE disturbed
    /\ UNCHANGED reading

Older(a) == Capped(a + 1, Old)

\* Time.  A script runs at most MaxDelay after its reading.
Tick ==
    /\ \A d \in asking : reading[d] < MaxDelay
    /\ entries' = {<<Older(e[1]), e[2]>> : e \in entries}
    /\ reading' = [d \in Dispatcher |->
                    IF d \in asking THEN reading[d] + 1 ELSE reading[d]]
    /\ granted' = [a \in 0..Old |->
                    IF a \in 1..(Old - 1) THEN granted[a - 1] ELSE 0]
    /\ newest' = Older(newest)
    /\ disturbed' = Older(disturbed)
    /\ UNCHANGED asking

Next == (\E d \in Dispatcher : Ask(d) \/ RunScript(d)) \/ Tick

Spec == Init /\ [][Next]_vars

\* Dispatch loops go on polling, Redis answers, and time passes.
FairSpec ==
    /\ Spec
    /\ WF_vars(Tick)
    /\ \A d \in Dispatcher : WF_vars(Ask(d)) /\ WF_vars(RunScript(d))

-----------------------------------------------------------------------------
\* The grants on readings of the last window, one by one.
GrantedInWindow == {g \in (0..(Window - 1)) \X (1..Enough) : g[2] <= granted[g[1]]}

\* No window lets more than Limit messages through, as long as scripts have
\* run in the order of their readings and no two on the same reading; and the
\* limiter heals: it is true again once the last such accident is a window in
\* the past (AllowN).
WithinLimit == disturbed >= Window => Cardinality(GrantedInWindow) <= Limit

\* A limiter that is asked again and again goes on allowing messages, however
\* late the scripts run: entries do not outlive their window.
KeepsGranting == []<>(\E a \in 0..MaxDelay : granted[a] > 0)
=============================================================================
