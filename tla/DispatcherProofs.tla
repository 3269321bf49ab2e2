-------------------------- MODULE DispatcherProofs ---------------------------
(***************************************************************************)
(* The safety properties of a worker process, for any messages, priorities *)
(* and Gap, any number of goroutines and any batch size.                   *)
(***************************************************************************)
EXTENDS Dispatcher, SequenceTheorems, FiniteSetTheorems, TLAPS

\* The part of a message's score that its priority makes.
Base(m) == Level(m) * Gap

\* k has the lower score, or one of the two is too old to tell.
Before(k, m) ==
    age[k] < MaxAge /\ age[m] < MaxAge => Base(k) + age[m] <= Base(m) + age[k]

\* The queue is in the order of the scores.
Sorted == \A i, j \in DOMAIN queue : i < j => Before(queue[i], queue[j])

\* The inductive invariant.
DInv == TypeOK /\ Sorted

-----------------------------------------------------------------------------
(***************************************************************************)
(* What ZADD and ZPOPMIN do to the order.                                  *)
(***************************************************************************)
\* Scores are integers, and Lead compares them.
LEMMA LeadBase ==
    ASSUME OrderTypeOK, NEW k \in Msg, NEW m \in Msg
    PROVE  /\ Base(k) \in Int /\ Base(m) \in Int /\ age[k] \in Int
           /\ Lead(k, m) = Base(m) - Base(k) + age[k]
<1>1. age[k] \in Int /\ Gap \in Int
  BY ScoreQueueAssumption DEF OrderTypeOK, ScoreQueueAssumption, MaxAge
<1>2. Level(k) \in {0, 1, 2} /\ Level(m) \in {0, 1, 2}
  BY DEF Level
<1>3. Base(k) \in {0, Gap, 2 * Gap} /\ Base(m) \in {0, Gap, 2 * Gap}
  BY <1>1, <1>2 DEF Base
<1>4. (Level(m) - Level(k)) * Gap = Base(m) - Base(k)
  <2>1. CASE Level(m) = 0
    BY <1>1, <1>2, <2>1 DEF Base
  <2>2. CASE Level(m) = 1
    BY <1>1, <1>2, <2>2 DEF Base
  <2>3. CASE Level(m) = 2
    BY <1>1, <1>2, <2>3 DEF Base
  <2> QED BY <1>2, <2>1, <2>2, <2>3
<1> QED BY <1>1, <1>3, <1>4 DEF Lead

\* A sequence without the element at one of its positions.
LEMMA RemoveAtSeq ==
    ASSUME NEW q \in Seq(Msg), NEW k \in 1..Len(q)
    PROVE  /\ RemoveAt(q, k) \in Seq(Msg)
           /\ Len(RemoveAt(q, k)) = Len(q) - 1
           /\ \A i \in 1..(Len(q) - 1) :
                RemoveAt(q, k)[i] = q[IF i < k THEN i ELSE i + 1]
<1> DEFINE a == SubSeq(q, 1, k - 1)
           b == SubSeq(q, k + 1, Len(q))
<1>0. Len(q) \in Nat
  BY LenProperties
<1>1. a \in Seq(Msg) /\ Len(a) = k - 1 /\ \A i \in 1..(k - 1) : a[i] = q[i]
  BY <1>0, SubSeqProperties
<1>2. b \in Seq(Msg) /\ Len(b) = Len(q) - k /\ \A i \in 1..(Len(q) - k) : b[i] = q[i + k]
  BY <1>0, SubSeqProperties
<1>3. RemoveAt(q, k) = a \o b
  BY DEF RemoveAt
<1> HIDE DEF a, b
<1>4. /\ a \o b \in Seq(Msg) /\ Len(a \o b) = Len(a) + Len(b)
      /\ \A i \in 1..(Len(a) + Len(b)) :
            (a \o b)[i] = IF i <= Len(a) THEN a[i] ELSE b[i - Len(a)]
  BY <1>1, <1>2, ConcatProperties, Zenon
<1> DEFINE r == a \o b
<1>5. r \in Seq(Msg) /\ Len(r) = Len(q) - 1
  BY <1>0, <1>1, <1>2, <1>4
<1>6. ASSUME NEW i \in 1..(Len(q) - 1) PROVE r[i] = q[IF i < k THEN i ELSE i + 1]
  <2>1. r[i] = IF i < k THEN a[i] ELSE b[i - (k - 1)]
    <3>1. /\ i \in 1..(Len(a) + Len(b)) /\ i - Len(a) = i - (k - 1)
          /\ i <= Len(a) <=> i < k
      BY <1>0, <1>1, <1>2
    <3>2. r[i] = IF i <= Len(a) THEN a[i] ELSE b[i - Len(a)]
      BY <1>4, <3>1, Zenon
    <3> QED BY ONLY <3>1, <3>2, Zenon
  <2>2. CASE i < k
    BY <1>0, <1>1, <2>1, <2>2
  <2>3. CASE ~(i < k)
    <3>1. i - (k - 1) \in 1..(Len(q) - k) /\ i - (k - 1) + k = i + 1
      BY <1>0, <2>3
    <3>2. b[i - (k - 1)] = q[i + 1]
      BY <1>2, <3>1
    <3> QED BY <2>1, <2>3, <3>2
  <2> QED BY <2>2, <2>3
<1> HIDE DEF r
<1>7. RemoveAt(q, k) = r
  BY <1>3 DEF r
<1> QED BY <1>5, <1>6, <1>7

\* s is the sequence q with m put at position k.
HasAt(s, q, k, m) ==
    /\ s \in Seq(Msg) /\ Len(s) = Len(q) + 1
    /\ \A i \in 1..(Len(q) + 1) :
        s[i] = IF i < k THEN q[i] ELSE IF i = k THEN m ELSE q[i - 1]

\* InsertAt puts an element at a position.
LEMMA InsertAtSeq ==
    ASSUME NEW q \in Seq(Msg), NEW k \in 1..(Len(q) + 1), NEW m \in Msg
    PROVE  HasAt(InsertAt(q, k, m), q, k, m)
<1> DEFINE a == SubSeq(q, 1, k - 1)
           b == SubSeq(q, k, Len(q))
<1>0. Len(q) \in Nat
  BY LenProperties
<1>1. a \in Seq(Msg) /\ Len(a) = k - 1 /\ \A i \in 1..(k - 1) : a[i] = q[i]
  BY <1>0, SubSeqProperties
<1>2. /\ b \in Seq(Msg) /\ Len(b) = Len(q) - k + 1
      /\ \A i \in 1..(Len(q) - k + 1) : b[i] = q[i + k - 1]
  BY <1>0, SubSeqProperties
<1>3. InsertAt(q, k, m) = (a \o <<m>>) \o b
  BY DEF InsertAt
<1> HIDE DEF a, b
<1>4. /\ a \o <<m>> \in Seq(Msg) /\ Len(a \o <<m>>) = k
      /\ \A i \in 1..k : (a \o <<m>>)[i] = IF i < k THEN a[i] ELSE m
  BY <1>0, <1>1
<1> DEFINE c == a \o <<m>>
<1> HIDE DEF c
<1>5. /\ c \o b \in Seq(Msg) /\ Len(c \o b) = Len(q) + 1
      /\ \A i \in 1..(Len(q) + 1) : (c \o b)[i] = IF i <= k THEN c[i] ELSE b[i - k]
  <2>1. c \in Seq(Msg) /\ Len(c) = k
    BY <1>4 DEF c
  <2>2. /\ c \o b \in Seq(Msg) /\ Len(c \o b) = Len(c) + Len(b)
        /\ \A i \in 1..(Len(c) + Len(b)) :
            (c \o b)[i] = IF i <= Len(c) THEN c[i] ELSE b[i - Len(c)]
    BY <1>2, <2>1, ConcatProperties, Zenon
  <2>3. Len(c) + Len(b) = Len(q) + 1
    BY <1>0, <1>2, <2>1
  <2> QED BY <2>1, <2>2, <2>3, Zenon
<1>6. InsertAt(q, k, m) = c \o b
  BY <1>3 DEF c
<1>7. \A i \in 1..k : c[i] = IF i < k THEN q[i] ELSE m
  BY <1>1, <1>4 DEF c
<1>8. \A i \in 1..(Len(q) + 1) : i > k => b[i - k] = q[i - 1]
  BY <1>0, <1>2
<1> QED BY <1>0, <1>5, <1>6, <1>7, <1>8 DEF HasAt

\* A sequence without its first elements.
LEMMA DropSeq ==
    ASSUME NEW q \in Seq(Msg), NEW n \in 0..Len(q)
    PROVE  /\ SubSeq(q, n + 1, Len(q)) \in Seq(Msg)
           /\ Len(SubSeq(q, n + 1, Len(q))) = Len(q) - n
           /\ \A i \in 1..(Len(q) - n) : SubSeq(q, n + 1, Len(q))[i] = q[i + n]
BY LenProperties, SubSeqProperties

\* The queue without m: ZADD of a message that is there already.
LEMMA RemoveFirstQueue ==
    ASSUME OrderTypeOK, NEW m \in Msg, NEW r, r = RemoveFirst(queue, m)
    PROVE  /\ r \in Seq(Msg)
           /\ \A i \in DOMAIN r : r[i] # m
           /\ \A i, j \in DOMAIN r : i < j =>
                \E x, y \in DOMAIN queue : x < y /\ r[i] = queue[x] /\ r[j] = queue[y]
           /\ \A k \in Queued \ {m} : \E i \in DOMAIN r : r[i] = k
<1>0. /\ queue \in Seq(Msg) /\ Len(queue) \in Nat /\ DOMAIN queue = 1..Len(queue)
      /\ \A i, j \in 1..Len(queue) : queue[i] = queue[j] => i = j
  BY LenProperties DEF OrderTypeOK, IsInjective
<1>1. CASE ~\E i \in 1..Len(queue) : queue[i] = m
  <2>1. r = queue
    BY <1>1 DEF RemoveFirst
  <2> QED BY <1>0, <1>1, <2>1 DEF Queued, ToSet
<1>2. ASSUME NEW p \in 1..Len(queue), queue[p] = m
      PROVE  /\ r \in Seq(Msg)
             /\ \A i \in DOMAIN r : r[i] # m
             /\ \A i, j \in DOMAIN r : i < j =>
                  \E x, y \in DOMAIN queue : x < y /\ r[i] = queue[x] /\ r[j] = queue[y]
             /\ \A k \in Queued \ {m} : \E i \in DOMAIN r : r[i] = k
  <2>1. SelectInSeq(queue, LAMBDA v : v = m) = p
    <3> DEFINE I == {i \in 1..Len(queue) : queue[i] = m}
    <3>1. I = {p}
      BY <1>0, <1>2
    <3>2. SelectInSeq(queue, LAMBDA v : v = m) = IF I # {} THEN Min(I) ELSE 0
      BY DEF SelectInSeq
    <3>3. Min({p}) = p
      BY DEF Min
    <3> QED BY <3>1, <3>2, <3>3
  <2>2. r = RemoveAt(queue, p)
    BY <1>2, <2>1 DEF RemoveFirst
  <2>3. /\ r \in Seq(Msg) /\ Len(r) = Len(queue) - 1
        /\ \A i \in 1..(Len(queue) - 1) : r[i] = queue[IF i < p THEN i ELSE i + 1]
    <3>1. /\ RemoveAt(queue, p) \in Seq(Msg) /\ Len(RemoveAt(queue, p)) = Len(queue) - 1
          /\ \A i \in 1..(Len(queue) - 1) :
                RemoveAt(queue, p)[i] = queue[IF i < p THEN i ELSE i + 1]
      BY <1>0, RemoveAtSeq, Zenon
    <3> QED BY ONLY <2>2, <3>1, Zenon
  <2>4. DOMAIN r = 1..(Len(queue) - 1)
    BY <2>3, LenProperties
  <2>5. ASSUME NEW i \in DOMAIN r PROVE r[i] # m
    BY <1>0, <1>2, <2>3, <2>4
  <2>6. ASSUME NEW i \in DOMAIN r, NEW j \in DOMAIN r, i < j
        PROVE  \E x, y \in DOMAIN queue : x < y /\ r[i] = queue[x] /\ r[j] = queue[y]
    <3> DEFINE x == IF i < p THEN i ELSE i + 1
               y == IF j < p THEN j ELSE j + 1
    <3>1. x \in DOMAIN queue /\ y \in DOMAIN queue /\ x < y
      BY <1>0, <2>4, <2>6
    <3>2. r[i] = queue[x] /\ r[j] = queue[y]
      BY <2>3, <2>4
    <3> HIDE DEF x, y
    <3> QED BY <3>1, <3>2
  <2>7. ASSUME NEW k \in Queued \ {m} PROVE \E i \in DOMAIN r : r[i] = k
    <3>1. PICK x \in 1..Len(queue) : queue[x] = k
      BY <1>0 DEF Queued, ToSet
    <3>2. x # p
      BY <1>2, <3>1
    <3>3. CASE x < p
      <4>1. x \in DOMAIN r /\ r[x] = queue[x]
        BY <1>0, <2>3, <2>4, <3>3
      <4> QED BY <3>1, <4>1
    <3>4. CASE x > p
      <4>1. x - 1 \in DOMAIN r /\ r[x - 1] = queue[x]
        BY <1>0, <2>3, <2>4, <3>4
      <4> QED BY <3>1, <4>1
    <3> QED BY <1>0, <3>2, <3>3, <3>4
  <2> QED BY <2>3, <2>5, <2>6, <2>7
<1> QED BY <1>1, <1>2

\* ZADD puts a message where its score belongs.
LEMMA EnqueueOrder ==
    ASSUME OrderTypeOK, Sorted, NEW m \in Msg, Enqueue(m)
    PROVE  OrderTypeOK' /\ Sorted' /\ Queued \subseteq Queued'
<1> DEFINE r == RemoveFirst(queue, m)
<1>1. PICK p \in 1..(Len(r) + 1) :
        /\ \A j \in 1..(p - 1) : Lead(r[j], m) >= 0
        /\ \A j \in p..Len(r) : Lead(r[j], m) <= 0
        /\ queue' = InsertAt(r, p, m)
  BY DEF Enqueue
<1>2. /\ r \in Seq(Msg)
      /\ \A i \in DOMAIN r : r[i] # m
      /\ \A i, j \in DOMAIN r : i < j =>
            \E x, y \in DOMAIN queue : x < y /\ r[i] = queue[x] /\ r[j] = queue[y]
      /\ \A k \in Queued \ {m} : \E i \in DOMAIN r : r[i] = k
  BY RemoveFirstQueue
<1>3. /\ age' = [age EXCEPT ![m] = 0] /\ age' \in [Msg -> 0..MaxAge] /\ MaxAge \in Nat
      /\ age'[m] = 0 /\ \A k \in Msg \ {m} : age'[k] = age[k] /\ age[k] \in Nat
  BY ScoreQueueAssumption DEF Enqueue, OrderTypeOK, MaxAge, ScoreQueueAssumption
<1> HIDE DEF r
<1>4. Len(r) \in Nat /\ DOMAIN r = 1..Len(r) /\ \A i \in DOMAIN r : r[i] \in Msg
  BY <1>2, LenProperties, ElementOfSeq
<1>5. /\ queue' \in Seq(Msg) /\ Len(queue') = Len(r) + 1
      /\ \A i \in 1..(Len(r) + 1) :
            queue'[i] = IF i < p THEN r[i] ELSE IF i = p THEN m ELSE r[i - 1]
  <2>1. r \in Seq(Msg) /\ p \in 1..(Len(r) + 1) /\ m \in Msg /\ queue' = InsertAt(r, p, m)
    BY <1>1, <1>2
  <2>2. HasAt(queue', r, p, m)
    BY <2>1, InsertAtSeq
  <2> QED BY <2>2 DEF HasAt
<1>6. DOMAIN queue' = 1..(Len(r) + 1)
  BY <1>5, LenProperties
<1>7. \A i, j \in DOMAIN r : i < j => r[i] # r[j] /\ Before(r[i], r[j])
  BY <1>2 DEF OrderTypeOK, IsInjective, Sorted
<1>8. ASSUME NEW i \in DOMAIN queue', NEW j \in DOMAIN queue', i < j
      PROVE  queue'[i] # queue'[j] /\ Before(queue[i], queue[j])'
  <2>0. i \in Nat /\ j \in Nat /\ p \in Nat
    BY <1>4, <1>6
  <2>1. CASE j = p
    <3>1. i \in DOMAIN r /\ i \in 1..(p - 1) /\ queue'[i] = r[i] /\ queue'[j] = m
      BY <1>4, <1>5, <1>6, <1>8, <2>0, <2>1
    <3>2. Lead(r[i], m) >= 0
      BY <1>1, <3>1
    <3>3. Base(r[i]) <= Base(m) + age[r[i]] /\ Base(r[i]) \in Int
      BY <1>4, <3>1, <3>2, LeadBase
    <3>4. age'[r[i]] = age[r[i]] /\ age'[m] = 0 /\ r[i] # m
      BY <1>2, <1>3, <1>4, <3>1
    <3>5. Base(r[i]) + age'[m] <= Base(m) + age'[r[i]]
      BY <3>3, <3>4
    <3> QED BY <3>1, <3>4, <3>5 DEF Before, Base, Level, MaxAge
  <2>2. CASE i = p
    <3>1. j - 1 \in DOMAIN r /\ j - 1 \in p..Len(r) /\ queue'[j] = r[j - 1] /\ queue'[i] = m
      BY <1>4, <1>5, <1>6, <1>8, <2>0, <2>2
    <3>2. Lead(r[j - 1], m) <= 0
      BY <1>1, <3>1
    <3>3. Base(m) + age[r[j - 1]] <= Base(r[j - 1]) /\ Base(r[j - 1]) \in Int
      BY <1>4, <3>1, <3>2, LeadBase
    <3>4. age'[r[j - 1]] = age[r[j - 1]] /\ age'[m] = 0 /\ r[j - 1] # m
      BY <1>2, <1>3, <1>4, <3>1
    <3>5. Base(m) + age'[r[j - 1]] <= Base(r[j - 1]) + age'[m]
      BY <3>3, <3>4
    <3> QED BY <3>1, <3>4, <3>5 DEF Before, Base, Level, MaxAge
  <2>3. CASE i # p /\ j # p
    <3> DEFINE x == IF i < p THEN i ELSE i - 1
               y == IF j < p THEN j ELSE j - 1
    <3>1. x \in DOMAIN r /\ y \in DOMAIN r /\ x < y /\ queue'[i] = r[x] /\ queue'[j] = r[y]
      BY <1>4, <1>5, <1>6, <1>8, <2>0, <2>3
    <3> HIDE DEF x, y
    <3>2. r[x] # r[y] /\ Before(r[x], r[y])
      BY <1>7, <3>1
    <3>3. age'[r[x]] = age[r[x]] /\ age'[r[y]] = age[r[y]]
      BY <1>2, <1>3, <1>4, <3>1
    <3> QED BY <3>1, <3>2, <3>3 DEF Before, Base, Level, MaxAge
  <2> QED BY <2>1, <2>2, <2>3
<1>9. IsInjective(queue')
  <2> SUFFICES ASSUME NEW i \in DOMAIN queue', NEW j \in DOMAIN queue', queue'[i] = queue'[j]
               PROVE  i = j
    BY DEF IsInjective
  <2>1. i \in Int /\ j \in Int
    BY <1>6
  <2> QED BY <1>8, <2>1
<1>10. Queued \subseteq Queued'
  <2> SUFFICES ASSUME NEW k \in Queued PROVE \E j \in DOMAIN queue' : queue'[j] = k
    BY DEF Queued, ToSet
  <2>1. CASE k = m
    <3>1. p \in DOMAIN queue' /\ queue'[p] = m
      BY <1>4, <1>5, <1>6
    <3> QED BY <2>1, <3>1
  <2>2. CASE k # m
    <3>1. PICK i \in DOMAIN r : r[i] = k
      BY <1>2, <2>2
    <3>2. CASE i < p
      <4>1. i \in DOMAIN queue' /\ queue'[i] = r[i]
        BY <1>4, <1>5, <1>6, <3>2
      <4> QED BY <3>1, <4>1
    <3>3. CASE ~(i < p)
      <4>1. i + 1 \in DOMAIN queue' /\ queue'[i + 1] = r[i]
        BY <1>4, <1>5, <1>6, <3>3
      <4> QED BY <3>1, <4>1
    <3> QED BY <3>2, <3>3
  <2> QED BY <2>1, <2>2
<1> QED BY <1>3, <1>5, <1>8, <1>9, <1>10 DEF OrderTypeOK, Sorted

\* ZPOPMIN takes the messages with the lowest scores.
LEMMA ZPopMinOrder ==
    ASSUME OrderTypeOK, Sorted, NEW n \in 0..Len(queue), ZPopMin(n)
    PROVE  /\ OrderTypeOK' /\ Sorted'
           /\ \A k \in Queued \ Queued', m \in Queued \intersect Queued' : Before(k, m)
<1>0. /\ queue \in Seq(Msg) /\ Len(queue) \in Nat /\ DOMAIN queue = 1..Len(queue)
      /\ \A i, j \in 1..Len(queue) : queue[i] = queue[j] => i = j
      /\ \A i \in 1..Len(queue) : queue[i] \in Msg
      /\ age \in [Msg -> 0..MaxAge] /\ 0 \in 0..MaxAge
  BY LenProperties, ElementOfSeq, ScoreQueueAssumption
     DEF OrderTypeOK, IsInjective, MaxAge, ScoreQueueAssumption
<1>1. /\ queue' \in Seq(Msg) /\ Len(queue') = Len(queue) - n
      /\ \A i \in 1..(Len(queue) - n) : queue'[i] = queue[i + n]
  <2>1. queue' = SubSeq(queue, n + 1, Len(queue))
    BY DEF ZPopMin
  <2>2. /\ SubSeq(queue, n + 1, Len(queue)) \in Seq(Msg)
        /\ Len(SubSeq(queue, n + 1, Len(queue))) = Len(queue) - n
        /\ \A i \in 1..(Len(queue) - n) : SubSeq(queue, n + 1, Len(queue))[i] = queue[i + n]
    BY <1>0, DropSeq, Zenon
  <2> QED BY ONLY <2>1, <2>2, Zenon
<1>2. DOMAIN queue' = 1..(Len(queue) - n)
  BY <1>1, LenProperties
<1>3. /\ age' \in [Msg -> 0..MaxAge]
      /\ \A i \in DOMAIN queue' : age'[queue'[i]] = age[queue'[i]] /\ queue'[i] \in Msg
  <2>1. age' = [m \in Msg |-> IF m \in ToSet(queue') THEN age[m] ELSE 0]
    BY DEF ZPopMin
  <2>2. \A i \in DOMAIN queue' : queue'[i] \in Msg
    BY <1>1, <1>2, ElementOfSeq
  <2> QED BY <1>0, <2>1, <2>2 DEF ToSet
<1>4. ASSUME NEW i \in DOMAIN queue'
      PROVE  i \in Nat /\ n \in Nat /\ i + n \in 1..Len(queue) /\ queue'[i] = queue[i + n]
  <2>1. i \in 1..(Len(queue) - n) /\ n \in Nat
    BY <1>0, <1>2
  <2>2. queue'[i] = queue[i + n]
    BY <1>1, <2>1, Zenon
  <2> QED BY <1>0, <2>1, <2>2
<1>5. OrderTypeOK'
  <2>1. ASSUME NEW i \in DOMAIN queue', NEW j \in DOMAIN queue', queue'[i] = queue'[j]
        PROVE  i = j
    <3>1. i + n = j + n
      BY <1>0, <1>4, <2>1, Zenon
    <3> QED BY <1>4, <3>1
  <2> QED BY <1>1, <1>3, <2>1 DEF OrderTypeOK, IsInjective
<1>6. Sorted'
  <2> SUFFICES ASSUME NEW i \in DOMAIN queue', NEW j \in DOMAIN queue', i < j
               PROVE  Before(queue[i], queue[j])'
    BY DEF Sorted
  <2>1. /\ i + n \in DOMAIN queue /\ j + n \in DOMAIN queue /\ i + n < j + n
        /\ queue'[i] = queue[i + n] /\ queue'[j] = queue[j + n]
    BY <1>0, <1>4
  <2>2. Before(queue'[i], queue'[j])
    BY <2>1 DEF Sorted
  <2> QED BY <1>3, <2>2 DEF Before, Base, Level, MaxAge
<1>7. ASSUME NEW k \in Queued \ Queued', NEW m \in Queued \intersect Queued'
      PROVE  Before(k, m)
  <2>1. PICK i \in 1..Len(queue) : queue[i] = k
    BY <1>0 DEF Queued, ToSet
  <2>2. PICK j \in 1..(Len(queue) - n) : queue'[j] = m
    BY <1>2 DEF Queued, ToSet
  <2>3. i <= n
    <3> SUFFICES ASSUME i > n PROVE FALSE
      BY <1>0
    <3>1. i - n \in DOMAIN queue' /\ queue'[i - n] = k
      BY <1>0, <1>1, <1>2, <2>1
    <3> QED BY <3>1 DEF Queued, ToSet
  <2>4. j + n \in DOMAIN queue /\ i < j + n /\ queue[j + n] = m
    <3>1. j + n \in 1..Len(queue) /\ queue'[j] = queue[j + n] /\ j \in Nat /\ n \in Nat
      BY <1>2, <1>4, <2>2, Zenon
    <3>2. queue[j + n] = m
      BY <2>2, <3>1
    <3>3. i < j + n
      BY <1>0, <2>2, <2>3, <3>1
    <3> QED BY <1>0, <3>1, <3>2, <3>3
  <2> QED BY <1>0, <2>1, <2>4 DEF Sorted
<1> QED BY <1>5, <1>6, <1>7

\* Time: everybody on the queue grows older, as long as it can be counted.
LEMMA TickOrder ==
    ASSUME OrderTypeOK, Sorted, Tick
    PROVE  OrderTypeOK' /\ Sorted' /\ Queued' = Queued
<1>0. /\ queue' = queue /\ MaxAge \in Nat /\ age \in [Msg -> 0..MaxAge]
      /\ \A i \in DOMAIN queue : queue[i] \in Msg
  BY ElementOfSeq, LenProperties, ScoreQueueAssumption
     DEF OrderTypeOK, Tick, MaxAge, ScoreQueueAssumption
<1>1. /\ age' \in [Msg -> 0..MaxAge]
      /\ \A i \in DOMAIN queue :
            age'[queue[i]] = IF age[queue[i]] < MaxAge THEN age[queue[i]] + 1 ELSE age[queue[i]]
  BY <1>0 DEF Tick, Queued, ToSet
<1>2. Sorted'
  <2> SUFFICES ASSUME NEW i \in DOMAIN queue, NEW j \in DOMAIN queue, i < j
               PROVE  Before(queue[i], queue[j])'
    BY <1>0 DEF Sorted
  <2> DEFINE k == queue[i]
             m == queue[j]
  <2>1. Before(k, m) /\ k \in Msg /\ m \in Msg
    BY <1>0 DEF Sorted
  <2>2. Base(k) \in Int /\ Base(m) \in Int /\ age[k] \in Int /\ age[m] \in Int
    BY <2>1, LeadBase
  <2>3. /\ age'[k] = IF age[k] < MaxAge THEN age[k] + 1 ELSE age[k]
        /\ age'[m] = IF age[m] < MaxAge THEN age[m] + 1 ELSE age[m]
        /\ queue'[i] = k /\ queue'[j] = m
    BY <1>0, <1>1
  <2> HIDE DEF k, m
  <2>4. age'[k] < MaxAge /\ age'[m] < MaxAge => Base(k) + age'[m] <= Base(m) + age'[k]
    BY <1>0, <2>1, <2>2, <2>3 DEF Before
  <2> QED BY <2>3, <2>4 DEF Before, Base, Level, MaxAge
<1> QED BY <1>0, <1>1, <1>2 DEF OrderTypeOK, Queued

-----------------------------------------------------------------------------
(***************************************************************************)
(* The steps of the process.                                               *)
(***************************************************************************)
\* The types of the loop's own variables.
LoopTypeOK ==
    /\ pc \in {"select", "allow", "dequeue", "submit", "returned"}
    /\ allowed \in 0..BatchSize
    /\ held \in 0..BatchSize
    /\ pc = "submit" <=> held > 0
    /\ ended \in {"no", "exit", "panic"}

\* The channel has a capacity.
LEMMA CapacityNat == Capacity \in Nat
BY PoolAssumption, FS_CardinalityType DEF PoolAssumption, Capacity

\* DInv by the variables its parts are about.
LEMMA DInvParts == DInv <=> OrderTypeOK /\ Sorted /\ PoolTypeOK /\ LoopTypeOK
BY DEF DInv, TypeOK, LoopTypeOK

\* A step that leaves the queue alone.
LEMMA OrderUnchanged ==
    ASSUME OrderTypeOK, Sorted, UNCHANGED orderVars PROVE OrderTypeOK' /\ Sorted'
BY DEF OrderTypeOK, Sorted, Before, Base, Level, orderVars, MaxAge

\* A step that leaves the pool alone.
LEMMA PoolUnchanged ==
    ASSUME PoolTypeOK, UNCHANGED poolVars PROVE PoolTypeOK'
BY DEF PoolTypeOK, poolVars, Capacity

\* What happens to the queue outside the loop: producers, other workers, time.
LEMMA OutsideDInv ==
    ASSUME DInv, (\E m \in Msg : Arrive(m)) \/ TakenElsewhere \/ Time PROVE DInv'
<1>0. OrderTypeOK /\ Sorted /\ PoolTypeOK /\ LoopTypeOK
  BY DInvParts
<1>1. UNCHANGED <<poolVars, loopVars>>
  BY DEF Arrive, TakenElsewhere, Time
<1>2. PoolTypeOK' /\ LoopTypeOK'
  BY <1>0, <1>1, PoolUnchanged DEF LoopTypeOK, loopVars
<1>3. ASSUME NEW m \in Msg, Arrive(m) PROVE OrderTypeOK' /\ Sorted'
  BY <1>0, <1>3, EnqueueOrder DEF Arrive
<1>4. ASSUME TakenElsewhere PROVE OrderTypeOK' /\ Sorted'
  <2>1. 1 \in 0..Len(queue)
    <3>1. queue \in Seq(Msg) /\ queue # <<>>
      BY <1>0, <1>4 DEF OrderTypeOK, TakenElsewhere
    <3> QED BY <3>1, EmptySeq, LenProperties
  <2> QED BY <1>0, <1>4, <2>1, ZPopMinOrder DEF TakenElsewhere
<1>5. ASSUME Time PROVE OrderTypeOK' /\ Sorted'
  BY <1>0, <1>5, TickOrder DEF Time
<1>6. OrderTypeOK' /\ Sorted'
  BY <1>3, <1>4, <1>5
<1>7. (OrderTypeOK /\ Sorted /\ PoolTypeOK /\ LoopTypeOK)'
  BY <1>2, <1>6
<1> QED BY <1>7 DEF DInv, TypeOK, LoopTypeOK

\* The loop between its calls.
LEMMA LoopDInv ==
    ASSUME DInv, TickerFires \/ LoopReturns \/ AllowN \/ NothingAllowed PROVE DInv'
<1>0. OrderTypeOK /\ Sorted /\ PoolTypeOK /\ LoopTypeOK
  BY DInvParts
<1>1. /\ UNCHANGED <<orderVars, poolVars, held, ended>> /\ pc \in {"select", "allow"}
      /\ pc' \in {"allow", "returned", "dequeue", "select"}
  BY DEF TickerFires, LoopReturns, AllowN, NothingAllowed, Goto
<1>2. allowed' \in 0..BatchSize
  BY <1>0, DispatcherAssumption
     DEF TickerFires, LoopReturns, AllowN, NothingAllowed, LoopTypeOK, DispatcherAssumption
<1>3. OrderTypeOK' /\ Sorted' /\ PoolTypeOK'
  BY <1>0, <1>1, OrderUnchanged, PoolUnchanged
<1>4. LoopTypeOK'
  BY <1>0, <1>1, <1>2 DEF LoopTypeOK
<1> QED BY <1>3, <1>4 DEF DInv, TypeOK, LoopTypeOK

\* A batch of messages, if there is one, is taken off the front of the queue.
LEMMA DequeueDInv ==
    ASSUME DInv, DequeueBatch \/ DequeueFails PROVE DInv'
<1>0. OrderTypeOK /\ Sorted /\ PoolTypeOK /\ LoopTypeOK
  BY DInvParts
<1>1. queue \in Seq(Msg) /\ Len(queue) \in Nat /\ allowed \in Nat /\ BatchSize \in Nat
  BY <1>0, LenProperties, DispatcherAssumption
     DEF OrderTypeOK, LoopTypeOK, DispatcherAssumption
<1>2. UNCHANGED poolVars /\ allowed' = 0 /\ ended' = ended
  BY DEF DequeueBatch, DequeueFails, Goto
<1>3. PoolTypeOK'
  BY <1>0, <1>2, PoolUnchanged
<1>4. ASSUME DequeueBatch PROVE DInv'
  <2> DEFINE n == IF allowed <= Len(queue) THEN allowed ELSE Len(queue)
  <2>1. n \in 0..Len(queue) /\ n \in 0..BatchSize /\ ZPopMin(n) /\ held' = n
        /\ pc' = IF n = 0 THEN "select" ELSE "submit"
    BY <1>0, <1>1, <1>4 DEF DequeueBatch, Goto, LoopTypeOK
  <2> HIDE DEF n
  <2>2. OrderTypeOK' /\ Sorted'
    BY <1>0, <2>1, ZPopMinOrder
  <2>3. LoopTypeOK'
    BY <1>0, <1>1, <1>2, <2>1 DEF LoopTypeOK
  <2> QED BY <1>3, <2>2, <2>3 DEF DInv, TypeOK, LoopTypeOK
<1>5. ASSUME DequeueFails PROVE DInv'
  <2>1. PICK n \in 0..allowed : n <= Len(queue) /\ ZPopMin(n)
    BY <1>5 DEF DequeueFails
  <2>2. n \in 0..Len(queue)
    BY <1>1, <2>1
  <2>3. OrderTypeOK' /\ Sorted'
    BY <1>0, <2>1, <2>2, ZPopMinOrder
  <2>4. LoopTypeOK'
    BY <1>0, <1>1, <1>2, <1>5 DEF DequeueFails, Goto, LoopTypeOK
  <2> QED BY <1>3, <2>3, <2>4 DEF DInv, TypeOK, LoopTypeOK
<1> QED BY <1>4, <1>5

\* Submit: the channel has room.
LEMMA SubmitDInv == ASSUME DInv, SubmitBatch PROVE DInv'
<1>0. OrderTypeOK /\ Sorted /\ PoolTypeOK /\ LoopTypeOK
  BY DInvParts
<1>1. PoolTypeOK'
  <2>1. tasks' \in 0..Capacity
    BY <1>0, CapacityNat DEF PoolTypeOK, SubmitBatch, Submit
  <2> QED BY <1>0, <2>1 DEF PoolTypeOK, SubmitBatch, Submit, Capacity
<1>2. OrderTypeOK' /\ Sorted'
  BY <1>0, OrderUnchanged DEF SubmitBatch
<1>3. LoopTypeOK'
  BY <1>0, DispatcherAssumption DEF SubmitBatch, Goto, LoopTypeOK, DispatcherAssumption
<1> QED BY <1>1, <1>2, <1>3 DEF DInv, TypeOK, LoopTypeOK

\* The pool's goroutines.
LEMMA PoolStepDInv == ASSUME DInv, NEW g \in Goroutine, PoolStep(g) PROVE DInv'
<1>0. OrderTypeOK /\ Sorted /\ PoolTypeOK /\ LoopTypeOK
  BY DInvParts
<1>1. OrderTypeOK' /\ Sorted' /\ LoopTypeOK'
  BY <1>0, OrderUnchanged DEF PoolStep, LoopTypeOK, loopVars
<1>2. UNCHANGED <<closed, ctxDone>>
  BY DEF PoolStep, Take, Finish, Return
<1>3. tasks' \in 0..Capacity
  BY <1>0, CapacityNat DEF PoolTypeOK, PoolStep, Take, Finish, Return
<1>4. running' \subseteq live' /\ live' \subseteq Goroutine
  BY <1>0 DEF PoolTypeOK, PoolStep, Take, Finish, Return, Idle
<1>5. PoolTypeOK'
  BY <1>0, <1>2, <1>3, <1>4 DEF PoolTypeOK, Capacity
<1> QED BY <1>1, <1>5 DEF DInv, TypeOK, LoopTypeOK

\* The signal, Stop, and the two ways in which the process ends.
LEMMA ShutdownDInv == ASSUME DInv, Signal \/ Stop \/ Exit \/ SubmitPanics PROVE DInv'
<1>0. OrderTypeOK /\ Sorted /\ PoolTypeOK /\ LoopTypeOK
  BY DInvParts
<1>1. OrderTypeOK' /\ Sorted'
  BY <1>0, OrderUnchanged DEF Signal, Stop, Exit, SubmitPanics, End
<1>2. CASE Signal \/ Stop
  <2>1. ctxDone' \in BOOLEAN /\ closed' \in BOOLEAN
    BY <1>0, <1>2, Zenon DEF Signal, Stop, Close, PoolTypeOK
  <2>2. UNCHANGED <<tasks, running, live, loopVars>>
    BY <1>2 DEF Signal, Stop, Close
  <2>3. PoolTypeOK'
    BY <1>0, <2>1, <2>2 DEF PoolTypeOK, Capacity
  <2>4. LoopTypeOK'
    BY <1>0, <2>2 DEF LoopTypeOK, loopVars
  <2> QED BY <1>1, <2>3, <2>4 DEF DInv, TypeOK, LoopTypeOK
<1>3. CASE Exit \/ SubmitPanics
  <2>1. /\ tasks' = 0 /\ running' = {} /\ live' = {}
        /\ UNCHANGED <<closed, ctxDone>> /\ pc' = "returned" /\ allowed' = 0 /\ held' = 0
        /\ ended' \in {"exit", "panic"}
    BY <1>3 DEF Exit, SubmitPanics, End, PoolGone
  <2>2. Capacity \in Nat /\ BatchSize \in Nat
    BY PoolAssumption, FS_CardinalityType, DispatcherAssumption
       DEF PoolAssumption, Capacity, DispatcherAssumption
  <2>3. PoolTypeOK'
    BY <1>0, <2>1, <2>2 DEF PoolTypeOK, Capacity
  <2>4. LoopTypeOK'
    BY <2>1, <2>2 DEF LoopTypeOK
  <2> QED BY <1>1, <2>3, <2>4 DEF DInv, TypeOK, LoopTypeOK
<1> QED BY <1>2, <1>3

-----------------------------------------------------------------------------
(***************************************************************************)
(* The theorems.                                                           *)
(***************************************************************************)
\* The invariant holds at the start ...
LEMMA InitDInv == Init => DInv
<1> SUFFICES ASSUME Init PROVE DInv
  OBVIOUS
<1>1. Capacity \in Nat /\ BatchSize \in Nat /\ MaxAge \in Nat
  BY PoolAssumption, FS_CardinalityType, DispatcherAssumption, ScoreQueueAssumption
     DEF PoolAssumption, Capacity, DispatcherAssumption, ScoreQueueAssumption, MaxAge
<1>2. OrderTypeOK /\ Sorted
  BY <1>1 DEF Init, OrderInit, OrderTypeOK, Sorted, IsInjective
<1>3. PoolTypeOK /\ LoopTypeOK
  <2>1. closed \in BOOLEAN /\ ctxDone \in BOOLEAN
    BY Zenon DEF Init, PoolInit
  <2> QED BY <1>1, <2>1 DEF Init, PoolInit, PoolTypeOK, LoopTypeOK
<1> QED BY <1>2, <1>3, DInvParts

\* ... and every step keeps it.
LEMMA NextDInv == DInv /\ [Next]_vars => DInv'
<1> SUFFICES ASSUME DInv, [Next]_vars PROVE DInv'
  OBVIOUS
<1>1. CASE UNCHANGED vars
  <2>0. OrderTypeOK /\ Sorted /\ PoolTypeOK /\ LoopTypeOK
    BY DInvParts
  <2>1. OrderTypeOK' /\ Sorted' /\ PoolTypeOK'
    BY <1>1, <2>0, OrderUnchanged, PoolUnchanged DEF vars
  <2>2. LoopTypeOK'
    BY <1>1, <2>0 DEF vars, loopVars, LoopTypeOK
  <2> QED BY <2>1, <2>2 DEF DInv, TypeOK, LoopTypeOK
<1> QED
  BY <1>1, OutsideDInv, LoopDInv, DequeueDInv, SubmitDInv, PoolStepDInv, ShutdownDInv DEF Next

\* The inductive invariant is one.
THEOREM DispatcherInvariant == Spec => []DInv
BY InitDInv, NextDInv, PTL DEF Spec

\* The types: no message is on the queue twice, the channel of the pool never
\* holds more than its capacity, only goroutines that have not returned are in
\* a task, and the loop has a batch exactly when it is about to submit one
\* (Enqueue, Submit, dispatch).
THEOREM DispatcherTypeOK == Spec => []TypeOK
<1>1. DInv => TypeOK
  BY DEF DInv
<1> QED BY <1>1, DispatcherInvariant, PTL

\* A message leaves the queue ahead of one that was there before it only if
\* it is more urgent, and not by more than Gap per level of priority
\* (calculateScore, ZPOPMIN).
THEOREM DispatcherOvertakes == Spec => OvertakesByPriority
<1> DEFINE Step == \A k \in Queued \ Queued', m \in Queued \intersect Queued' :
                    age[k] < MaxAge /\ age[m] < MaxAge =>
                        Level(k) * Gap + age[m] <= Level(m) * Gap + age[k]
<1>1. DInv /\ [Next]_vars => [Step]_vars
  <2> SUFFICES ASSUME DInv, Next, NEW k \in Queued \ Queued', NEW m \in Queued \intersect Queued'
               PROVE  Before(k, m)
    BY DEF Before, Base
  <2>0. OrderTypeOK /\ Sorted /\ LoopTypeOK
    BY DInvParts
  <2>1. queue' # queue
    BY DEF Queued
  <2>2. ASSUME NEW x \in Msg, Arrive(x) PROVE FALSE
    BY <2>0, <2>2, EnqueueOrder DEF Arrive
  <2>3. ASSUME NEW n \in 0..Len(queue), ZPopMin(n) PROVE Before(k, m)
    BY <2>0, <2>3, ZPopMinOrder
  <2>4. queue \in Seq(Msg) /\ Len(queue) \in Nat /\ allowed \in Nat
    BY <2>0, LenProperties, DispatcherAssumption
       DEF OrderTypeOK, LoopTypeOK, DispatcherAssumption
  <2>5. CASE TakenElsewhere
    <3>1. 1 \in 0..Len(queue)
      BY <2>4, <2>5, EmptySeq DEF TakenElsewhere
    <3> QED BY <2>3, <2>5, <3>1 DEF TakenElsewhere
  <2>6. CASE DequeueBatch
    <3> DEFINE n == IF allowed <= Len(queue) THEN allowed ELSE Len(queue)
    <3>1. n \in 0..Len(queue) /\ ZPopMin(n)
      BY <2>4, <2>6 DEF DequeueBatch
    <3> HIDE DEF n
    <3> QED BY <2>3, <3>1
  <2>7. CASE DequeueFails
    <3>1. PICK n \in 0..allowed : n <= Len(queue) /\ ZPopMin(n)
      BY <2>7 DEF DequeueFails
    <3>2. n \in 0..Len(queue)
      BY <2>4, <3>1
    <3> QED BY <2>3, <3>1, <3>2
  <2>8. (\E x \in Msg : Arrive(x)) \/ TakenElsewhere \/ DequeueBatch \/ DequeueFails
    BY <2>1 DEF Next, Time, Tick, TickerFires, LoopReturns, AllowN, NothingAllowed, SubmitBatch,
       SubmitPanics, Signal, Stop, Exit, End, PoolStep, orderVars
  <2> QED BY <2>2, <2>5, <2>6, <2>7, <2>8
<1> QED BY <1>1, DispatcherInvariant, PTL DEF Spec, OvertakesByPriority

\* The process ends with a batch cut off only if the loop was still holding
\* another one when Stop closed the channel (RunWorker, Pool.Stop).
THEOREM DispatcherCleanExit == Spec => CleanExit
<1> DEFINE Step == ended = "no" /\ ended' # "no" =>
                    running = {} \/ pc = "submit"
<1>1. DInv /\ [Next]_vars => [Step]_vars
  <2> SUFFICES ASSUME DInv, Next, ended = "no", ended' # "no", pc # "submit"
               PROVE  running = {}
    OBVIOUS
  <2>1. Exit
    BY DEF Next, Arrive, TakenElsewhere, Time, TickerFires, LoopReturns, AllowN, NothingAllowed,
       DequeueBatch, DequeueFails, SubmitBatch, SubmitPanics, Goto, Signal, Stop, PoolStep, loopVars
  <2> QED BY <2>1 DEF Exit, DInv, TypeOK, PoolTypeOK
<1> QED BY <1>1, DispatcherInvariant, PTL DEF Spec, CleanExit
=============================================================================
