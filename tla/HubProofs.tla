------------------------------ MODULE HubProofs ------------------------------
(***************************************************************************)
(* The safety properties of Hub, for any number of clients, channels,      *)
(* broadcasting goroutines and events, and any size of the buffers.        *)
(***************************************************************************)
EXTENDS Hub, SequenceTheorems, TLAPS

\* A WritePump has a message in hand only while it writes, and there is none
\* before there is a connection.
HandInv ==
    \A c \in Client :
        /\ writer[c] = "write" <=> hand[c] # 0
        /\ conn[c] = "none" => writer[c] = "none"

\* The read lock keeps clients in the hub until a broadcast has reached them.
LockInv == \A s \in Sender : cast[s].left \subseteq clients

\* Broadcasts under way are about events of their own, which no broadcast can
\* have found ended.
CastInv ==
    \A s \in Sender :
        /\ cast[s] # Idle => cast[s].event \in 1..events
        /\ \A e \in Event : cast[s].event \notin prior[e]
        /\ \A t \in Sender : cast[s] # Idle /\ cast[t].event = cast[s].event => s = t

PriorInv == \A e \in Event : prior[e] \subseteq 1..events

\* A stream holds events that were broadcast, and none that is still on its
\* way to the client.
StreamInv ==
    \A c \in Client :
        /\ \A i \in DOMAIN Stream(c) : Stream(c)[i] \in 1..events
        /\ \A s \in Sender : c \in cast[s].left =>
            \A i \in DOMAIN Stream(c) : Stream(c)[i] # cast[s].event

\* The inductive invariant.
HInv == TypeOK /\ HandInv /\ LockInv /\ CastInv /\ PriorInv /\ StreamInv /\ InOrder

-----------------------------------------------------------------------------
(***************************************************************************)
(* Streams as sequences.                                                   *)
(***************************************************************************)
\* What a WritePump has in hand, as a sequence.
Held(c) == IF hand[c] = 0 THEN <<>> ELSE <<hand[c]>>

\* InOrder, for one sequence of events.
Ordered(q) ==
    /\ \A i, j \in DOMAIN q : q[i] = q[j] => i = j
    /\ \A i, j \in DOMAIN q : i < j => q[j] \notin prior[q[i]]

\* InOrder says that every stream is ordered.
LEMMA InOrderDef == InOrder <=> \A c \in Client : Ordered(Stream(c))
BY DEF InOrder, Ordered, IsInjective

\* A stream is a sequence of events.
LEMMA StreamType ==
    ASSUME TypeOK, NEW c \in Client
    PROVE  /\ written[c] \in Seq(Event) /\ Held(c) \in Seq(Event) /\ send[c] \in Seq(Event)
           /\ Stream(c) = (written[c] \o Held(c)) \o send[c]
           /\ Stream(c) \in Seq(Event)
<1>1. written[c] \in Seq(Event) /\ send[c] \in Seq(Event) /\ hand[c] \in 0..MaxEvents
  BY DEF TypeOK
<1>2. Held(c) \in Seq(Event)
  <2>1. CASE hand[c] = 0
    BY <2>1 DEF Held
  <2>2. CASE hand[c] # 0
    <3>1. hand[c] \in Event
      BY <1>1, <2>2, HubAssumption DEF Event, HubAssumption
    <3> QED BY <2>2, <3>1 DEF Held
  <2> QED BY <2>1, <2>2
<1>3. Stream(c) = (written[c] \o Held(c)) \o send[c]
  BY DEF Stream, Held
<1> QED
  BY <1>1, <1>2, <1>3, ConcatProperties

\* The head of the buffer goes to the hand ...
LEMMA TakeSeq ==
    ASSUME NEW w \in Seq(Event), NEW q \in Seq(Event), q # <<>>
    PROVE  (w \o <<Head(q)>>) \o Tail(q) = (w \o <<>>) \o q
<1>1. Head(q) \in Event /\ Tail(q) \in Seq(Event)
  BY HeadTailProperties
<1>2. (w \o <<Head(q)>>) \o Tail(q) = w \o (<<Head(q)>> \o Tail(q))
  BY <1>1
<1>3. <<Head(q)>> \o Tail(q) = q
  BY <1>1
<1> QED BY <1>2, <1>3

\* ... and from there to the end of what was written.
LEMMA DoneSeq ==
    ASSUME NEW w \in Seq(Event), NEW q \in Seq(Event), NEW h \in Event
    PROVE  (Append(w, h) \o <<>>) \o q = (w \o <<h>>) \o q
OBVIOUS

\* If it is lost instead, one position is taken out of the stream.
LEMMA DropSeq ==
    ASSUME NEW w \in Seq(Event), NEW q \in Seq(Event), NEW h \in Event
    PROVE  LET r == (w \o <<>>) \o q
               s == (w \o <<h>>) \o q
           IN  /\ Len(w) + 1 \in 1..Len(s)
               /\ Len(r) = Len(s) - 1
               /\ \A i \in 1..Len(r) : r[i] = s[IF i < Len(w) + 1 THEN i ELSE i + 1]
OBVIOUS

\* An event put into the buffer is put at the end of the stream.
LEMMA PutSeq ==
    ASSUME NEW w \in Seq(Event), NEW h \in Seq(Event), NEW q \in Seq(Event), NEW e \in Event
    PROVE  (w \o h) \o Append(q, e) = Append((w \o h) \o q, e)
OBVIOUS

\* The positions of a sequence to which an event was added.
LEMMA AppendDomain ==
    ASSUME NEW q \in Seq(Event), NEW e \in Event
    PROVE  /\ DOMAIN q = 1..Len(q) /\ Len(q) \in Nat
           /\ DOMAIN Append(q, e) = 1..(Len(q) + 1)
           /\ \A i \in DOMAIN q : Append(q, e)[i] = q[i]
           /\ Append(q, e)[Len(q) + 1] = e
BY AppendProperties, LenProperties

\* An ordered sequence stays ordered when an event is added to its end that
\* is new to it and under way.
LEMMA OrderedAppend ==
    ASSUME NEW q \in Seq(Event), Ordered(q), NEW e \in Event,
           \A i \in DOMAIN q : q[i] # e,
           \A x \in Event : e \notin prior[x]
    PROVE  Ordered(Append(q, e))
<1> DEFINE r == Append(q, e)
<1>1. /\ DOMAIN q = 1..Len(q) /\ Len(q) \in Nat
      /\ DOMAIN r = 1..(Len(q) + 1)
      /\ \A i \in 1..Len(q) : r[i] = q[i] /\ q[i] \in Event
      /\ r[Len(q) + 1] = e
  BY AppendProperties, LenProperties, ElementOfSeq
<1> HIDE DEF r
<1>2. ASSUME NEW i \in DOMAIN r, NEW j \in DOMAIN r, r[i] = r[j] PROVE i = j
  BY <1>1, <1>2 DEF Ordered
<1>3. ASSUME NEW i \in DOMAIN r, NEW j \in DOMAIN r, i < j PROVE r[j] \notin prior[r[i]]
  BY <1>1, <1>3 DEF Ordered
<1> QED BY <1>2, <1>3 DEF Ordered, r

\* It stays ordered when an event is taken out.
LEMMA OrderedRemove ==
    ASSUME NEW q \in Seq(Event), NEW r \in Seq(Event), NEW k \in 1..Len(q), Ordered(q),
           Len(r) = Len(q) - 1,
           \A i \in 1..Len(r) : r[i] = q[IF i < k THEN i ELSE i + 1]
    PROVE  Ordered(r)
<1> DEFINE at(i) == IF i < k THEN i ELSE i + 1
<1>1. DOMAIN q = 1..Len(q) /\ DOMAIN r = 1..Len(r) /\ Len(q) \in Nat /\ Len(r) \in Nat
  BY LenProperties
<1>2. \A i \in DOMAIN r : r[i] = q[at(i)] /\ at(i) \in DOMAIN q
  BY <1>1
<1>3. \A i, j \in DOMAIN r : (at(i) = at(j) => i = j) /\ (i < j => at(i) < at(j))
  BY <1>1
<1> HIDE DEF at
<1> QED BY <1>2, <1>3 DEF Ordered

-----------------------------------------------------------------------------
(***************************************************************************)
(* Steps of clients that leave the streams and the broadcasts alone.       *)
(***************************************************************************)
\* Such a step only has to keep types, hands and the lock.
LEMMA QuietHInv ==
    ASSUME HInv, TypeOK', HandInv', LockInv', UNCHANGED <<hand, send, written, castVars>>
    PROVE  HInv'
<1> USE DEF HInv, castVars
<1>1. \A c \in Client : Stream(c)' = Stream(c)
  BY DEF Stream
<1>2. CastInv' /\ PriorInv'
  BY DEF CastInv, PriorInv
<1>3. StreamInv'
  BY <1>1 DEF StreamInv
<1>4. InOrder'
  BY <1>1 DEF InOrder
<1> QED BY <1>2, <1>3, <1>4

\* Upgrade: only between broadcasts.
LEMMA RegisterHInv == ASSUME HInv, NEW c \in Client, Register(c) PROVE HInv'
<1> USE DEF HInv, Register, castVars
<1>1. TypeOK'
  BY DEF TypeOK
<1>2. HandInv'
  BY DEF HandInv, TypeOK
<1>3. LockInv'
  BY DEF LockInv
<1> QED BY <1>1, <1>2, <1>3, QuietHInv

\* ReadPump's deferred end: only between broadcasts, so none loses a client.
LEMMA UnregisterHInv == ASSUME HInv, NEW c \in Client, Unregister(c) PROVE HInv'
<1> USE DEF HInv, Unregister, castVars
<1>1. TypeOK'
  BY DEF TypeOK
<1>2. HandInv'
  BY DEF HandInv, TypeOK
<1>3. LockInv'
  BY DEF LockInv, NoReaders, Idle
<1> QED BY <1>1, <1>2, <1>3, QuietHInv

\* The other steps of the handler, the peer and ReadPump.
LEMMA ReaderHInv ==
    ASSUME HInv, NEW c \in Client,
           \/ HandlerReturns(c) \/ PeerLeaves(c) \/ Read(c) \/ ReadFails(c)
           \/ \E channels \in SUBSET Channel : Subscribe(c, channels)
    PROVE  HInv'
<1> USE DEF HInv, HandlerReturns, PeerLeaves, Read, ReadFails, Subscribe, castVars
<1>1. TypeOK'
  <2>1. CASE HandlerReturns(c)
    BY <2>1, Zenon DEF TypeOK
  <2>2. CASE PeerLeaves(c) \/ Read(c) \/ ReadFails(c)
    BY <2>2 DEF TypeOK
  <2>3. ASSUME NEW channels \in SUBSET Channel, Subscribe(c, channels) PROVE TypeOK'
    BY <2>3 DEF TypeOK
  <2> QED BY <2>1, <2>2, <2>3
<1>2. HandInv'
  BY DEF HandInv, TypeOK
<1>3. LockInv'
  BY DEF LockInv
<1> QED BY <1>1, <1>2, <1>3, QuietHInv

-----------------------------------------------------------------------------
(***************************************************************************)
(* WritePump.                                                              *)
(***************************************************************************)
\* What a step must do to the stream of its client.
LEMMA WriterHInv ==
    ASSUME HInv, TypeOK', HandInv', UNCHANGED <<clients, castVars>>, NEW c \in Client,
           \A b \in Client \ {c} : Stream(b)' = Stream(b),
           Ordered(Stream(c)'),
           \A i \in DOMAIN Stream(c)' : \E j \in DOMAIN Stream(c) : Stream(c)'[i] = Stream(c)[j]
    PROVE  HInv'
<1> USE DEF HInv, castVars
<1>1. LockInv' /\ CastInv' /\ PriorInv'
  BY DEF LockInv, CastInv, PriorInv
<1>2. StreamInv'
  BY DEF StreamInv
<1>3. InOrder'
  <2>1. \A b \in Client \ {c} : Ordered(Stream(b))
    BY InOrderDef
  <2>2. \A b \in Client \ {c} : Ordered(Stream(b))'
    BY <2>1 DEF Ordered
  <2>3. Ordered(Stream(c))'
    BY DEF Ordered
  <2> QED BY <2>2, <2>3 DEF InOrder, Ordered, IsInjective
<1> QED BY <1>1, <1>2, <1>3

\* Taking a message out of the buffer moves it within the stream.
LEMMA WriteTakeHInv == ASSUME HInv, NEW c \in Client, WriteTake(c) PROVE HInv'
<1> USE DEF HInv
<1>0. /\ send[c] \in Seq(Event) /\ send[c] # <<>> /\ written[c] \in Seq(Event)
      /\ Head(send[c]) \in Event /\ Tail(send[c]) \in Seq(Event)
      /\ Len(Tail(send[c])) <= SendBuffer
  BY HeadTailProperties, HubAssumption DEF WriteTake, TypeOK
<1>1. TypeOK'
  <2>1. hand' \in [Client -> 0..MaxEvents]
    BY <1>0, HubAssumption DEF TypeOK, WriteTake, Event
  <2>2. send' \in [Client -> Seq(Event)] /\ \A b \in Client : Len(send'[b]) <= SendBuffer
    BY <1>0 DEF TypeOK, WriteTake
  <2> QED BY <2>1, <2>2 DEF TypeOK, WriteTake, castVars
<1>2. HandInv'
  <2>1. Head(send[c]) # 0
    BY <1>0 DEF Event
  <2> QED BY <2>1 DEF HandInv, TypeOK, WriteTake
<1>3. \A b \in Client : Stream(b)' = Stream(b)
  <2>1. \A b \in Client \ {c} : Stream(b)' = Stream(b)
    BY DEF Stream, WriteTake, TypeOK
  <2>2. Stream(c) = (written[c] \o <<>>) \o send[c]
    BY DEF Stream, WriteTake, HandInv
  <2>3. Stream(c)' = (written[c] \o <<Head(send[c])>>) \o Tail(send[c])
    <3>1. /\ hand'[c] = Head(send[c]) /\ send'[c] = Tail(send[c])
          /\ written'[c] = written[c]
      BY DEF WriteTake, TypeOK
    <3>2. hand'[c] # 0
      BY <1>0, <3>1 DEF Event
    <3> QED BY <3>1, <3>2 DEF Stream
  <2>4. Stream(c)' = Stream(c)
    BY <1>0, <2>2, <2>3, TakeSeq
  <2> QED BY <2>1, <2>4
<1>4. Ordered(Stream(c))
  BY InOrderDef
<1> QED BY <1>1, <1>2, <1>3, <1>4, WriterHInv DEF WriteTake, castVars

\* A message that was written moves from the hand to the end of what was
\* written.
LEMMA WriteDoneHInv == ASSUME HInv, NEW c \in Client, WriteDone(c) PROVE HInv'
<1> USE DEF HInv
<1>0. written[c] \in Seq(Event) /\ send[c] \in Seq(Event) /\ hand[c] \in Event
  <2>1. hand[c] # 0
    BY DEF WriteDone, HandInv
  <2> QED BY <2>1 DEF TypeOK, Event
<1>1. TypeOK'
  <2>1. Append(written[c], hand[c]) \in Seq(Event)
    BY <1>0
  <2> QED BY <2>1, HubAssumption DEF TypeOK, WriteDone, castVars
<1>2. HandInv'
  BY DEF HandInv, TypeOK, WriteDone
<1>3. \A b \in Client : Stream(b)' = Stream(b)
  <2>1. \A b \in Client \ {c} : Stream(b)' = Stream(b)
    BY DEF Stream, WriteDone, TypeOK
  <2>2. Stream(c) = (written[c] \o <<hand[c]>>) \o send[c]
    BY DEF Stream, WriteDone, HandInv
  <2>3. Stream(c)' = (Append(written[c], hand[c]) \o <<>>) \o send[c]
    BY DEF Stream, WriteDone, TypeOK
  <2>4. Stream(c)' = Stream(c)
    BY <1>0, <2>2, <2>3, DoneSeq
  <2> QED BY <2>1, <2>4
<1>4. Ordered(Stream(c))
  BY InOrderDef
<1> QED BY <1>1, <1>2, <1>3, <1>4, WriterHInv DEF WriteDone, castVars

\* A WritePump that ends loses what it has in hand.
LEMMA WriteEndsHInv == ASSUME HInv, NEW c \in Client, WriteEnds(c) PROVE HInv'
<1> USE DEF HInv
<1>0. written[c] \in Seq(Event) /\ send[c] \in Seq(Event) /\ Stream(c) \in Seq(Event)
  BY StreamType
<1>1. TypeOK'
  BY HubAssumption DEF TypeOK, WriteEnds, castVars
<1>2. HandInv'
  BY DEF HandInv, TypeOK, WriteEnds
<1>3. \A b \in Client \ {c} : Stream(b)' = Stream(b)
  BY DEF Stream, WriteEnds, TypeOK
<1>4. Stream(c)' = (written[c] \o <<>>) \o send[c]
  BY DEF Stream, WriteEnds, TypeOK
<1>5. Ordered(Stream(c))
  BY InOrderDef
<1>6. CASE hand[c] = 0
  <2>1. Stream(c)' = Stream(c)
    BY <1>4, <1>6 DEF Stream
  <2> QED BY <1>1, <1>2, <1>3, <1>5, <2>1, WriterHInv DEF WriteEnds, castVars
<1>7. CASE hand[c] # 0
  <2> DEFINE k == Len(written[c]) + 1
  <2>1. hand[c] \in Event /\ Stream(c) = (written[c] \o <<hand[c]>>) \o send[c]
    BY <1>7 DEF TypeOK, Event, Stream
  <2>2. /\ k \in 1..Len(Stream(c))
        /\ Len(Stream(c)') = Len(Stream(c)) - 1
        /\ \A i \in 1..Len(Stream(c)') :
            Stream(c)'[i] = Stream(c)[IF i < k THEN i ELSE i + 1]
    <3> DEFINE r == (written[c] \o <<>>) \o send[c]
               q == (written[c] \o <<hand[c]>>) \o send[c]
    <3>1. /\ Len(written[c]) + 1 \in 1..Len(q)
          /\ Len(r) = Len(q) - 1
          /\ \A i \in 1..Len(r) : r[i] = q[IF i < Len(written[c]) + 1 THEN i ELSE i + 1]
      <4> HIDE DEF HInv
      <4> QED BY <1>0, <2>1, DropSeq, Zenon
    <3>2. Stream(c) = q /\ Stream(c)' = r
      BY <1>4, <2>1, Zenon
    <3> HIDE DEF r, q
    <3> QED BY ONLY <3>1, <3>2
  <2>3. Stream(c)' \in Seq(Event)
    BY <1>0, <1>4
  <2> HIDE DEF k
  <2>4. Ordered(Stream(c)')
    BY <1>0, <1>5, <2>2, <2>3, OrderedRemove
  <2>5. ASSUME NEW i \in DOMAIN Stream(c)'
        PROVE  \E j \in DOMAIN Stream(c) : Stream(c)'[i] = Stream(c)[j]
    <3>1. /\ DOMAIN Stream(c) = 1..Len(Stream(c)) /\ Len(Stream(c)) \in Nat
          /\ DOMAIN Stream(c)' = 1..Len(Stream(c)')
      BY <1>0, <2>3, LenProperties
    <3> QED BY <2>2, <3>1
  <2> QED BY <1>1, <1>2, <1>3, <2>4, <2>5, WriterHInv DEF WriteEnds, castVars
<1> QED BY <1>6, <1>7
-----------------------------------------------------------------------------
(***************************************************************************)
(* Broadcasts.                                                             *)
(***************************************************************************)
\* A broadcast that begins has an event of its own.
LEMMA BroadcastHInv ==
    ASSUME HInv, NEW s \in Sender, NEW ch \in Channel, Broadcast(s, ch) PROVE HInv'
<1> USE DEF HInv, clientVars
<1> DEFINE e0 == events + 1
<1>0. /\ events \in Nat /\ e0 \in Event /\ events' = e0
      /\ send' = send /\ written' = written /\ hand' = hand /\ clients' = clients
      /\ cast'[s] = [event |-> e0, about |-> {ch}, left |-> clients]
      /\ \A t \in Sender \ {s} : cast'[t] = cast[t]
      /\ prior'[e0] = {e \in 1..events : \A t \in Sender : cast[t].event # e}
      /\ \A e \in Event \ {e0} : prior'[e] = prior[e]
  BY HubAssumption DEF Broadcast, TypeOK, Event
<1>1. TypeOK'
  <2>1. clients \subseteq Client /\ {ch} \subseteq Channel /\ e0 \in 0..MaxEvents
    BY <1>0 DEF TypeOK, Event
  <2>2. cast' \in [Sender -> [event : 0..MaxEvents, about : SUBSET Channel, left : SUBSET Client]]
    BY <2>1 DEF Broadcast, TypeOK
  <2>3. prior' \in [Event -> SUBSET Event]
    <3>1. {e \in 1..events : \A t \in Sender : cast[t].event # e} \subseteq Event
      BY HubAssumption DEF TypeOK, Event
    <3> QED BY <3>1 DEF Broadcast, TypeOK
  <2> QED BY <1>0, <2>1, <2>2, <2>3 DEF TypeOK, Broadcast
<1>2. HandInv' /\ LockInv'
  BY <1>0 DEF HandInv, LockInv, Broadcast
<1>3. PriorInv'
  BY <1>0 DEF PriorInv
<1>4. CastInv'
  <2>1. /\ \A e \in Event : e0 \notin prior'[e]
        /\ \A t \in Sender : cast[t].event # e0
    <3>1. \A e \in Event : prior'[e] \subseteq 1..events
      BY <1>0 DEF PriorInv
    <3>2. \A t \in Sender : cast[t].event \in 0..events
      BY <1>0 DEF CastInv, Idle
    <3> QED BY <1>0, <3>1, <3>2
  <2>2. \A t \in Sender, e \in Event : cast[t].event \notin prior'[e]
    BY <1>0 DEF CastInv
  <2> QED BY <1>0, <2>1, <2>2 DEF CastInv
<1>5. \A c \in Client : Stream(c)' = Stream(c)
  BY <1>0 DEF Stream
<1>6. StreamInv'
  BY <1>0, <1>5 DEF StreamInv
<1>7. InOrder'
  <2>1. \A c \in Client : \A i \in DOMAIN Stream(c) :
            prior'[Stream(c)[i]] = prior[Stream(c)[i]]
    BY <1>0, HubAssumption DEF StreamInv, Event
  <2> QED BY <1>5, <2>1 DEF InOrder
<1> QED BY <1>1, <1>2, <1>3, <1>4, <1>6, <1>7

\* What a broadcast puts into a buffer comes after all that it follows.
LEMMA OfferHInv ==
    ASSUME HInv, NEW s \in Sender, NEW c \in Client, Offer(s, c) PROVE HInv'
<1> USE DEF HInv, clientVars
<1> DEFINE e0 == cast[s].event
<1>0. /\ events' = events /\ prior' = prior /\ clients' = clients
      /\ hand' = hand /\ written' = written
      /\ cast'[s] = [cast[s] EXCEPT !.left = @ \ {c}]
      /\ \A t \in Sender \ {s} : cast'[t] = cast[t]
      /\ \A b \in Client \ {c} : send'[b] = send[b]
      /\ c \in cast[s].left
  BY DEF Offer, TypeOK
<1>1. /\ cast'[s].event = e0 /\ cast'[s].left = cast[s].left \ {c} /\ cast[s] # Idle
      /\ \A t \in Sender : /\ cast'[t].event = cast[t].event
                           /\ cast'[t].left \subseteq cast[t].left
                           /\ cast'[t] # Idle => cast[t] # Idle
  <2>1. cast[s] \in [event : 0..MaxEvents, about : SUBSET Channel, left : SUBSET Client]
    BY DEF TypeOK
  <2>2. cast'[s].event = e0 /\ cast'[s].left = cast[s].left \ {c}
    BY <1>0, <2>1
  <2>3. cast[s] # Idle
    BY <1>0 DEF Idle
  <2> QED BY <1>0, <2>2, <2>3
<1>2. e0 \in 1..events /\ e0 \in Event
  BY <1>1, HubAssumption DEF CastInv, TypeOK, Event
<1>3. LockInv' /\ CastInv' /\ PriorInv'
  <2>1. LockInv' /\ PriorInv'
    BY <1>0, <1>1 DEF LockInv, PriorInv
  <2>2. CastInv'
    BY <1>0, <1>1 DEF CastInv
  <2> QED BY <2>1, <2>2
<1>4. cast' \in [Sender -> [event : 0..MaxEvents, about : SUBSET Channel, left : SUBSET Client]]
  <2> DEFINE Cast == [event : 0..MaxEvents, about : SUBSET Channel, left : SUBSET Client]
  <2>1. cast \in [Sender -> Cast]
    BY DEF TypeOK
  <2>2. [cast[s] EXCEPT !.left = @ \ {c}] \in Cast
    BY <2>1
  <2>3. cast' = [cast EXCEPT ![s] = [cast[s] EXCEPT !.left = @ \ {c}]]
    BY DEF Offer
  <2> HIDE DEF Cast
  <2>4. cast' \in [Sender -> Cast]
    BY <2>1, <2>2, <2>3
  <2> QED BY <2>4 DEF Cast
<1>5. CASE send'[c] = send[c]
  <2>1. send' = send
    BY <1>0, <1>5 DEF Offer, TypeOK
  <2>2. TypeOK' /\ HandInv'
    BY <1>4, <2>1 DEF TypeOK, HandInv, Offer
  <2>3. \A b \in Client : Stream(b)' = Stream(b)
    BY <1>0, <2>1 DEF Stream
  <2>4. StreamInv'
    BY <1>0, <1>1, <2>3 DEF StreamInv
  <2>5. InOrder'
    BY <1>0, <2>3 DEF InOrder
  <2> QED BY <1>3, <2>2, <2>4, <2>5
<1>6. CASE Len(send[c]) < SendBuffer /\ send'[c] = Append(send[c], e0)
  <2>1. send[c] \in Seq(Event) /\ written[c] \in Seq(Event) /\ Held(c) \in Seq(Event)
        /\ Stream(c) \in Seq(Event) /\ Stream(c) = (written[c] \o Held(c)) \o send[c]
    BY StreamType
  <2>2. Append(send[c], e0) \in Seq(Event) /\ Len(Append(send[c], e0)) = Len(send[c]) + 1
    BY <1>2, <2>1, AppendProperties
  <2>3. TypeOK'
    <3>1. send' \in [Client -> Seq(Event)]
      <4>1. send' = [b \in Client |-> send'[b]]
        BY DEF Offer, TypeOK
      <4>2. send'[c] \in Seq(Event)
        BY <1>6, <2>2, Zenon
      <4>3. \A b \in Client : send'[b] \in Seq(Event)
        BY <1>0, <4>2 DEF TypeOK
      <4> QED BY <4>1, <4>3
    <3>2. \A b \in Client : Len(send'[b]) <= SendBuffer
      <4>1. Len(send'[c]) <= SendBuffer
        BY <1>6, <2>1, <2>2, LenProperties, HubAssumption
      <4> QED BY <1>0, <4>1 DEF TypeOK
    <3> QED BY <1>4, <3>1, <3>2 DEF TypeOK, Offer
  <2>4. HandInv'
    BY DEF HandInv, Offer
  <2>5. Stream(c)' = Append(Stream(c), e0)
    <3>1. Stream(c)' = (written[c] \o Held(c)) \o Append(send[c], e0)
      BY <1>0, <1>6 DEF Stream, Held
    <3> HIDE DEF HInv, e0
    <3>2. (written[c] \o Held(c)) \o Append(send[c], e0)
            = Append((written[c] \o Held(c)) \o send[c], e0)
      <4>1. /\ written[c] \in Seq(Event) /\ Held(c) \in Seq(Event)
            /\ send[c] \in Seq(Event) /\ e0 \in Event
        BY <1>2, <2>1
      <4> QED BY ONLY <4>1, PutSeq, Zenon
    <3>3. Stream(c) = (written[c] \o Held(c)) \o send[c]
      BY <2>1
    <3> QED BY ONLY <3>1, <3>2, <3>3, Zenon
  <2>6. \A b \in Client \ {c} : Stream(b)' = Stream(b)
    BY <1>0 DEF Stream
  <2>7. /\ DOMAIN Stream(c) = 1..Len(Stream(c)) /\ Len(Stream(c)) \in Nat
        /\ DOMAIN Stream(c)' = 1..(Len(Stream(c)) + 1)
        /\ \A i \in DOMAIN Stream(c) : Stream(c)'[i] = Stream(c)[i]
        /\ Stream(c)'[Len(Stream(c)) + 1] = e0
    <3> HIDE DEF HInv, e0
    <3>1. /\ DOMAIN Stream(c) = 1..Len(Stream(c)) /\ Len(Stream(c)) \in Nat
          /\ DOMAIN Append(Stream(c), e0) = 1..(Len(Stream(c)) + 1)
          /\ \A i \in DOMAIN Stream(c) : Append(Stream(c), e0)[i] = Stream(c)[i]
          /\ Append(Stream(c), e0)[Len(Stream(c)) + 1] = e0
      BY <1>2, <2>1, AppendDomain, Zenon
    <3> QED BY ONLY <2>5, <3>1, Zenon
  <2>8. StreamInv'
    <3>1. \A i \in DOMAIN Stream(c)' : Stream(c)'[i] \in 1..events
      BY <1>2, <2>7 DEF StreamInv
    <3>2. ASSUME NEW t \in Sender, c \in cast'[t].left, NEW i \in DOMAIN Stream(c)'
          PROVE  Stream(c)'[i] # cast'[t].event
      <4>1. t # s /\ cast'[t] = cast[t]
        BY <1>0, <1>1, <3>2
      <4>2. cast[t].event # e0
        BY <1>1, <4>1 DEF CastInv
      <4>3. \A j \in DOMAIN Stream(c) : Stream(c)[j] # cast[t].event
        BY <3>2, <4>1 DEF StreamInv
      <4> QED BY <2>7, <3>2, <4>1, <4>2, <4>3
    <3>3. \A b \in Client \ {c} :
            /\ \A i \in DOMAIN Stream(b)' : Stream(b)'[i] \in 1..events
            /\ \A t \in Sender : b \in cast'[t].left =>
                \A i \in DOMAIN Stream(b)' : Stream(b)'[i] # cast'[t].event
      BY <1>1, <2>6 DEF StreamInv
    <3> QED BY <1>0, <3>1, <3>2, <3>3 DEF StreamInv
  <2>9. InOrder'
    <3>1. Ordered(Stream(c)) /\ \A b \in Client \ {c} : Ordered(Stream(b))
      BY InOrderDef
    <3>2. /\ \A i \in DOMAIN Stream(c) : Stream(c)[i] # e0
          /\ \A x \in Event : e0 \notin prior[x]
      BY <1>0 DEF StreamInv, CastInv
    <3>3. Ordered(Append(Stream(c), e0))
      BY <1>2, <2>1, <3>1, <3>2, OrderedAppend
    <3>4. Ordered(Stream(c))' /\ \A b \in Client \ {c} : Ordered(Stream(b))'
      BY <1>0, <2>5, <2>6, <3>1, <3>3 DEF Ordered
    <3> QED BY <3>4 DEF InOrder, Ordered, IsInjective
  <2> QED BY <1>3, <2>3, <2>4, <2>8, <2>9
<1> QED
  <2>1. send'[c] = IF WantsEvent(c, cast[s].about) THEN Put(c, e0) ELSE send[c]
    BY DEF Offer, TypeOK
  <2> QED BY <1>5, <1>6, <2>1 DEF Put

\* The end of a broadcast: its event is no longer under way.
LEMMA BroadcastReturnsHInv ==
    ASSUME HInv, NEW s \in Sender, BroadcastReturns(s) PROVE HInv'
<1> USE DEF HInv, clientVars
<1>0. /\ events' = events /\ prior' = prior /\ clients' = clients
      /\ hand' = hand /\ written' = written /\ send' = send
      /\ cast'[s] = Idle
      /\ \A t \in Sender \ {s} : cast'[t] = cast[t]
  BY DEF BroadcastReturns, TypeOK
<1>1. TypeOK'
  <2>1. Idle \in [event : 0..MaxEvents, about : SUBSET Channel, left : SUBSET Client]
    BY HubAssumption DEF Idle
  <2>2. cast' \in [Sender -> [event : 0..MaxEvents, about : SUBSET Channel, left : SUBSET Client]]
    BY <2>1 DEF TypeOK, BroadcastReturns
  <2> QED BY <2>2 DEF TypeOK, BroadcastReturns
<1>2. HandInv' /\ LockInv' /\ PriorInv'
  BY <1>0 DEF HandInv, LockInv, PriorInv, Idle, BroadcastReturns
<1>3. CastInv'
  <2>1. \A e \in Event : 0 \notin prior[e]
    BY DEF PriorInv, TypeOK
  <2>2. \A t \in Sender : cast[t] # Idle => cast[t].event # 0
    BY DEF CastInv
  <2> QED BY <1>0, <2>1, <2>2 DEF CastInv, Idle
<1>4. \A c \in Client : Stream(c)' = Stream(c)
  BY <1>0 DEF Stream
<1>5. StreamInv'
  BY <1>0, <1>4 DEF StreamInv, Idle
<1>6. InOrder'
  BY <1>0, <1>4 DEF InOrder
<1> QED BY <1>1, <1>2, <1>3, <1>5, <1>6

-----------------------------------------------------------------------------
(***************************************************************************)
(* The theorems.                                                           *)
(***************************************************************************)
\* The invariant holds at the start ...
LEMMA InitHInv == Init => HInv
<1> SUFFICES ASSUME Init PROVE HInv
  OBVIOUS
<1> USE DEF Init
<1>1. TypeOK
  <2>1. ctxDone \in [Client -> BOOLEAN]
    BY Zenon
  <2>2. Idle \in [event : 0..MaxEvents, about : SUBSET Channel, left : SUBSET Client]
    BY HubAssumption DEF Idle
  <2>3. \A c \in Client : Len(send[c]) <= SendBuffer
    BY HubAssumption
  <2> QED BY <2>1, <2>2, <2>3, HubAssumption DEF TypeOK
<1>2. HandInv /\ LockInv /\ PriorInv
  BY DEF HandInv, LockInv, PriorInv, Idle
<1>3. CastInv
  BY DEF CastInv, Idle
<1>4. \A c \in Client : Stream(c) = <<>>
  BY DEF Stream
<1>5. \A c \in Client : DOMAIN Stream(c) = {}
  BY <1>4
<1>6. StreamInv /\ InOrder
  BY <1>5 DEF StreamInv, InOrder, IsInjective
<1> QED BY <1>1, <1>2, <1>3, <1>6 DEF HInv

\* ... and every step keeps it.
LEMMA NextHInv == HInv /\ [Next]_vars => HInv'
<1> SUFFICES ASSUME HInv, [Next]_vars PROVE HInv'
  OBVIOUS
<1>1. ASSUME NEW c \in Client,
             Register(c) \/ HandlerReturns(c) \/ PeerLeaves(c) \/ ReadPump(c) \/ WritePump(c)
      PROVE  HInv'
  BY <1>1, RegisterHInv, UnregisterHInv, ReaderHInv, WriteTakeHInv, WriteDoneHInv,
     WriteEndsHInv DEF ReadPump, WritePump
<1>2. ASSUME NEW s \in Sender, (\E ch \in Channel : Broadcast(s, ch)) \/ Loop(s) PROVE HInv'
  BY <1>2, BroadcastHInv, OfferHInv, BroadcastReturnsHInv DEF Loop
<1>3. CASE UNCHANGED vars
  <2>1. TypeOK' /\ HandInv' /\ LockInv'
    BY <1>3 DEF HInv, TypeOK, HandInv, LockInv, vars, clientVars, castVars
  <2> QED BY <1>3, <2>1, QuietHInv DEF vars, clientVars
<1> QED BY <1>1, <1>2, <1>3 DEF Next

\* The inductive invariant is one.
THEOREM HubInvariant == Spec => []HInv
BY InitHInv, NextHInv, PTL DEF Spec

\* The types, and the bound on the buffers: no broadcast makes a client's
\* buffer longer than sendBuffer (Put in Broadcast).
THEOREM HubTypeOK == Spec => []TypeOK
<1>1. HInv => TypeOK
  BY DEF HInv
<1> QED BY <1>1, HubInvariant, PTL

\* Whatever broadcasts overlap, and however the pumps of a client interleave
\* with them, the client sees no event twice and none ahead of one whose
\* broadcast had returned before its own began (Broadcast, WritePump).
THEOREM HubInOrder == Spec => []InOrder
<1>1. HInv => InOrder
  BY DEF HInv
<1> QED BY <1>1, HubInvariant, PTL

\* The read lock of a broadcast keeps out Unregister, so nothing is put into
\* the buffer of a client that has left (Unregister, Broadcast).
THEOREM HubOnlyRegistered == Spec => OnlyRegistered
<1> DEFINE Step == \A c \in Client : Len(send'[c]) > Len(send[c]) => c \in clients
<1>1. HInv /\ [Next]_vars => [Step]_vars
  <2> SUFFICES ASSUME HInv, Next, NEW c \in Client, Len(send'[c]) > Len(send[c])
               PROVE  c \in clients
    OBVIOUS
  <2>0. send \in [Client -> Seq(Event)] /\ Len(send[c]) \in Nat
    BY LenProperties DEF HInv, TypeOK
  <2>1. send'[c] # send[c]
    BY <2>0
  <2>2. ASSUME NEW b \in Client, WriteTake(b) PROVE FALSE
    <3>1. b = c
      BY <2>0, <2>1, <2>2 DEF WriteTake
    <3>2. send[c] # <<>> /\ send'[c] = Tail(send[c])
      BY <2>0, <2>2, <3>1 DEF WriteTake
    <3>3. Len(Tail(send[c])) = Len(send[c]) - 1
      BY <2>0, <3>2, HeadTailProperties
    <3> QED BY <2>0, <3>2, <3>3
  <2>3. ASSUME NEW s \in Sender, NEW b \in Client, Offer(s, b) PROVE c \in clients
    <3>1. b = c
      BY <2>0, <2>1, <2>3 DEF Offer
    <3> QED BY <2>3, <3>1 DEF Offer, HInv, LockInv
  <2>4. (\E b \in Client : WriteTake(b)) \/ (\E s \in Sender, b \in Client : Offer(s, b))
    BY <2>1 DEF Next, Register, HandlerReturns, PeerLeaves, ReadPump, Read, ReadFails, Unregister,
       Subscribe, WritePump, WriteDone, WriteEnds, Broadcast, Loop, BroadcastReturns
  <2> QED BY <2>2, <2>3, <2>4
<1>2. [][HInv /\ [Next]_vars]_vars => OnlyRegistered
  BY <1>1, PTL DEF OnlyRegistered
<1> QED BY <1>2, HubInvariant, PTL DEF Spec, OnlyRegistered
=============================================================================
