-------------------------------- MODULE Hub --------------------------------
(***************************************************************************)
(* internal/websocket: the hub and the two pumps of every client, with the *)
(* handler that registers a connection under the context of its request.   *)
(*                                                                         *)
(* Hub.mu is a read-write lock.  Register, Subscribe and Unregister hold   *)
(* it for writing and are one step each.  A broadcast holds it for reading *)
(* from its first client to its last, so that broadcasts overlap.          *)
(***************************************************************************)
EXTENDS Naturals, Sequences, SequencesExt

CONSTANTS
    Client,         \* connections, each accepted once
    Channel,        \* notification channels
    Sender,         \* goroutines that broadcast
    SendBuffer,     \* sendBuffer
    MaxEvents       \* bound on the broadcasts of a behaviour

ASSUME HubAssumption ==
    /\ SendBuffer \in Nat \ {0}
    /\ MaxEvents \in Nat

VARIABLES
    clients,        \* Hub.clients
    conn,           \* "gone": the peer is; "closed": by CloseNow
    ctxDone,        \* Client.ctx is cancelled
    wants,          \* Client.channels; {} is all
    reader,         \* where ReadPump is
    writer,         \* where WritePump is
    hand,           \* the message it is writing
    send,           \* Client.send
    written,        \* what it has written, in this order
    cast,           \* what a sender broadcasts, and to whom it still has to
    events,         \* broadcasts begun so far
    prior           \* the broadcasts that had ended when this one began

clientVars == <<clients, conn, ctxDone, wants, reader, writer, hand, written>>
castVars == <<cast, events, prior>>
vars == <<clientVars, castVars, send>>

Event == 1..MaxEvents

Idle == [event |-> 0, about |-> {}, left |-> {}]

TypeOK ==
    /\ clients \subseteq Client
    /\ conn \in [Client -> {"none", "open", "gone", "closed"}]
    /\ ctxDone \in [Client -> BOOLEAN]
    /\ wants \in [Client -> SUBSET Channel]
    /\ reader \in [Client -> {"none", "read", "subscribe", "leave", "ended"}]
    /\ writer \in [Client -> {"none", "select", "write", "ended"}]
    /\ hand \in [Client -> 0..MaxEvents]
    /\ send \in [Client -> Seq(Event)]
    /\ \A c \in Client : Len(send[c]) <= SendBuffer
    /\ written \in [Client -> Seq(Event)]
    /\ cast \in [Sender -> [event : 0..MaxEvents, about : SUBSET Channel,
                            left : SUBSET Client]]
    /\ events \in 0..MaxEvents
    /\ prior \in [Event -> SUBSET Event]

Init ==
    /\ clients = {}
    /\ conn = [c \in Client |-> "none"]
    /\ ctxDone = [c \in Client |-> FALSE]
    /\ wants = [c \in Client |-> {}]
    /\ reader = [c \in Client |-> "none"]
    /\ writer = [c \in Client |-> "none"]
    /\ hand = [c \in Client |-> 0]
    /\ send = [c \in Client |-> <<>>]
    /\ written = [c \in Client |-> <<>>]
    /\ cast = [s \in Sender |-> Idle]
    /\ events = 0
    /\ prior = [e \in Event |-> {}]

\* Hub.mu can be taken for writing.
NoReaders == \A s \in Sender : cast[s] = Idle

-----------------------------------------------------------------------------
\* WebSocketHandler.Upgrade, where Accept succeeds: Hub.Register.
Register(c) ==
    /\ conn[c] = "none"
    /\ NoReaders
    /\ clients' = clients \union {c}
    /\ conn' = [conn EXCEPT ![c] = "open"]
    /\ reader' = [reader EXCEPT ![c] = "read"]
    /\ writer' = [writer EXCEPT ![c] = "select"]
    /\ UNCHANGED <<ctxDone, wants, hand, send, written, castVars>>

\* Mutant: the connection has a context that outlives the handler.
HandlerReturnsOnly(c) ==
    /\ conn[c] # "none"
    /\ ~ctxDone[c]
    /\ UNCHANGED vars

\* Upgrade returns, and the server cancels the context of the request.
HandlerReturns(c) ==
    /\ conn[c] # "none"
    /\ ~ctxDone[c]
    /\ ctxDone' = [ctxDone EXCEPT ![c] = TRUE]
    /\ UNCHANGED <<clients, conn, wants, reader, writer, hand, send, written, castVars>>

\* The peer closes the connection, or the network does.
PeerLeaves(c) ==
    /\ conn[c] = "open"
    /\ conn' = [conn EXCEPT ![c] = "gone"]
    /\ UNCHANGED <<clients, ctxDone, wants, reader, writer, hand, send, written, castVars>>

\* ReadPump reads a message that asks for certain channels (it ignores other
\* messages) ...
Read(c) ==
    /\ reader[c] = "read"
    /\ conn[c] = "open"
    /\ reader' = [reader EXCEPT ![c] = "subscribe"]
    /\ UNCHANGED <<clients, conn, ctxDone, wants, writer, hand, send, written, castVars>>

\* ... and takes the lock.
Subscribe(c, channels) ==
    /\ reader[c] = "subscribe"
    /\ NoReaders
    /\ wants' = [wants EXCEPT ![c] = channels]
    /\ reader' = [reader EXCEPT ![c] = "read"]
    /\ UNCHANGED <<clients, conn, ctxDone, writer, hand, send, written, castVars>>

\* Read fails.
ReadFails(c) ==
    /\ reader[c] = "read"
    /\ conn[c] # "open" \/ ctxDone[c]
    /\ reader' = [reader EXCEPT ![c] = "leave"]
    /\ UNCHANGED <<clients, conn, ctxDone, wants, writer, hand, send, written, castVars>>

\* Mutant: Unregister without the lock.
UnregisterUnlocked(c) ==
    /\ reader[c] = "leave"
    /\ clients' = clients \ {c}
    /\ conn' = [conn EXCEPT ![c] = "closed"]
    /\ reader' = [reader EXCEPT ![c] = "ended"]
    /\ UNCHANGED <<ctxDone, wants, writer, hand, send, written, castVars>>

\* The deferred end of ReadPump: Unregister and CloseNow.
Unregister(c) ==
    /\ reader[c] = "leave"
    /\ NoReaders
    /\ clients' = clients \ {c}
    /\ conn' = [conn EXCEPT ![c] = "closed"]
    /\ reader' = [reader EXCEPT ![c] = "ended"]
    /\ UNCHANGED <<ctxDone, wants, writer, hand, send, written, castVars>>

\* The select of WritePump takes a message, also when the context is done.
WriteTake(c) ==
    /\ writer[c] = "select"
    /\ send[c] # <<>>
    /\ hand' = [hand EXCEPT ![c] = Head(send[c])]
    /\ send' = [send EXCEPT ![c] = Tail(send[c])]
    /\ writer' = [writer EXCEPT ![c] = "write"]
    /\ UNCHANGED <<clients, conn, ctxDone, wants, reader, written, castVars>>

\* conn.Write succeeds, also if the peer is gone ...
WriteDone(c) ==
    /\ writer[c] = "write"
    /\ conn[c] # "closed"
    /\ written' = [written EXCEPT ![c] = Append(written[c], hand[c])]
    /\ hand' = [hand EXCEPT ![c] = 0]
    /\ writer' = [writer EXCEPT ![c] = "select"]
    /\ UNCHANGED <<clients, conn, ctxDone, wants, reader, send, castVars>>

\* ... or fails, or takes longer than writeWait; or the select sees the end
\* of the context.  The deferred CloseNow follows.
WriteEnds(c) ==
    /\ \/ writer[c] = "write"
       \/ writer[c] = "select" /\ ctxDone[c]
    /\ conn' = [conn EXCEPT ![c] = "closed"]
    /\ hand' = [hand EXCEPT ![c] = 0]
    /\ writer' = [writer EXCEPT ![c] = "ended"]
    /\ UNCHANGED <<clients, ctxDone, wants, reader, send, written, castVars>>

-----------------------------------------------------------------------------
\* Broadcast of an event, or BroadcastBatch of a worker's batch, which is about
\* one channel too: up to the loop over the clients.
Broadcast(s, ch) ==
    /\ cast[s] = Idle
    /\ events < MaxEvents
    /\ events' = events + 1
    /\ cast' = [cast EXCEPT ![s] =
                    [event |-> events + 1, about |-> {ch}, left |-> clients]]
    /\ prior' = [prior EXCEPT ![events + 1] =
                    {e \in 1..events : \A t \in Sender : cast[t].event # e}]
    /\ UNCHANGED <<clientVars, send>>

\* WantsEvent.
WantsEvent(c, about) == wants[c] = {} \/ wants[c] \intersect about # {}

\* Mutant: the buffer has no bound.
PutAlways(c, e) == Append(send[c], e)

\* Mutant: the newest event first.
PutInFront(c, e) == IF Len(send[c]) < SendBuffer THEN <<e>> \o send[c] ELSE send[c]

\* The buffer of a client after a send that does not block: the event is
\* dropped if the buffer is full.
Put(c, e) == IF Len(send[c]) < SendBuffer THEN Append(send[c], e) ELSE send[c]

\* Mutant: the send blocks.
OfferBlocking(s, c) ==
    /\ c \in cast[s].left
    /\ cast' = [cast EXCEPT ![s].left = @ \ {c}]
    /\ WantsEvent(c, cast[s].about) => Len(send[c]) < SendBuffer
    /\ send' = [send EXCEPT ![c] =
                    IF WantsEvent(c, cast[s].about) THEN Put(c, cast[s].event) ELSE @]
    /\ UNCHANGED <<clientVars, events, prior>>

\* The body of the loop, which visits the clients in any order.
Offer(s, c) ==
    /\ c \in cast[s].left
    /\ cast' = [cast EXCEPT ![s].left = @ \ {c}]
    /\ send' = [send EXCEPT ![c] =
                    IF WantsEvent(c, cast[s].about) THEN Put(c, cast[s].event) ELSE @]
    /\ UNCHANGED <<clientVars, events, prior>>

\* The deferred RUnlock.
BroadcastReturns(s) ==
    /\ cast[s] # Idle
    /\ cast[s].left = {}
    /\ cast' = [cast EXCEPT ![s] = Idle]
    /\ UNCHANGED <<clientVars, send, events, prior>>

ReadPump(c) ==
    \/ Read(c) \/ ReadFails(c) \/ Unregister(c)
    \/ \E channels \in SUBSET Channel : Subscribe(c, channels)

WritePump(c) == WriteTake(c) \/ WriteDone(c) \/ WriteEnds(c)

Loop(s) == BroadcastReturns(s) \/ \E c \in Client : Offer(s, c)

Next ==
    \/ \E c \in Client :
        Register(c) \/ HandlerReturns(c) \/ PeerLeaves(c) \/ ReadPump(c) \/ WritePump(c)
    \/ \E s \in Sender :
        \/ \E ch \in Channel : Broadcast(s, ch)
        \/ Loop(s)

Spec == Init /\ [][Next]_vars

\* The goroutines are scheduled, the handler returns, and a read does not
\* outlast its connection or its context.  A goroutine that waits for the
\* lock gets it: a sync.RWMutex lets no new reader in ahead of it.
Fairness ==
    /\ \A c \in Client :
        /\ WF_vars(HandlerReturns(c))
        /\ WF_vars(ReadFails(c))
        /\ SF_vars(Unregister(c) \/ \E channels \in SUBSET Channel : Subscribe(c, channels))
        /\ WF_vars(WritePump(c))
    /\ \A s \in Sender : WF_vars(Loop(s))

FairSpec == Spec /\ Fairness

-----------------------------------------------------------------------------
\* What a connection has been given or still will be.
Stream(c) ==
    written[c] \o (IF hand[c] = 0 THEN <<>> ELSE <<hand[c]>>) \o send[c]

\* A client sees no event twice, and no event ahead of one whose broadcast
\* had returned before its own began, although broadcasts overlap and reach
\* the clients in any order (Broadcast, WritePump).
InOrder ==
    \A c \in Client :
        /\ IsInjective(Stream(c))
        /\ \A i, j \in DOMAIN Stream(c) : i < j => Stream(c)[j] \notin prior[Stream(c)[i]]

\* Nothing is put into the buffer of a client that has left the hub, also not
\* by a broadcast that began before it did (Unregister, Broadcast).
OnlyRegistered ==
    [][\A c \in Client : Len(send'[c]) > Len(send[c]) => c \in clients]_vars

\* A broadcast returns, whatever becomes of the clients it reaches: neither a
\* slow client nor one whose WritePump has ended holds it up (Broadcast).
BroadcastEnds == \A s \in Sender : cast[s] # Idle ~> cast[s] = Idle

\* When the peer goes away both pumps end and the hub forgets the client
\* (ReadPump, WritePump, Upgrade).
PumpsEnd ==
    \A c \in Client :
        conn[c] = "gone" ~> c \notin clients /\ reader[c] = "ended" /\ writer[c] = "ended"
=============================================================================
