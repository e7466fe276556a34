---------------------------- MODULE WebSocketHub ----------------------------
(***************************************************************************)
(* The live feed of the API (src/internal/api/websocket.go): the hub's     *)
(* event loop, which owns the set of clients; for each client a read pump, *)
(* a write pump and a bounded send channel; and the relay, which sends an  *)
(* edit from Redis to the clients that want it, next to the event loop.    *)
(*                                                                         *)
(* The hub's mutex is held by the relay, for reading, from RelayReceives   *)
(* to RelayReleases.  The event loop holds it for reading while it sends a *)
(* broadcast; it changes the set of clients under the write lock, which    *)
(* here is a single step.                                                  *)
(***************************************************************************)
EXTENDS Naturals, Sequences, FiniteSets, SequencesExt

CONSTANTS Clients,       \* connections, each made at most once
          Ip,            \* the address of each client
          Wants,         \* the messages for each client: the edits its EditFilter lets
                          \* through, and every alert
          MaxEdits,      \* bound: edits the relay receives
          MaxAlerts,     \* bound: messages of BroadcastEdit and BroadcastAlert
          MaxClients,    \* maxClients
          MaxPerIP,      \* maxPerIP
          SendBuffer,    \* sendBufferSize
          QueueSize,     \* capacity of register and of unregister
          BroadcastSize  \* capacity of broadcast

Messages == ({"edit"} \X (1..MaxEdits)) \cup ({"alert"} \X (1..MaxAlerts))

ASSUME HubAssumption ==
    /\ MaxEdits \in Nat /\ MaxAlerts \in Nat
    /\ MaxClients \in Nat /\ MaxPerIP \in Nat
    /\ SendBuffer \in Nat \ {0} /\ QueueSize \in Nat \ {0} /\ BroadcastSize \in Nat \ {0}
    /\ Wants \in [Clients -> SUBSET Messages]
    /\ \A c \in Clients : {"alert"} \X (1..MaxAlerts) \subseteq Wants[c]

VARIABLES
    conn,        \* the connection: open, gone (the peer left), closed (by the server)
    reader,      \* where readPump is
    writer,      \* where writePump is
    batch,       \* the messages of writePump's current frame
    got,         \* the messages the peer has received
    send,        \* the channel client.send
    closed,      \* TRUE once client.send is closed
    clients,     \* h.clients
    register,    \* h.register
    unregister,  \* h.unregister
    broadcast,   \* h.broadcast
    stop,        \* TRUE once h.stop is closed
    hub,         \* where the event loop is
    message,     \* the message it took from broadcast last
    hubTodo,     \* the clients the message still has to reach
    slow,        \* slowClients
    relay,       \* the edit being relayed, 0 when there is none
    relayTodo,   \* the clients it still has to reach
    edits,       \* number of edits received by the relay
    alerts,      \* number of messages accepted into broadcast
    owed,        \* history: for each client, what was sent out while it was in clients
    missed       \* history: for each client, what found its send channel full

peerVars  == <<conn, reader, writer, batch, got>>
sendVars  == <<send, closed>>
queueVars == <<register, unregister, broadcast>>
hubVars   == <<clients, stop, hub, message, hubTodo, slow>>
relayVars == <<relay, relayTodo, edits, alerts>>
histVars  == <<owed, missed>>
vars == <<peerVars, sendVars, queueVars, hubVars, relayVars, histVars>>

-----------------------------------------------------------------------------

\* NewWebSocketHub, Run, and StartEditRelay.
Init ==
    /\ conn = [c \in Clients |-> "none"]
    /\ reader = [c \in Clients |-> "none"]
    /\ writer = [c \in Clients |-> "none"]
    /\ batch = [c \in Clients |-> <<>>]
    /\ got = [c \in Clients |-> <<>>]
    /\ send = [c \in Clients |-> <<>>]
    /\ closed = [c \in Clients |-> FALSE]
    /\ clients = {}
    /\ register = <<>>
    /\ unregister = <<>>
    /\ broadcast = <<>>
    /\ stop = FALSE
    /\ hub = "select"
    /\ message = <<>>
    /\ hubTodo = {}
    /\ slow = {}
    /\ relay = 0
    /\ relayTodo = {}
    /\ edits = 0
    /\ alerts = 0
    /\ owed = [c \in Clients |-> {}]
    /\ missed = [c \in Clients |-> {}]

\* The message is owed to the clients it is being sent to.
Owe(C, m) == owed' = [c \in Clients |-> owed[c] \cup (IF c \in C THEN {m} ELSE {})]

\* Mutant: the channel has one place more.
TrySendOver(c, m) ==
    \/ /\ Len(send[c]) <= SendBuffer
       /\ send' = [send EXCEPT ![c] = Append(@, m)]
       /\ UNCHANGED missed
    \/ /\ Len(send[c]) > SendBuffer
       /\ missed' = [missed EXCEPT ![c] = @ \cup {m}]
       /\ UNCHANGED send

\* The select with a default: a full channel takes nothing.
TrySend(c, m) ==
    \/ /\ Len(send[c]) < SendBuffer
       /\ send' = [send EXCEPT ![c] = Append(@, m)]
       /\ UNCHANGED missed
    \/ /\ Len(send[c]) = SendBuffer
       /\ missed' = [missed EXCEPT ![c] = @ \cup {m}]
       /\ UNCHANGED send

CloseSend(C) == closed' = [c \in Clients |-> closed[c] \/ c \in C]
CloseConn(C) == conn' = [c \in Clients |-> IF c \in C THEN "closed" ELSE conn[c]]

-----------------------------------------------------------------------------
(* The handler and the peer *)

\* WebSocketFeed: the client is queued for registration and its pumps start.
Connect(c) ==
    /\ conn[c] = "none"
    /\ Len(register) < QueueSize
    /\ register' = Append(register, c)
    /\ conn' = [conn EXCEPT ![c] = "open"]
    /\ reader' = [reader EXCEPT ![c] = "reading"]
    /\ writer' = [writer EXCEPT ![c] = "select"]
    /\ UNCHANGED <<batch, got, sendVars, unregister, broadcast, hubVars, relayVars, histVars>>

\* The peer closes, breaks the protocol, or stops answering.
PeerLeaves(c) ==
    /\ conn[c] = "open"
    /\ conn' = [conn EXCEPT ![c] = "gone"]
    /\ UNCHANGED <<reader, writer, batch, got, sendVars, queueVars, hubVars, relayVars, histVars>>

-----------------------------------------------------------------------------
(* readPump *)

\* ReadMessage fails: at once on a closed connection, after pongWait at most
\* when the peer is gone.
ReadFails(c) ==
    /\ reader[c] = "reading"
    /\ conn[c] \in {"gone", "closed"}
    /\ reader' = [reader EXCEPT ![c] = "leaving"]
    /\ UNCHANGED <<conn, writer, batch, got, sendVars, queueVars, hubVars, relayVars, histVars>>

\* The deferred c.hub.unregister <- c.
ReaderUnregisters(c) ==
    /\ reader[c] = "leaving"
    /\ Len(unregister) < QueueSize
    /\ unregister' = Append(unregister, c)
    /\ reader' = [reader EXCEPT ![c] = "closing"]
    /\ UNCHANGED <<conn, writer, batch, got, sendVars, register, broadcast, hubVars, relayVars, histVars>>

\* The deferred c.conn.Close().
ReaderCloses(c) ==
    /\ reader[c] = "closing"
    /\ CloseConn({c})
    /\ reader' = [reader EXCEPT ![c] = "done"]
    /\ UNCHANGED <<writer, batch, got, sendVars, queueVars, hubVars, relayVars, histVars>>

-----------------------------------------------------------------------------
(* writePump *)

\* case message := <-c.send
WriterTakes(c) ==
    /\ writer[c] = "select"
    /\ send[c] # <<>>
    /\ batch' = [batch EXCEPT ![c] = <<Head(send[c])>>]
    /\ send' = [send EXCEPT ![c] = Tail(@)]
    /\ writer' = [writer EXCEPT ![c] = "draining"]
    /\ UNCHANGED <<conn, reader, got, closed, queueVars, hubVars, relayVars, histVars>>

\* Mutant: what is drained is not written.
WriterDrainsUnwritten(c) ==
    /\ writer[c] = "draining"
    /\ send' = [send EXCEPT ![c] = <<>>]
    /\ writer' = [writer EXCEPT ![c] = "writing"]
    /\ UNCHANGED <<conn, reader, batch, got, closed, queueVars, hubVars, relayVars, histVars>>

\* Mutant: what is drained is written first.
WriterDrainsFirst(c) ==
    /\ writer[c] = "draining"
    /\ batch' = [batch EXCEPT ![c] = send[c] \o @]
    /\ send' = [send EXCEPT ![c] = <<>>]
    /\ writer' = [writer EXCEPT ![c] = "writing"]
    /\ UNCHANGED <<conn, reader, got, closed, queueVars, hubVars, relayVars, histVars>>

\* What waits in the channel goes into the same frame.
WriterDrains(c) ==
    /\ writer[c] = "draining"
    /\ batch' = [batch EXCEPT ![c] = @ \o send[c]]
    /\ send' = [send EXCEPT ![c] = <<>>]
    /\ writer' = [writer EXCEPT ![c] = "writing"]
    /\ UNCHANGED <<conn, reader, got, closed, queueVars, hubVars, relayVars, histVars>>

\* The frame is written.  A write to a peer that is gone may succeed too.
FrameWritten(c) ==
    /\ writer[c] = "writing"
    /\ conn[c] \in {"open", "gone"}
    /\ got' = IF conn[c] = "open" THEN [got EXCEPT ![c] = @ \o batch[c]] ELSE got
    /\ batch' = [batch EXCEPT ![c] = <<>>]
    /\ writer' = [writer EXCEPT ![c] = "select"]
    /\ UNCHANGED <<conn, reader, sendVars, queueVars, hubVars, relayVars, histVars>>

\* NextWriter fails on a closed connection, the write on a broken one and,
\* after writeWait, on one whose peer does not read.
WriteFails(c) ==
    /\ \/ writer[c] = "draining" /\ conn[c] = "closed"
       \/ writer[c] = "writing"
    /\ batch' = [batch EXCEPT ![c] = <<>>]
    /\ writer' = [writer EXCEPT ![c] = "leaving"]
    /\ UNCHANGED <<conn, reader, got, sendVars, queueVars, hubVars, relayVars, histVars>>

\* case <-ticker.C, and the ping fails.  The first ping is pingPeriod after the
\* connection, when the event loop has long taken the registration.
PingFails(c) ==
    /\ writer[c] = "select"
    /\ c \notin ToSet(register)
    /\ writer' = [writer EXCEPT ![c] = "leaving"]
    /\ UNCHANGED <<conn, reader, batch, got, sendVars, queueVars, hubVars, relayVars, histVars>>

\* The channel is closed and empty: a close frame, then return.
WriterSeesClosed(c) ==
    /\ writer[c] = "select"
    /\ closed[c]
    /\ send[c] = <<>>
    /\ writer' = [writer EXCEPT ![c] = "leaving"]
    /\ UNCHANGED <<conn, reader, batch, got, sendVars, queueVars, hubVars, relayVars, histVars>>

\* Mutant: only readPump unregisters the client.
WriterLeaves(c) ==
    /\ writer[c] = "leaving"
    /\ writer' = [writer EXCEPT ![c] = "closing"]
    /\ UNCHANGED <<conn, reader, batch, got, sendVars, queueVars, hubVars, relayVars, histVars>>

\* The deferred c.hub.unregister <- c.
WriterUnregisters(c) ==
    /\ writer[c] = "leaving"
    /\ Len(unregister) < QueueSize
    /\ unregister' = Append(unregister, c)
    /\ writer' = [writer EXCEPT ![c] = "closing"]
    /\ UNCHANGED <<conn, reader, batch, got, sendVars, register, broadcast, hubVars, relayVars, histVars>>

\* The deferred c.conn.Close().
WriterCloses(c) ==
    /\ writer[c] = "closing"
    /\ CloseConn({c})
    /\ writer' = [writer EXCEPT ![c] = "done"]
    /\ UNCHANGED <<reader, batch, got, sendVars, queueVars, hubVars, relayVars, histVars>>

-----------------------------------------------------------------------------
(* The relay: BroadcastEditFiltered *)

\* An edit arrives from Redis.  The read lock is taken; the loop will visit
\* every client and skip those whose filter does not match.
RelayReceives ==
    /\ relay = 0
    /\ edits < MaxEdits
    /\ edits' = edits + 1
    /\ relay' = edits'
    /\ relayTodo' = {c \in clients : <<"edit", edits'>> \in Wants[c]}
    /\ Owe(relayTodo', <<"edit", edits'>>)
    /\ UNCHANGED <<peerVars, sendVars, queueVars, hubVars, alerts, missed>>

RelaySends(c) ==
    /\ c \in relayTodo
    /\ TrySend(c, <<"edit", relay>>)
    /\ relayTodo' = relayTodo \ {c}
    /\ UNCHANGED <<peerVars, closed, queueVars, hubVars, relay, edits, alerts, owed>>

RelayReleases ==
    /\ relay # 0
    /\ relayTodo = {}
    /\ relay' = 0
    /\ UNCHANGED <<peerVars, sendVars, queueVars, hubVars, relayTodo, edits, alerts, histVars>>

\* BroadcastEdit and BroadcastAlert; a message that finds broadcast full is dropped.
Broadcast ==
    /\ alerts < MaxAlerts
    /\ Len(broadcast) < BroadcastSize
    /\ alerts' = alerts + 1
    /\ broadcast' = Append(broadcast, <<"alert", alerts'>>)
    /\ UNCHANGED <<peerVars, sendVars, register, unregister, hubVars, relay, relayTodo, edits, histVars>>

-----------------------------------------------------------------------------
(* The event loop *)

\* h.mu.Lock(): the relay does not hold the lock.
WriteLock == relay = 0

\* A client that is over no limit: the global one, or that of its address.
Acceptable(c) ==
    /\ Cardinality(clients) < MaxClients
    /\ Cardinality({d \in clients : Ip[d] = Ip[c]}) < MaxPerIP

\* case client := <-h.register
HubAdmits ==
    /\ hub = "select"
    /\ register # <<>>
    /\ WriteLock
    /\ Acceptable(Head(register))
    /\ clients' = clients \cup {Head(register)}
    /\ register' = Tail(register)
    /\ UNCHANGED <<peerVars, sendVars, unregister, broadcast, stop, hub, message, hubTodo, slow, relayVars, histVars>>

HubRefuses ==
    /\ hub = "select"
    /\ register # <<>>
    /\ WriteLock
    /\ ~ Acceptable(Head(register))
    /\ CloseConn({Head(register)})
    /\ register' = Tail(register)
    /\ UNCHANGED <<reader, writer, batch, got, sendVars, unregister, broadcast, hubVars, relayVars, histVars>>

\* Mutant: without the mutex.
HubUnregistersUnlocked ==
    /\ hub = "select"
    /\ unregister # <<>>
    /\ clients' = clients \ {Head(unregister)}
    /\ CloseSend(clients \cap {Head(unregister)})
    /\ unregister' = Tail(unregister)
    /\ UNCHANGED <<peerVars, send, register, broadcast, stop, hub, message, hubTodo, slow, relayVars, histVars>>

\* case client := <-h.unregister: only a client that is still there.
HubUnregisters ==
    /\ hub = "select"
    /\ unregister # <<>>
    /\ WriteLock
    /\ clients' = clients \ {Head(unregister)}
    /\ CloseSend(clients \cap {Head(unregister)})
    /\ unregister' = Tail(unregister)
    /\ UNCHANGED <<peerVars, send, register, broadcast, stop, hub, message, hubTodo, slow, relayVars, histVars>>

\* case message := <-h.broadcast, under the read lock
HubBroadcasts ==
    /\ hub = "select"
    /\ broadcast # <<>>
    /\ message' = Head(broadcast)
    /\ broadcast' = Tail(broadcast)
    /\ hub' = "sending"
    /\ hubTodo' = clients
    /\ Owe(clients, Head(broadcast))
    /\ UNCHANGED <<peerVars, sendVars, register, unregister, clients, stop, slow, relayVars, missed>>

HubSends(c) ==
    /\ c \in hubTodo
    /\ TrySend(c, message)
    /\ slow' = IF Len(send[c]) = SendBuffer THEN slow \cup {c} ELSE slow
    /\ hubTodo' = hubTodo \ {c}
    /\ UNCHANGED <<peerVars, closed, queueVars, clients, stop, hub, message, relayVars, owed>>

\* h.mu.RUnlock(), and no client was slow.
HubReleases ==
    /\ hub = "sending"
    /\ hubTodo = {}
    /\ slow = {}
    /\ hub' = "select"
    /\ UNCHANGED <<peerVars, sendVars, queueVars, clients, stop, message, hubTodo, slow, relayVars, histVars>>

\* The slow clients are removed, under the write lock; their pumps close the
\* connections.
HubRemovesSlow ==
    /\ hub = "sending"
    /\ hubTodo = {}
    /\ slow # {}
    /\ WriteLock
    /\ clients' = clients \ slow
    /\ CloseSend(clients \cap slow)
    /\ slow' = {}
    /\ hub' = "select"
    /\ UNCHANGED <<peerVars, send, queueVars, stop, message, hubTodo, relayVars, histVars>>

Stuck == {c \in clients : Len(send[c]) = SendBuffer}

\* case <-staleTicker.C: cleanupStaleConnections
HubCleansStale ==
    /\ hub = "select"
    /\ WriteLock
    /\ Stuck # {}
    /\ clients' = clients \ Stuck
    /\ CloseSend(Stuck)
    /\ CloseConn(Stuck)
    /\ UNCHANGED <<reader, writer, batch, got, send, queueVars, stop, hub, message, hubTodo, slow, relayVars, histVars>>

\* case <-h.stop: the event loop ends.
HubStops ==
    /\ hub = "select"
    /\ stop
    /\ WriteLock
    /\ clients' = {}
    /\ CloseSend(clients)
    /\ CloseConn(clients)
    /\ hub' = "stopped"
    /\ UNCHANGED <<reader, writer, batch, got, send, queueVars, stop, message, hubTodo, slow, relayVars, histVars>>

\* Stop: close(h.stop)
Stop ==
    /\ ~ stop
    /\ stop' = TRUE
    /\ UNCHANGED <<peerVars, sendVars, queueVars, clients, hub, message, hubTodo, slow, relayVars, histVars>>

-----------------------------------------------------------------------------

ReadPump(c)  == ReadFails(c) \/ ReaderUnregisters(c) \/ ReaderCloses(c)
WritePump(c) == \/ WriterTakes(c) \/ WriterDrains(c) \/ FrameWritten(c) \/ WriteFails(c)
                \/ PingFails(c) \/ WriterSeesClosed(c)
                \/ WriterUnregisters(c) \/ WriterCloses(c)
Relay == RelayReceives \/ (\E c \in Clients : RelaySends(c)) \/ RelayReleases
Run == \/ HubAdmits \/ HubRefuses \/ HubUnregisters
       \/ HubBroadcasts \/ (\E c \in Clients : HubSends(c)) \/ HubReleases \/ HubRemovesSlow
       \/ HubCleansStale \/ HubStops

Next ==
    \/ \E c \in Clients : Connect(c) \/ PeerLeaves(c) \/ ReadPump(c) \/ WritePump(c)
    \/ Relay \/ Broadcast \/ Run \/ Stop

Spec == Init /\ [][Next]_vars

\* The pumps run, every read and write has a deadline, a ping on a dead
\* connection fails.  The relay and the event loop finish what they began.
\* The select picks at random among ready cases, and a writer that waits for
\* the mutex keeps new readers out: what is possible again and again is done.
Fairness ==
    /\ \A c \in Clients :
          /\ WF_vars(ReadPump(c))
          /\ WF_vars(WriterTakes(c) \/ WriterDrains(c) \/ FrameWritten(c) \/ WriteFails(c)
                      \/ WriterSeesClosed(c) \/ WriterUnregisters(c) \/ WriterCloses(c))
          /\ WF_vars(conn[c] \in {"gone", "closed"} /\ PingFails(c))
          /\ WF_vars(RelaySends(c))
          /\ WF_vars(HubSends(c))
    /\ WF_vars(RelayReleases)
    /\ WF_vars(HubReleases \/ HubRemovesSlow)
    /\ SF_vars(HubAdmits \/ HubRefuses)
    /\ SF_vars(HubUnregisters)

FairSpec == Spec /\ Fairness

-----------------------------------------------------------------------------

PeerTypeOK ==
    /\ conn \in [Clients -> {"none", "open", "gone", "closed"}]
    /\ reader \in [Clients -> {"none", "reading", "leaving", "closing", "done"}]
    /\ writer \in [Clients -> {"none", "select", "draining", "writing", "leaving", "closing", "done"}]
    /\ batch \in [Clients -> Seq(Messages)]
    /\ got \in [Clients -> Seq(Messages)]

SendTypeOK ==
    /\ send \in [Clients -> Seq(Messages)]
    /\ \A c \in Clients : Len(send[c]) <= SendBuffer
    /\ closed \in [Clients -> BOOLEAN]

QueueTypeOK ==
    /\ register \in Seq(Clients)
    /\ unregister \in Seq(Clients)
    /\ broadcast \in Seq(Messages)

HubTypeOK ==
    /\ clients \subseteq Clients
    /\ stop \in BOOLEAN
    /\ hub \in {"select", "sending", "stopped"}
    /\ hub = "sending" => message \in Messages
    /\ hubTodo \subseteq Clients
    /\ slow \subseteq Clients

RelayTypeOK ==
    /\ relay \in 0..edits
    /\ relayTodo \subseteq Clients
    /\ edits \in 0..MaxEdits
    /\ alerts \in 0..MaxAlerts

HistoryTypeOK ==
    /\ owed \in [Clients -> SUBSET Messages]
    /\ missed \in [Clients -> SUBSET Messages]

\* The values of the variables; a send channel never holds more than its capacity.
TypeOK ==
    /\ PeerTypeOK /\ SendTypeOK /\ QueueTypeOK
    /\ HubTypeOK /\ RelayTypeOK /\ HistoryTypeOK

\* Nobody sends on a closed channel, which would panic in the relay or in the
\* event loop: a client that a loop still has to reach has an open channel,
\* although unregister, the slow-client path, the stale check and stop close it.
NoSendOnClosed ==
    \A c \in relayTodo \cup hubTodo : ~ closed[c]

\* What the relay or the event loop is about to send to the client.
InFlight(c) ==
    (IF c \in relayTodo THEN {<<"edit", relay>>} ELSE {})
        \cup (IF c \in hubTodo THEN {message} ELSE {})

\* As long as a client is registered, its peer there and its write pump in its
\* loop, whatever was sent out since it was registered and that its filter lets
\* through has arrived, is on its way, or met a full channel: nothing else
\* loses a message.
NothingLostSilently ==
    \A c \in clients :
        conn[c] = "open" /\ writer[c] \in {"select", "draining", "writing"} =>
            owed[c] = ToSet(got[c] \o batch[c] \o send[c]) \cup InFlight(c) \cup missed[c]

\* The hub is a Feed: a peer gets only messages sent out while it was
\* registered and that it wants, in order, each once.
Published ==
    {<<"edit", n>> : n \in 1..edits} \cup {<<"alert", n>> : n \in 1..(alerts - Len(broadcast))}

FeedOfHub == INSTANCE Feed WITH published <- Published, members <- clients

ImplementsFeed == FeedOfHub!Spec

-----------------------------------------------------------------------------

Left(c) ==
    /\ c \notin clients
    /\ c \notin ToSet(register)
    /\ conn[c] = "closed"
    /\ reader[c] = "done"
    /\ writer[c] = "done"

\* While the hub is not told to stop, a client whose peer is gone, whose
\* connection was refused, or whose channel was closed leaves the set of clients
\* and its pumps end: neither a place nor a goroutine leaks, whichever of the
\* registration and the two unregistrations the event loop takes first.
ClientsLeave ==
    \A c \in Clients :
        conn[c] \in {"gone", "closed"} \/ closed[c] ~> Left(c) \/ stop
=============================================================================
