------------------------- MODULE WebSocketHubProofs -------------------------
(***************************************************************************)
(* Proofs about WebSocketHub, for every set of clients, every filter, all  *)
(* limits and capacities, any number of edits and alerts.                  *)
(***************************************************************************)
EXTENDS WebSocketHub, SequenceFacts, TLAPS

LEMMA Bounds == MaxEdits \in Nat /\ MaxAlerts \in Nat /\ SendBuffer \in Nat \ {0}
  BY HubAssumption

USE Bounds

-----------------------------------------------------------------------------
(* Types.                                                                  *)

\* A loop that is over has no client to reach.
LoopInv ==
    /\ relay = 0 => relayTodo = {}
    /\ hub # "sending" => hubTodo = {}

\* A message of the event loop and an edit of the relay are messages.
LEMMA MessageTypes ==
    /\ \A n \in 1..MaxEdits : <<"edit", n>> \in Messages
    /\ \A n \in 1..MaxAlerts : <<"alert", n>> \in Messages
  BY DEF Messages

LEMMA TypesStart == Init => TypeOK
  <1> SUFFICES ASSUME Init
               PROVE  TypeOK
    OBVIOUS
  <1> USE EmptySequence DEF Init
  <1>1. PeerTypeOK  BY DEF PeerTypeOK
  <1>2. SendTypeOK  BY DEF SendTypeOK
  <1>3. QueueTypeOK  BY DEF QueueTypeOK
  <1>4. HubTypeOK  BY DEF HubTypeOK
  <1>5. RelayTypeOK  BY DEF RelayTypeOK
  <1>6. HistoryTypeOK  BY DEF HistoryTypeOK
  <1> QED  BY <1>1, <1>2, <1>3, <1>4, <1>5, <1>6 DEF TypeOK

LEMMA TryTypes ==
    ASSUME TypeOK, NEW c \in Clients, NEW m \in Messages, TrySend(c, m)
    PROVE  /\ send' \in [Clients -> Seq(Messages)]
           /\ \A d \in Clients : Len(send'[d]) <= SendBuffer
           /\ missed' \in [Clients -> SUBSET Messages]
  <1> USE DEF TypeOK, SendTypeOK, HistoryTypeOK
  <1>1. send[c] \in Seq(Messages) /\ Len(send[c]) \in Nat
    OBVIOUS
  <1>2. CASE Len(send[c]) < SendBuffer /\ send' = [send EXCEPT ![c] = Append(@, m)]
             /\ UNCHANGED missed
    <2>1. send'[c] = Append(send[c], m) /\ Len(send'[c]) = Len(send[c]) + 1
      BY <1>1, <1>2
    <2>2. \A d \in Clients : d # c => send'[d] = send[d]
      BY <1>2
    <2>3. Append(send[c], m) \in Seq(Messages)
      BY <1>1
    <2>4. send' \in [Clients -> Seq(Messages)]
      BY <1>2, <2>3
    <2> QED  BY <1>1, <1>2, <2>1, <2>2, <2>4
  <1>3. CASE missed' = [missed EXCEPT ![c] = @ \cup {m}] /\ UNCHANGED send
    BY <1>3
  <1> QED  BY <1>2, <1>3 DEF TrySend

\* A queue is left alone, or gets a client, or loses its head.
LEMMA QueuesKept ==
    ASSUME QueueTypeOK,
           \/ register' = register
           \/ \E c \in Clients : register' = Append(register, c)
           \/ register # <<>> /\ register' = Tail(register),
           \/ unregister' = unregister
           \/ \E c \in Clients : unregister' = Append(unregister, c)
           \/ unregister # <<>> /\ unregister' = Tail(unregister),
           broadcast' = broadcast
    PROVE  QueueTypeOK'
  <1> USE DEF QueueTypeOK
  <1>1. \A c \in Clients : /\ Append(register, c) \in Seq(Clients)
                           /\ Append(unregister, c) \in Seq(Clients)
    OBVIOUS
  <1>2. register # <<>> => Tail(register) \in Seq(Clients)
    OBVIOUS
  <1>3. unregister # <<>> => Tail(unregister) \in Seq(Clients)
    OBVIOUS
  <1>4. register' \in Seq(Clients) /\ unregister' \in Seq(Clients)
    BY <1>1, <1>2, <1>3
  <1> QED  BY <1>4

LEMMA ConnectTypes ==
    ASSUME TypeOK, NEW c \in Clients, Connect(c) \/ PeerLeaves(c)
    PROVE  TypeOK'
  <1> USE DEF Connect, PeerLeaves, peerVars, sendVars, queueVars, hubVars, relayVars, histVars, TypeOK
  <1>1. PeerTypeOK'  BY DEF PeerTypeOK
  <1>2. SendTypeOK'  BY DEF SendTypeOK
  <1>3. QueueTypeOK'  BY QueuesKept
  <1>4. HubTypeOK'  BY DEF HubTypeOK
  <1>5. RelayTypeOK'  BY DEF RelayTypeOK
  <1>6. HistoryTypeOK'  BY DEF HistoryTypeOK
  <1> QED  BY <1>1, <1>2, <1>3, <1>4, <1>5, <1>6

LEMMA ReadPumpTypes ==
    ASSUME TypeOK, NEW c \in Clients, ReadPump(c)
    PROVE  TypeOK'
  <1> USE DEF ReadPump, ReadFails, ReaderUnregisters, ReaderCloses, CloseConn,
              peerVars, sendVars, queueVars, hubVars, relayVars, histVars, TypeOK
  <1>1. PeerTypeOK'  BY DEF PeerTypeOK
  <1>2. SendTypeOK'  BY DEF SendTypeOK
  <1>3. QueueTypeOK'  BY QueuesKept
  <1>4. HubTypeOK'  BY DEF HubTypeOK
  <1>5. RelayTypeOK'  BY DEF RelayTypeOK
  <1>6. HistoryTypeOK'  BY DEF HistoryTypeOK
  <1> QED  BY <1>1, <1>2, <1>3, <1>4, <1>5, <1>6

LEMMA WritePumpTypes ==
    ASSUME TypeOK, NEW c \in Clients, WritePump(c)
    PROVE  TypeOK'
  <1>1. /\ send[c] \in Seq(Messages) /\ batch[c] \in Seq(Messages) /\ got[c] \in Seq(Messages)
        /\ batch[c] \o send[c] \in Seq(Messages) /\ got[c] \o batch[c] \in Seq(Messages)
        /\ <<>> \in Seq(Messages) /\ Len(<<>>) <= SendBuffer
        /\ send[c] # <<>> => /\ <<Head(send[c])>> \in Seq(Messages)
                             /\ Tail(send[c]) \in Seq(Messages)
                             /\ Len(Tail(send[c])) <= SendBuffer
    BY EmptySequence DEF TypeOK, SendTypeOK, PeerTypeOK
  <1> USE DEF TypeOK
  <1>2. PeerTypeOK'
    <2> USE <1>1 DEF PeerTypeOK
    <2>1. CASE WriterTakes(c)  BY <2>1 DEF WriterTakes
    <2>2. CASE WriterDrains(c)  BY <2>2 DEF WriterDrains
    <2>3. CASE FrameWritten(c)  BY <2>3 DEF FrameWritten
    <2>4. CASE WriteFails(c)  BY <2>4 DEF WriteFails
    <2>5. CASE PingFails(c) \/ WriterSeesClosed(c) \/ WriterUnregisters(c) \/ WriterCloses(c)
      BY <2>5 DEF PingFails, WriterSeesClosed, WriterUnregisters, WriterCloses, CloseConn
    <2> QED  BY <2>1, <2>2, <2>3, <2>4, <2>5 DEF WritePump
  <1>3. SendTypeOK'
    <2> USE <1>1 DEF SendTypeOK, sendVars
    <2>1. CASE WriterTakes(c)  BY <2>1 DEF WriterTakes
    <2>2. CASE WriterDrains(c)  BY <2>2 DEF WriterDrains
    <2>3. CASE UNCHANGED sendVars  BY <2>3
    <2> QED  BY <2>1, <2>2, <2>3 DEF WritePump, FrameWritten, WriteFails, PingFails,
                 WriterSeesClosed, WriterUnregisters, WriterCloses
  <1> USE DEF WritePump, WriterTakes, WriterDrains, FrameWritten, WriteFails, PingFails,
              WriterSeesClosed, WriterUnregisters, WriterCloses,
              queueVars, hubVars, relayVars, histVars
  <1>4. QueueTypeOK'  BY QueuesKept
  <1>5. HubTypeOK'  BY DEF HubTypeOK
  <1>6. RelayTypeOK'  BY DEF RelayTypeOK
  <1>7. HistoryTypeOK'  BY DEF HistoryTypeOK
  <1> QED  BY <1>2, <1>3, <1>4, <1>5, <1>6, <1>7

LEMMA RelayTypes ==
    ASSUME TypeOK, LoopInv, Relay \/ Broadcast \/ Stop
    PROVE  TypeOK'
  <1> USE DEF TypeOK
  <1>1. CASE RelayReceives
    <2> USE <1>1 DEF RelayReceives, peerVars, sendVars, queueVars, hubVars
    <2>1. edits' \in 1..MaxEdits /\ <<"edit", edits'>> \in Messages
      BY MessageTypes DEF RelayTypeOK
    <2>2. PeerTypeOK' /\ SendTypeOK' /\ HubTypeOK'
      BY DEF PeerTypeOK, SendTypeOK, HubTypeOK
    <2>3. QueueTypeOK'  BY DEF QueueTypeOK
    <2>4. RelayTypeOK'  BY <2>1 DEF RelayTypeOK, HubTypeOK
    <2>5. HistoryTypeOK'
      <3>1. \A d \in Clients : owed[d] \cup (IF d \in relayTodo' THEN {<<"edit", edits'>>} ELSE {})
                \in SUBSET Messages
        BY <2>1 DEF HistoryTypeOK
      <3> QED  BY <3>1 DEF HistoryTypeOK, Owe
    <2> QED  BY <2>2, <2>3, <2>4, <2>5
  <1>2. ASSUME NEW c \in Clients, RelaySends(c)
        PROVE  TypeOK'
    <2> USE <1>2 DEF RelaySends, peerVars, queueVars, hubVars
    <2>1. relay # 0 /\ <<"edit", relay>> \in Messages
      BY MessageTypes DEF LoopInv, RelayTypeOK
    <2>2. SendTypeOK' /\ HistoryTypeOK'
      BY <2>1, TryTypes DEF SendTypeOK, HistoryTypeOK
    <2>3. PeerTypeOK'  BY DEF PeerTypeOK
    <2>4. QueueTypeOK'  BY QueuesKept
    <2>5. HubTypeOK' /\ RelayTypeOK'  BY DEF HubTypeOK, RelayTypeOK
    <2> QED  BY <2>2, <2>3, <2>4, <2>5
  <1>3. CASE RelayReleases \/ Broadcast \/ Stop
    <2> USE <1>3 DEF RelayReleases, Broadcast, Stop, peerVars, sendVars, hubVars, histVars, queueVars
    <2>1. PeerTypeOK'  BY DEF PeerTypeOK
    <2>2. SendTypeOK'  BY DEF SendTypeOK
    <2>3. HubTypeOK'  BY DEF HubTypeOK
    <2>4. HistoryTypeOK'  BY DEF HistoryTypeOK
    <2>5. RelayTypeOK'
      <3>1. CASE RelayReleases  BY <3>1 DEF RelayTypeOK
      <3>2. CASE Broadcast  BY <3>2 DEF RelayTypeOK
      <3>3. CASE Stop  BY <3>3 DEF RelayTypeOK, relayVars
      <3> QED  BY <3>1, <3>2, <3>3, <1>3
    <2>6. QueueTypeOK'
      <3>1. CASE Broadcast
        <4>1. <<"alert", alerts'>> \in Messages
          BY <3>1, <2>5, MessageTypes DEF RelayTypeOK
        <4> QED  BY <3>1, <4>1 DEF QueueTypeOK
      <3> QED  BY <3>1 DEF QueueTypeOK
    <2> QED  BY <2>1, <2>2, <2>3, <2>4, <2>5, <2>6
  <1> QED  BY <1>1, <1>2, <1>3 DEF Relay

LEMMA RunTypes ==
    ASSUME TypeOK, LoopInv, Run
    PROVE  TypeOK'
  <1> USE DEF TypeOK
  <1>1. CASE HubBroadcasts
    <2> USE <1>1 DEF HubBroadcasts, peerVars, sendVars, relayVars
    <2>1. Head(broadcast) \in Messages /\ Tail(broadcast) \in Seq(Messages)
      BY DEF QueueTypeOK
    <2>2. PeerTypeOK' /\ SendTypeOK' /\ RelayTypeOK'
      BY DEF PeerTypeOK, SendTypeOK, RelayTypeOK
    <2>3. QueueTypeOK'  BY <2>1 DEF QueueTypeOK
    <2>4. HubTypeOK'  BY <2>1 DEF HubTypeOK
    <2>5. HistoryTypeOK'
      <3>1. \A d \in Clients : owed[d] \cup (IF d \in clients THEN {Head(broadcast)} ELSE {})
                \in SUBSET Messages
        BY <2>1 DEF HistoryTypeOK
      <3> QED  BY <3>1 DEF HistoryTypeOK, Owe
    <2> QED  BY <2>2, <2>3, <2>4, <2>5
  <1>2. ASSUME NEW c \in Clients, HubSends(c)
        PROVE  TypeOK'
    <2> USE <1>2 DEF HubSends, peerVars, queueVars, relayVars
    <2>1. message \in Messages
      BY DEF LoopInv, HubTypeOK
    <2>2. SendTypeOK' /\ HistoryTypeOK'
      BY <2>1, TryTypes DEF SendTypeOK, HistoryTypeOK
    <2>3. PeerTypeOK' /\ RelayTypeOK'  BY DEF PeerTypeOK, RelayTypeOK
    <2>4. QueueTypeOK'  BY QueuesKept
    <2>5. HubTypeOK'  BY DEF HubTypeOK
    <2> QED  BY <2>2, <2>3, <2>4, <2>5
  <1>3. CASE HubAdmits \/ HubRefuses \/ HubUnregisters \/ HubReleases
             \/ HubRemovesSlow \/ HubCleansStale \/ HubStops
    <2> USE <1>3 DEF HubAdmits, HubRefuses, HubUnregisters, HubReleases, HubRemovesSlow,
                     HubCleansStale, HubStops, peerVars, sendVars, queueVars, relayVars, histVars
    <2>1. PeerTypeOK'  BY DEF PeerTypeOK, CloseConn
    <2>2. SendTypeOK'  BY DEF SendTypeOK, CloseSend
    <2>3. QueueTypeOK'  BY QueuesKept
    <2>4. HubTypeOK'
      <3>1. CASE HubAdmits
        <4>1. Head(register) \in Clients
          BY <3>1 DEF QueueTypeOK
        <4> QED  BY <3>1, <4>1 DEF HubTypeOK
      <3>2. CASE HubRefuses  BY <3>2 DEF HubTypeOK, hubVars
      <3>3. CASE HubUnregisters  BY <3>3 DEF HubTypeOK
      <3>4. CASE HubReleases  BY <3>4 DEF HubTypeOK
      <3>5. CASE HubRemovesSlow \/ HubCleansStale \/ HubStops  BY <3>5 DEF HubTypeOK
      <3> QED  BY <3>1, <3>2, <3>3, <3>4, <3>5, <1>3
    <2>5. RelayTypeOK' /\ HistoryTypeOK'  BY DEF RelayTypeOK, HistoryTypeOK
    <2> QED  BY <2>1, <2>2, <2>3, <2>4, <2>5
  <1> QED  BY <1>1, <1>2, <1>3 DEF Run

LEMMA StutterTypes ==
    ASSUME TypeOK, UNCHANGED vars
    PROVE  TypeOK'
  <1> USE DEF vars, peerVars, sendVars, queueVars, hubVars, relayVars, histVars, TypeOK
  <1>1. PeerTypeOK' /\ SendTypeOK'  BY DEF PeerTypeOK, SendTypeOK
  <1>2. QueueTypeOK'  BY DEF QueueTypeOK
  <1>3. HubTypeOK' /\ RelayTypeOK' /\ HistoryTypeOK'
    BY DEF HubTypeOK, RelayTypeOK, HistoryTypeOK
  <1> QED  BY <1>1, <1>2, <1>3

LEMMA TypesKept ==
    ASSUME TypeOK, LoopInv, [Next]_vars
    PROVE  TypeOK'
  BY ConnectTypes, ReadPumpTypes, WritePumpTypes, RelayTypes, RunTypes, StutterTypes DEF Next

-----------------------------------------------------------------------------
(* Channels: closed when the client leaves the hub, and only then.         *)

\* The strengthening of NoSendOnClosed.  A loop reaches registered clients
\* only, for it holds the lock; a registered client, one that waits for its
\* registration and one to come have an open channel, and no client is queued
\* for registration twice.
ChannelInv ==
    /\ LoopInv
    /\ relayTodo \subseteq clients
    /\ hubTodo \subseteq clients
    /\ \A c \in clients : ~ closed[c]
    /\ \A c \in ToSet(register) : c \notin clients /\ ~ closed[c] /\ conn[c] # "none"
    /\ \A c \in Clients : conn[c] = "none" => c \notin clients /\ ~ closed[c]
    /\ IsInjective(register)

LEMMA ChannelsStart == Init => ChannelInv
  BY DEF Init, ChannelInv, LoopInv, ToSet, IsInjective

\* A step that touches neither the channels, the set of clients nor the lock.
LEMMA ChannelsUntouched ==
    ASSUME ChannelInv,
           UNCHANGED <<closed, clients, register, relay, relayTodo, hub, hubTodo>>,
           \A c \in Clients : conn'[c] = "none" => conn[c] = "none",
           TypeOK
    PROVE  ChannelInv'
  <1>1. ToSet(register) \subseteq Clients
    BY ToSetType DEF TypeOK, QueueTypeOK
  <1> QED  BY <1>1 DEF ChannelInv, LoopInv

LEMMA PumpChannels ==
    ASSUME TypeOK, ChannelInv, NEW c \in Clients,
           PeerLeaves(c) \/ ReadPump(c) \/ WritePump(c)
    PROVE  ChannelInv'
  <1>1. \A d \in Clients : conn'[d] = "none" => conn[d] = "none"
    BY DEF TypeOK, PeerTypeOK, PeerLeaves, ReadPump, ReadFails, ReaderUnregisters, ReaderCloses,
           WritePump, WriterTakes, WriterDrains, FrameWritten, WriteFails, PingFails,
           WriterSeesClosed, WriterUnregisters, WriterCloses, CloseConn
  <1>2. UNCHANGED <<closed, clients, register, relay, relayTodo, hub, hubTodo>>
    BY DEF PeerLeaves, ReadPump, ReadFails, ReaderUnregisters, ReaderCloses,
           WritePump, WriterTakes, WriterDrains, FrameWritten, WriteFails, PingFails,
           WriterSeesClosed, WriterUnregisters, WriterCloses,
           sendVars, queueVars, hubVars, relayVars
  <1> QED  BY <1>1, <1>2, ChannelsUntouched

LEMMA ConnectChannels ==
    ASSUME TypeOK, ChannelInv, NEW c \in Clients, Connect(c)
    PROVE  ChannelInv'
  <1>1. /\ conn[c] = "none" /\ register' = Append(register, c)
        /\ conn' = [conn EXCEPT ![c] = "open"]
        /\ UNCHANGED <<closed, clients, relay, relayTodo, hub, hubTodo>>
    BY DEF Connect, sendVars, hubVars, relayVars
  <1>2. c \notin ToSet(register) /\ c \notin clients /\ ~ closed[c]
    BY <1>1 DEF ChannelInv
  <1>3. ToSet(register') = ToSet(register) \cup {c} /\ ToSet(register) \subseteq Clients
    BY <1>1, ToSetAppend, ToSetType DEF TypeOK, QueueTypeOK
  <1>4. IsInjective(register')
    BY <1>1, <1>2, AppendDistinct DEF TypeOK, QueueTypeOK, ChannelInv
  <1>5. conn'[c] = "open" /\ \A d \in Clients : d # c => conn'[d] = conn[d]
    BY <1>1 DEF TypeOK, PeerTypeOK
  <1> QED  BY <1>1, <1>2, <1>3, <1>4, <1>5 DEF ChannelInv, LoopInv

LEMMA RelayChannels ==
    ASSUME TypeOK, ChannelInv, Relay \/ Broadcast \/ Stop
    PROVE  ChannelInv'
  <1>1. CASE Broadcast \/ Stop
    BY <1>1, ChannelsUntouched DEF Broadcast, Stop, peerVars, sendVars, queueVars, hubVars, relayVars
  <1>2. CASE RelayReceives
    <2>1. /\ UNCHANGED <<closed, clients, register, hub, hubTodo, conn>>
          /\ relay' # 0 /\ relayTodo' \subseteq clients
      BY <1>2 DEF RelayReceives, peerVars, sendVars, queueVars, hubVars, TypeOK, RelayTypeOK
    <2> QED  BY <2>1 DEF ChannelInv, LoopInv
  <1>3. CASE RelayReleases \/ \E c \in Clients : RelaySends(c)
    <2>1. /\ UNCHANGED <<closed, clients, register, hub, hubTodo, conn>>
          /\ relayTodo' \subseteq relayTodo /\ (relay' = 0 => relayTodo' = {})
      BY <1>3 DEF RelayReleases, RelaySends, peerVars, sendVars, queueVars, hubVars,
                  ChannelInv, LoopInv
    <2> QED  BY <2>1 DEF ChannelInv, LoopInv
  <1> QED  BY <1>1, <1>2, <1>3 DEF Relay

\* The clients that leave are those whose channel is closed, while no loop has
\* a client to reach.
LEMMA RemovalChannels ==
    ASSUME TypeOK, ChannelInv, NEW C \in SUBSET clients,
           relayTodo = {}, hubTodo = {},
           clients' = clients \ C, CloseSend(C),
           UNCHANGED <<register, relay, relayTodo, hubTodo>>,
           \A c \in Clients : conn'[c] = "none" => conn[c] = "none"
    PROVE  ChannelInv'
  <1>1. ToSet(register) \subseteq Clients
    BY ToSetType DEF TypeOK, QueueTypeOK
  <1>2. clients \subseteq Clients /\ closed \in [Clients -> BOOLEAN]
    BY DEF TypeOK, HubTypeOK, SendTypeOK
  <1>3. \A c \in Clients : closed'[c] => closed[c] \/ c \in C
    BY <1>2 DEF CloseSend
  <1> QED  BY <1>1, <1>2, <1>3 DEF ChannelInv, LoopInv

LEMMA RunChannels ==
    ASSUME TypeOK, ChannelInv, Run
    PROVE  ChannelInv'
  <1>1. ToSet(register) \subseteq Clients
    BY ToSetType DEF TypeOK, QueueTypeOK
  <1>2. CASE HubAdmits
    <2>1. /\ register # <<>> /\ register' = Tail(register)
          /\ clients' = clients \cup {Head(register)}
          /\ UNCHANGED <<closed, conn, relay, relayTodo, hub, hubTodo>>
      BY <1>2 DEF HubAdmits, peerVars, sendVars, relayVars
    <2>2. ToSet(register) = {Head(register)} \cup ToSet(Tail(register))
      BY <2>1, ToSetHead DEF TypeOK, QueueTypeOK
    <2>3. IsInjective(Tail(register)) /\ Head(register) \notin ToSet(Tail(register))
      BY <2>1, TailDistinct DEF TypeOK, QueueTypeOK, ChannelInv
    <2> QED  BY <1>1, <2>1, <2>2, <2>3 DEF ChannelInv, LoopInv
  <1>3. CASE HubRefuses
    <2>1. /\ register # <<>> /\ register' = Tail(register) /\ CloseConn({Head(register)})
          /\ UNCHANGED <<closed, clients, relay, relayTodo, hub, hubTodo>>
      BY <1>3 DEF HubRefuses, hubVars, sendVars, relayVars
    <2>2. ToSet(register) = {Head(register)} \cup ToSet(Tail(register))
      BY <2>1, ToSetHead DEF TypeOK, QueueTypeOK
    <2>3. IsInjective(Tail(register))
      BY <2>1, TailDistinct DEF TypeOK, QueueTypeOK, ChannelInv
    <2>4. \A c \in Clients : conn'[c] = "none" => conn[c] = "none"
      BY <2>1 DEF CloseConn
    <2> QED  BY <1>1, <2>1, <2>2, <2>3, <2>4 DEF ChannelInv, LoopInv
  <1>4. CASE HubUnregisters
    <2>1. relayTodo = {} /\ hubTodo = {}
      BY <1>4 DEF HubUnregisters, WriteLock, ChannelInv, LoopInv
    <2> DEFINE C == clients \cap {Head(unregister)}
    <2>2. /\ C \in SUBSET clients /\ clients' = clients \ C /\ CloseSend(C)
          /\ UNCHANGED <<register, relay, relayTodo, hubTodo, conn>>
      BY <1>4 DEF HubUnregisters, peerVars, relayVars
    <2> QED  BY <2>1, <2>2, RemovalChannels
  <1>5. CASE HubBroadcasts
    <2>1. /\ UNCHANGED <<closed, clients, register, relay, relayTodo, conn>>
          /\ hub' = "sending" /\ hubTodo' = clients
      BY <1>5 DEF HubBroadcasts, peerVars, sendVars, relayVars
    <2> QED  BY <2>1 DEF ChannelInv, LoopInv
  <1>6. CASE HubReleases \/ \E c \in Clients : HubSends(c)
    <2>1. /\ UNCHANGED <<closed, clients, register, relay, relayTodo, conn>>
          /\ hubTodo' \subseteq hubTodo /\ (hub' # "sending" => hubTodo' = {})
      BY <1>6 DEF HubReleases, HubSends, peerVars, sendVars, queueVars, relayVars, ChannelInv, LoopInv
    <2> QED  BY <2>1 DEF ChannelInv, LoopInv
  <1>7. CASE HubRemovesSlow
    <2>1. relayTodo = {} /\ hubTodo = {}
      BY <1>7 DEF HubRemovesSlow, WriteLock, ChannelInv, LoopInv
    <2> DEFINE C == clients \cap slow
    <2>2. /\ C \in SUBSET clients /\ clients' = clients \ C /\ CloseSend(C)
          /\ UNCHANGED <<register, relay, relayTodo, hubTodo, conn>>
      BY <1>7 DEF HubRemovesSlow, peerVars, queueVars, relayVars
    <2> QED  BY <2>1, <2>2, RemovalChannels
  <1>8. CASE HubCleansStale \/ HubStops
    <2>1. relayTodo = {} /\ hubTodo = {}
      BY <1>8 DEF HubCleansStale, HubStops, WriteLock, ChannelInv, LoopInv
    <2>2. PICK C \in SUBSET clients :
             /\ clients' = clients \ C /\ CloseSend(C) /\ CloseConn(C)
             /\ UNCHANGED <<register, relay, relayTodo, hubTodo>>
      <3>1. CASE HubCleansStale
        BY <3>1 DEF HubCleansStale, Stuck, queueVars, relayVars
      <3>2. CASE HubStops
        <4>1. clients \in SUBSET clients /\ clients \ clients = {}
          OBVIOUS
        <4> QED  BY <3>2, <4>1 DEF HubStops, queueVars, relayVars
      <3> QED  BY <3>1, <3>2, <1>8
    <2>3. \A c \in Clients : conn'[c] = "none" => conn[c] = "none"
      BY <2>2 DEF CloseConn
    <2> QED  BY <2>1, <2>2, <2>3, RemovalChannels
  <1> QED  BY <1>2, <1>3, <1>4, <1>5, <1>6, <1>7, <1>8 DEF Run

LEMMA ChannelsKept ==
    ASSUME TypeOK, ChannelInv, [Next]_vars
    PROVE  ChannelInv'
  <1>1. CASE UNCHANGED vars
    BY <1>1, ChannelsUntouched DEF vars, peerVars, sendVars, queueVars, hubVars, relayVars
  <1> QED  BY <1>1, ConnectChannels, PumpChannels, RelayChannels, RunChannels DEF Next

-----------------------------------------------------------------------------

-----------------------------------------------------------------------------
(* Messages: what a client is owed, and in which order it gets it.         *)

Held(c) == ToSet(got[c]) \cup ToSet(batch[c]) \cup ToSet(send[c])

\* No message of T comes before one of S.
AllBefore(S, T) == \A m \in S, n \in T : m # n /\ ~ FeedOfHub!Before(n, m)

\* Edits and broadcasts are numbered as they come; broadcast holds the last ones.
NumberInv ==
    /\ relay # 0 => relay = edits
    /\ Len(broadcast) <= alerts
    /\ \A i \in DOMAIN broadcast : broadcast[i] = <<"alert", alerts - Len(broadcast) + i>>
    /\ hub = "sending" => message = <<"alert", alerts - Len(broadcast)>>

\* The messages of a client, from its peer back to the loops: all owed, all
\* published, in order, and none in two places.
Line(c) ==
    /\ Held(c) \cup InFlight(c) \subseteq owed[c]
    /\ owed[c] \subseteq Published
    /\ Held(c) \cap InFlight(c) = {}
    /\ FeedOfHub!InOrder(got[c])
    /\ FeedOfHub!InOrder(batch[c])
    /\ FeedOfHub!InOrder(send[c])
    /\ AllBefore(ToSet(got[c]), ToSet(batch[c]) \cup ToSet(send[c]))
    /\ AllBefore(ToSet(batch[c]), ToSet(send[c]))

\* Nothing is owed to a client before it is registered.  Only a frame that is
\* being written is in batch.  What is owed to a client is where it should be.
Flow(c) ==
    /\ conn[c] = "none" \/ c \in ToSet(register) =>
          Held(c) = {} /\ owed[c] = {} /\ missed[c] = {}
    /\ conn[c] = "none" => writer[c] = "none"
    /\ c \in ToSet(register) => writer[c] = "select"
    /\ writer[c] \notin {"draining", "writing"} => batch[c] = <<>>
    /\ c \in clients /\ conn[c] = "open" /\ writer[c] \in {"select", "draining", "writing"} =>
          owed[c] \subseteq Held(c) \cup InFlight(c) \cup missed[c]
    /\ missed[c] \subseteq owed[c]

LineInv == \A c \in Clients : Line(c)
FlowInv == \A c \in Clients : Flow(c)
FeedInv == NumberInv /\ LineInv /\ FlowInv

-----------------------------------------------------------------------------

LEMMA ConcatInOrder ==
    ASSUME NEW s \in Seq(Messages), NEW t \in Seq(Messages),
           FeedOfHub!InOrder(s), FeedOfHub!InOrder(t), AllBefore(ToSet(s), ToSet(t))
    PROVE  FeedOfHub!InOrder(s \o t)
  <1> SUFFICES ASSUME NEW i \in DOMAIN (s \o t), NEW j \in DOMAIN (s \o t), i < j
               PROVE  (s \o t)[i] # (s \o t)[j]
                      /\ ~ FeedOfHub!Before((s \o t)[j], (s \o t)[i])
    BY DEF FeedOfHub!InOrder
  <1>1. /\ Len(s) \in Nat /\ Len(t) \in Nat /\ DOMAIN s = 1..Len(s) /\ DOMAIN t = 1..Len(t)
        /\ DOMAIN (s \o t) = 1..(Len(s) + Len(t))
        /\ \A k \in DOMAIN (s \o t) : (s \o t)[k] = IF k <= Len(s) THEN s[k] ELSE t[k - Len(s)]
    OBVIOUS
  <1>2. CASE j <= Len(s)
    BY <1>1, <1>2 DEF FeedOfHub!InOrder
  <1>3. CASE i <= Len(s) /\ Len(s) < j
    <2>1. (s \o t)[i] = s[i] /\ i \in DOMAIN s
      BY <1>1, <1>3
    <2>2. (s \o t)[j] = t[j - Len(s)] /\ j - Len(s) \in DOMAIN t
      BY <1>1, <1>3
    <2>3. s[i] \in ToSet(s) /\ t[j - Len(s)] \in ToSet(t)
      BY <2>1, <2>2 DEF ToSet
    <2> QED  BY <2>1, <2>2, <2>3 DEF AllBefore
  <1>4. CASE Len(s) < i
    <2>1. /\ (s \o t)[i] = t[i - Len(s)] /\ i - Len(s) \in DOMAIN t
          /\ (s \o t)[j] = t[j - Len(s)] /\ j - Len(s) \in DOMAIN t
          /\ i - Len(s) < j - Len(s)
      BY <1>1, <1>4
    <2> QED  BY <2>1 DEF FeedOfHub!InOrder
  <1> QED  BY <1>1, <1>2, <1>3, <1>4

LEMMA SingleInOrder ==
    ASSUME NEW m PROVE FeedOfHub!InOrder(<<m>>)
  BY DEF FeedOfHub!InOrder

LEMMA EmptyInOrder == FeedOfHub!InOrder(<<>>) /\ ToSet(<<>>) = {}
  BY DEF FeedOfHub!InOrder, ToSet

LEMMA TailInOrder ==
    ASSUME NEW s \in Seq(Messages), s # <<>>, FeedOfHub!InOrder(s)
    PROVE  FeedOfHub!InOrder(Tail(s)) /\ AllBefore({Head(s)}, ToSet(Tail(s)))
  <1>1. /\ DOMAIN s = 1..Len(s) /\ DOMAIN Tail(s) = 1..(Len(s) - 1)
        /\ Len(s) \in Nat /\ Len(s) >= 1 /\ Head(s) = s[1]
    OBVIOUS
  <1>2. \A i \in DOMAIN Tail(s) : Tail(s)[i] = s[i + 1] /\ i + 1 \in DOMAIN s /\ 1 < i + 1
    OBVIOUS
  <1>3. FeedOfHub!InOrder(Tail(s))
    <2>1. ASSUME NEW i \in DOMAIN Tail(s), NEW j \in DOMAIN Tail(s), i < j
          PROVE  Tail(s)[i] # Tail(s)[j] /\ ~ FeedOfHub!Before(Tail(s)[j], Tail(s)[i])
      BY <1>1, <1>2, <2>1 DEF FeedOfHub!InOrder
    <2> QED  BY <2>1 DEF FeedOfHub!InOrder
  <1>4. \A i \in DOMAIN Tail(s) : s[1] # s[i + 1] /\ ~ FeedOfHub!Before(s[i + 1], s[1])
    BY <1>1, <1>2 DEF FeedOfHub!InOrder
  <1>5. AllBefore({Head(s)}, ToSet(Tail(s)))
    BY <1>1, <1>2, <1>4 DEF AllBefore, ToSet
  <1> QED  BY <1>3, <1>5

LEMMA FeedStarts == Init => FeedInv
  <1> SUFFICES ASSUME Init
               PROVE  FeedInv
    OBVIOUS
  <1>1. NumberInv
    BY DEF Init, NumberInv
  <1>2. \A c \in Clients : Held(c) = {} /\ InFlight(c) = {} /\ owed[c] = {} /\ missed[c] = {}
    BY EmptyInOrder DEF Init, Held, InFlight
  <1>3. LineInv
    BY <1>2, EmptyInOrder DEF Init, LineInv, Line, AllBefore
  <1>4. ToSet(register) = {}
    BY EmptyInOrder DEF Init
  <1>5. FlowInv
    BY <1>2, <1>4 DEF Init, FlowInv, Flow
  <1> QED  BY <1>1, <1>3, <1>5 DEF FeedInv

\* The numbers.
LEMMA NumbersKept ==
    ASSUME TypeOK, NumberInv, [Next]_vars
    PROVE  NumberInv'
  <1> USE DEF NumberInv
  <1>1. alerts \in Nat /\ edits \in Nat /\ broadcast \in Seq(Messages) /\ Len(broadcast) \in Nat
    BY DEF TypeOK, RelayTypeOK, QueueTypeOK
  <1>2. CASE Broadcast
    <2>1. /\ alerts' = alerts + 1 /\ broadcast' = Append(broadcast, <<"alert", alerts'>>)
          /\ UNCHANGED <<relay, edits, hub, message>>
      BY <1>2 DEF Broadcast, hubVars
    <2>2. /\ Len(broadcast') = Len(broadcast) + 1
          /\ DOMAIN broadcast' = DOMAIN broadcast \cup {Len(broadcast) + 1}
          /\ \A i \in DOMAIN broadcast : broadcast'[i] = broadcast[i]
          /\ broadcast'[Len(broadcast) + 1] = <<"alert", alerts'>>
      BY <1>1, <2>1
    <2>3. /\ alerts' - Len(broadcast') = alerts - Len(broadcast)
          /\ alerts' - Len(broadcast') + (Len(broadcast) + 1) = alerts'
          /\ Len(broadcast') <= alerts'
      BY <1>1, <2>1, <2>2
    <2>4. \A i \in DOMAIN broadcast' :
              broadcast'[i] = <<"alert", alerts' - Len(broadcast') + i>>
      BY <2>2, <2>3
    <2> QED  BY <2>1, <2>3, <2>4
  <1>3. CASE HubBroadcasts
    <2>1. /\ broadcast # <<>> /\ message' = Head(broadcast) /\ broadcast' = Tail(broadcast)
          /\ UNCHANGED <<relay, edits, alerts>>
      BY <1>3 DEF HubBroadcasts, relayVars
    <2>2. /\ Len(broadcast') = Len(broadcast) - 1 /\ Len(broadcast) >= 1
          /\ 1 \in DOMAIN broadcast /\ message' = broadcast[1]
          /\ \A i \in DOMAIN broadcast' : i + 1 \in DOMAIN broadcast /\ i \in Nat
                                         /\ broadcast'[i] = broadcast[i + 1]
      BY <1>1, <2>1
    <2>3. message' = <<"alert", alerts' - Len(broadcast')>> /\ Len(broadcast') <= alerts'
      <3>1. message' = <<"alert", alerts - Len(broadcast) + 1>>
        BY <2>2
      <3>2. alerts - Len(broadcast) + 1 = alerts' - Len(broadcast')
        BY <1>1, <2>1, <2>2
      <3> QED  BY <1>1, <2>1, <2>2, <3>1, <3>2
    <2>4. ASSUME NEW i \in DOMAIN broadcast'
          PROVE  broadcast'[i] = <<"alert", alerts' - Len(broadcast') + i>>
      <3>1. broadcast'[i] = <<"alert", alerts - Len(broadcast) + (i + 1)>>
        BY <2>2
      <3>2. i \in Nat /\ alerts - Len(broadcast) + (i + 1) = alerts' - Len(broadcast') + i
        BY <1>1, <2>1, <2>2
      <3> QED  BY <3>1, <3>2
    <2> QED  BY <2>1, <2>3, <2>4
  <1>4. CASE RelayReceives \/ RelayReleases
    BY <1>1, <1>4 DEF RelayReceives, RelayReleases, hubVars, queueVars
  <1>5. CASE HubReleases \/ HubRemovesSlow \/ HubStops
    BY <1>5 DEF HubReleases, HubRemovesSlow, HubStops, queueVars, relayVars
  <1>6. CASE UNCHANGED <<broadcast, alerts, edits, relay, hub, message>>
    BY <1>6
  <1>7. ASSUME NEW c \in Clients, Connect(c) \/ PeerLeaves(c) \/ ReadPump(c) \/ WritePump(c)
        PROVE  UNCHANGED <<broadcast, alerts, edits, relay, hub, message>>
    BY <1>7 DEF Connect, PeerLeaves, ReadPump, ReadFails, ReaderUnregisters, ReaderCloses,
           WritePump, WriterTakes, WriterDrains, FrameWritten, WriteFails, PingFails,
           WriterSeesClosed, WriterUnregisters, WriterCloses, queueVars, hubVars, relayVars
  <1>8. ASSUME Stop \/ (\E c \in Clients : RelaySends(c) \/ HubSends(c))
               \/ HubAdmits \/ HubRefuses \/ HubUnregisters \/ HubCleansStale \/ UNCHANGED vars
        PROVE  UNCHANGED <<broadcast, alerts, edits, relay, hub, message>>
    BY <1>8 DEF Stop, RelaySends, HubSends, HubAdmits, HubRefuses, HubUnregisters,
           HubCleansStale, vars, queueVars, hubVars, relayVars
  <1> QED  BY <1>2, <1>3, <1>4, <1>5, <1>6, <1>7, <1>8 DEF Next, Relay, Run

-----------------------------------------------------------------------------
(* The lines.                                                              *)

\* A client whose channels and loops are left alone.
LEMMA LineUntouched ==
    ASSUME NEW c \in Clients, Line(c),
           got'[c] = got[c], batch'[c] = batch[c], send'[c] = send[c], owed'[c] = owed[c],
           InFlight(c)' = InFlight(c), Published \subseteq Published'
    PROVE  Line(c)'
  <1>1. Held(c)' = Held(c)
    BY DEF Held
  <1> QED  BY <1>1 DEF Line

LEMMA LineTypes ==
    ASSUME TypeOK, NEW c \in Clients
    PROVE  /\ got[c] \in Seq(Messages) /\ batch[c] \in Seq(Messages) /\ send[c] \in Seq(Messages)
           /\ ToSet(got[c]) \subseteq Messages /\ ToSet(batch[c]) \subseteq Messages
           /\ ToSet(send[c]) \subseteq Messages
  <1>1. got[c] \in Seq(Messages) /\ batch[c] \in Seq(Messages) /\ send[c] \in Seq(Messages)
    BY DEF TypeOK, PeerTypeOK, SendTypeOK
  <1> QED  BY <1>1, ToSetType

\* The write pump moves messages towards the peer, or drops a frame.
LEMMA PumpLine ==
    ASSUME TypeOK, NEW c \in Clients, Line(c), Flow(c),
           WriterTakes(c) \/ WriterDrains(c) \/ FrameWritten(c) \/ WriteFails(c),
           InFlight(c)' = InFlight(c), Published' = Published, owed' = owed
    PROVE  /\ Line(c)'
           /\ Held(c)' \subseteq Held(c)
           /\ WriteFails(c) \/ conn[c] # "open" \/ Held(c)' = Held(c)
  <1>1. got[c] \in Seq(Messages) /\ batch[c] \in Seq(Messages) /\ send[c] \in Seq(Messages)
    BY LineTypes
  <1> USE EmptyInOrder
  <1>2. CASE WriterTakes(c)
    <2>1. /\ got'[c] = got[c] /\ batch'[c] = <<Head(send[c])>> /\ send'[c] = Tail(send[c])
          /\ send[c] # <<>> /\ batch[c] = <<>>
      BY <1>2 DEF WriterTakes, TypeOK, PeerTypeOK, SendTypeOK, Flow
    <2>2. ToSet(send[c]) = {Head(send[c])} \cup ToSet(Tail(send[c]))
      BY <1>1, <2>1, ToSetHead
    <2>3. ToSet(<<Head(send[c])>>) = {Head(send[c])}
      BY DEF ToSet
    <2>4. /\ FeedOfHub!InOrder(Tail(send[c])) /\ FeedOfHub!InOrder(<<Head(send[c])>>)
          /\ AllBefore({Head(send[c])}, ToSet(Tail(send[c])))
      BY <1>1, <2>1, TailInOrder, SingleInOrder DEF Line
    <2>5. Held(c)' = Held(c)
      BY <2>1, <2>2, <2>3 DEF Held
    <2> QED  BY <2>1, <2>2, <2>3, <2>4, <2>5 DEF Line, AllBefore
  <1>3. CASE WriterDrains(c)
    <2>1. got'[c] = got[c] /\ batch'[c] = batch[c] \o send[c] /\ send'[c] = <<>>
      BY <1>3 DEF WriterDrains, TypeOK, PeerTypeOK, SendTypeOK
    <2>2. ToSet(batch[c] \o send[c]) = ToSet(batch[c]) \cup ToSet(send[c])
      BY <1>1, ToSetConcat
    <2>3. FeedOfHub!InOrder(batch[c] \o send[c])
      BY <1>1, ConcatInOrder DEF Line
    <2>4. Held(c)' = Held(c)
      BY <2>1, <2>2 DEF Held
    <2> QED  BY <2>1, <2>2, <2>3, <2>4 DEF Line, AllBefore
  <1>4. CASE FrameWritten(c) /\ conn[c] = "open"
    <2>1. got'[c] = got[c] \o batch[c] /\ batch'[c] = <<>> /\ send'[c] = send[c]
      BY <1>4 DEF FrameWritten, sendVars, TypeOK, PeerTypeOK
    <2>2. ToSet(got[c] \o batch[c]) = ToSet(got[c]) \cup ToSet(batch[c])
      BY <1>1, ToSetConcat
    <2>3. AllBefore(ToSet(got[c]), ToSet(batch[c]))
      BY DEF Line, AllBefore
    <2>4. FeedOfHub!InOrder(got[c] \o batch[c])
      BY <1>1, <2>3, ConcatInOrder DEF Line
    <2>5. Held(c)' = Held(c)
      BY <2>1, <2>2 DEF Held
    <2> QED  BY <2>1, <2>2, <2>4, <2>5 DEF Line, AllBefore
  <1>5. CASE WriteFails(c) \/ (FrameWritten(c) /\ conn[c] # "open")
    <2>1. got'[c] = got[c] /\ batch'[c] = <<>> /\ send'[c] = send[c]
      BY <1>5 DEF WriteFails, FrameWritten, sendVars, TypeOK, PeerTypeOK
    <2>2. Held(c)' \subseteq Held(c)
      BY <2>1 DEF Held
    <2>3. Line(c)'
      BY <2>1, <2>2 DEF Line, AllBefore
    <2> QED  BY <1>5, <2>2, <2>3
  <1> QED  BY <1>2, <1>3, <1>4, <1>5

\* A loop sends the newest message of its source.
LEMMA SendLine ==
    ASSUME TypeOK, NEW c \in Clients, NEW m \in Messages, Line(c), TrySend(c, m),
           m \in InFlight(c), \A n \in Published : ~ FeedOfHub!Before(m, n),
           got' = got, batch' = batch, owed' = owed,
           InFlight(c)' = InFlight(c) \ {m}, Published' = Published
    PROVE  /\ Line(c)'
           /\ Held(c)' \cup InFlight(c)' \cup missed'[c] = Held(c) \cup InFlight(c) \cup missed[c]
           /\ missed'[c] \subseteq missed[c] \cup {m}
  <1>1. send[c] \in Seq(Messages)
    BY LineTypes
  <1>2. CASE send' = [send EXCEPT ![c] = Append(@, m)] /\ UNCHANGED missed
    <2>1. send'[c] = Append(send[c], m) /\ missed'[c] = missed[c]
      BY <1>2 DEF TypeOK, SendTypeOK
    <2>2. ToSet(send'[c]) = ToSet(send[c]) \cup {m}
      BY <1>1, <2>1, ToSetAppend
    <2>3. Held(c)' = Held(c) \cup {m}
      BY <2>2 DEF Held
    <2>4. \A n \in Held(c) : n # m /\ ~ FeedOfHub!Before(m, n)
      BY DEF Line
    <2>5. AllBefore(ToSet(send[c]), {m})
      BY <2>4 DEF AllBefore, Held
    <2>6. <<m>> \in Seq(Messages) /\ Append(send[c], m) = send[c] \o <<m>>
      BY <1>1
    <2>7. ToSet(<<m>>) = {m}
      BY DEF ToSet
    <2>8. FeedOfHub!InOrder(send'[c])
      BY <1>1, <2>1, <2>5, <2>6, <2>7, SingleInOrder, ConcatInOrder DEF Line
    <2>9. /\ AllBefore(ToSet(got[c]), ToSet(batch[c]) \cup ToSet(send'[c]))
          /\ AllBefore(ToSet(batch[c]), ToSet(send'[c]))
      BY <2>2, <2>4 DEF Line, AllBefore, Held
    <2> QED  BY <2>1, <2>3, <2>8, <2>9 DEF Line
  <1>3. CASE missed' = [missed EXCEPT ![c] = @ \cup {m}] /\ UNCHANGED send
    <2>1. missed'[c] = missed[c] \cup {m} /\ Held(c)' = Held(c)
      BY <1>3 DEF TypeOK, HistoryTypeOK, Held
    <2> QED  BY <1>3, <2>1 DEF Line
  <1> QED  BY <1>2, <1>3 DEF TrySend

-----------------------------------------------------------------------------
(* Every step keeps lines and flows.                                       *)

\* A client that may leave its channels, its writer's loop or the hub, or be
\* admitted, while its messages stay where they are.
LEMMA FlowUntouched ==
    ASSUME NEW c \in Clients, Flow(c),
           got'[c] = got[c], batch'[c] = batch[c], send'[c] = send[c],
           owed'[c] = owed[c], missed'[c] = missed[c], InFlight(c)' = InFlight(c),
           conn'[c] = "none" => conn[c] = "none",
           c \in ToSet(register)' => c \in ToSet(register),
           \/ writer'[c] = writer[c]
           \/ /\ writer[c] \notin {"draining", "writing"}
              /\ writer'[c] \in {"leaving", "closing", "done"}
              /\ conn'[c] # "none" /\ c \notin ToSet(register)',
           c \in clients' /\ conn'[c] = "open" =>
               conn[c] = "open" /\ (c \in clients \/ c \in ToSet(register))
    PROVE  Flow(c)'
  <1>1. Held(c)' = Held(c)
    BY DEF Held
  <1>2. c \in clients' /\ conn'[c] = "open" /\ writer'[c] \in {"select", "draining", "writing"}
            => owed'[c] \subseteq Held(c)' \cup InFlight(c)' \cup missed'[c]
    BY <1>1 DEF Flow
  <1>3. /\ conn'[c] = "none" \/ c \in ToSet(register)' =>
              Held(c)' = {} /\ owed'[c] = {} /\ missed'[c] = {}
        /\ conn'[c] = "none" => writer'[c] = "none"
        /\ c \in ToSet(register)' => writer'[c] = "select"
        /\ writer'[c] \notin {"draining", "writing"} => batch'[c] = <<>>
        /\ missed'[c] \subseteq owed'[c]
    BY <1>1 DEF Flow
  <1> QED  BY <1>2, <1>3 DEF Flow

FeedHere(c) == Line(c) /\ Flow(c)

LEMMA ConnectFeed ==
    ASSUME TypeOK, ChannelInv, FeedInv, NEW c \in Clients, Connect(c), NEW d \in Clients
    PROVE  FeedHere(d)'
  <1>1. /\ conn[c] = "none" /\ register' = Append(register, c)
        /\ conn' = [conn EXCEPT ![c] = "open"] /\ writer' = [writer EXCEPT ![c] = "select"]
        /\ UNCHANGED <<got, batch, send, owed, missed, clients, relay, relayTodo, edits, alerts,
                       hubTodo, message, broadcast>>
    BY DEF Connect, sendVars, hubVars, relayVars, histVars
  <1>2. InFlight(d)' = InFlight(d) /\ Published' = Published
    BY <1>1 DEF InFlight, Published
  <1>3. Line(d)'
    BY <1>1, <1>2, LineUntouched DEF FeedInv, LineInv
  <1>4. ToSet(register') = ToSet(register) \cup {c}
    BY <1>1, ToSetAppend DEF TypeOK, QueueTypeOK
  <1>5. Flow(d) /\ Flow(c)
    BY DEF FeedInv, FlowInv
  <1>6. CASE d # c
    <2>1. conn'[d] = conn[d] /\ writer'[d] = writer[d]
      BY <1>1, <1>6 DEF TypeOK, PeerTypeOK
    <2>2. d \in ToSet(register)' => d \in ToSet(register)
      BY <1>4, <1>6
    <2> QED  BY <1>1, <1>2, <1>3, <1>5, <2>1, <2>2, FlowUntouched DEF FeedHere
  <1>7. CASE d = c
    <2>1. conn'[c] = "open" /\ writer'[c] = "select"
      BY <1>1 DEF TypeOK, PeerTypeOK
    <2>2. Held(c)' = {} /\ owed'[c] = {} /\ missed'[c] = {}
      BY <1>1, <1>5 DEF Held, Flow
    <2>3. batch'[c] = <<>>
      BY <1>1, <1>5 DEF Flow
    <2>4. Flow(c)'
      BY <2>1, <2>2, <2>3 DEF Flow
    <2> QED  BY <1>3, <1>7, <2>4 DEF FeedHere
  <1> QED  BY <1>6, <1>7

\* Steps of the peer and the pumps that move no message.
LEMMA QuietPumpFeed ==
    ASSUME TypeOK, ChannelInv, FeedInv, NEW c \in Clients, NEW d \in Clients,
           PeerLeaves(c) \/ ReadPump(c) \/ PingFails(c) \/ WriterSeesClosed(c)
               \/ WriterUnregisters(c) \/ WriterCloses(c)
    PROVE  FeedHere(d)'
  <1>1. UNCHANGED <<got, batch, send, owed, missed, clients, register, relay, relayTodo, edits,
                    alerts, hubTodo, message, broadcast>>
    BY DEF PeerLeaves, ReadPump, ReadFails, ReaderUnregisters, ReaderCloses, PingFails,
           WriterSeesClosed, WriterUnregisters, WriterCloses,
           sendVars, queueVars, hubVars, relayVars, histVars
  <1>2. InFlight(d)' = InFlight(d) /\ Published' = Published /\ ToSet(register)' = ToSet(register)
    BY <1>1 DEF InFlight, Published
  <1>3. Line(d) /\ Flow(d)
    BY DEF FeedInv, LineInv, FlowInv
  <1>4. Line(d)'
    BY <1>1, <1>2, <1>3, LineUntouched
  <1>5. (conn'[d] = "none" => conn[d] = "none") /\ (conn'[d] = "open" => conn[d] = "open")
    BY DEF TypeOK, PeerTypeOK, PeerLeaves, ReadPump, ReadFails, ReaderUnregisters, ReaderCloses,
           PingFails, WriterSeesClosed, WriterUnregisters, WriterCloses, CloseConn
  <1>6. \/ writer'[d] = writer[d]
        \/ /\ writer[d] \notin {"draining", "writing"}
           /\ writer'[d] \in {"leaving", "closing", "done"}
           /\ conn'[d] # "none" /\ d \notin ToSet(register)
    <2>1. CASE PeerLeaves(c) \/ ReadPump(c)
      BY <2>1 DEF PeerLeaves, ReadPump, ReadFails, ReaderUnregisters, ReaderCloses
    <2>2. CASE PingFails(c)
      BY <1>3, <1>5, <2>2 DEF PingFails, TypeOK, PeerTypeOK, Flow
    <2>3. CASE WriterSeesClosed(c)
      BY <1>3, <1>5, <2>3 DEF WriterSeesClosed, TypeOK, PeerTypeOK, Flow, ChannelInv
    <2>4. CASE WriterUnregisters(c) \/ WriterCloses(c)
      BY <1>3, <1>5, <2>4 DEF WriterUnregisters, WriterCloses, TypeOK, PeerTypeOK, Flow
    <2> QED  BY <2>1, <2>2, <2>3, <2>4
  <1>7. Flow(d)'
    BY <1>1, <1>2, <1>3, <1>5, <1>6, FlowUntouched
  <1> QED  BY <1>4, <1>7 DEF FeedHere

\* Steps of the write pump that do.
LEMMA WritingPumpFeed ==
    ASSUME TypeOK, ChannelInv, FeedInv, NEW c \in Clients, NEW d \in Clients,
           WriterTakes(c) \/ WriterDrains(c) \/ FrameWritten(c) \/ WriteFails(c)
    PROVE  FeedHere(d)'
  <1>1. UNCHANGED <<conn, owed, missed, clients, register, relay, relayTodo, edits,
                    alerts, hubTodo, message, broadcast>>
    BY DEF WriterTakes, WriterDrains, FrameWritten, WriteFails,
           queueVars, hubVars, relayVars, histVars
  <1>2. InFlight(d)' = InFlight(d) /\ Published' = Published /\ ToSet(register)' = ToSet(register)
    BY <1>1 DEF InFlight, Published
  <1>3. Line(d) /\ Flow(d)
    BY DEF FeedInv, LineInv, FlowInv
  <1>4. CASE d # c
    <2>1. got'[d] = got[d] /\ batch'[d] = batch[d] /\ send'[d] = send[d] /\ writer'[d] = writer[d]
      BY <1>4 DEF WriterTakes, WriterDrains, FrameWritten, WriteFails, sendVars,
                  TypeOK, PeerTypeOK, SendTypeOK
    <2>2. Line(d)'
      BY <1>1, <1>2, <1>3, <2>1, LineUntouched
    <2>3. Flow(d)'
      BY <1>1, <1>2, <1>3, <2>1, FlowUntouched
    <2> QED  BY <2>2, <2>3 DEF FeedHere
  <1>5. CASE d = c
    <2>1. /\ Line(c)' /\ Held(c)' \subseteq Held(c)
          /\ WriteFails(c) \/ conn[c] # "open" \/ Held(c)' = Held(c)
      BY <1>1, <1>2, <1>3, <1>5, PumpLine
    <2>2. conn[c] # "none" /\ c \notin ToSet(register)
      <3>1. CASE WriterTakes(c)
        <4>1. send[c] \in Seq(Messages) /\ send[c] # <<>>
          BY <3>1 DEF WriterTakes, TypeOK, SendTypeOK
        <4>2. Head(send[c]) \in ToSet(send[c])
          BY <4>1, ToSetHead
        <4> QED  BY <1>3, <1>5, <4>2 DEF Held, Flow
      <3>2. CASE WriterDrains(c) \/ FrameWritten(c) \/ WriteFails(c)
        BY <1>3, <1>5, <3>2 DEF WriterDrains, FrameWritten, WriteFails, Flow
      <3> QED  BY <3>1, <3>2
    <2>3. /\ WriteFails(c) => writer'[c] = "leaving"
          /\ writer'[c] \notin {"draining", "writing"} => batch'[c] = <<>>
          /\ writer[c] \in {"select", "draining", "writing"}
      BY DEF WriterTakes, WriterDrains, FrameWritten, WriteFails, TypeOK, PeerTypeOK
    <2>4. Flow(c)'
      BY <1>1, <1>2, <1>3, <1>5, <2>1, <2>2, <2>3 DEF Flow
    <2> QED  BY <1>5, <2>1, <2>4 DEF FeedHere
  <1> QED  BY <1>4, <1>5

\* The newest message of a source has not been sent out before.
LEMMA NewestMessage ==
    ASSUME TypeOK, NumberInv
    PROVE  /\ \A n \in Published : n # <<"edit", edits + 1>> /\ ~ FeedOfHub!Before(<<"edit", edits + 1>>, n)
           /\ relay # 0 => /\ <<"edit", relay>> \in Messages
                           /\ \A n \in Published : ~ FeedOfHub!Before(<<"edit", relay>>, n)
           /\ hub = "sending" => \A n \in Published : ~ FeedOfHub!Before(message, n)
           /\ \A n \in Published : n # <<"alert", alerts - Len(broadcast) + 1>>
                                 /\ ~ FeedOfHub!Before(<<"alert", alerts - Len(broadcast) + 1>>, n)
  <1>1. edits \in Nat /\ alerts \in Nat /\ Len(broadcast) \in Nat /\ alerts - Len(broadcast) \in Nat
        /\ relay \in 0..edits /\ edits <= MaxEdits
    BY DEF TypeOK, RelayTypeOK, QueueTypeOK, NumberInv
  <1>2. \A n \in Published : \/ n[1] = "edit" /\ n[2] \in 1..edits
                             \/ n[1] = "alert" /\ n[2] \in 1..(alerts - Len(broadcast))
    BY DEF Published
  <1>3. relay # 0 => relay = edits /\ <<"edit", relay>> \in Messages
    BY <1>1, MessageTypes DEF NumberInv
  <1>4. hub = "sending" => message = <<"alert", alerts - Len(broadcast)>>
    BY DEF NumberInv
  <1>5. \A n \in Published : n # <<"edit", edits + 1>> /\ ~ FeedOfHub!Before(<<"edit", edits + 1>>, n)
    BY <1>1, <1>2 DEF FeedOfHub!Before
  <1>6. \A n \in Published : ~ FeedOfHub!Before(<<"edit", edits>>, n)
    BY <1>1, <1>2 DEF FeedOfHub!Before
  <1>7. \A n \in Published : ~ FeedOfHub!Before(<<"alert", alerts - Len(broadcast)>>, n)
    BY <1>1, <1>2 DEF FeedOfHub!Before
  <1>8. \A n \in Published : n # <<"alert", alerts - Len(broadcast) + 1>>
            /\ ~ FeedOfHub!Before(<<"alert", alerts - Len(broadcast) + 1>>, n)
    BY <1>1, <1>2 DEF FeedOfHub!Before
  <1> QED  BY <1>3, <1>4, <1>5, <1>6, <1>7, <1>8

\* A loop begins: the new message is owed to a set of clients and in flight.
LEMMA BeginFeed ==
    ASSUME TypeOK, ChannelInv, FeedInv, NEW d \in Clients, NEW C \in SUBSET clients, NEW m,
           UNCHANGED <<got, batch, send, missed, conn, writer, clients, register>>,
           Owe(C, m), m \notin Published, Published' = Published \cup {m},
           InFlight(d)' = InFlight(d) \cup (IF d \in C THEN {m} ELSE {})
    PROVE  FeedHere(d)'
  <1>1. Line(d) /\ Flow(d)
    BY DEF FeedInv, LineInv, FlowInv
  <1>2. owed'[d] = owed[d] \cup (IF d \in C THEN {m} ELSE {})
    BY DEF Owe
  <1>3. Held(d)' = Held(d) /\ m \notin Held(d) /\ ToSet(register)' = ToSet(register)
    BY <1>1 DEF Held, Line
  <1>4. Line(d)'
    BY <1>1, <1>2, <1>3 DEF Line
  <1>5. d \in C => conn[d] # "none" /\ d \notin ToSet(register)
    BY DEF ChannelInv
  <1>6. Flow(d)'
    BY <1>1, <1>2, <1>3, <1>5 DEF Flow
  <1> QED  BY <1>4, <1>6 DEF FeedHere

\* A loop reaches a client.
LEMMA SendFeed ==
    ASSUME TypeOK, ChannelInv, FeedInv, NEW c \in clients, NEW d \in Clients, NEW m \in Messages,
           TrySend(c, m), m \in InFlight(c), \A n \in Published : ~ FeedOfHub!Before(m, n),
           UNCHANGED <<got, batch, owed, conn, writer, clients, register>>, Published' = Published,
           InFlight(d)' = IF d = c THEN InFlight(d) \ {m} ELSE InFlight(d)
    PROVE  FeedHere(d)'
  <1>1. Line(d) /\ Flow(d) /\ ToSet(register)' = ToSet(register)
    BY DEF FeedInv, LineInv, FlowInv
  <1>2. CASE d # c
    <2>1. send'[d] = send[d] /\ missed'[d] = missed[d]
      BY <1>2 DEF TrySend, TypeOK, SendTypeOK, HistoryTypeOK, HubTypeOK
    <2> QED  BY <1>1, <1>2, <2>1, LineUntouched, FlowUntouched DEF FeedHere
  <1>3. CASE d = c
    <2>1. /\ Line(c)'
          /\ Held(c)' \cup InFlight(c)' \cup missed'[c] = Held(c) \cup InFlight(c) \cup missed[c]
          /\ missed'[c] \subseteq missed[c] \cup {m}
      BY <1>1, <1>3, SendLine
    <2>2. conn[c] # "none" /\ c \notin ToSet(register)
      BY <1>3 DEF ChannelInv
    <2>3. m \in owed[c]
      BY <1>1, <1>3 DEF Line
    <2>4. Flow(c)'
      BY <1>1, <1>3, <2>1, <2>2, <2>3 DEF Flow
    <2> QED  BY <1>3, <2>1, <2>4 DEF FeedHere
  <1> QED  BY <1>2, <1>3

LEMMA RelayFeed ==
    ASSUME TypeOK, ChannelInv, FeedInv, NEW d \in Clients, Relay \/ Broadcast \/ Stop
    PROVE  FeedHere(d)'
  <1>1. Line(d) /\ Flow(d) /\ NumberInv
    BY DEF FeedInv, LineInv, FlowInv
  <1>2. CASE RelayReceives
    <2> DEFINE m == <<"edit", edits + 1>>
    <2>1. /\ relay = 0 /\ edits' = edits + 1 /\ relay' = edits + 1 /\ relayTodo' \subseteq clients
          /\ Owe(relayTodo', m)
          /\ UNCHANGED <<got, batch, send, missed, conn, writer, clients, register, broadcast,
                         alerts, hubTodo, message>>
      BY <1>2 DEF RelayReceives, peerVars, sendVars, queueVars, hubVars
    <2>2. edits \in Nat /\ relayTodo = {}
      BY <2>1 DEF TypeOK, RelayTypeOK, ChannelInv, LoopInv
    <2>3. m \notin Published
      BY <1>1, NewestMessage
    <2>4. 1..edits' = (1..edits) \cup {edits + 1}
      BY <2>1, <2>2
    <2>5. Published' = Published \cup {m}
      BY <2>1, <2>4 DEF Published
    <2>6. InFlight(d)' = InFlight(d) \cup (IF d \in relayTodo' THEN {m} ELSE {})
      BY <2>1, <2>2 DEF InFlight
    <2> QED  BY <2>1, <2>3, <2>5, <2>6, BeginFeed
  <1>3. ASSUME NEW c \in Clients, RelaySends(c)
        PROVE  FeedHere(d)'
    <2> DEFINE m == <<"edit", relay>>
    <2>1. /\ c \in relayTodo /\ relayTodo' = relayTodo \ {c} /\ TrySend(c, m)
          /\ UNCHANGED <<got, batch, owed, conn, writer, clients, register, broadcast,
                         relay, edits, alerts, hubTodo, message>>
      BY <1>3 DEF RelaySends, peerVars, queueVars, hubVars
    <2>2. relay # 0 /\ c \in clients
      BY <2>1 DEF ChannelInv, LoopInv
    <2>3. m \in Messages /\ m \in InFlight(c) /\ \A n \in Published : ~ FeedOfHub!Before(m, n)
      BY <1>1, <2>1, <2>2, NewestMessage DEF InFlight
    <2>4. d \in hubTodo => message # m
      BY <1>1 DEF NumberInv, ChannelInv, LoopInv
    <2>5. InFlight(d)' = IF d = c THEN InFlight(d) \ {m} ELSE InFlight(d)
      BY <2>1, <2>4 DEF InFlight
    <2>6. Published' = Published
      BY <2>1 DEF Published
    <2> QED  BY <2>1, <2>2, <2>3, <2>5, <2>6, SendFeed
  <1>4. CASE RelayReleases \/ Broadcast \/ Stop
    <2>1. UNCHANGED <<got, batch, send, owed, missed, conn, writer, clients, register, relayTodo,
                      edits, hubTodo, message>>
      BY <1>4 DEF RelayReleases, Broadcast, Stop, peerVars, sendVars, queueVars, hubVars,
                  relayVars, histVars
    <2>2. InFlight(d)' = InFlight(d)
      BY <1>4, <2>1 DEF InFlight, RelayReleases, Broadcast, Stop, relayVars
    <2>3. alerts' - Len(broadcast') = alerts - Len(broadcast)
      <3>1. CASE Broadcast
        <4>1. Len(broadcast') = Len(broadcast) + 1 /\ alerts' = alerts + 1
              /\ Len(broadcast) \in Nat /\ alerts \in Nat
          BY <3>1 DEF Broadcast, TypeOK, QueueTypeOK, RelayTypeOK
        <4> QED  BY <4>1
      <3>2. CASE RelayReleases \/ Stop
        BY <3>2 DEF RelayReleases, Stop, queueVars, relayVars
      <3> QED  BY <1>4, <3>1, <3>2
    <2>4. Published' = Published
      BY <2>1, <2>3 DEF Published
    <2> QED  BY <1>1, <2>1, <2>2, <2>4, LineUntouched, FlowUntouched DEF FeedHere
  <1> QED  BY <1>2, <1>3, <1>4 DEF Relay

\* The event loop takes a message: broadcast loses its head, which is published.
LEMMA HubTakes ==
    ASSUME TypeOK, NumberInv, HubBroadcasts
    PROVE  /\ Head(broadcast) = <<"alert", alerts - Len(broadcast) + 1>>
           /\ Head(broadcast) \in Messages
           /\ Published' = Published \cup {Head(broadcast)}
  <1>1. /\ broadcast # <<>> /\ broadcast' = Tail(broadcast)
        /\ UNCHANGED <<edits, alerts>>
    BY DEF HubBroadcasts, relayVars
  <1>2. broadcast \in Seq(Messages) /\ alerts \in Nat /\ Len(broadcast) <= alerts
    BY DEF TypeOK, QueueTypeOK, RelayTypeOK, NumberInv
  <1>3. /\ Head(broadcast) = broadcast[1] /\ 1 \in DOMAIN broadcast
        /\ Len(broadcast) \in Nat /\ Len(broadcast') = Len(broadcast) - 1
        /\ Head(broadcast) \in Messages
    BY <1>1, <1>2
  <1>4. alerts' - Len(broadcast') = alerts - Len(broadcast) + 1 /\ alerts - Len(broadcast) \in Nat
    BY <1>1, <1>2, <1>3
  <1>5. 1..(alerts' - Len(broadcast'))
            = (1..(alerts - Len(broadcast))) \cup {alerts - Len(broadcast) + 1}
    BY <1>4
  <1>6. Head(broadcast) = <<"alert", alerts - Len(broadcast) + 1>>
    BY <1>3 DEF NumberInv
  <1> QED  BY <1>1, <1>3, <1>5, <1>6 DEF Published

LEMMA RunFeed ==
    ASSUME TypeOK, ChannelInv, FeedInv, NEW d \in Clients, Run
    PROVE  FeedHere(d)'
  <1>1. Line(d) /\ Flow(d) /\ NumberInv
    BY DEF FeedInv, LineInv, FlowInv
  <1>2. CASE HubBroadcasts
    <2> DEFINE m == Head(broadcast)
    <2>1. /\ hub = "select" /\ message' = m /\ hubTodo' = clients /\ Owe(clients, m)
          /\ UNCHANGED <<got, batch, send, missed, conn, writer, clients, register,
                         relay, relayTodo>>
      BY <1>2 DEF HubBroadcasts, peerVars, sendVars, relayVars
    <2>2. m \notin Published /\ Published' = Published \cup {m}
      BY <1>1, <1>2, NewestMessage, HubTakes
    <2>3. hubTodo = {}
      BY <2>1 DEF ChannelInv, LoopInv
    <2>4. InFlight(d)' = InFlight(d) \cup (IF d \in clients THEN {m} ELSE {})
      BY <2>1, <2>3 DEF InFlight
    <2> QED  BY <2>1, <2>2, <2>4, BeginFeed
  <1>3. ASSUME NEW c \in Clients, HubSends(c)
        PROVE  FeedHere(d)'
    <2>1. /\ c \in hubTodo /\ hubTodo' = hubTodo \ {c} /\ TrySend(c, message)
          /\ UNCHANGED <<got, batch, owed, conn, writer, clients, register, broadcast,
                         relay, edits, alerts, relayTodo, message>>
      BY <1>3 DEF HubSends, peerVars, queueVars, relayVars
    <2>2. hub = "sending" /\ c \in clients
      BY <2>1 DEF ChannelInv, LoopInv
    <2>3. /\ message \in Messages /\ message \in InFlight(c)
          /\ \A n \in Published : ~ FeedOfHub!Before(message, n)
      BY <1>1, <2>1, <2>2, NewestMessage DEF InFlight, TypeOK, HubTypeOK
    <2>4. message # <<"edit", relay>>
      BY <1>1, <2>2 DEF NumberInv
    <2>5. InFlight(d)' = IF d = c THEN InFlight(d) \ {message} ELSE InFlight(d)
      BY <2>1, <2>4 DEF InFlight
    <2>6. Published' = Published
      BY <2>1 DEF Published
    <2> QED  BY <2>1, <2>2, <2>3, <2>5, <2>6, SendFeed
  <1>4. CASE HubAdmits \/ HubRefuses \/ HubUnregisters \/ HubReleases
             \/ HubRemovesSlow \/ HubCleansStale \/ HubStops
    <2>1. UNCHANGED <<got, batch, send, owed, missed, writer, relay, relayTodo, edits, alerts,
                      hubTodo, message, broadcast>>
      BY <1>4 DEF HubAdmits, HubRefuses, HubUnregisters, HubReleases, HubRemovesSlow,
                  HubCleansStale, HubStops, peerVars, sendVars, queueVars, hubVars,
                  relayVars, histVars
    <2>2. InFlight(d)' = InFlight(d) /\ Published' = Published
      BY <2>1 DEF InFlight, Published
    <2>3. (conn'[d] = "none" => conn[d] = "none") /\ (conn'[d] = "open" => conn[d] = "open")
      BY <1>4 DEF HubAdmits, HubRefuses, HubUnregisters, HubReleases, HubRemovesSlow,
                  HubCleansStale, HubStops, peerVars, CloseConn
    <2>4. register # <<>> => ToSet(register) = {Head(register)} \cup ToSet(Tail(register))
      BY ToSetHead DEF TypeOK, QueueTypeOK
    <2>5. /\ ToSet(register)' \subseteq ToSet(register)
          /\ clients' \subseteq clients \cup ToSet(register)
      <3>1. CASE HubAdmits  BY <3>1, <2>4 DEF HubAdmits
      <3>2. CASE HubRefuses  BY <3>2, <2>4 DEF HubRefuses, hubVars
      <3>3. CASE HubUnregisters \/ HubReleases \/ HubRemovesSlow \/ HubCleansStale \/ HubStops
        BY <3>3 DEF HubUnregisters, HubReleases, HubRemovesSlow, HubCleansStale, HubStops, queueVars
      <3> QED  BY <1>4, <3>1, <3>2, <3>3
    <2> QED  BY <1>1, <2>1, <2>2, <2>3, <2>5, LineUntouched, FlowUntouched DEF FeedHere
  <1> QED  BY <1>2, <1>3, <1>4 DEF Run

LEMMA FeedKept ==
    ASSUME TypeOK, ChannelInv, FeedInv, [Next]_vars
    PROVE  FeedInv'
  <1>1. NumberInv'
    BY NumbersKept DEF FeedInv
  <1>2. ASSUME NEW d \in Clients
        PROVE  FeedHere(d)'
    <2>1. ASSUME NEW c \in Clients, Connect(c) \/ PeerLeaves(c) \/ ReadPump(c) \/ WritePump(c)
          PROVE  FeedHere(d)'
      BY <2>1, ConnectFeed, QuietPumpFeed, WritingPumpFeed DEF WritePump
    <2>2. CASE UNCHANGED vars
      <3>1. /\ Line(d) /\ Flow(d)
            /\ UNCHANGED <<got, batch, send, owed, missed, conn, writer, clients, register, relay,
                           relayTodo, edits, alerts, hubTodo, message, broadcast>>
        BY <2>2 DEF FeedInv, LineInv, FlowInv, vars, peerVars, sendVars, queueVars, hubVars,
                    relayVars, histVars
      <3>2. InFlight(d)' = InFlight(d) /\ Published' = Published /\ ToSet(register)' = ToSet(register)
        BY <3>1 DEF InFlight, Published
      <3> QED  BY <3>1, <3>2, LineUntouched, FlowUntouched DEF FeedHere
    <2> QED  BY <2>1, <2>2, RelayFeed, RunFeed DEF Next
  <1>3. LineInv' /\ FlowInv'
    BY <1>2 DEF FeedHere, LineInv, FlowInv
  <1> QED  BY <1>1, <1>3 DEF FeedInv

HubInv == TypeOK /\ ChannelInv /\ FeedInv

THEOREM HubCorrect == Spec => []HubInv
  <1>1. Init => HubInv
    BY TypesStart, ChannelsStart, FeedStarts DEF HubInv
  <1>2. HubInv /\ [Next]_vars => HubInv'
    BY TypesKept, ChannelsKept, FeedKept DEF HubInv, ChannelInv
  <1> QED  BY <1>1, <1>2, PTL DEF Spec

\* The variables keep their types, and no send channel exceeds its capacity.
THEOREM TypeCorrect == Spec => []TypeOK
  <1>1. HubInv => TypeOK
    BY DEF HubInv
  <1> QED  BY <1>1, HubCorrect, PTL

\* A loop that still has to send to a client finds its channel open.
THEOREM NeverSendsOnClosed == Spec => []NoSendOnClosed
  <1>1. HubInv => NoSendOnClosed
    BY DEF HubInv, ChannelInv, NoSendOnClosed
  <1> QED  BY <1>1, HubCorrect, PTL

\* What a registered client with a working connection is owed has arrived, is
\* on its way, or met a full channel.
THEOREM LosesNothingSilently == Spec => []NothingLostSilently
  <1>1. HubInv => NothingLostSilently
    <2> SUFFICES ASSUME HubInv, NEW c \in clients, conn[c] = "open",
                        writer[c] \in {"select", "draining", "writing"}
                 PROVE  owed[c] = ToSet(got[c] \o batch[c] \o send[c]) \cup InFlight(c) \cup missed[c]
      BY DEF NothingLostSilently
    <2>1. c \in Clients /\ TypeOK
      BY DEF HubInv, TypeOK, HubTypeOK
    <2>2. Line(c) /\ Flow(c)
      BY <2>1 DEF HubInv, FeedInv, LineInv, FlowInv
    <2>3. got[c] \in Seq(Messages) /\ batch[c] \in Seq(Messages) /\ send[c] \in Seq(Messages)
      BY <2>1, LineTypes
    <2>4. ToSet(got[c] \o batch[c] \o send[c]) = Held(c)
      BY <2>3, ToSetConcat3 DEF Held
    <2> QED  BY <2>2, <2>4 DEF Line, Flow
  <1> QED  BY <1>1, HubCorrect, PTL

-----------------------------------------------------------------------------
(* The hub implements Feed.                                                *)

LEMMA PrefixOfConcat ==
    ASSUME NEW s \in Seq(Messages), NEW t \in Seq(Messages)
    PROVE  IsPrefix(s, s \o t)
  BY DEF IsPrefix

LEMMA FeedInit == Init => FeedOfHub!Init
  BY EmptySequence DEF Init, FeedOfHub!Init, Published

LEMMA PumpSteps ==
    ASSUME HubInv, HubInv', NEW c \in Clients,
           Connect(c) \/ PeerLeaves(c) \/ ReadPump(c) \/ WritePump(c)
    PROVE  [FeedOfHub!Next]_FeedOfHub!vars
  <1>1. UNCHANGED <<edits, alerts, broadcast, clients, owed>>
    BY DEF Connect, PeerLeaves, ReadPump, ReadFails, ReaderUnregisters, ReaderCloses,
           WritePump, WriterTakes, WriterDrains, FrameWritten, WriteFails, PingFails,
           WriterSeesClosed, WriterUnregisters, WriterCloses,
           queueVars, hubVars, relayVars, histVars
  <1>2. Published' = Published
    BY <1>1 DEF Published
  <1>3. CASE got' = got
    BY <1>1, <1>2, <1>3 DEF FeedOfHub!vars
  <1>4. CASE FrameWritten(c) /\ conn[c] = "open"
    <2>1. got' = [got EXCEPT ![c] = got[c] \o batch[c]] /\ got'[c] = got[c] \o batch[c]
      BY <1>4 DEF FrameWritten, HubInv, TypeOK, PeerTypeOK
    <2>2. IsPrefix(got[c], got'[c])
      BY <2>1, PrefixOfConcat, LineTypes DEF HubInv
    <2>3. FeedOfHub!InOrder(got'[c]) /\ ToSet(got'[c]) \subseteq owed[c]
      BY <1>1 DEF HubInv, FeedInv, LineInv, Line, Held
    <2>4. got' = [got EXCEPT ![c] = got'[c]]
      BY <2>1
    <2>5. UNCHANGED <<Published, clients, owed>>
      BY <1>1, <1>2
    <2>6. FeedOfHub!IsPrefix(got[c], got'[c])
      BY <2>2 DEF IsPrefix, FeedOfHub!IsPrefix
    <2>7. FeedOfHub!ToSet(got'[c]) \subseteq owed[c]
      BY <2>3 DEF ToSet, FeedOfHub!ToSet
    <2>8. FeedOfHub!Receive(c)
      BY <2>3, <2>4, <2>5, <2>6, <2>7 DEF FeedOfHub!Receive
    <2> QED  BY <2>8 DEF FeedOfHub!Next
  <1>5. got' = got \/ (FrameWritten(c) /\ conn[c] = "open")
    BY DEF Connect, PeerLeaves, ReadPump, ReadFails, ReaderUnregisters, ReaderCloses,
           WritePump, WriterTakes, WriterDrains, FrameWritten, WriteFails, PingFails,
           WriterSeesClosed, WriterUnregisters, WriterCloses
  <1> QED  BY <1>3, <1>4, <1>5

\* A message sent out is published.
LEMMA PublishStep ==
    ASSUME NEW C \in SUBSET clients, NEW m \in Messages, Owe(C, m),
           \A c \in Clients : c \in C <=> c \in clients /\ m \in Wants[c],
           Published' = Published \cup {m}, UNCHANGED <<clients, got>>,
           \A n \in Published : n[1] = m[1] => n[2] < m[2]
    PROVE  FeedOfHub!Next
  <1>1. \A c \in Clients : (IF c \in C THEN {m} ELSE {})
                           = (IF c \in clients THEN Wants[c] \cap {m} ELSE {})
    OBVIOUS
  <1>2. owed' = [c \in Clients |-> owed[c] \cup
                    (IF c \in clients THEN Wants[c] \cap {m} ELSE {})]
    BY <1>1 DEF Owe
  <1>3. FeedOfHub!Publish(m)
    BY <1>2 DEF FeedOfHub!Publish, FeedOfHub!Before
  <1> QED  BY <1>3 DEF FeedOfHub!Next

LEMMA RelaySteps ==
    ASSUME HubInv, Relay \/ Broadcast \/ Stop
    PROVE  [FeedOfHub!Next]_FeedOfHub!vars
  <1>1. edits \in Nat /\ alerts \in Nat /\ Len(broadcast) \in Nat /\ clients \subseteq Clients
        /\ edits <= MaxEdits
    BY DEF HubInv, TypeOK, RelayTypeOK, QueueTypeOK, HubTypeOK
  <1>2. CASE RelayReceives
    <2> DEFINE m == <<"edit", edits + 1>>
    <2>1. /\ edits' = edits + 1 /\ edits < MaxEdits
          /\ relayTodo' = {c \in clients : m \in Wants[c]} /\ Owe(relayTodo', m)
          /\ UNCHANGED <<got, clients, alerts, broadcast>>
      BY <1>2 DEF RelayReceives, peerVars, queueVars, hubVars
    <2>2. m \in Messages
      BY <1>1, <2>1, MessageTypes
    <2>3. 1..edits' = (1..edits) \cup {edits + 1}
      BY <1>1, <2>1
    <2>4. Published' = Published \cup {m}
      BY <2>1, <2>3 DEF Published
    <2>5. \A n \in Published : n[1] = m[1] => n[2] < m[2]
      BY <1>1 DEF Published
    <2> QED  BY <1>1, <2>1, <2>2, <2>4, <2>5, PublishStep
  <1>3. CASE RelayReleases \/ (\E c \in Clients : RelaySends(c)) \/ Stop
    BY <1>3 DEF RelayReleases, RelaySends, Stop, peerVars, queueVars, hubVars, relayVars, histVars,
                FeedOfHub!vars, Published
  <1>4. CASE Broadcast
    <2>1. /\ alerts' = alerts + 1 /\ broadcast' = Append(broadcast, <<"alert", alerts'>>)
          /\ UNCHANGED <<got, clients, owed, edits>>
      BY <1>4 DEF Broadcast, peerVars, hubVars, histVars
    <2>2. Len(broadcast') = Len(broadcast) + 1
      BY <2>1 DEF HubInv, TypeOK, QueueTypeOK
    <2>3. alerts' - Len(broadcast') = alerts - Len(broadcast)
      BY <1>1, <2>1, <2>2
    <2> QED  BY <2>1, <2>3 DEF FeedOfHub!vars, Published
  <1> QED  BY <1>2, <1>3, <1>4 DEF Relay

LEMMA RunSteps ==
    ASSUME HubInv, Run
    PROVE  [FeedOfHub!Next]_FeedOfHub!vars
  <1>1. clients \subseteq Clients /\ TypeOK /\ NumberInv /\ ChannelInv
    BY DEF HubInv, TypeOK, HubTypeOK, FeedInv
  <1>2. CASE HubBroadcasts
    <2> DEFINE m == Head(broadcast)
    <2>1. Owe(clients, m) /\ UNCHANGED <<got, clients>>
      BY <1>2 DEF HubBroadcasts, peerVars
    <2>2. m = <<"alert", alerts - Len(broadcast) + 1>> /\ m \in Messages
          /\ Published' = Published \cup {m}
      BY <1>1, <1>2, HubTakes
    <2>3. \A c \in Clients : m \in Wants[c]
      <3>1. m \in {"alert"} \X (1..MaxAlerts)
        BY <2>2 DEF Messages
      <3> QED  BY <3>1, HubAssumption
    <2>4. \A n \in Published : n[1] = m[1] => n[2] < m[2]
      BY <1>1, <2>2 DEF Published, TypeOK, QueueTypeOK, RelayTypeOK
    <2> QED  BY <1>1, <2>1, <2>2, <2>3, <2>4, PublishStep
  <1>3. CASE HubRefuses \/ HubReleases \/ \E c \in Clients : HubSends(c)
    BY <1>3 DEF HubRefuses, HubReleases, HubSends, peerVars, queueVars, hubVars, relayVars, histVars,
                FeedOfHub!vars, Published
  <1>4. CASE HubAdmits
    <2> DEFINE c == Head(register)
    <2>1. /\ register # <<>> /\ clients' = clients \cup {c}
          /\ UNCHANGED <<got, owed, edits, alerts, broadcast>>
      BY <1>4 DEF HubAdmits, peerVars, relayVars, histVars
    <2>2. c \in Clients /\ c \in ToSet(register)
      BY <1>1, <2>1, ToSetHead DEF TypeOK, QueueTypeOK
    <2>3. c \notin clients
      BY <1>1, <2>2 DEF ChannelInv
    <2>4. FeedOfHub!Join(c)
      BY <2>1, <2>3 DEF FeedOfHub!Join, Published
    <2> QED  BY <2>2, <2>4 DEF FeedOfHub!Next
  <1>5. CASE HubUnregisters \/ HubRemovesSlow \/ HubCleansStale \/ HubStops
    <2>1. clients' \subseteq clients /\ UNCHANGED <<got, owed, edits, alerts, broadcast>>
      BY <1>5 DEF HubUnregisters, HubRemovesSlow, HubCleansStale, HubStops,
                  peerVars, queueVars, relayVars, histVars
    <2>2. clients \ clients' \in SUBSET Clients /\ clients' = clients \ (clients \ clients')
      BY <1>1, <2>1
    <2>3. FeedOfHub!Leave(clients \ clients')
      BY <2>1, <2>2 DEF FeedOfHub!Leave, Published
    <2> QED  BY <2>2, <2>3 DEF FeedOfHub!Next
  <1> QED  BY <1>2, <1>3, <1>4, <1>5 DEF Run

\* A peer receives only what was sent out while it was registered and what its
\* filter lets through, in order and each message once.
THEOREM DeliversFeed == Spec => ImplementsFeed
  <1>1. HubInv /\ HubInv' /\ [Next]_vars => [FeedOfHub!Next]_FeedOfHub!vars
    <2> SUFFICES ASSUME HubInv, HubInv', [Next]_vars
                 PROVE  [FeedOfHub!Next]_FeedOfHub!vars
      OBVIOUS
    <2>1. CASE UNCHANGED vars
      BY <2>1 DEF vars, peerVars, sendVars, queueVars, hubVars, relayVars, histVars,
                  FeedOfHub!vars, Published
    <2> QED  BY <2>1, PumpSteps, RelaySteps, RunSteps DEF Next
  <1> QED  BY <1>1, FeedInit, HubCorrect, PTL DEF Spec, ImplementsFeed, FeedOfHub!Spec
=============================================================================
