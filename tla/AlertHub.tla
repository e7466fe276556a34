------------------------------ MODULE AlertHub ------------------------------
(***************************************************************************)
(* The alerts of the API: the alert hub (src/internal/api/alert_hub.go)    *)
(* reads two Redis streams with one XREAD loop (SubscribeToAlerts in       *)
(* src/internal/storage/redis_alerts.go) and fans every alert out to the   *)
(* subscribed connections (src/internal/api/websocket_alerts.go).          *)
(*                                                                         *)
(* Nobody subscribes or unsubscribes during a broadcast, which holds the   *)
(* mutex, and the channels it sends to are independent of each other: it   *)
(* is one step.                                                            *)
(***************************************************************************)
EXTENDS Integers, Sequences, FiniteSets, SequencesExt

CONSTANTS Clients,         \* connections, each made at most once
          MaxAlerts,       \* bound: alerts published to each stream, a function
          Malformed,       \* the alerts parseAlertMessage refuses
          MaxSubscribers,  \* maxAlertSubscribers
          ChannelSize,     \* capacity of a subscriber's channel
          Count            \* Count of the XREAD

Streams == {"spikes", "editwars"}
Alerts  == UNION {{s} \X (1..MaxAlerts[s]) : s \in Streams}

ASSUME AlertAssumption ==
    /\ MaxAlerts \in [Streams -> Nat]
    /\ Malformed \subseteq Alerts
    /\ MaxSubscribers \in Nat
    /\ ChannelSize \in Nat \ {0} /\ Count \in Nat \ {0}

VARIABLES
    tail,         \* for each stream, the number of the last alert in it
    hub,          \* where the subscription loop is
    canceled,     \* TRUE once its context is canceled
    stopped,      \* TRUE once Stop has been called
    following,    \* the streams whose id is not "$" any more
    ids,          \* their ids: the last alert handled
    at,           \* where the XREAD under way began
    todo,         \* the alerts it returned, still to be handled
    subscribers,  \* h.subscribers
    channel,      \* the channel of each subscriber
    conn,         \* its connection: open, gone (the peer left), closed (by the server)
    reader,       \* where its read goroutine is
    writer,       \* where its write loop is
    frame,        \* the alert being written
    got,          \* the alerts the peer has received
    handled,      \* history: the alerts broadcast
    owed          \* history: for each client, what was broadcast while it was subscribed

streamVars == <<tail>>
loopVars   == <<hub, canceled, stopped, following, ids, at, todo>>
connVars   == <<subscribers, conn, reader, writer, frame, got>>
histVars   == <<handled, owed>>
vars == <<streamVars, loopVars, connVars, channel, histVars>>

-----------------------------------------------------------------------------

\* NewAlertHub, and go Run().
Init ==
    /\ tail = [s \in Streams |-> 0]
    /\ hub = "starting"
    /\ canceled = FALSE
    /\ stopped = FALSE
    /\ following = {}
    /\ ids = [s \in Streams |-> 0]
    /\ at = tail
    /\ todo = <<>>
    /\ subscribers = {}
    /\ channel = [c \in Clients |-> <<>>]
    /\ conn = [c \in Clients |-> "none"]
    /\ reader = [c \in Clients |-> "none"]
    /\ writer = [c \in Clients |-> "none"]
    /\ frame = [c \in Clients |-> <<>>]
    /\ got = [c \in Clients |-> <<>>]
    /\ handled = {}
    /\ owed = [c \in Clients |-> {}]

-----------------------------------------------------------------------------
(* Redis *)

\* An XREAD that waits has something to return.
Pending == \E s \in Streams : tail[s] > at[s]

\* publishAlert adds an alert.  Redis serves the XREAD that waits before the
\* next command.
Publish(s) ==
    /\ tail[s] < MaxAlerts[s]
    /\ ~ (hub = "reading" /\ Pending)
    /\ tail' = [tail EXCEPT ![s] = @ + 1]
    /\ UNCHANGED <<loopVars, connVars, channel, histVars>>

-----------------------------------------------------------------------------
(* The subscription loop *)

\* Run creates the context and the first XREAD goes to Redis, from "$".
RunBegins ==
    /\ hub = "starting"
    /\ at' = tail
    /\ hub' = "reading"
    /\ UNCHANGED <<streamVars, canceled, stopped, following, ids, todo, connVars, channel, histVars>>

\* Mutant: every XREAD begins at the end of the streams.
PollFromTail ==
    /\ hub = "polling"
    /\ ~ canceled
    /\ at' = tail
    /\ hub' = "reading"
    /\ UNCHANGED <<streamVars, canceled, stopped, following, ids, todo, connVars, channel, histVars>>

\* XREAD from the ids; "$" is the end of the stream when Redis gets the command.
Poll ==
    /\ hub = "polling"
    /\ ~ canceled
    /\ at' = [s \in Streams |-> IF s \in following THEN ids[s] ELSE tail[s]]
    /\ hub' = "reading"
    /\ UNCHANGED <<streamVars, canceled, stopped, following, ids, todo, connVars, channel, histVars>>

\* The alerts of a stream after the position, Count at most.
Entries(s) ==
    LET n == tail[s] - at[s]
    IN  [i \in 1..(IF n < Count THEN n ELSE Count) |-> <<s, at[s] + i>>]

PollServed ==
    /\ hub = "reading"
    /\ Pending
    /\ todo' = Entries("spikes") \o Entries("editwars")
    /\ hub' = "handling"
    /\ UNCHANGED <<streamVars, canceled, stopped, following, ids, at, connVars, channel, histVars>>

\* Mutant: an error ends the subscription, and the next one begins anew.
PollFailureForgets ==
    /\ hub = "reading"
    /\ hub' = "polling"
    /\ following' = {}
    /\ UNCHANGED <<streamVars, canceled, stopped, ids, at, todo, connVars, channel, histVars>>

\* Nothing within a second, or an error; nothing is noted.
PollReturnsNothing ==
    /\ hub = "reading"
    /\ hub' = "polling"
    /\ UNCHANGED <<streamVars, canceled, stopped, following, ids, at, todo, connVars, channel, histVars>>

\* Mutant: the channel has one place more.
BroadcastOver(m) ==
    channel' = [c \in Clients |->
        IF c \in subscribers /\ Len(channel[c]) <= ChannelSize
        THEN Append(channel[c], m) ELSE channel[c]]

\* broadcast: a full channel takes nothing.
Broadcast(m) ==
    channel' = [c \in Clients |->
        IF c \in subscribers /\ Len(channel[c]) < ChannelSize
        THEN Append(channel[c], m) ELSE channel[c]]

\* Mutant: the position of the XREAD is noted, not the id of the alert.
HandleAlertAgain(m) ==
    /\ Broadcast(m)
    /\ handled' = handled \cup {m}
    /\ owed' = [c \in Clients |-> IF c \in subscribers THEN owed[c] \cup {m} ELSE owed[c]]
    /\ following' = following \cup {m[1]}
    /\ ids' = [ids EXCEPT ![m[1]] = at[m[1]]]

\* The handler, and the id of the stream.
HandleAlert(m) ==
    /\ Broadcast(m)
    /\ handled' = handled \cup {m}
    /\ owed' = [c \in Clients |-> IF c \in subscribers THEN owed[c] \cup {m} ELSE owed[c]]
    /\ following' = following \cup {m[1]}
    /\ ids' = [ids EXCEPT ![m[1]] = m[2]]

AlertHandled ==
    /\ hub = "handling"
    /\ todo # <<>>
    /\ Head(todo) \notin Malformed
    /\ HandleAlert(Head(todo))
    /\ todo' = Tail(todo)
    /\ UNCHANGED <<streamVars, hub, canceled, stopped, at, connVars>>

\* An alert that cannot be parsed is skipped, and the id stays where it is.
MalformedSkipped ==
    /\ hub = "handling"
    /\ todo # <<>>
    /\ Head(todo) \in Malformed
    /\ todo' = Tail(todo)
    /\ UNCHANGED <<streamVars, hub, canceled, stopped, following, ids, at, connVars, channel, histVars>>

BatchDone ==
    /\ hub = "handling"
    /\ todo = <<>>
    /\ hub' = "polling"
    /\ UNCHANGED <<streamVars, canceled, stopped, following, ids, at, todo, connVars, channel, histVars>>

\* case <-ctx.Done()
RunReturns ==
    /\ hub = "polling"
    /\ canceled
    /\ hub' = "stopped"
    /\ UNCHANGED <<streamVars, canceled, stopped, following, ids, at, todo, connVars, channel, histVars>>

\* Stop works once, and does nothing when Run has not set cancel yet.
Stop ==
    /\ ~ stopped
    /\ stopped' = TRUE
    /\ canceled' = (hub # "starting")
    /\ UNCHANGED <<streamVars, hub, following, ids, at, todo, connVars, channel, histVars>>

-----------------------------------------------------------------------------
(* A connection: WebSocketAlerts *)

UnderLimit == Cardinality(subscribers) < MaxSubscribers

Subscribe(c) ==
    /\ conn[c] = "none"
    /\ UnderLimit
    /\ subscribers' = subscribers \cup {c}
    /\ conn' = [conn EXCEPT ![c] = "open"]
    /\ reader' = [reader EXCEPT ![c] = "reading"]
    /\ writer' = [writer EXCEPT ![c] = "select"]
    /\ UNCHANGED <<streamVars, loopVars, frame, got, channel, histVars>>

\* Subscribe returns nil: the connection is closed, no goroutine is started.
SubscribeRefused(c) ==
    /\ conn[c] = "none"
    /\ ~ UnderLimit
    /\ conn' = [conn EXCEPT ![c] = "closed"]
    /\ reader' = [reader EXCEPT ![c] = "done"]
    /\ writer' = [writer EXCEPT ![c] = "done"]
    /\ UNCHANGED <<streamVars, loopVars, subscribers, frame, got, channel, histVars>>

\* The peer closes, breaks the protocol, or stops reading or answering.
PeerLeaves(c) ==
    /\ conn[c] = "open"
    /\ conn' = [conn EXCEPT ![c] = "gone"]
    /\ UNCHANGED <<streamVars, loopVars, subscribers, reader, writer, frame, got, channel, histVars>>

\* ReadMessage fails, after pongWait at most; done is closed.
ReadFails(c) ==
    /\ reader[c] = "reading"
    /\ conn[c] \in {"gone", "closed"}
    /\ reader' = [reader EXCEPT ![c] = "done"]
    /\ UNCHANGED <<streamVars, loopVars, subscribers, conn, writer, frame, got, channel, histVars>>

\* case alert := <-alertCh
WriterTakes(c) ==
    /\ writer[c] = "select"
    /\ channel[c] # <<>>
    /\ frame' = [frame EXCEPT ![c] = <<Head(channel[c])>>]
    /\ channel' = [channel EXCEPT ![c] = Tail(@)]
    /\ writer' = [writer EXCEPT ![c] = "writing"]
    /\ UNCHANGED <<streamVars, loopVars, subscribers, conn, reader, got, histVars>>

\* A write to a peer that is gone may succeed too.
AlertWritten(c) ==
    /\ writer[c] = "writing"
    /\ got' = IF conn[c] = "open" THEN [got EXCEPT ![c] = @ \o frame[c]] ELSE got
    /\ frame' = [frame EXCEPT ![c] = <<>>]
    /\ writer' = [writer EXCEPT ![c] = "select"]
    /\ UNCHANGED <<streamVars, loopVars, subscribers, conn, reader, channel, histVars>>

\* The write fails, after writeWait at most.
WriteFails(c) ==
    /\ writer[c] = "writing"
    /\ conn[c] = "gone"
    /\ frame' = [frame EXCEPT ![c] = <<>>]
    /\ writer' = [writer EXCEPT ![c] = "leaving"]
    /\ UNCHANGED <<streamVars, loopVars, subscribers, conn, reader, got, channel, histVars>>

\* case <-pingTicker.C, and the ping fails
PingFails(c) ==
    /\ writer[c] = "select"
    /\ conn[c] = "gone"
    /\ writer' = [writer EXCEPT ![c] = "leaving"]
    /\ UNCHANGED <<streamVars, loopVars, subscribers, conn, reader, frame, got, channel, histVars>>

\* Mutant: the write loop does not wait for done.
WriterIgnoresDone(c) ==
    /\ writer[c] = "select"
    /\ reader[c] = "done"
    /\ conn[c] = "closed"
    /\ writer' = [writer EXCEPT ![c] = "leaving"]
    /\ UNCHANGED <<streamVars, loopVars, subscribers, conn, reader, frame, got, channel, histVars>>

\* case <-done
WriterSeesDone(c) ==
    /\ writer[c] = "select"
    /\ reader[c] = "done"
    /\ writer' = [writer EXCEPT ![c] = "leaving"]
    /\ UNCHANGED <<streamVars, loopVars, subscribers, conn, reader, frame, got, channel, histVars>>

\* The deferred Unsubscribe: what is left in the channel is gone with it.
WriterUnsubscribes(c) ==
    /\ writer[c] = "leaving"
    /\ subscribers' = subscribers \ {c}
    /\ channel' = [channel EXCEPT ![c] = <<>>]
    /\ writer' = [writer EXCEPT ![c] = "closing"]
    /\ UNCHANGED <<streamVars, loopVars, conn, reader, frame, got, histVars>>

\* The deferred conn.Close().
WriterCloses(c) ==
    /\ writer[c] = "closing"
    /\ conn' = [conn EXCEPT ![c] = "closed"]
    /\ writer' = [writer EXCEPT ![c] = "done"]
    /\ UNCHANGED <<streamVars, loopVars, subscribers, reader, frame, got, channel, histVars>>

-----------------------------------------------------------------------------

Run == \/ RunBegins \/ Poll \/ PollServed \/ PollReturnsNothing
       \/ AlertHandled \/ MalformedSkipped \/ BatchDone \/ RunReturns
WriteLoop(c) == \/ WriterTakes(c) \/ AlertWritten(c) \/ WriteFails(c) \/ PingFails(c)
                \/ WriterSeesDone(c) \/ WriterUnsubscribes(c) \/ WriterCloses(c)

Next ==
    \/ \E s \in Streams : Publish(s)
    \/ Run \/ Stop
    \/ \E c \in Clients :
          Subscribe(c) \/ SubscribeRefused(c) \/ PeerLeaves(c) \/ ReadFails(c) \/ WriteLoop(c)

Spec == Init /\ [][Next]_vars

\* The goroutines run, and every read and write has a deadline.  Redis does not
\* fail for ever.
Fairness ==
    /\ WF_vars(Run)
    /\ SF_vars(PollServed)
    /\ \A c \in Clients :
          /\ WF_vars(ReadFails(c))
          /\ WF_vars(WriterTakes(c) \/ AlertWritten(c) \/ WriteFails(c)
                      \/ WriterSeesDone(c) \/ WriterUnsubscribes(c) \/ WriterCloses(c))

FairSpec == Spec /\ Fairness

-----------------------------------------------------------------------------

LoopTypeOK ==
    /\ tail \in [Streams -> Nat] /\ ids \in [Streams -> Nat] /\ at \in [Streams -> Nat]
    /\ \A s \in Streams : tail[s] <= MaxAlerts[s] /\ ids[s] <= tail[s] /\ at[s] <= tail[s]
    /\ hub \in {"starting", "polling", "reading", "handling", "stopped"}
    /\ canceled \in BOOLEAN /\ stopped \in BOOLEAN
    /\ following \subseteq Streams
    /\ todo \in Seq(Alerts)

HubTypeOK ==
    /\ subscribers \subseteq Clients
    /\ Cardinality(subscribers) <= MaxSubscribers
    /\ channel \in [Clients -> Seq(Alerts)]
    /\ \A c \in Clients : Len(channel[c]) <= ChannelSize
    /\ handled \subseteq Alerts
    /\ owed \in [Clients -> SUBSET Alerts]

ConnTypeOK ==
    /\ conn \in [Clients -> {"none", "open", "gone", "closed"}]
    /\ reader \in [Clients -> {"none", "reading", "done"}]
    /\ writer \in [Clients -> {"none", "select", "writing", "leaving", "closing", "done"}]
    /\ frame \in [Clients -> Seq(Alerts)]
    /\ got \in [Clients -> Seq(Alerts)]

\* The values of the variables; no more subscribers than the limit, no channel
\* over its capacity.
TypeOK == LoopTypeOK /\ HubTypeOK /\ ConnTypeOK

\* Once a stream has given the hub its first alert, the hub's position in it
\* moves over alerts only that it has broadcast or that are malformed: empty
\* answers, errors of Redis and full answers make no gap.
FollowsWithoutGap ==
    [][\A s \in following : \A n \in (at[s] + 1)..at'[s] : <<s, n>> \in handled \cup Malformed]_vars

\* The hub is a Feed: a peer receives only alerts broadcast while it was
\* subscribed, those of a stream in order, and none twice.
FeedOfHub == INSTANCE Feed WITH Messages <- Alerts, Wants <- [c \in Clients |-> Alerts],
                                published <- handled, members <- subscribers

ImplementsFeed == FeedOfHub!Spec

\* Malformed alerts that fill an answer: the id never moves past them.
Barrier(s, n) ==
    \E k \in (ids[s] + 1)..(n - Count) : \A i \in k..(k + Count - 1) : <<s, i>> \in Malformed

\* An alert in a stream the hub follows reaches the subscribers' channels,
\* unless the hub is stopped or Count malformed alerts in a row precede it,
\* whatever Redis answers in between.
AlertsFollow ==
    \A s \in Streams : \A n \in 1..MaxAlerts[s] :
        s \in following /\ ids[s] < n /\ n <= tail[s] /\ <<s, n>> \notin Malformed /\ ~ Barrier(s, n)
            ~> <<s, n>> \in handled \/ stopped

\* A connection whose peer is gone gives its place back and leaves no goroutine,
\* even when the hub itself is stopped.
SubscribersLeave ==
    \A c \in Clients :
        conn[c] \in {"gone", "closed"} ~>
            c \notin subscribers /\ conn[c] = "closed" /\ reader[c] = "done" /\ writer[c] = "done"

\* Guaranteed delivery: from its first XREAD on, the hub's position in a stream
\* moves over alerts only that it has broadcast, or that are malformed.
GuaranteedDelivery ==
    [][hub # "starting" =>
          \A s \in Streams : \A n \in (at[s] + 1)..at'[s] : <<s, n>> \in handled \cup Malformed]_vars
=============================================================================
