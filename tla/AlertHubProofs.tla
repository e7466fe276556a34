--------------------------- MODULE AlertHubProofs ---------------------------
(***************************************************************************)
(* Proofs about AlertHub, for every set of clients, any number of alerts   *)
(* of which any are malformed, every limit and capacity.                   *)
(***************************************************************************)
EXTENDS AlertHub, SequenceFacts, FiniteSetTheorems, TLAPS

LEMMA Bounds ==
    /\ MaxAlerts \in [Streams -> Nat] /\ Malformed \subseteq Alerts
    /\ MaxSubscribers \in Nat /\ ChannelSize \in Nat \ {0} /\ Count \in Nat \ {0}
  BY AlertAssumption

USE Bounds

LEMMA AlertTypes ==
    /\ \A m \in Alerts : m[1] \in Streams /\ m[2] \in 1..MaxAlerts[m[1]] /\ m = <<m[1], m[2]>>
    /\ \A s \in Streams : \A n \in 1..MaxAlerts[s] : <<s, n>> \in Alerts
  BY DEF Alerts

-----------------------------------------------------------------------------
(* Types.                                                                  *)

\* What an XREAD returned is in the streams.
LoopTypeInv ==
    /\ LoopTypeOK
    /\ \A i \in DOMAIN todo : todo[i][2] <= tail[todo[i][1]]

\* There are finitely many subscribers.
HubTypeInv == HubTypeOK /\ IsFiniteSet(subscribers)

TypeInv == LoopTypeInv /\ HubTypeInv /\ ConnTypeOK

\* The answer of an XREAD: for each stream consecutive alerts after the
\* position it was read from.
LEMMA EntriesOfStream ==
    ASSUME LoopTypeOK, NEW s \in Streams
    PROVE  /\ Entries(s) \in Seq(Alerts)
           /\ \A i \in DOMAIN Entries(s) : /\ i \in Nat \ {0}
                                           /\ Entries(s)[i] = <<s, at[s] + i>>
                                           /\ at[s] + i <= tail[s]
  <1> DEFINE n == tail[s] - at[s]
             k == IF n < Count THEN n ELSE Count
  <1>1. /\ tail[s] \in Nat /\ at[s] \in Nat /\ at[s] <= tail[s] /\ tail[s] <= MaxAlerts[s]
        /\ n \in Nat /\ k \in Nat /\ k <= n
    BY DEF LoopTypeOK
  <1>2. Entries(s) = [i \in 1..k |-> <<s, at[s] + i>>]
    BY DEF Entries
  <1>3. \A i \in 1..k : /\ i \in Nat \ {0} /\ at[s] + i <= tail[s]
                        /\ <<s, at[s] + i>> \in Alerts
    BY <1>1, AlertTypes
  <1>4. Entries(s) \in Seq(Alerts) /\ DOMAIN Entries(s) = 1..k
    <2> HIDE DEF k
    <2>1. [i \in 1..k |-> <<s, at[s] + i>>] \in [1..k -> Alerts]
      BY <1>3
    <2>2. [1..k -> Alerts] \subseteq Seq(Alerts)
      BY <1>1
    <2> QED  BY <1>2, <2>1, <2>2
  <1> QED  BY <1>2, <1>3, <1>4

\* The two answers one after the other.
LEMMA AnswerTypes ==
    ASSUME LoopTypeOK, PollServed
    PROVE  /\ todo' \in Seq(Alerts)
           /\ \A i \in DOMAIN todo' :
                 \/ i \in DOMAIN Entries("spikes") /\ todo'[i] = Entries("spikes")[i]
                 \/ \E j \in DOMAIN Entries("editwars") :
                       i = Len(Entries("spikes")) + j /\ todo'[i] = Entries("editwars")[j]
  <1> DEFINE e == Entries("spikes")
             f == Entries("editwars")
  <1>1. e \in Seq(Alerts) /\ f \in Seq(Alerts)
    BY EntriesOfStream DEF Streams
  <1>2. todo' = e \o f
    BY DEF PollServed
  <1> HIDE DEF e, f
  <1>3. /\ e \o f \in Seq(Alerts)
        /\ \A i \in DOMAIN (e \o f) : \/ i \in DOMAIN e /\ (e \o f)[i] = e[i]
                                      \/ i - Len(e) \in DOMAIN f /\ i = Len(e) + (i - Len(e))
                                         /\ (e \o f)[i] = f[i - Len(e)]
    BY <1>1
  <1>4. todo' \in Seq(Alerts) /\ \A i \in DOMAIN todo' : \/ i \in DOMAIN e /\ todo'[i] = e[i]
                                 \/ \E j \in DOMAIN f : i = Len(e) + j /\ todo'[i] = f[j]
    BY <1>2, <1>3
  <1> QED  BY <1>4 DEF e, f

LEMMA TypesStart == Init => TypeInv
  <1> SUFFICES ASSUME Init
               PROVE  TypeInv
    OBVIOUS
  <1> USE EmptySequence DEF Init
  <1>1. LoopTypeInv
    <2>1. DOMAIN todo = {} /\ todo \in Seq(Alerts)
      OBVIOUS
    <2>2. /\ tail \in [Streams -> Nat] /\ ids \in [Streams -> Nat] /\ at \in [Streams -> Nat]
          /\ \A s \in Streams : tail[s] <= MaxAlerts[s] /\ ids[s] <= tail[s] /\ at[s] <= tail[s]
      OBVIOUS
    <2>3. LoopTypeOK
      BY <2>1, <2>2 DEF LoopTypeOK
    <2> QED  BY <2>1, <2>3 DEF LoopTypeInv
  <1>2. HubTypeInv
    <2>1. IsFiniteSet(subscribers) /\ Cardinality(subscribers) = 0
      BY FS_EmptySet
    <2> QED  BY <2>1 DEF HubTypeInv, HubTypeOK
  <1>3. ConnTypeOK
    BY DEF ConnTypeOK
  <1> QED  BY <1>1, <1>2, <1>3 DEF TypeInv

\* The loop handles, or skips, the first alert of an answer.
LEMMA HandlingTypes ==
    ASSUME LoopTypeInv, todo # <<>>, todo' = Tail(todo), tail' = tail
    PROVE  /\ Head(todo) \in Alerts /\ Head(todo) = todo[1] /\ Head(todo)[2] <= tail[Head(todo)[1]]
           /\ todo' \in Seq(Alerts)
           /\ DOMAIN todo = 1..Len(todo) /\ Len(todo) \in Nat \ {0}
           /\ DOMAIN todo' = 1..(Len(todo) - 1)
           /\ \A i \in DOMAIN todo' : i + 1 \in DOMAIN todo /\ i \in Nat \ {0} /\ todo'[i] = todo[i + 1]
           /\ \A i \in DOMAIN todo' : todo'[i][2] <= tail'[todo'[i][1]]
  <1>1. todo \in Seq(Alerts)
    BY DEF LoopTypeInv, LoopTypeOK
  <1>2. /\ Head(todo) \in Alerts /\ Head(todo) = todo[1]
        /\ todo' \in Seq(Alerts)
        /\ DOMAIN todo = 1..Len(todo) /\ Len(todo) \in Nat \ {0}
        /\ DOMAIN todo' = 1..(Len(todo) - 1)
        /\ \A i \in DOMAIN todo' : i + 1 \in DOMAIN todo /\ i \in Nat \ {0} /\ todo'[i] = todo[i + 1]
    BY <1>1
  <1>3. Head(todo)[2] <= tail[Head(todo)[1]]
    BY <1>2 DEF LoopTypeInv
  <1>4. \A i \in DOMAIN todo' : todo'[i][2] <= tail'[todo'[i][1]]
    <2> TAKE i \in DOMAIN todo'
    <2>1. i + 1 \in DOMAIN todo /\ todo'[i] = todo[i + 1]
      BY <1>2
    <2>2. todo[i + 1][2] <= tail[todo[i + 1][1]]
      BY <2>1 DEF LoopTypeInv
    <2> QED  BY <2>1, <2>2
  <1> QED  BY <1>2, <1>3, <1>4

\* The bound of an answer holds whatever is added to a stream.
LEMMA StreamLoopTypes ==
    ASSUME LoopTypeInv, NEW s \in Streams, Publish(s)
    PROVE  LoopTypeInv'
  <1>1. /\ tail' = [tail EXCEPT ![s] = @ + 1] /\ tail[s] < MaxAlerts[s]
        /\ UNCHANGED loopVars
    BY DEF Publish
  <1>2. /\ tail' \in [Streams -> Nat]
        /\ \A t \in Streams : tail'[t] <= MaxAlerts[t] /\ tail[t] <= tail'[t]
    BY <1>1 DEF LoopTypeInv, LoopTypeOK
  <1>3. LoopTypeOK'
    BY <1>1, <1>2 DEF LoopTypeInv, LoopTypeOK, loopVars
  <1>4. ASSUME NEW i \in DOMAIN todo
        PROVE  todo[i][2] <= tail'[todo[i][1]]
    <2>1. todo[i] \in Alerts
      BY DEF LoopTypeInv, LoopTypeOK
    <2>2. todo[i][1] \in Streams /\ todo[i][2] \in Nat
      BY <2>1, AlertTypes
    <2>3. todo[i][2] <= tail[todo[i][1]]
      BY DEF LoopTypeInv
    <2>4. tail[todo[i][1]] <= tail'[todo[i][1]]
      BY <1>2, <2>2
    <2>5. tail[todo[i][1]] \in Nat /\ tail'[todo[i][1]] \in Nat
      BY <1>2, <2>2 DEF LoopTypeInv, LoopTypeOK
    <2> HIDE <1>2
    <2> QED  BY <2>2, <2>3, <2>4, <2>5
  <1> QED  BY <1>1, <1>3, <1>4 DEF LoopTypeInv, loopVars

LEMMA RunLoopTypes ==
    ASSUME LoopTypeInv, Run
    PROVE  LoopTypeInv'
  <1> USE DEF LoopTypeInv, LoopTypeOK, streamVars
  <1>1. CASE RunBegins  BY <1>1 DEF RunBegins
  <1>2. CASE Poll  BY <1>2 DEF Poll
  <1>3. CASE PollServed
    <2>1. todo' \in Seq(Alerts)
      BY <1>3, AnswerTypes
    <2>2. UNCHANGED <<tail, at, ids, following, canceled, stopped>> /\ hub' = "handling"
      BY <1>3 DEF PollServed
    <2>3. \A s \in Streams : \A i \in DOMAIN Entries(s) : Entries(s)[i][2] <= tail[Entries(s)[i][1]]
      BY EntriesOfStream
    <2>4. \A i \in DOMAIN todo' : todo'[i][2] <= tail[todo'[i][1]]
      BY <1>3, <2>3, AnswerTypes DEF Streams
    <2> QED  BY <2>1, <2>2, <2>4
  <1>4. CASE PollReturnsNothing  BY <1>4 DEF PollReturnsNothing
  <1>5. CASE AlertHandled
    <2> DEFINE m == Head(todo)
    <2>1. /\ m \in Alerts /\ m[2] <= tail[m[1]] /\ todo' \in Seq(Alerts)
          /\ \A i \in DOMAIN todo' : todo'[i][2] <= tail'[todo'[i][1]]
      BY <1>5, HandlingTypes DEF AlertHandled
    <2>2. /\ UNCHANGED <<tail, hub, at, canceled, stopped>> /\ following' = following \cup {m[1]}
          /\ ids' = [ids EXCEPT ![m[1]] = m[2]]
      BY <1>5 DEF AlertHandled, HandleAlert
    <2>3. m[1] \in Streams /\ m[2] \in Nat
      BY <2>1, AlertTypes
    <2> QED  BY <2>1, <2>2, <2>3
  <1>6. CASE MalformedSkipped
    BY <1>6, HandlingTypes DEF MalformedSkipped
  <1>7. CASE BatchDone \/ RunReturns  BY <1>7 DEF BatchDone, RunReturns
  <1> QED  BY <1>1, <1>2, <1>3, <1>4, <1>5, <1>6, <1>7 DEF Run

\* A broadcast fills channels up to their capacity.
LEMMA BroadcastTypes ==
    ASSUME HubTypeOK, NEW m \in Alerts, Broadcast(m)
    PROVE  /\ channel' \in [Clients -> Seq(Alerts)]
           /\ \A c \in Clients : Len(channel'[c]) <= ChannelSize
  <1> DEFINE Room(c) == c \in subscribers /\ Len(channel[c]) < ChannelSize
  <1>1. \A c \in Clients : /\ channel[c] \in Seq(Alerts) /\ Len(channel[c]) \in Nat
                           /\ Len(channel[c]) <= ChannelSize
                           /\ Append(channel[c], m) \in Seq(Alerts)
                           /\ Len(Append(channel[c], m)) = Len(channel[c]) + 1
    BY DEF HubTypeOK
  <1>2. channel' = [c \in Clients |-> IF Room(c) THEN Append(channel[c], m) ELSE channel[c]]
    BY DEF Broadcast
  <1>3. \A c \in Clients : channel'[c] = channel[c] \/ (Room(c) /\ channel'[c] = Append(channel[c], m))
    BY <1>2
  <1> QED  BY <1>1, <1>2, <1>3

LEMMA HubTypes ==
    ASSUME TypeInv, Next
    PROVE  HubTypeInv'
  <1> USE DEF HubTypeInv, HubTypeOK
  <1>1. HubTypeInv
    BY DEF TypeInv
  <1>2. CASE AlertHandled
    <2> DEFINE m == Head(todo)
    <2>1. m \in Alerts
      BY <1>2, HandlingTypes DEF AlertHandled, TypeInv, streamVars
    <2>2. /\ Broadcast(m) /\ handled' = handled \cup {m} /\ UNCHANGED subscribers
          /\ owed' = [c \in Clients |-> IF c \in subscribers THEN owed[c] \cup {m} ELSE owed[c]]
      BY <1>2 DEF AlertHandled, HandleAlert, connVars
    <2>3. owed' \in [Clients -> SUBSET Alerts]
      BY <1>1, <2>1, <2>2
    <2> QED  BY <1>1, <2>1, <2>2, <2>3, BroadcastTypes
  <1>3. ASSUME NEW c \in Clients, Subscribe(c)
        PROVE  HubTypeInv'
    <2>1. /\ subscribers' = subscribers \cup {c} /\ Cardinality(subscribers) < MaxSubscribers
          /\ UNCHANGED <<channel, handled, owed>>
      BY <1>3 DEF Subscribe, UnderLimit, histVars
    <2>2. IsFiniteSet(subscribers') /\ Cardinality(subscribers) \in Nat
      BY <1>1, <2>1, FS_AddElement, FS_CardinalityType
    <2>3. \/ Cardinality(subscribers') = Cardinality(subscribers)
          \/ Cardinality(subscribers') = Cardinality(subscribers) + 1
      BY <1>1, <2>1, FS_AddElement
    <2>4. Cardinality(subscribers') <= MaxSubscribers
      BY <2>1, <2>2, <2>3
    <2> QED  BY <1>1, <2>1, <2>2, <2>4
  <1>4. ASSUME NEW c \in Clients, WriterTakes(c)
        PROVE  HubTypeInv'
    <2>1. /\ channel[c] # <<>> /\ channel' = [channel EXCEPT ![c] = Tail(@)]
          /\ UNCHANGED <<subscribers, handled, owed>>
      BY <1>4 DEF WriterTakes, histVars
    <2>2. /\ Tail(channel[c]) \in Seq(Alerts) /\ Len(channel[c]) \in Nat
          /\ Len(Tail(channel[c])) = Len(channel[c]) - 1
      BY <1>1, <2>1
    <2>3. Len(Tail(channel[c])) <= ChannelSize
      BY <1>1, <2>2
    <2> QED  BY <1>1, <2>1, <2>2, <2>3
  <1>5. ASSUME NEW c \in Clients, WriterUnsubscribes(c)
        PROVE  HubTypeInv'
    <2>1. /\ subscribers' = subscribers \ {c} /\ channel' = [channel EXCEPT ![c] = <<>>]
          /\ UNCHANGED <<handled, owed>>
      BY <1>5 DEF WriterUnsubscribes, histVars
    <2>2. /\ IsFiniteSet(subscribers') /\ Cardinality(subscribers') <= Cardinality(subscribers)
          /\ Cardinality(subscribers) \in Nat /\ Cardinality(subscribers') \in Nat
      BY <1>1, <2>1, FS_Subset, FS_CardinalityType
    <2>3. Cardinality(subscribers') <= MaxSubscribers
      BY <1>1, <2>2
    <2> QED  BY <1>1, <2>1, <2>2, <2>3, EmptySequence
  <1>6. CASE UNCHANGED <<subscribers, channel, handled, owed>>
    BY <1>1, <1>6
  <1>7. ASSUME NEW c \in Clients,
               SubscribeRefused(c) \/ PeerLeaves(c) \/ ReadFails(c) \/ AlertWritten(c) \/ WriteFails(c)
               \/ PingFails(c) \/ WriterSeesDone(c) \/ WriterCloses(c)
        PROVE  UNCHANGED <<subscribers, channel, handled, owed>>
    BY <1>7 DEF SubscribeRefused, PeerLeaves, ReadFails, AlertWritten, WriteFails, PingFails,
                WriterSeesDone, WriterCloses, histVars
  <1>8. ASSUME RunBegins \/ Poll \/ PollServed \/ PollReturnsNothing \/ MalformedSkipped
               \/ BatchDone \/ RunReturns \/ Stop \/ \E s \in Streams : Publish(s)
        PROVE  UNCHANGED <<subscribers, channel, handled, owed>>
    BY <1>8 DEF RunBegins, Poll, PollServed, PollReturnsNothing, MalformedSkipped, BatchDone,
                RunReturns, Stop, Publish, connVars, histVars
  <1> QED  BY <1>2, <1>3, <1>4, <1>5, <1>6, <1>7, <1>8 DEF Next, Run, WriteLoop

LEMMA ConnTypes ==
    ASSUME TypeInv, Next
    PROVE  ConnTypeOK'
  <1> USE DEF ConnTypeOK
  <1>1. ConnTypeOK /\ channel \in [Clients -> Seq(Alerts)]
    BY DEF TypeInv, HubTypeInv, HubTypeOK
  <1>2. ASSUME NEW c \in Clients, WriterTakes(c)
        PROVE  ConnTypeOK'
    <2>1. <<Head(channel[c])>> \in Seq(Alerts)
      BY <1>1, <1>2 DEF WriterTakes
    <2> QED  BY <1>1, <1>2, <2>1 DEF WriterTakes
  <1>3. ASSUME NEW c \in Clients, AlertWritten(c)
        PROVE  ConnTypeOK'
    <2>1. got[c] \o frame[c] \in Seq(Alerts)
      BY <1>1
    <2> QED  BY <1>1, <1>3, <2>1, EmptySequence DEF AlertWritten
  <1>4. ASSUME NEW c \in Clients, Subscribe(c) \/ SubscribeRefused(c) \/ PeerLeaves(c) \/ ReadFails(c)
               \/ PingFails(c) \/ WriterSeesDone(c) \/ WriterCloses(c) \/ WriterUnsubscribes(c)
        PROVE  ConnTypeOK'
    BY <1>1, <1>4 DEF Subscribe, SubscribeRefused, PeerLeaves, ReadFails,
                PingFails, WriterSeesDone, WriterCloses, WriterUnsubscribes
  <1>5. ASSUME NEW c \in Clients, WriteFails(c)
        PROVE  ConnTypeOK'
    BY <1>1, <1>5, EmptySequence DEF WriteFails
  <1>6. CASE (\E s \in Streams : Publish(s)) \/ Run \/ Stop
    BY <1>1, <1>6 DEF Run, RunBegins, Poll, PollServed, PollReturnsNothing, AlertHandled,
                MalformedSkipped, BatchDone, RunReturns, Stop, Publish, connVars
  <1> QED  BY <1>2, <1>3, <1>4, <1>5, <1>6 DEF Next, WriteLoop

LEMMA TypesKept == TypeInv /\ [Next]_vars => TypeInv'
  <1> SUFFICES ASSUME TypeInv, [Next]_vars
               PROVE  TypeInv'
    OBVIOUS
  <1>1. CASE UNCHANGED vars
    BY <1>1 DEF TypeInv, LoopTypeInv, LoopTypeOK, HubTypeInv, HubTypeOK, ConnTypeOK,
                vars, streamVars, loopVars, connVars, histVars
  <1>2. CASE Next
    <2>1. ASSUME NEW c \in Clients,
                 Subscribe(c) \/ SubscribeRefused(c) \/ PeerLeaves(c) \/ ReadFails(c) \/ WriteLoop(c)
          PROVE  UNCHANGED <<streamVars, loopVars>>
      BY <2>1 DEF Subscribe, SubscribeRefused, PeerLeaves, ReadFails, WriteLoop, WriterTakes,
                  AlertWritten, WriteFails, PingFails, WriterSeesDone, WriterUnsubscribes, WriterCloses
    <2>2. ASSUME UNCHANGED <<streamVars, loopVars>>
          PROVE  LoopTypeInv'
      BY <2>2 DEF TypeInv, LoopTypeInv, LoopTypeOK, streamVars, loopVars
    <2>3. ASSUME Stop
          PROVE  LoopTypeInv'
      BY <2>3 DEF Stop, TypeInv, LoopTypeInv, LoopTypeOK, streamVars
    <2>4. LoopTypeInv'
      BY <1>2, <2>1, <2>2, <2>3, StreamLoopTypes, RunLoopTypes DEF Next, TypeInv
    <2> QED  BY <1>2, <2>4, HubTypes, ConnTypes DEF TypeInv
  <1> QED  BY <1>1, <1>2

\* The variables keep their types, the subscribers and the channels their bounds.
THEOREM TypeCorrect == Spec => []TypeOK
  <1>1. TypeInv => TypeOK
    BY DEF TypeInv, LoopTypeInv, HubTypeInv, TypeOK
  <1> QED  BY <1>1, TypesStart, TypesKept, PTL DEF Spec

-----------------------------------------------------------------------------
(* The position in a stream.                                               *)

Settled == handled \cup Malformed

\* Between its XREADs the loop holds no answer.
IdleInv ==
    /\ hub = "starting" => following = {}
    /\ hub # "handling" => todo = <<>>

\* What was broadcast lies in a stream that is followed, up to its id; an XREAD
\* under way began there; from there to the id everything is settled.
PassedInv ==
    /\ \A m \in handled : m[1] \in following /\ m[2] <= ids[m[1]]
    /\ \A s \in following :
          /\ hub = "reading" => at[s] = ids[s]
          /\ \A n \in (at[s] + 1)..ids[s] : <<s, n>> \in Settled

\* An alert still to be handled lies ahead of the id of its stream and of its
\* predecessors in the answer, and those are all that is not settled before it.
AheadInv ==
    \A i \in DOMAIN todo :
        /\ todo[i][1] \in following => ids[todo[i][1]] < todo[i][2]
        /\ at[todo[i][1]] < todo[i][2]
        /\ \A j \in DOMAIN todo : j < i /\ todo[j][1] = todo[i][1] => todo[j][2] < todo[i][2]
        /\ \A n \in (at[todo[i][1]] + 1)..(todo[i][2] - 1) :
              \/ <<todo[i][1], n>> \in Settled
              \/ \E j \in DOMAIN todo : j < i /\ todo[j] = <<todo[i][1], n>>

LoopInv == IdleInv /\ PassedInv /\ AheadInv

LEMMA LoopStarts == Init => LoopInv
  <1> SUFFICES ASSUME Init
               PROVE  LoopInv
    OBVIOUS
  <1>1. DOMAIN todo = {}
    BY DEF Init
  <1> QED  BY <1>1 DEF Init, LoopInv, IdleInv, PassedInv, AheadInv

\* The answer of an XREAD, put in front of the loop.
LEMMA AnswerAhead ==
    ASSUME LoopTypeInv, LoopInv, PollServed
    PROVE  AheadInv'
  <1> DEFINE e == Entries("spikes")
             f == Entries("editwars")
             Ahead(i, s, k) ==
                /\ s \in following => ids[s] < k
                /\ at[s] < k
                /\ \A j \in DOMAIN todo' : j < i /\ todo'[j][1] = s => todo'[j][2] < k
                /\ \A n \in (at[s] + 1)..(k - 1) : \E j \in DOMAIN todo' : j < i /\ todo'[j] = <<s, n>>
  <1>1. /\ e \in Seq(Alerts) /\ f \in Seq(Alerts) /\ LoopTypeOK
        /\ \A i \in DOMAIN e : i \in Nat \ {0} /\ e[i] = <<"spikes", at["spikes"] + i>>
        /\ \A i \in DOMAIN f : i \in Nat \ {0} /\ f[i] = <<"editwars", at["editwars"] + i>>
    BY EntriesOfStream DEF Streams, LoopTypeInv
  <1>2. /\ todo' = e \o f /\ UNCHANGED <<at, ids, following, handled>>
        /\ \A s \in following : at[s] = ids[s]
    BY DEF PollServed, LoopInv, PassedInv, histVars
  <1>3. at["spikes"] \in Nat /\ at["editwars"] \in Nat /\ "spikes" # "editwars"
    BY <1>1 DEF LoopTypeOK, Streams
  <1> HIDE DEF e, f
  <1>4. /\ DOMAIN (e \o f) = 1..(Len(e) + Len(f)) /\ Len(e) \in Nat /\ Len(f) \in Nat
        /\ DOMAIN e = 1..Len(e) /\ DOMAIN f = 1..Len(f)
        /\ \A i \in DOMAIN e : (e \o f)[i] = e[i]
        /\ \A i \in DOMAIN f : (e \o f)[Len(e) + i] = f[i]
    BY <1>1
  <1>5. /\ \A i \in 1..Len(e) : todo'[i] = <<"spikes", at["spikes"] + i>>
        /\ \A i \in 1..Len(f) : todo'[Len(e) + i] = <<"editwars", at["editwars"] + i>>
        /\ DOMAIN todo' = 1..(Len(e) + Len(f))
    BY <1>1, <1>2, <1>4
  <1>6. ASSUME NEW i \in 1..(Len(e) + Len(f))
        PROVE  i \in 1..Len(e) \/ \E k \in 1..Len(f) : i = Len(e) + k
    <2>1. i \in 1..Len(e) \/ (i - Len(e) \in 1..Len(f) /\ i = Len(e) + (i - Len(e)))
      BY <1>4
    <2> QED  BY <2>1
  <1>7. ASSUME NEW i \in 1..Len(e)
        PROVE  Ahead(i, "spikes", at["spikes"] + i)
    <2>1. \A j \in DOMAIN todo' : j < i => todo'[j][2] = at["spikes"] + j
      BY <1>4, <1>5
    <2>2. ASSUME NEW n \in (at["spikes"] + 1)..(at["spikes"] + i - 1)
          PROVE  \E j \in DOMAIN todo' : j < i /\ todo'[j] = <<"spikes", n>>
      <3> DEFINE l == n - at["spikes"]
      <3>1. /\ l \in 1..Len(e) /\ l \in 1..(Len(e) + Len(f)) /\ l < i
            /\ at["spikes"] + l = n
        BY <1>3, <1>4
      <3>2. todo'[l] = <<"spikes", n>>
        BY <3>1, <1>5
      <3> QED  BY <3>1, <3>2, <1>5
    <2>3. \A j \in DOMAIN todo' : j < i => todo'[j][2] < at["spikes"] + i
      BY <2>1, <1>3, <1>5
    <2>4. at["spikes"] < at["spikes"] + i /\ ("spikes" \in following => ids["spikes"] < at["spikes"] + i)
      BY <1>2, <1>3
    <2>5. \A j \in DOMAIN todo' : j < i /\ todo'[j][1] = "spikes" => todo'[j][2] < at["spikes"] + i
      BY <2>3
    <2>6. \A n \in (at["spikes"] + 1)..(at["spikes"] + i - 1) :
              \E j \in DOMAIN todo' : j < i /\ todo'[j] = <<"spikes", n>>
      BY <2>2
    <2> QED  BY <2>4, <2>5, <2>6, <1>3, <1>4
  <1>8. ASSUME NEW k \in 1..Len(f)
        PROVE  Ahead(Len(e) + k, "editwars", at["editwars"] + k)
    <2>1. ASSUME NEW j \in DOMAIN todo', j < Len(e) + k, todo'[j][1] = "editwars"
          PROVE  todo'[j][2] < at["editwars"] + k
      <3>1. j \notin 1..Len(e)
        BY <2>1, <1>3, <1>5
      <3>2. PICK l \in 1..Len(f) : j = Len(e) + l
        BY <3>1, <1>5, <1>6
      <3>3. l < k /\ todo'[j][2] = at["editwars"] + l
        BY <3>2, <2>1, <1>4, <1>5
      <3> QED  BY <3>3, <1>3, <1>4
    <2>2. ASSUME NEW n \in (at["editwars"] + 1)..(at["editwars"] + k - 1)
          PROVE  \E j \in DOMAIN todo' : j < Len(e) + k /\ todo'[j] = <<"editwars", n>>
      <3> DEFINE l == n - at["editwars"]
      <3>1. /\ l \in 1..Len(f) /\ l < k /\ at["editwars"] + l = n
            /\ Len(e) + l \in 1..(Len(e) + Len(f)) /\ Len(e) + l < Len(e) + k
        BY <1>3, <1>4
      <3>2. todo'[Len(e) + l] = <<"editwars", n>>
        BY <3>1, <1>5
      <3> QED  BY <3>1, <3>2, <1>5
    <2>3. /\ at["editwars"] < at["editwars"] + k
          /\ "editwars" \in following => ids["editwars"] < at["editwars"] + k
      BY <1>2, <1>3
    <2> QED  BY <2>1, <2>2, <2>3, <1>3, <1>4
  <1>9. ASSUME NEW i \in DOMAIN todo'
        PROVE  Ahead(i, todo'[i][1], todo'[i][2])
    <2>1. CASE i \in 1..Len(e)
      <3>1. todo'[i][1] = "spikes" /\ todo'[i][2] = at["spikes"] + i
        BY <2>1, <1>5
      <3> HIDE DEF Ahead
      <3> QED  BY <2>1, <3>1, <1>7
    <2>2. ASSUME NEW k \in 1..Len(f), i = Len(e) + k
          PROVE  Ahead(i, todo'[i][1], todo'[i][2])
      <3>1. todo'[i][1] = "editwars" /\ todo'[i][2] = at["editwars"] + k
        BY <2>2, <1>5
      <3> HIDE DEF Ahead
      <3> QED  BY <2>2, <3>1, <1>8
    <2> QED  BY <2>1, <2>2, <1>5, <1>6
  <1> QED  BY <1>2, <1>9 DEF AheadInv

\* The first alert of an answer goes, and is settled.
LEMMA RestAhead ==
    ASSUME LoopTypeInv, LoopInv, todo # <<>>, todo' = Tail(todo), UNCHANGED <<tail, at>>,
           Head(todo) \in Settled', Settled \subseteq Settled',
           \/ UNCHANGED <<ids, following>>
           \/ /\ ids' = [ids EXCEPT ![Head(todo)[1]] = Head(todo)[2]]
              /\ following' = following \cup {Head(todo)[1]}
    PROVE  AheadInv'
  <1> DEFINE m == Head(todo)
  <1>1. /\ m \in Alerts /\ m = todo[1]
        /\ \A i \in DOMAIN todo' : i + 1 \in DOMAIN todo /\ i \in Nat \ {0} /\ todo'[i] = todo[i + 1]
        /\ DOMAIN todo = 1..Len(todo) /\ Len(todo) \in Nat \ {0} /\ DOMAIN todo' = 1..(Len(todo) - 1)
    BY HandlingTypes
  <1>2. ids \in [Streams -> Nat] /\ \A i \in DOMAIN todo : todo[i] \in Alerts
    BY DEF LoopTypeInv, LoopTypeOK
  <1>3. ASSUME NEW i \in DOMAIN todo'
        PROVE  /\ todo'[i][1] \in following' => ids'[todo'[i][1]] < todo'[i][2]
               /\ at[todo'[i][1]] < todo'[i][2]
               /\ \A j \in DOMAIN todo' :
                     j < i /\ todo'[j][1] = todo'[i][1] => todo'[j][2] < todo'[i][2]
               /\ \A n \in (at[todo'[i][1]] + 1)..(todo'[i][2] - 1) :
                     \/ <<todo'[i][1], n>> \in Settled'
                     \/ \E j \in DOMAIN todo' : j < i /\ todo'[j] = <<todo'[i][1], n>>
    <2> DEFINE a == todo[i + 1]
    <2>1. i + 1 \in DOMAIN todo /\ i \in Nat \ {0} /\ todo'[i] = a /\ 1 \in DOMAIN todo /\ 1 < i + 1
      BY <1>1
    <2>2. a[1] \in Streams /\ m[1] \in Streams
      BY <2>1, <1>1, <1>2, AlertTypes
    <2>3. /\ a[1] \in following => ids[a[1]] < a[2]
          /\ at[a[1]] < a[2]
          /\ \A j \in DOMAIN todo : j < i + 1 /\ todo[j][1] = a[1] => todo[j][2] < a[2]
          /\ \A n \in (at[a[1]] + 1)..(a[2] - 1) :
                \/ <<a[1], n>> \in Settled
                \/ \E j \in DOMAIN todo : j < i + 1 /\ todo[j] = <<a[1], n>>
      BY <2>1 DEF LoopInv, AheadInv
    <2> HIDE DEF a
    <2>4. m[1] = a[1] => m[2] < a[2]
      BY <1>1, <2>1, <2>3
    <2>5. a[1] \in following' => ids'[a[1]] < a[2]
      BY <1>2, <2>2, <2>3, <2>4
    <2>6. \A j \in DOMAIN todo' : j < i /\ todo'[j][1] = a[1] => todo'[j][2] < a[2]
      BY <1>1, <2>1, <2>3
    <2>7. ASSUME NEW n \in (at[a[1]] + 1)..(a[2] - 1), <<a[1], n>> \notin Settled'
          PROVE  \E j \in DOMAIN todo' : j < i /\ todo'[j] = <<a[1], n>>
      <3>1. PICK j \in DOMAIN todo : j < i + 1 /\ todo[j] = <<a[1], n>>
        BY <2>3, <2>7
      <3>2. j # 1
        BY <3>1, <2>7, <1>1
      <3>3. j - 1 \in DOMAIN todo' /\ j - 1 < i /\ (j - 1) + 1 = j
        BY <3>1, <3>2, <1>1, <2>1
      <3>4. todo'[j - 1] = todo[j]
        BY <3>3, <1>1
      <3> QED  BY <3>1, <3>3, <3>4
    <2> QED  BY <2>1, <2>3, <2>5, <2>6, <2>7
  <1> QED  BY <1>3 DEF AheadInv

\* The first alert of an answer is broadcast.
LEMMA HandledLoop ==
    ASSUME LoopTypeInv, handled \subseteq Alerts, LoopInv, AlertHandled
    PROVE  LoopInv'
  <1> DEFINE m == Head(todo)
             s == Head(todo)[1]
  <1>1. /\ hub = "handling" /\ todo # <<>> /\ todo' = Tail(todo) /\ handled' = handled \cup {m}
        /\ following' = following \cup {s} /\ ids' = [ids EXCEPT ![s] = m[2]]
        /\ UNCHANGED <<tail, hub, at>>
    BY DEF AlertHandled, HandleAlert, streamVars
  <1>2. m \in Alerts /\ m = todo[1] /\ 1 \in DOMAIN todo /\ DOMAIN todo = 1..Len(todo)
    BY <1>1, HandlingTypes
  <1>3. s \in Streams /\ m[2] \in Nat /\ m = <<s, m[2]>> /\ ids \in [Streams -> Nat]
        /\ at \in [Streams -> Nat] /\ handled \subseteq handled'
    BY <1>1, <1>2, AlertTypes DEF LoopTypeInv, LoopTypeOK
  <1>4. /\ s \in following => ids[s] < m[2]
        /\ \A n \in (at[s] + 1)..(m[2] - 1) : <<s, n>> \in Settled
    BY <1>2 DEF LoopInv, AheadInv
  <1>5. IdleInv'
    BY <1>1 DEF IdleInv
  <1>6. \A a \in handled' : a[1] \in following' /\ a[2] <= ids'[a[1]]
    <2>1. ASSUME NEW a \in handled
          PROVE  a[1] \in following' /\ a[2] <= ids'[a[1]]
      <3>1. a[1] \in following /\ a[2] <= ids[a[1]]
        BY DEF LoopInv, PassedInv
      <3>2. following \subseteq Streams
        BY DEF LoopTypeInv, LoopTypeOK
      <3>3. a[2] \in Nat
        BY <2>1, AlertTypes
      <3> QED  BY <1>1, <1>3, <1>4, <3>1, <3>2, <3>3
    <2>2. m[1] \in following' /\ m[2] <= ids'[m[1]]
      BY <1>1, <1>3
    <2> QED  BY <1>1, <2>1, <2>2
  <1>7. ASSUME NEW t \in following', NEW n \in (at'[t] + 1)..ids'[t]
        PROVE  <<t, n>> \in Settled'
    <2>1. CASE t = s
      <3>1. n = m[2] \/ n \in (at[s] + 1)..(m[2] - 1)
        BY <1>1, <1>3, <2>1
      <3> QED  BY <1>1, <1>3, <1>4, <2>1, <3>1 DEF Settled
    <2>2. CASE t # s
      <3>1. t \in following /\ n \in (at[t] + 1)..ids[t]
        BY <1>1, <1>3, <2>2
      <3> QED  BY <1>1, <3>1 DEF LoopInv, PassedInv, Settled
    <2> QED  BY <2>1, <2>2
  <1>8. AheadInv'
    BY <1>1, RestAhead DEF Settled
  <1> QED  BY <1>1, <1>5, <1>6, <1>7, <1>8 DEF LoopInv, PassedInv

LEMMA LoopKept == TypeInv /\ LoopInv /\ [Next]_vars => LoopInv'
  <1> SUFFICES ASSUME TypeInv, LoopInv, [Next]_vars
               PROVE  LoopInv'
    OBVIOUS
  <1>1. LoopTypeInv /\ following \subseteq Streams /\ handled \subseteq Alerts
    BY DEF TypeInv, LoopTypeInv, LoopTypeOK, HubTypeInv, HubTypeOK
  <1>2. CASE RunBegins
    <2>1. following = {} /\ handled = {} /\ DOMAIN todo = {}
      BY <1>2 DEF RunBegins, LoopInv, IdleInv, PassedInv
    <2> QED  BY <1>2, <2>1 DEF RunBegins, LoopInv, IdleInv, PassedInv, AheadInv, histVars
  <1>3. CASE Poll
    <2>1. todo = <<>> /\ DOMAIN todo = {}
      BY <1>3 DEF Poll, LoopInv, IdleInv
    <2>2. /\ \A s \in following : at'[s] = ids[s]
          /\ hub' = "reading" /\ UNCHANGED <<following, ids, todo, handled>>
      BY <1>1, <1>3 DEF Poll, histVars
    <2>3. \A s \in following : ids[s] \in Nat
      BY <1>1 DEF LoopTypeInv, LoopTypeOK
    <2>4. PassedInv'
      BY <2>2, <2>3 DEF LoopInv, PassedInv
    <2> QED  BY <2>1, <2>2, <2>4 DEF LoopInv, IdleInv, AheadInv
  <1>4. CASE PollServed
    <2>1. AheadInv'
      BY <1>1, <1>4, AnswerAhead
    <2>2. IdleInv' /\ PassedInv'
      BY <1>4 DEF PollServed, LoopInv, IdleInv, PassedInv, Settled, histVars
    <2> QED  BY <2>1, <2>2 DEF LoopInv
  <1>5. CASE AlertHandled
    BY <1>1, <1>5, HandledLoop
  <1>6. CASE MalformedSkipped
    <2>1. /\ todo # <<>> /\ todo' = Tail(todo) /\ hub = "handling" /\ Head(todo) \in Malformed
          /\ UNCHANGED <<tail, hub, at, ids, following, handled>>
      BY <1>6 DEF MalformedSkipped, streamVars, histVars
    <2>2. AheadInv'
      BY <1>1, <2>1, RestAhead DEF Settled
    <2> QED  BY <2>1, <2>2 DEF LoopInv, IdleInv, PassedInv, Settled
  <1>7. CASE PollReturnsNothing \/ BatchDone \/ RunReturns
    BY <1>7 DEF PollReturnsNothing, BatchDone, RunReturns, LoopInv, IdleInv, PassedInv, AheadInv,
                Settled, histVars
  <1>8. CASE UNCHANGED <<hub, following, ids, at, todo, handled>>
    BY <1>8 DEF LoopInv, IdleInv, PassedInv, AheadInv, Settled
  <1>9. ASSUME NEW c \in Clients,
               Subscribe(c) \/ SubscribeRefused(c) \/ PeerLeaves(c) \/ ReadFails(c) \/ WriteLoop(c)
        PROVE  UNCHANGED <<hub, following, ids, at, todo, handled>>
    BY <1>9 DEF Subscribe, SubscribeRefused, PeerLeaves, ReadFails, WriteLoop, WriterTakes, AlertWritten,
                WriteFails, PingFails, WriterSeesDone, WriterUnsubscribes, WriterCloses, loopVars, histVars
  <1>10. ASSUME Stop \/ UNCHANGED vars \/ \E s \in Streams : Publish(s)
         PROVE  UNCHANGED <<hub, following, ids, at, todo, handled>>
    BY <1>10 DEF Stop, Publish, vars, loopVars, histVars
  <1> QED  BY <1>2, <1>3, <1>4, <1>5, <1>6, <1>7, <1>8, <1>9, <1>10 DEF Next, Run

\* From the first alert of a stream on, the hub's position passes no alert that it
\* has not broadcast and that is not malformed.
THEOREM FollowsStreams == Spec => FollowsWithoutGap
  <1>1. TypeInv /\ LoopInv /\ [Next]_vars =>
            [\A s \in following : \A n \in (at[s] + 1)..at'[s] : <<s, n>> \in handled \cup Malformed]_vars
    <2> SUFFICES ASSUME TypeInv, LoopInv, Next, NEW s \in following, NEW n \in (at[s] + 1)..at'[s]
                 PROVE  <<s, n>> \in handled \cup Malformed
      BY DEF vars
    <2>1. s \in Streams /\ at \in [Streams -> Nat]
      BY DEF TypeInv, LoopTypeInv, LoopTypeOK
    <2>2. ~ RunBegins
      BY DEF RunBegins, LoopInv, IdleInv
    <2>3. CASE Poll
      <3>1. at'[s] = ids[s]
        BY <2>1, <2>3 DEF Poll
      <3> QED  BY <3>1 DEF LoopInv, PassedInv, Settled
    <2>4. CASE at' = at
      BY <2>1, <2>4
    <2>5. Poll \/ at' = at
      BY <2>2 DEF Next, Run, PollServed, PollReturnsNothing, AlertHandled, MalformedSkipped, BatchDone,
             RunReturns, Stop, Publish, Subscribe, SubscribeRefused, PeerLeaves, ReadFails, WriteLoop,
             WriterTakes, AlertWritten, WriteFails, PingFails, WriterSeesDone, WriterUnsubscribes,
             WriterCloses, loopVars
    <2> QED  BY <2>3, <2>4, <2>5
  <1> QED  BY <1>1, TypesStart, TypesKept, LoopStarts, LoopKept, PTL DEF Spec, FollowsWithoutGap

-----------------------------------------------------------------------------
(* The lines of the subscribers.                                           *)

\* No alert of T comes before one of S.
AllBefore(S, T) == \A m \in S, n \in T : m # n /\ ~ FeedOfHub!Before(n, m)

Held(c) == ToSet(got[c]) \cup ToSet(frame[c]) \cup ToSet(channel[c])

\* The alerts of a client, from its peer back to its channel: all owed, all
\* broadcast, in order, and none in two places.
Line(c) ==
    /\ Held(c) \subseteq owed[c] /\ owed[c] \subseteq handled
    /\ FeedOfHub!InOrder(got[c]) /\ FeedOfHub!InOrder(frame[c]) /\ FeedOfHub!InOrder(channel[c])
    /\ AllBefore(ToSet(got[c]), ToSet(frame[c]) \cup ToSet(channel[c]))
    /\ AllBefore(ToSet(frame[c]), ToSet(channel[c]))

\* A frame exists only while it is written, and a write loop or a subscriber has
\* a connection.
Served(c) ==
    /\ conn[c] = "none" => writer[c] = "none"
    /\ writer[c] # "writing" => frame[c] = <<>>
    /\ c \in subscribers => conn[c] # "none"

LineInv == \A c \in Clients : Line(c) /\ Served(c)

LEMMA ConcatInOrder ==
    ASSUME NEW s \in Seq(Alerts), NEW t \in Seq(Alerts),
           FeedOfHub!InOrder(s), FeedOfHub!InOrder(t), AllBefore(ToSet(s), ToSet(t))
    PROVE  FeedOfHub!InOrder(s \o t)
  <1> SUFFICES ASSUME NEW i \in DOMAIN (s \o t), NEW j \in DOMAIN (s \o t), i < j
               PROVE  (s \o t)[i] # (s \o t)[j]
                      /\ ~ FeedOfHub!Before((s \o t)[j], (s \o t)[i])
    BY DEF FeedOfHub!InOrder
  <1>1. /\ Len(s) \in Nat /\ Len(t) \in Nat /\ DOMAIN s = 1..Len(s) /\ DOMAIN t = 1..Len(t)
        /\ DOMAIN (s \o t) = 1..(Len(s) + Len(t))
        /\ \A k \in DOMAIN (s \o t) : (s \o t)[k] = IF k <= Len(s) THEN s[k] ELSE t[k - Len(s)]
    OBVIOUS
  <1>2. CASE j <= Len(s)
    BY <1>1, <1>2 DEF FeedOfHub!InOrder
  <1>3. CASE i <= Len(s) /\ Len(s) < j
    <2>1. (s \o t)[i] = s[i] /\ i \in DOMAIN s
      BY <1>1, <1>3
    <2>2. (s \o t)[j] = t[j - Len(s)] /\ j - Len(s) \in DOMAIN t
      BY <1>1, <1>3
    <2>3. s[i] \in ToSet(s) /\ t[j - Len(s)] \in ToSet(t)
      BY <2>1, <2>2 DEF ToSet
    <2> QED  BY <2>1, <2>2, <2>3 DEF AllBefore
  <1>4. CASE Len(s) < i
    <2>1. /\ (s \o t)[i] = t[i - Len(s)] /\ i - Len(s) \in DOMAIN t
          /\ (s \o t)[j] = t[j - Len(s)] /\ j - Len(s) \in DOMAIN t
          /\ i - Len(s) < j - Len(s)
      BY <1>1, <1>4
    <2> QED  BY <2>1 DEF FeedOfHub!InOrder
  <1> QED  BY <1>1, <1>2, <1>3, <1>4

LEMMA ShortInOrder ==
    /\ FeedOfHub!InOrder(<<>>) /\ ToSet(<<>>) = {}
    /\ \A m : FeedOfHub!InOrder(<<m>>) /\ ToSet(<<m>>) = {m}
  BY DEF FeedOfHub!InOrder, ToSet

LEMMA HeadInOrder ==
    ASSUME NEW s \in Seq(Alerts), s # <<>>, FeedOfHub!InOrder(s)
    PROVE  /\ FeedOfHub!InOrder(Tail(s)) /\ AllBefore({Head(s)}, ToSet(Tail(s)))
           /\ ToSet(s) = {Head(s)} \cup ToSet(Tail(s))
  <1>1. /\ DOMAIN s = 1..Len(s) /\ DOMAIN Tail(s) = 1..(Len(s) - 1)
        /\ Len(s) \in Nat /\ Len(s) >= 1 /\ Head(s) = s[1]
    OBVIOUS
  <1>2. \A i \in DOMAIN Tail(s) : Tail(s)[i] = s[i + 1] /\ i + 1 \in DOMAIN s /\ 1 < i + 1
    OBVIOUS
  <1>3. FeedOfHub!InOrder(Tail(s))
    <2>1. ASSUME NEW i \in DOMAIN Tail(s), NEW j \in DOMAIN Tail(s), i < j
          PROVE  Tail(s)[i] # Tail(s)[j] /\ ~ FeedOfHub!Before(Tail(s)[j], Tail(s)[i])
      BY <1>1, <1>2, <2>1 DEF FeedOfHub!InOrder
    <2> QED  BY <2>1 DEF FeedOfHub!InOrder
  <1>4. \A i \in DOMAIN Tail(s) : s[1] # s[i + 1] /\ ~ FeedOfHub!Before(s[i + 1], s[1])
    BY <1>1, <1>2 DEF FeedOfHub!InOrder
  <1>5. AllBefore({Head(s)}, ToSet(Tail(s)))
    BY <1>1, <1>2, <1>4 DEF AllBefore, ToSet
  <1> QED  BY <1>3, <1>5, ToSetHead

LEMMA LinesStart == Init => LineInv
  BY ShortInOrder DEF Init, LineInv, Line, Served, Held, AllBefore

LEMMA LineTypes ==
    ASSUME TypeInv, NEW c \in Clients
    PROVE  got[c] \in Seq(Alerts) /\ frame[c] \in Seq(Alerts) /\ channel[c] \in Seq(Alerts)
  BY DEF TypeInv, HubTypeInv, HubTypeOK, ConnTypeOK

\* An alert that is broadcast is newer than what a line holds.
LEMMA BroadcastLine ==
    ASSUME TypeInv, LoopInv, AlertHandled, NEW c \in Clients, Line(c)
    PROVE  Line(c)'
  <1> DEFINE m == Head(todo)
  <1>1. /\ m \in Alerts /\ m = todo[1] /\ 1 \in DOMAIN todo /\ handled \subseteq Alerts
        /\ ids \in [Streams -> Nat]
    BY HandlingTypes DEF AlertHandled, TypeInv, LoopTypeInv, LoopTypeOK, HubTypeInv, HubTypeOK, streamVars
  <1>2. ASSUME NEW n \in handled
        PROVE  n # m /\ ~ FeedOfHub!Before(m, n)
    <2>1. n[1] \in following /\ n[2] <= ids[n[1]] /\ n[1] \in Streams /\ n[2] \in Nat
      BY <1>1, AlertTypes DEF LoopInv, PassedInv
    <2>2. m[1] \in following => ids[m[1]] < m[2]
      BY <1>1 DEF LoopInv, AheadInv
    <2>3. n[1] = m[1] => n[2] < m[2]
      BY <1>1, <2>1, <2>2, AlertTypes
    <2>4. m[2] \in Nat
      BY <1>1, AlertTypes
    <2> QED  BY <2>1, <2>3, <2>4 DEF FeedOfHub!Before
  <1>3. /\ got' = got /\ frame' = frame /\ handled' = handled \cup {m}
        /\ owed'[c] = IF c \in subscribers THEN owed[c] \cup {m} ELSE owed[c]
        /\ \/ channel'[c] = channel[c]
           \/ c \in subscribers /\ channel'[c] = Append(channel[c], m)
    BY DEF AlertHandled, HandleAlert, Broadcast, connVars
  <1>4. CASE channel'[c] = channel[c]
    BY <1>3, <1>4 DEF Line, Held
  <1>5. CASE c \in subscribers /\ channel'[c] = Append(channel[c], m)
    <2>1. channel[c] \in Seq(Alerts) /\ <<m>> \in Seq(Alerts)
          /\ Append(channel[c], m) = channel[c] \o <<m>>
      BY <1>1, LineTypes
    <2>2. ToSet(channel'[c]) = ToSet(channel[c]) \cup {m}
      BY <1>1, <1>5, <2>1, ToSetAppend
    <2>3. \A n \in Held(c) : n # m /\ ~ FeedOfHub!Before(m, n)
      BY <1>2 DEF Line
    <2>4. AllBefore(ToSet(channel[c]), ToSet(<<m>>))
      BY <2>3, ShortInOrder DEF AllBefore, Held
    <2>5. FeedOfHub!InOrder(channel'[c])
      <3>1. FeedOfHub!InOrder(channel[c]) /\ FeedOfHub!InOrder(<<m>>)
        BY ShortInOrder DEF Line
      <3>2. FeedOfHub!InOrder(channel[c] \o <<m>>)
        BY <2>1, <2>4, <3>1, ConcatInOrder
      <3> QED  BY <1>5, <2>1, <3>2
    <2>6. /\ AllBefore(ToSet(got[c]), ToSet(frame[c]) \cup ToSet(channel'[c]))
          /\ AllBefore(ToSet(frame[c]), ToSet(channel'[c]))
      BY <2>2, <2>3 DEF Line, AllBefore, Held
    <2> HIDE DEF m
    <2> QED  BY <1>3, <1>5, <2>2, <2>5, <2>6 DEF Line, Held
  <1> QED  BY <1>3, <1>4, <1>5

\* The write loop moves alerts towards the peer, or drops them.
LEMMA WriterLine ==
    ASSUME TypeInv, NEW c \in Clients, Line(c), Served(c),
           WriterTakes(c) \/ AlertWritten(c) \/ WriteFails(c) \/ WriterUnsubscribes(c)
    PROVE  Line(c)' /\ Served(c)'
  <1>1. /\ got[c] \in Seq(Alerts) /\ frame[c] \in Seq(Alerts) /\ channel[c] \in Seq(Alerts)
        /\ c \in DOMAIN got /\ c \in DOMAIN frame /\ c \in DOMAIN channel /\ c \in DOMAIN writer
    BY DEF TypeInv, HubTypeInv, HubTypeOK, ConnTypeOK
  <1>2. UNCHANGED <<handled, owed, conn>> /\ subscribers' \subseteq subscribers
    BY DEF WriterTakes, AlertWritten, WriteFails, WriterUnsubscribes, histVars
  <1>. conn[c] # "none"
    BY DEF WriterTakes, AlertWritten, WriteFails, WriterUnsubscribes, Served
  <1>3. CASE WriterTakes(c)
    <2>1. /\ got'[c] = got[c] /\ frame'[c] = <<Head(channel[c])>> /\ channel'[c] = Tail(channel[c])
          /\ channel[c] # <<>> /\ frame[c] = <<>> /\ writer'[c] = "writing"
      BY <1>1, <1>3 DEF WriterTakes, Served
    <2>2. Held(c)' = Held(c)
      BY <1>1, <2>1, ShortInOrder, ToSetHead DEF Held
    <2>3. /\ FeedOfHub!InOrder(Tail(channel[c])) /\ AllBefore({Head(channel[c])}, ToSet(Tail(channel[c])))
          /\ ToSet(channel[c]) = {Head(channel[c])} \cup ToSet(Tail(channel[c]))
      BY <1>1, <2>1, HeadInOrder DEF Line
    <2>4. ToSet(frame'[c]) = {Head(channel[c])} /\ FeedOfHub!InOrder(frame'[c])
      BY <2>1, ShortInOrder
    <2> QED  BY <1>2, <2>1, <2>2, <2>3, <2>4 DEF Line, Served, AllBefore
  <1>4. CASE AlertWritten(c) /\ conn[c] = "open"
    <2>1. /\ got'[c] = got[c] \o frame[c] /\ frame'[c] = <<>> /\ channel'[c] = channel[c]
      BY <1>1, <1>4 DEF AlertWritten
    <2>2. ToSet(got[c] \o frame[c]) = ToSet(got[c]) \cup ToSet(frame[c])
      BY <1>1, ToSetConcat
    <2>3. AllBefore(ToSet(got[c]), ToSet(frame[c]))
      BY DEF Line, AllBefore
    <2>4. FeedOfHub!InOrder(got[c] \o frame[c])
      BY <1>1, <2>3, ConcatInOrder DEF Line
    <2>5. Held(c)' = Held(c)
      BY <2>1, <2>2, ShortInOrder DEF Held
    <2> QED  BY <1>2, <2>1, <2>2, <2>4, <2>5, ShortInOrder DEF Line, Served, AllBefore
  <1>5. CASE WriteFails(c) \/ (AlertWritten(c) /\ conn[c] # "open")
    <2>1. got'[c] = got[c] /\ frame'[c] = <<>> /\ channel'[c] = channel[c]
      BY <1>1, <1>5 DEF WriteFails, AlertWritten
    <2>2. Held(c)' \subseteq Held(c)
      BY <2>1, ShortInOrder DEF Held
    <2> QED  BY <1>2, <2>1, <2>2, ShortInOrder DEF Line, Served, AllBefore
  <1>6. CASE WriterUnsubscribes(c)
    <2>1. got'[c] = got[c] /\ frame'[c] = frame[c] /\ channel'[c] = <<>> /\ frame[c] = <<>>
      BY <1>1, <1>6 DEF WriterUnsubscribes, Served
    <2>2. Held(c)' \subseteq Held(c)
      BY <2>1, ShortInOrder DEF Held
    <2> QED  BY <1>2, <2>1, <2>2, ShortInOrder DEF Line, Served, AllBefore
  <1> QED  BY <1>3, <1>4, <1>5, <1>6

LEMMA LinesKept == TypeInv /\ LoopInv /\ LineInv /\ [Next]_vars => LineInv'
  <1> SUFFICES ASSUME TypeInv, LoopInv, LineInv, [Next]_vars, NEW d \in Clients
               PROVE  Line(d)' /\ Served(d)'
    BY DEF LineInv
  <1>1. Line(d) /\ Served(d) /\ d \in DOMAIN writer /\ d \in DOMAIN conn
    BY DEF LineInv, TypeInv, ConnTypeOK
  <1>2. CASE AlertHandled
    BY <1>1, <1>2, BroadcastLine DEF AlertHandled, connVars, Served
  <1>3. ASSUME NEW c \in Clients,
               WriterTakes(c) \/ AlertWritten(c) \/ WriteFails(c) \/ WriterUnsubscribes(c)
        PROVE  Line(d)' /\ Served(d)'
    <2>1. CASE c = d
      BY <1>1, <1>3, <2>1, WriterLine
    <2>2. CASE c # d
      <3>1. /\ got'[d] = got[d] /\ frame'[d] = frame[d] /\ channel'[d] = channel[d]
            /\ writer'[d] = writer[d] /\ UNCHANGED <<owed, handled, conn>> /\ subscribers' \subseteq subscribers
        BY <1>3, <2>2 DEF WriterTakes, AlertWritten, WriteFails, WriterUnsubscribes, histVars,
                          TypeInv, HubTypeInv, HubTypeOK, ConnTypeOK
      <3> QED  BY <1>1, <3>1 DEF Line, Held, Served
    <2> QED  BY <2>1, <2>2
  <1>4. CASE UNCHANGED <<got, frame, channel, owed, handled>> /\ Served(d)'
    BY <1>1, <1>4 DEF Line, Held
  <1>5. ASSUME NEW c \in Clients,
               Subscribe(c) \/ SubscribeRefused(c) \/ PeerLeaves(c) \/ ReadFails(c)
               \/ PingFails(c) \/ WriterSeesDone(c) \/ WriterCloses(c)
        PROVE  UNCHANGED <<got, frame, channel, owed, handled>> /\ Served(d)'
    <2>1. UNCHANGED <<got, frame, channel, owed, handled>>
      BY <1>5 DEF Subscribe, SubscribeRefused, PeerLeaves, ReadFails, PingFails, WriterSeesDone,
                  WriterCloses, histVars
    <2>2. writer'[d] # "writing" => writer[d] # "writing" \/ frame[d] = <<>>
      <3>1. CASE Subscribe(c) \/ SubscribeRefused(c)
        BY <1>1, <1>5, <3>1 DEF Subscribe, SubscribeRefused, Served
      <3>2. CASE PeerLeaves(c) \/ ReadFails(c) \/ PingFails(c) \/ WriterSeesDone(c) \/ WriterCloses(c)
        BY <1>1, <1>5, <3>2 DEF PeerLeaves, ReadFails, PingFails, WriterSeesDone, WriterCloses
      <3> QED  BY <1>5, <3>1, <3>2
    <2>3. /\ d \in subscribers' => conn'[d] # "none"
          /\ conn'[d] = "none" => writer'[d] = "none"
      BY <1>1, <1>5 DEF Subscribe, SubscribeRefused, PeerLeaves, ReadFails, PingFails, WriterSeesDone,
                  WriterCloses, Served
    <2> QED  BY <1>1, <2>1, <2>2, <2>3 DEF Served
  <1>6. ASSUME (\E s \in Streams : Publish(s)) \/ RunBegins \/ Poll \/ PollServed \/ PollReturnsNothing
               \/ MalformedSkipped \/ BatchDone \/ RunReturns \/ Stop \/ UNCHANGED vars
        PROVE  UNCHANGED <<got, frame, channel, owed, handled>> /\ Served(d)'
    BY <1>1, <1>6 DEF Publish, RunBegins, Poll, PollServed, PollReturnsNothing, MalformedSkipped,
                BatchDone, RunReturns, Stop, vars, connVars, histVars, Served
  <1> QED  BY <1>2, <1>3, <1>4, <1>5, <1>6 DEF Next, Run, WriteLoop

-----------------------------------------------------------------------------
(* The hub implements Feed.                                                *)

AlertHubInv == TypeInv /\ LoopInv /\ LineInv

THEOREM AlertHubCorrect == Spec => []AlertHubInv
  <1>1. Init => AlertHubInv
    BY TypesStart, LoopStarts, LinesStart DEF AlertHubInv
  <1>2. AlertHubInv /\ [Next]_vars => AlertHubInv'
    BY TypesKept, LoopKept, LinesKept DEF AlertHubInv
  <1> QED  BY <1>1, <1>2, PTL DEF Spec

\* A broadcast publishes an alert to the subscribers of the moment.
LEMMA BroadcastPublishes ==
    ASSUME AlertHubInv, AlertHandled
    PROVE  FeedOfHub!Next
  <1> DEFINE m == Head(todo)
  <1>1. m \in Alerts /\ m = todo[1] /\ 1 \in DOMAIN todo
    BY HandlingTypes DEF AlertHandled, AlertHubInv, TypeInv, streamVars
  <1>2. ASSUME NEW n \in handled, n[1] = m[1]
        PROVE  n[2] < m[2]
    <2>1. n[1] \in following /\ n[2] <= ids[n[1]]
      BY DEF AlertHubInv, LoopInv, PassedInv
    <2>2. ids[m[1]] < m[2]
      BY <1>1, <1>2, <2>1 DEF AlertHubInv, LoopInv, AheadInv
    <2>3. n[1] \in Streams /\ n[2] \in Nat /\ m[2] \in Nat /\ ids[n[1]] \in Nat
      BY <1>1, AlertTypes DEF AlertHubInv, TypeInv, LoopTypeInv, LoopTypeOK, HubTypeInv, HubTypeOK
    <2> QED  BY <1>2, <2>1, <2>2, <2>3
  <1>3. /\ handled' = handled \cup {m} /\ UNCHANGED <<got, subscribers>>
        /\ owed' = [c \in Clients |-> IF c \in subscribers THEN owed[c] \cup {m} ELSE owed[c]]
    BY DEF AlertHandled, HandleAlert, connVars
  <1> HIDE DEF m
  <1>4. \A c \in Clients : (IF c \in subscribers THEN owed[c] \cup {m} ELSE owed[c])
            = owed[c] \cup (IF c \in subscribers THEN [e \in Clients |-> Alerts][c] \cap {m} ELSE {})
    BY <1>1
  <1>5. owed' = [c \in Clients |->
            owed[c] \cup (IF c \in subscribers THEN [e \in Clients |-> Alerts][c] \cap {m} ELSE {})]
    BY <1>3, <1>4
  <1>6. FeedOfHub!Publish(m)
    BY <1>2, <1>3, <1>5 DEF FeedOfHub!Publish, FeedOfHub!Before
  <1> QED  BY <1>1, <1>6 DEF FeedOfHub!Next

\* An alert written to a peer that is there is received.
LEMMA WrittenReceives ==
    ASSUME AlertHubInv, AlertHubInv', NEW c \in Clients, AlertWritten(c), conn[c] = "open"
    PROVE  FeedOfHub!Next
  <1>1. /\ got \in [Clients -> Seq(Alerts)] /\ frame[c] \in Seq(Alerts) /\ got[c] \in Seq(Alerts)
    BY DEF AlertHubInv, TypeInv, ConnTypeOK
  <1>2. got' = [got EXCEPT ![c] = got[c] \o frame[c]] /\ got'[c] = got[c] \o frame[c]
    BY <1>1 DEF AlertWritten
  <1>3. UNCHANGED <<handled, subscribers, owed>>
    BY DEF AlertWritten, histVars
  <1>4. FeedOfHub!IsPrefix(got[c], got'[c])
    BY <1>1, <1>2 DEF FeedOfHub!IsPrefix
  <1>5. FeedOfHub!InOrder(got'[c]) /\ ToSet(got'[c]) \subseteq owed[c]
    BY <1>3 DEF AlertHubInv, LineInv, Line, Held
  <1>6. FeedOfHub!ToSet(got'[c]) \subseteq owed[c]
    BY <1>5 DEF ToSet, FeedOfHub!ToSet
  <1>7. FeedOfHub!Receive(c)
    BY <1>2, <1>3, <1>4, <1>5, <1>6 DEF FeedOfHub!Receive
  <1> QED  BY <1>7 DEF FeedOfHub!Next

\* A peer receives only alerts broadcast while it was subscribed, those of a
\* stream in order and each once.
THEOREM DeliversFeed == Spec => ImplementsFeed
  <1>1. Init => FeedOfHub!Init
    BY DEF Init, FeedOfHub!Init
  <1>2. AlertHubInv /\ AlertHubInv' /\ [Next]_vars => [FeedOfHub!Next]_FeedOfHub!vars
    <2> SUFFICES ASSUME AlertHubInv, AlertHubInv', [Next]_vars
                 PROVE  [FeedOfHub!Next]_FeedOfHub!vars
      OBVIOUS
    <2>1. CASE AlertHandled
      BY <2>1, BroadcastPublishes
    <2>2. ASSUME NEW c \in Clients, AlertWritten(c)
          PROVE  [FeedOfHub!Next]_FeedOfHub!vars
      <3>1. CASE conn[c] = "open"
        BY <2>2, <3>1, WrittenReceives
      <3>2. CASE conn[c] # "open"
        BY <2>2, <3>2 DEF AlertWritten, histVars, FeedOfHub!vars
      <3> QED  BY <3>1, <3>2
    <2>3. ASSUME NEW c \in Clients, Subscribe(c)
          PROVE  [FeedOfHub!Next]_FeedOfHub!vars
      <3>1. c \notin subscribers
        BY <2>3 DEF Subscribe, AlertHubInv, LineInv, Served
      <3>2. FeedOfHub!Join(c)
        BY <2>3, <3>1 DEF Subscribe, histVars, FeedOfHub!Join
      <3> QED  BY <3>2 DEF FeedOfHub!Next
    <2>4. ASSUME NEW c \in Clients, WriterUnsubscribes(c)
          PROVE  [FeedOfHub!Next]_FeedOfHub!vars
      <3>1. FeedOfHub!Leave({c})
        BY <2>4 DEF WriterUnsubscribes, histVars, FeedOfHub!Leave
      <3> QED  BY <3>1 DEF FeedOfHub!Next
    <2>5. CASE UNCHANGED <<handled, subscribers, owed, got>>
      BY <2>5 DEF FeedOfHub!vars
    <2>6. ASSUME NEW c \in Clients,
                 SubscribeRefused(c) \/ PeerLeaves(c) \/ ReadFails(c) \/ WriterTakes(c) \/ WriteFails(c)
                 \/ PingFails(c) \/ WriterSeesDone(c) \/ WriterCloses(c)
          PROVE  UNCHANGED <<handled, subscribers, owed, got>>
      BY <2>6 DEF SubscribeRefused, PeerLeaves, ReadFails, WriterTakes, WriteFails, PingFails,
                  WriterSeesDone, WriterCloses, histVars
    <2>7. ASSUME (\E s \in Streams : Publish(s)) \/ RunBegins \/ Poll \/ PollServed \/ PollReturnsNothing
                 \/ MalformedSkipped \/ BatchDone \/ RunReturns \/ Stop \/ UNCHANGED vars
          PROVE  UNCHANGED <<handled, subscribers, owed, got>>
      BY <2>7 DEF Publish, RunBegins, Poll, PollServed, PollReturnsNothing, MalformedSkipped,
                  BatchDone, RunReturns, Stop, vars, connVars, histVars
    <2> QED  BY <2>1, <2>2, <2>3, <2>4, <2>5, <2>6, <2>7 DEF Next, Run, WriteLoop
  <1> QED  BY <1>1, <1>2, AlertHubCorrect, PTL DEF Spec, ImplementsFeed, FeedOfHub!Spec
=============================================================================
