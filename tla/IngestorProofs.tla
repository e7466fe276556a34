--------------------------- MODULE IngestorProofs ---------------------------
(***************************************************************************)
(* Proofs about Ingestor, for every stream, every capacity and every number*)
(* of crashes.                                                             *)
(***************************************************************************)
EXTENDS Ingestor, SequenceFacts, TLAPS

USE ProducerAssumption, ClientAssumption, IngestorAssumption

-----------------------------------------------------------------------------
(* Type correctness: one lemma per part of the system, since a step of one *)
(* part leaves the variables of the other alone.                           *)

ProducerTypeOK ==
    /\ buffer \in Seq(Edits) /\ Len(buffer) <= BufferSize
    /\ bufferOpen \in BOOLEAN
    /\ stopChan \in BOOLEAN
    /\ loop \in {"select", "writing", "flushing", "exited"}
    /\ batch \in Seq(Edits) /\ Len(batch) <= BatchSize
    /\ loop = "select" => Len(batch) < BatchSize
    /\ sent \subseteq DOMAIN batch
    /\ attempt \in 1..MaxAttempts
    /\ topic \in [Titles -> Seq(Edits)]
    /\ dropped \subseteq Edits
    /\ lost \subseteq Edits

ClientTypeOK ==
    /\ head \in 0..NumEvents
    /\ clientStop \in BOOLEAN
    /\ pc \in {"off", "loop", "preflight", "stream", "handle", "backoff", "exited"}
    /\ lastEventID \in 0..NumEvents
    /\ delay \in BaseDelay..MaxDelay
    /\ benign \in BOOLEAN
    /\ sub \in {"none", "dialing", "open", "ended"}
    /\ subBenign \in BOOLEAN
    /\ next \in 1..(NumEvents + 1)
    /\ eventChan \in Seq(Events) /\ Len(eventChan) <= ChanSize
    /\ taken \subseteq Events
    /\ pc = "handle" => lastEventID # 0

MainTypeOK ==
    /\ main \in {"connecting", "retrying", "running", "closing", "draining",
                 "done", "aborted", "dead", "panicked"}
    /\ crashes \in 0..MaxCrashes

LEMMA ProduceTypes ==
    ASSUME ProducerTypeOK, NEW e \in Edits, Produce(e)
    PROVE  ProducerTypeOK'
  <1>1. CASE ProduceAccepts(e)
    BY <1>1 DEF ProduceAccepts, ProducerTypeOK
  <1>2. CASE ProduceDrops(e)
    BY <1>2 DEF ProduceDrops, ProducerTypeOK
  <1> QED  BY <1>1, <1>2 DEF Produce

LEMMA BatchingLoopTypes ==
    ASSUME ProducerTypeOK,
           \/ TakeEdit \/ FlushTick \/ SeeStop \/ WriteReturns
           \/ \E k \in DOMAIN batch : BrokerAppends(k)
           \/ \E t \in Titles : WriterRetries(t)
    PROVE  ProducerTypeOK'
  <1> USE DEF ProducerTypeOK
  <1>1. CASE TakeEdit
    <2>1. Head(buffer) \in Edits /\ Tail(buffer) \in Seq(Edits)
          /\ Len(Tail(buffer)) <= BufferSize
      BY <1>1 DEF TakeEdit
    <2>2. batch' \in Seq(Edits) /\ Len(batch') = Len(batch) + 1
      BY <1>1, <2>1 DEF TakeEdit
    <2>3. DOMAIN batch \subseteq DOMAIN batch'
      BY <2>2
    <2> QED  BY <1>1, <2>1, <2>2, <2>3 DEF TakeEdit
  <1>2. CASE FlushTick
    BY <1>2 DEF FlushTick
  <1>3. CASE SeeStop
    BY <1>3 DEF SeeStop
  <1>4. CASE WriteReturns
    <2>1. ToSet(batch) \subseteq Edits
      BY ToSetType
    <2> QED  BY <1>4, <2>1 DEF WriteReturns
  <1>5. CASE \E k \in DOMAIN batch : BrokerAppends(k)
    <2>1. PICK k \in DOMAIN batch : BrokerAppends(k)
      BY <1>5
    <2>2. batch[k] \in Edits /\ TitleOf[batch[k]] \in Titles
      BY <2>1 DEF Titles
    <2>3. topic' \in [Titles -> Seq(Edits)]
      BY <2>1, <2>2 DEF BrokerAppends
    <2> QED  BY <2>1, <2>3 DEF BrokerAppends
  <1>6. CASE \E t \in Titles : WriterRetries(t)
    BY <1>6 DEF WriterRetries
  <1> QED  BY <1>1, <1>2, <1>3, <1>4, <1>5, <1>6

LEMMA CloseTypes ==
    ASSUME ProducerTypeOK, CloseSignals \/ CloseBuffer
    PROVE  ProducerTypeOK'
  <1>1. CASE CloseSignals
    BY <1>1 DEF CloseSignals, ProducerTypeOK
  <1>2. CASE CloseBuffer
    <2>1. ToSet(buffer) \subseteq Edits
      BY ToSetType DEF ProducerTypeOK
    <2>2. lost' \subseteq Edits
      BY <1>2, <2>1 DEF CloseBuffer, ProducerTypeOK
    <2>3. buffer' \in Seq(Edits) /\ Len(buffer') <= BufferSize
      BY <1>2, EmptySequence DEF CloseBuffer
    <2> QED  BY <1>2, <2>2, <2>3 DEF CloseBuffer, ProducerTypeOK
  <1> QED  BY <1>1, <1>2

LEMMA CrashTypes ==
    ASSUME ProducerTypeOK, ProducerDies \/ ProducerRestarts
    PROVE  ProducerTypeOK'
  <1>1. CASE ProducerDies
    <2>1. Pending \in Seq(Edits)
      BY DEF Pending, ProducerTypeOK
    <2>2. ToSet(Pending) \subseteq Edits
      BY <2>1, ToSetType
    <2> QED  BY <1>1, <2>2 DEF ProducerDies, ProducerTypeOK
  <1>2. CASE ProducerRestarts
    <2>1. buffer' \in Seq(Edits) /\ Len(buffer') = 0
      BY <1>2, EmptySequence DEF ProducerRestarts
    <2>2. batch' \in Seq(Edits) /\ Len(batch') = 0
      BY <1>2, EmptySequence DEF ProducerRestarts
    <2>3. sent' = {} /\ attempt' = 1
      BY <1>2 DEF ProducerRestarts
    <2>4. sent' \subseteq DOMAIN batch'
      BY <2>3
    <2>5. attempt' \in 1..MaxAttempts
      BY <2>3
    <2>6. Len(buffer') <= BufferSize /\ Len(batch') < BatchSize
      BY <2>1, <2>2
    <2>7. topic' \in [Titles -> Seq(Edits)] /\ dropped' \subseteq Edits /\ lost' \subseteq Edits
      BY <1>2 DEF ProducerRestarts, ProducerTypeOK
    <2>8. bufferOpen' \in BOOLEAN /\ stopChan' \in BOOLEAN
      BY <1>2 DEF ProducerRestarts
    <2>9. loop' \in {"select", "writing", "flushing", "exited"}
      BY <1>2 DEF ProducerRestarts
    <2> QED  BY <2>1, <2>2, <2>4, <2>5, <2>6, <2>7, <2>8, <2>9 DEF ProducerTypeOK
  <1> QED  BY <1>1, <1>2

LEMMA DoubledType ==
    ASSUME NEW d \in BaseDelay..MaxDelay
    PROVE  Doubled(d) \in BaseDelay..MaxDelay
  BY DEF Doubled

LEMMA StreamFailsTypes ==
    ASSUME ClientTypeOK, NEW harmless \in BOOLEAN, StreamFails(harmless)
    PROVE  ClientTypeOK'
  BY EmptySequence DEF StreamFails, ClientTypeOK

ClientMoves ==
    \/ LoopStops \/ LoopEnters \/ PreflightFails \/ Subscribe
    \/ ServerAccepts \/ Receive \/ SubscriptionEnds
    \/ StreamStops \/ StreamEnds \/ IdleTimeout \/ TakeEvent
    \/ BackoffStops \/ BackoffElapses

LEMMA ClientTypes ==
    ASSUME ClientTypeOK,
           ClientMoves \/ ClientStart \/ EventHandled \/ StopSignals \/ Publish
    PROVE  ClientTypeOK'
  <1>1. CASE LoopStops \/ LoopEnters \/ BackoffStops
    BY <1>1 DEF LoopStops, LoopEnters, BackoffStops, ClientTypeOK
  <1>2. CASE PreflightFails
    BY <1>2, StreamFailsTypes DEF PreflightFails
  <1>3. CASE Subscribe
    BY <1>3, EmptySequence DEF Subscribe, ClientTypeOK
  <1>4. CASE ServerAccepts
    BY <1>4 DEF ServerAccepts, ClientTypeOK
  <1>5. CASE Receive
    <2>1. next \in Events /\ next' \in 1..(NumEvents + 1)
      BY <1>5 DEF Receive, ClientTypeOK, Events
    <2>2. eventChan' \in Seq(Events) /\ Len(eventChan') <= ChanSize
      BY <1>5, <2>1 DEF Receive, ClientTypeOK
    <2> QED  BY <1>5, <2>1, <2>2 DEF Receive, ClientTypeOK
  <1>6. CASE SubscriptionEnds
    BY <1>6 DEF SubscriptionEnds, ClientTypeOK
  <1>7. CASE StreamStops
    BY <1>7, EmptySequence DEF StreamStops, ClientTypeOK
  <1>8. CASE StreamEnds
    BY <1>8, StreamFailsTypes DEF StreamEnds, ClientTypeOK
  <1>9. CASE IdleTimeout
    BY <1>9, StreamFailsTypes DEF IdleTimeout
  <1>10. CASE TakeEvent
    <2>1. Head(eventChan) \in Events /\ Tail(eventChan) \in Seq(Events)
          /\ Len(Tail(eventChan)) <= ChanSize
      BY <1>10 DEF TakeEvent, ClientTypeOK
    <2>2. lastEventID' \in 1..NumEvents /\ taken' \subseteq Events
      BY <1>10, <2>1 DEF TakeEvent, ClientTypeOK, Events
    <2>3. eventChan' \in Seq(Events) /\ Len(eventChan') <= ChanSize
      BY <1>10, <2>1 DEF TakeEvent
    <2> QED  BY <1>10, <2>2, <2>3 DEF TakeEvent, ClientTypeOK
  <1>11. CASE BackoffElapses
    BY <1>11, DoubledType DEF BackoffElapses, ClientTypeOK
  <1>12. CASE ClientStart \/ EventHandled \/ StopSignals
    BY <1>12 DEF ClientStart, EventHandled, StopSignals, ClientTypeOK
  <1>13. CASE Publish
    BY <1>13 DEF Publish, ClientTypeOK
  <1> QED
    BY <1>1, <1>2, <1>3, <1>4, <1>5, <1>6, <1>7, <1>8, <1>9, <1>10, <1>11, <1>12, <1>13
    DEF ClientMoves

LEMMA ClientRestartTypes ==
    ASSUME ClientTypeOK, ClientRestarts
    PROVE  ClientTypeOK'
  <1>1. eventChan' \in Seq(Events) /\ Len(eventChan') <= ChanSize
    BY EmptySequence DEF ClientRestarts
  <1>2. next' \in 1..(NumEvents + 1) /\ delay' \in BaseDelay..MaxDelay
    BY DEF ClientRestarts
  <1>3. lastEventID' \in 0..NumEvents /\ head' \in 0..NumEvents
    BY DEF ClientRestarts, ClientTypeOK
  <1>4. clientStop' \in BOOLEAN /\ benign' \in BOOLEAN /\ subBenign' \in BOOLEAN
    BY DEF ClientRestarts
  <1>5. pc' \in {"off", "loop", "preflight", "stream", "handle", "backoff", "exited"}
        /\ pc' # "handle"
    BY DEF ClientRestarts
  <1>6. sub' \in {"none", "dialing", "open", "ended"}
    BY DEF ClientRestarts
  <1>7. taken' \subseteq Events
    BY DEF ClientRestarts
  <1> QED  BY <1>1, <1>2, <1>3, <1>4, <1>5, <1>6, <1>7 DEF ClientTypeOK

-----------------------------------------------------------------------------

Types == ProducerTypeOK /\ ClientTypeOK /\ MainTypeOK

\* What a step of the system is to its two parts.
LEMMA StepCases ==
    ASSUME Next
    PROVE  /\ \/ UNCHANGED producerVars
              \/ pc = "handle" /\ Produce(lastEventID)
              \/ TakeEdit \/ FlushTick \/ SeeStop \/ WriteReturns
              \/ \E k \in DOMAIN batch : BrokerAppends(k)
              \/ \E t \in Titles : WriterRetries(t)
              \/ CloseSignals \/ CloseBuffer
              \/ ProducerDies \/ ProducerRestarts
           /\ \/ UNCHANGED clientVars
              \/ ClientMoves \/ ClientStart \/ EventHandled \/ StopSignals \/ Publish
              \/ ClientRestarts
  <1>1. CASE Main
    BY <1>1 DEF Main, ConnectFails, ConnectAgain, ConnectAborts, ConnectSucceeds,
                ShutdownStarts, ShutdownSignalsProducer, ShutdownClosesProducer, ShutdownEnds
  <1>2. CASE ClientStep
    BY <1>2 DEF ClientStep, ClientMoves
  <1>3. CASE ProducerStep
    BY <1>3 DEF ProducerStep
  <1>4. CASE UpstreamPublishes
    BY <1>4 DEF UpstreamPublishes
  <1>5. CASE HandleProduces \/ HandleFilters \/ HandlePanics
    BY <1>5 DEF HandleProduces, HandleFilters, HandlePanics, EventHandled
  <1>6. CASE Crash \/ Restart
    BY <1>6 DEF Crash, Restart
  <1> QED  BY <1>1, <1>2, <1>3, <1>4, <1>5, <1>6 DEF Next

LEMMA TypesInit == Init => Types
  <1> SUFFICES ASSUME Init PROVE Types
    OBVIOUS
  <1>1. ProducerTypeOK
    <2>1. /\ buffer \in Seq(Edits) /\ Len(buffer) = 0
          /\ batch \in Seq(Edits) /\ Len(batch) = 0
      BY EmptySequence DEF Init, ProducerInit
    <2>2. topic \in [Titles -> Seq(Edits)]
      BY EmptySequence DEF Init, ProducerInit
    <2>3. sent \subseteq DOMAIN batch /\ dropped \subseteq Edits /\ lost \subseteq Edits
      BY DEF Init, ProducerInit
    <2>4. attempt \in 1..MaxAttempts
      BY DEF Init, ProducerInit
    <2>5. loop \in {"select", "writing", "flushing", "exited"}
      BY DEF Init, ProducerInit
    <2>6. bufferOpen \in BOOLEAN /\ stopChan \in BOOLEAN
      BY DEF Init, ProducerInit
    <2>7. Len(buffer) <= BufferSize /\ Len(batch) < BatchSize
      BY <2>1
    <2> QED  BY <2>1, <2>2, <2>3, <2>4, <2>5, <2>6, <2>7 DEF ProducerTypeOK
  <1>2. ClientTypeOK
    <2>1. eventChan \in Seq(Events) /\ Len(eventChan) = 0
      BY EmptySequence DEF Init, ClientInit
    <2>2. next \in 1..(NumEvents + 1) /\ delay \in BaseDelay..MaxDelay
      BY DEF Init, ClientInit
    <2>3. lastEventID \in 0..NumEvents /\ head \in 0..NumEvents
      BY DEF Init, ClientInit
    <2>4. clientStop \in BOOLEAN /\ benign \in BOOLEAN /\ subBenign \in BOOLEAN
      BY DEF Init, ClientInit
    <2>5. pc \in {"off", "loop", "preflight", "stream", "handle", "backoff", "exited"}
          /\ pc # "handle"
      BY DEF Init, ClientInit
    <2>6. sub \in {"none", "dialing", "open", "ended"}
      BY DEF Init, ClientInit
    <2>7. taken \subseteq Events
      BY DEF Init, ClientInit
    <2> QED  BY <2>1, <2>2, <2>3, <2>4, <2>5, <2>6, <2>7 DEF ClientTypeOK
  <1>3. MainTypeOK
    BY DEF Init, MainTypeOK
  <1> QED  BY <1>1, <1>2, <1>3 DEF Types

LEMMA TypesStep == Types /\ [Next]_vars => Types'
  <1> SUFFICES ASSUME Types, [Next]_vars PROVE Types'
    OBVIOUS
  <1> USE DEF Types
  <1>1. CASE UNCHANGED vars
    BY <1>1 DEF vars, producerVars, clientVars, ProducerTypeOK, ClientTypeOK, MainTypeOK
  <1>2. CASE Next
    <2>1. pc = "handle" => lastEventID \in Edits
      BY DEF ClientTypeOK, Events
    <2>2. UNCHANGED producerVars => ProducerTypeOK'
      BY DEF producerVars, ProducerTypeOK
    <2>3. ProducerTypeOK'
      BY <1>2, <2>1, <2>2, StepCases, ProduceTypes, BatchingLoopTypes, CloseTypes, CrashTypes
    <2>4. UNCHANGED clientVars => ClientTypeOK'
      BY DEF clientVars, ClientTypeOK
    <2>5. ClientTypeOK'
      BY <1>2, <2>4, StepCases, ClientTypes, ClientRestartTypes
    <2>6. MainTypeOK'
      BY <1>2 DEF MainTypeOK, Next, Main, ConnectFails, ConnectAgain, ConnectAborts,
                  ConnectSucceeds, ShutdownStarts, ShutdownSignalsProducer,
                  ShutdownClosesProducer, ShutdownEnds, ClientStep, ProducerStep,
                  UpstreamPublishes, HandleProduces, HandleFilters, HandlePanics,
                  Crash, Restart
    <2> QED  BY <2>3, <2>5, <2>6
  <1> QED  BY <1>1, <1>2

LEMMA TypesInvariant == Spec => []Types
  BY TypesInit, TypesStep, PTL DEF Spec

\* Every variable keeps its type; the channels and the batch never outgrow
\* their capacities.
THEOREM TypeCorrect == Spec => []TypeOK
  <1>1. Types => TypeOK
    BY DEF Types, TypeOK, ProducerTypeOK, ClientTypeOK, MainTypeOK
  <1> QED  BY <1>1, TypesInvariant, PTL

-----------------------------------------------------------------------------
(* Gap-free reconnects.  GapFree speaks of the events taken; it is kept    *)
(* because what waits in eventChan is exactly what follows them.           *)

\* A subscription is delivering, or has left events behind.
Streaming == sub = "open" \/ eventChan # <<>>

StreamInv ==
    \* lastEventID is the newest event taken
    /\ lastEventID = 0 => taken = {}
    /\ lastEventID # 0 => lastEventID \in taken
    /\ lastEventID <= head
    /\ \A a \in taken : a <= lastEventID /\ a..lastEventID \subseteq taken
    \* eventChan holds the events before next, without a hole
    /\ \A i \in DOMAIN eventChan : eventChan[i] + Len(eventChan) + 1 = next + i
    /\ Streaming => next <= head + 1
    /\ Streaming /\ lastEventID # 0 => next = lastEventID + 1 + Len(eventChan)
    \* a channel belongs to the stream that is running
    /\ sub \in {"none", "dialing"} => eventChan = <<>>
    /\ pc \in {"off", "loop", "preflight", "backoff", "exited"} => sub = "none"

LEMMA StreamInit == Init => StreamInv
  <1> SUFFICES ASSUME Init PROVE StreamInv
    OBVIOUS
  <1>1. eventChan = <<>> /\ lastEventID = 0 /\ taken = {} /\ sub = "none" /\ head = 0
    BY DEF Init, ClientInit
  <1>2. ~ Streaming
    BY <1>1 DEF Streaming
  <1>3. DOMAIN eventChan = {}
    BY <1>1
  <1> QED  BY <1>1, <1>2, <1>3 DEF StreamInv

\* A stream that ends leaves no channel behind.
LEMMA StreamOver ==
    ASSUME StreamInv, eventChan' = <<>>, sub' \in {"none", "dialing"},
           pc' \in {"off", "loop", "preflight", "backoff", "exited"} => sub' = "none",
           UNCHANGED <<head, lastEventID, taken>>
    PROVE  StreamInv'
  <1>1. ~ Streaming'
    BY DEF Streaming
  <1>2. DOMAIN eventChan' = {}
    OBVIOUS
  <1> QED  BY <1>1, <1>2 DEF StreamInv

LEMMA StreamReceive ==
    ASSUME ClientTypeOK, StreamInv, Receive
    PROVE  StreamInv'
  <1>1. eventChan \in Seq(Events) /\ next \in Nat /\ lastEventID \in Nat /\ head \in Nat
    BY DEF ClientTypeOK
  <1>2. /\ Len(eventChan') = Len(eventChan) + 1 /\ next' = next + 1
        /\ DOMAIN eventChan' = 1..(Len(eventChan) + 1)
        /\ \A i \in 1..Len(eventChan) : eventChan'[i] = eventChan[i]
        /\ eventChan'[Len(eventChan) + 1] = next
    BY <1>1 DEF Receive
  <1>3. \A i \in DOMAIN eventChan' : eventChan'[i] + Len(eventChan') + 1 = next' + i
    <2> SUFFICES ASSUME NEW i \in DOMAIN eventChan'
                 PROVE  eventChan'[i] + Len(eventChan') + 1 = next' + i
      OBVIOUS
    <2>1. CASE i \in 1..Len(eventChan)
      <3>1. eventChan[i] \in Nat /\ i \in Nat /\ Len(eventChan) \in Nat
        BY <1>1, <2>1 DEF Events
      <3>2. eventChan[i] + Len(eventChan) + 1 = next + i
        BY <1>1, <2>1 DEF StreamInv
      <3>3. eventChan'[i] = eventChan[i] /\ Len(eventChan') = Len(eventChan) + 1
            /\ next' = next + 1
        BY <1>2, <2>1
      <3> QED  BY <1>1, <3>1, <3>2, <3>3
    <2>2. CASE i = Len(eventChan) + 1
      <3>1. eventChan'[i] = next
        BY <1>2, <2>2
      <3>2. Len(eventChan') = Len(eventChan) + 1 /\ next' = next + 1 /\ Len(eventChan) \in Nat
        BY <1>1, <1>2
      <3> QED  BY <1>1, <2>2, <3>1, <3>2
    <2> QED  BY <1>1, <1>2, <2>1, <2>2
  <1>4. Streaming /\ sub = "open" /\ UNCHANGED <<head, lastEventID, taken, sub, pc>> /\ next <= head
    BY DEF Receive, Streaming
  <1>5. next' <= head' + 1 /\ (lastEventID' # 0 => next' = lastEventID' + 1 + Len(eventChan'))
    BY <1>1, <1>2, <1>4 DEF StreamInv
  <1> QED  BY <1>3, <1>4, <1>5 DEF StreamInv

\* The event taken is the one after lastEventID, or the first of all.
LEMMA TakenIsNext ==
    ASSUME ClientTypeOK, StreamInv, TakeEvent
    PROVE  /\ lastEventID' \in 1..head
           /\ lastEventID' + Len(eventChan) = next
           /\ lastEventID # 0 => lastEventID' = lastEventID + 1
           /\ Len(eventChan') + 1 = Len(eventChan)
           /\ \A i \in DOMAIN eventChan' : i + 1 \in DOMAIN eventChan
                                           /\ eventChan'[i] = eventChan[i + 1]
  <1>1. eventChan \in Seq(Events) /\ eventChan # <<>> /\ Len(eventChan) \in Nat
        /\ next \in Nat /\ lastEventID \in Nat /\ head \in Nat
    BY DEF ClientTypeOK, TakeEvent
  <1>2. 1 \in DOMAIN eventChan /\ lastEventID' = eventChan[1] /\ eventChan[1] \in 1..NumEvents
        /\ Len(eventChan) >= 1
    BY <1>1 DEF TakeEvent, Events
  <1>3. eventChan[1] + Len(eventChan) + 1 = next + 1
    BY <1>2 DEF StreamInv
  <1>4. next <= head + 1 /\ (lastEventID # 0 => next = lastEventID + 1 + Len(eventChan))
    BY <1>1 DEF StreamInv, Streaming
  <1>5. Len(eventChan') + 1 = Len(eventChan)
        /\ \A i \in DOMAIN eventChan' : i + 1 \in DOMAIN eventChan
                                        /\ eventChan'[i] = eventChan[i + 1]
    BY <1>1 DEF TakeEvent
  <1>6. lastEventID' \in 1..head /\ lastEventID' + Len(eventChan) = next
    BY <1>1, <1>2, <1>3, <1>4
  <1>7. lastEventID # 0 => lastEventID' = lastEventID + 1
    BY <1>1, <1>2, <1>3, <1>4
  <1> QED  BY <1>5, <1>6, <1>7

LEMMA StreamTake ==
    ASSUME ClientTypeOK, StreamInv, TakeEvent
    PROVE  StreamInv'
  <1>1. eventChan \in Seq(Events) /\ next \in Nat /\ lastEventID \in Nat /\ head \in Nat
        /\ eventChan # <<>> /\ Len(eventChan) \in Nat /\ taken \subseteq Nat
    BY DEF ClientTypeOK, TakeEvent, Events
  <1>2. UNCHANGED <<head, sub, next>> /\ pc' = "handle" /\ eventChan' \in Seq(Events)
        /\ taken' = taken \cup {lastEventID'}
    BY <1>1 DEF TakeEvent
  <1>3. lastEventID' \in Nat /\ lastEventID' # 0 /\ lastEventID' <= head
        /\ lastEventID' + Len(eventChan') + 1 = next
    BY <1>1, <1>2, TakenIsNext
  <1>4. \A a \in taken' : a <= lastEventID' /\ a..lastEventID' \subseteq taken'
    <2>1. CASE lastEventID = 0
      BY <1>1, <1>2, <1>3, <2>1 DEF StreamInv
    <2>2. CASE lastEventID # 0
      <3>1. lastEventID' = lastEventID + 1
        BY <2>2, TakenIsNext
      <3>2. ASSUME NEW a \in taken
            PROVE  a <= lastEventID' /\ a..lastEventID' \subseteq taken'
        BY <1>1, <1>2, <3>1, <3>2 DEF StreamInv
      <3> QED  BY <1>2, <1>3, <3>2
    <2> QED  BY <2>1, <2>2
  <1>5. \A i \in DOMAIN eventChan' : eventChan'[i] + Len(eventChan') + 1 = next' + i
    <2> SUFFICES ASSUME NEW i \in DOMAIN eventChan'
                 PROVE  eventChan'[i] + Len(eventChan') + 1 = next' + i
      OBVIOUS
    <2>1. i + 1 \in DOMAIN eventChan /\ eventChan'[i] = eventChan[i + 1] /\ i \in Nat
          /\ Len(eventChan') + 1 = Len(eventChan)
      BY <1>2, TakenIsNext
    <2>2. eventChan[i + 1] + Len(eventChan) + 1 = next + (i + 1) /\ eventChan[i + 1] \in Nat
      BY <1>1, <2>1 DEF StreamInv, Events
    <2>3. Len(eventChan') \in Nat /\ next' = next /\ next \in Nat
      BY <1>1, <1>2
    <2> DEFINE a == eventChan'[i]
               b == Len(eventChan')
    <2>4. a \in Nat /\ b \in Nat
      BY <2>1, <2>2, <2>3
    <2>5. a + (b + 1) + 1 = next + (i + 1)
      <3>1. eventChan'[i] + Len(eventChan) + 1 = next + (i + 1)
        BY <2>1, <2>2
      <3>2. Len(eventChan') + 1 = Len(eventChan)
        BY <2>1
      <3> QED  BY <3>1, <3>2
    <2> HIDE DEF a, b
    <2>6. i \in Nat /\ next \in Nat
      BY <2>1, <2>3
    <2>7. a + b + 1 = next + i
      BY <2>4, <2>5, <2>6
    <2> QED  BY <2>3, <2>7 DEF a, b
  <1>6. next' <= head' + 1 /\ next' = lastEventID' + 1 + Len(eventChan')
    <2>1. next <= head + 1 /\ Len(eventChan') \in Nat
      BY <1>1, <1>2 DEF StreamInv, Streaming
    <2> QED  BY <1>1, <1>2, <1>3, <2>1
  <1>7. sub' \in {"none", "dialing"} => eventChan' = <<>>
    BY <1>1, <1>2 DEF StreamInv
  <1> QED  BY <1>2, <1>3, <1>4, <1>5, <1>6, <1>7 DEF StreamInv

LEMMA StreamStep ==
    ASSUME ClientTypeOK, StreamInv, Next
    PROVE  StreamInv'
  <1>1. CASE UNCHANGED clientVars
    BY <1>1 DEF clientVars, StreamInv, Streaming
  <1>2. CASE LoopStops \/ LoopEnters \/ BackoffStops \/ BackoffElapses \/ ClientStart
             \/ EventHandled \/ StopSignals
    BY <1>2 DEF LoopStops, LoopEnters, BackoffStops, BackoffElapses, ClientStart,
                EventHandled, StopSignals, StreamInv, Streaming
  <1>3. CASE PreflightFails \/ Subscribe \/ StreamStops \/ StreamEnds \/ IdleTimeout
    BY <1>3, StreamOver DEF PreflightFails, Subscribe, StreamStops, StreamEnds, IdleTimeout,
                            StreamFails
  <1>4. CASE ServerAccepts
    <2>1. eventChan' = <<>> /\ UNCHANGED <<head, lastEventID, taken, pc>> /\ sub' = "open"
          /\ sub = "dialing"
      BY <1>4 DEF ServerAccepts, StreamInv
    <2>2. DOMAIN eventChan' = {} /\ Len(eventChan') = 0
      BY <2>1
    <2>3. next' <= head' + 1 /\ (lastEventID' # 0 => next' = lastEventID' + 1 + Len(eventChan'))
      BY <1>4, <2>1, <2>2 DEF ServerAccepts, StreamInv, ClientTypeOK
    <2> QED  BY <2>1, <2>2, <2>3 DEF StreamInv
  <1>5. CASE Receive
    BY <1>5, StreamReceive
  <1>6. CASE SubscriptionEnds
    BY <1>6 DEF SubscriptionEnds, StreamInv, Streaming
  <1>7. CASE TakeEvent
    BY <1>7, StreamTake
  <1>8. CASE Publish
    BY <1>8 DEF Publish, StreamInv, Streaming, ClientTypeOK
  <1>9. CASE ClientRestarts
    <2>1. eventChan' = <<>> /\ lastEventID' = 0 /\ taken' = {} /\ sub' = "none"
          /\ head' \in Nat
      BY <1>9 DEF ClientRestarts, ClientTypeOK
    <2>2. DOMAIN eventChan' = {} /\ ~ Streaming'
      BY <2>1 DEF Streaming
    <2> QED  BY <2>1, <2>2 DEF StreamInv
  <1> QED
    BY <1>1, <1>2, <1>3, <1>4, <1>5, <1>6, <1>7, <1>8, <1>9, StepCases DEF ClientMoves

LEMMA StreamInvariant == Spec => [](Types /\ StreamInv)
  <1>1. Types /\ StreamInv /\ [Next]_vars => StreamInv'
    <2>1. UNCHANGED vars /\ StreamInv => StreamInv'
      BY DEF vars, clientVars, StreamInv, Streaming
    <2> QED  BY <2>1, StreamStep DEF Types
  <1> QED  BY <1>1, StreamInit, TypesInvariant, PTL DEF Spec

\* Reconnects are gap-free: between two events a process has taken it has
\* taken every event.
THEOREM ReconnectsGapFree == Spec => []GapFree
  <1>1. Types /\ StreamInv => GapFree
    BY DEF Types, ClientTypeOK, StreamInv, GapFree, Events
  <1> QED  BY <1>1, StreamInvariant, PTL

-----------------------------------------------------------------------------
(* No event is handed over twice: whatever the producer has been given is  *)
(* older than what the stream brings next.                                 *)

\* Every edit the producer was given, by this process or an earlier one.
Handed == ToSet(Pending) \cup dropped \cup lost \cup {e \in Edits : OnTopic(e)}

HandedInv ==
    /\ \A e \in Handed : e <= head
    /\ lastEventID # 0 => \A e \in Handed : e <= lastEventID
    /\ pc = "handle" => \A e \in Handed : e < lastEventID
    \* a process that has taken nothing yet resumes at the live end
    /\ lastEventID = 0 /\ Streaming => \A e \in Handed : e + Len(eventChan) < next

\* The batch and the buffer are one queue to TakeEdit.
LEMMA TakeKeepsPending ==
    ASSUME ProducerTypeOK, TakeEdit
    PROVE  Pending' = Pending
  <1>1. batch \in Seq(Edits) /\ buffer \in Seq(Edits) /\ buffer # <<>>
    BY DEF ProducerTypeOK, TakeEdit
  <1>2. batch' = Append(batch, Head(buffer)) /\ buffer' = Tail(buffer)
    BY DEF TakeEdit
  <1>3. Append(batch, Head(buffer)) \o Tail(buffer) = batch \o buffer
    BY <1>1
  <1> QED  BY <1>2, <1>3 DEF Pending

\* The elements pending are those of the batch and those of the buffer.
LEMMA PendingElems ==
    ASSUME ProducerTypeOK
    PROVE  ToSet(Pending) = ToSet(batch) \cup ToSet(buffer)
  BY ToSetConcat DEF ProducerTypeOK, Pending

\* The producer is given edits by Produce alone.
LEMMA ProducerHands ==
    ASSUME ProducerTypeOK, NEW N \in SUBSET Edits,
           \/ UNCHANGED producerVars
           \/ \E e \in N : Produce(e)
           \/ TakeEdit \/ FlushTick \/ SeeStop \/ WriteReturns
           \/ \E k \in DOMAIN batch : BrokerAppends(k)
           \/ \E t \in Titles : WriterRetries(t)
           \/ CloseSignals \/ CloseBuffer
           \/ ProducerDies \/ ProducerRestarts
    PROVE  Handed' \subseteq Handed \cup N
  <1>0. /\ ToSet(Pending) = ToSet(batch) \cup ToSet(buffer)
        /\ batch \in Seq(Edits) /\ buffer \in Seq(Edits)
    BY PendingElems DEF ProducerTypeOK
  <1>1. CASE UNCHANGED producerVars
    BY <1>1 DEF producerVars, Handed, Pending, OnTopic, ToSet
  <1>2. CASE \E e \in N : Produce(e)
    <2>1. PICK e \in N : Produce(e)
      BY <1>2
    <2>2. CASE ProduceAccepts(e)
      <3>1. Pending' = Append(Pending, e) /\ Pending \in Seq(Edits)
        BY <1>0, <2>2 DEF ProduceAccepts, Pending
      <3>2. ToSet(Pending') = ToSet(Pending) \cup {e}
        BY <3>1, ToSetAppend
      <3>3. UNCHANGED <<dropped, lost, topic>> /\ ToSet(Pending)' = ToSet(Pending')
        BY <2>2 DEF ProduceAccepts, ToSet
      <3> QED  BY <3>2, <3>3 DEF Handed, OnTopic, ToSet
    <2>3. CASE ProduceDrops(e)
      BY <2>3 DEF ProduceDrops, Handed, Pending, OnTopic, ToSet
    <2> QED  BY <2>1, <2>2, <2>3 DEF Produce
  <1>3. CASE TakeEdit
    BY <1>3, TakeKeepsPending DEF TakeEdit, Handed, OnTopic, ToSet
  <1>4. CASE FlushTick \/ SeeStop \/ CloseSignals \/ \E t \in Titles : WriterRetries(t)
    BY <1>4 DEF FlushTick, SeeStop, CloseSignals, WriterRetries, Handed, Pending, OnTopic, ToSet
  <1>5. CASE WriteReturns
    <2>1. Pending' = buffer
      BY <1>0, <1>5 DEF WriteReturns, Pending
    <2>2. lost' \subseteq lost \cup ToSet(batch) /\ UNCHANGED <<dropped, topic>>
      BY <1>5 DEF WriteReturns
    <2> QED  BY <1>0, <2>1, <2>2 DEF Handed, OnTopic, ToSet
  <1>6. CASE \E k \in DOMAIN batch : BrokerAppends(k)
    <2>1. PICK k \in DOMAIN batch : BrokerAppends(k)
      BY <1>6
    <2>2. ASSUME NEW e \in Edits, OnTopic(e)', ~ OnTopic(e)
          PROVE  e = batch[k]
      <3>1. topic \in [Titles -> Seq(Edits)] /\ batch[k] \in Edits
        BY <1>0 DEF ProducerTypeOK
      <3>2. TitleOf[e] = TitleOf[batch[k]]
        BY <2>1, <2>2, <3>1 DEF BrokerAppends, OnTopic, ToSet, Titles
      <3>3. topic'[TitleOf[e]] = Append(topic[TitleOf[e]], batch[k])
            /\ topic[TitleOf[e]] \in Seq(Edits)
        BY <2>1, <3>1, <3>2 DEF BrokerAppends, Titles
      <3>4. ToSet(topic'[TitleOf[e]]) = ToSet(topic[TitleOf[e]]) \cup {batch[k]}
        BY <3>1, <3>3, ToSetAppend
      <3> QED  BY <2>2, <3>4 DEF OnTopic, ToSet
    <2>3. UNCHANGED <<buffer, batch, dropped, lost>>
      BY <2>1 DEF BrokerAppends
    <2>4. batch[k] \in ToSet(batch)
      BY DEF ToSet
    <2> QED  BY <1>0, <2>2, <2>3, <2>4 DEF Handed, Pending, ToSet
  <1>7. CASE CloseBuffer
    <2>1. Pending' = batch
      BY <1>0, <1>7 DEF CloseBuffer, Pending
    <2>2. lost' \subseteq lost \cup ToSet(buffer) /\ UNCHANGED <<dropped, topic>>
      BY <1>7 DEF CloseBuffer
    <2> QED  BY <1>0, <2>1, <2>2 DEF Handed, OnTopic, ToSet
  <1>8. CASE ProducerDies \/ ProducerRestarts
    <2>1. ToSet(Pending)' = {}
      BY <1>8 DEF ProducerDies, ProducerRestarts, Pending, ToSet
    <2>2. lost' \subseteq lost \cup ToSet(Pending) /\ UNCHANGED <<dropped, topic>>
      BY <1>8 DEF ProducerDies, ProducerRestarts
    <2> QED  BY <2>1, <2>2 DEF Handed, OnTopic, ToSet
  <1> QED  BY <1>1, <1>2, <1>3, <1>4, <1>5, <1>6, <1>7, <1>8

\* A step hands the producer at most the event processEvent has in hand.
LEMMA StepHands ==
    ASSUME Types, Next
    PROVE  \/ Handed' \subseteq Handed
           \/ EventHandled /\ Handed' \subseteq Handed \cup {lastEventID}
  <1>1. CASE HandleProduces
    <2>1. EventHandled /\ Produce(lastEventID) /\ lastEventID \in Edits
      BY <1>1 DEF HandleProduces, EventHandled, Types, ClientTypeOK, Events
    <2>2. {lastEventID} \in SUBSET Edits /\ \E e \in {lastEventID} : Produce(e)
      BY <2>1
    <2>3. Handed' \subseteq Handed \cup {lastEventID}
      BY <2>2, ProducerHands DEF Types
    <2> QED  BY <2>1, <2>3
  <1>2. CASE ~ HandleProduces
    <2>1. \/ UNCHANGED producerVars
          \/ TakeEdit \/ FlushTick \/ SeeStop \/ WriteReturns
          \/ \E k \in DOMAIN batch : BrokerAppends(k)
          \/ \E t \in Titles : WriterRetries(t)
          \/ CloseSignals \/ CloseBuffer
          \/ ProducerDies \/ ProducerRestarts
      <3>1. CASE Main
        BY <3>1 DEF Main, ConnectFails, ConnectAgain, ConnectAborts, ConnectSucceeds,
                    ShutdownStarts, ShutdownSignalsProducer, ShutdownClosesProducer,
                    ShutdownEnds
      <3>2. CASE ProducerStep
        BY <3>2 DEF ProducerStep
      <3>3. CASE ClientStep \/ UpstreamPublishes \/ HandleFilters \/ HandlePanics
        BY <3>3 DEF ClientStep, UpstreamPublishes, HandleFilters, HandlePanics
      <3>4. CASE Crash \/ Restart
        BY <3>4 DEF Crash, Restart
      <3> QED  BY <1>2, <3>1, <3>2, <3>3, <3>4 DEF Next
    <2>2. Handed' \subseteq Handed \cup {}
      BY <2>1, ProducerHands DEF Types
    <2> QED  BY <2>2
  <1> QED  BY <1>1, <1>2

LEMMA HandedInit == Init => HandedInv
  <1> SUFFICES ASSUME Init PROVE HandedInv
    OBVIOUS
  <1>1. ToSet(Pending) = {}
    BY DEF Init, ProducerInit, Pending, ToSet
  <1>2. dropped = {} /\ lost = {}
    BY DEF Init, ProducerInit
  <1>3. \A e \in Edits : ~ OnTopic(e)
    BY DEF Init, ProducerInit, OnTopic, ToSet, Titles
  <1>4. Handed = {}
    BY <1>1, <1>2, <1>3 DEF Handed
  <1> QED  BY <1>4 DEF HandedInv

LEMMA HandedStep ==
    ASSUME Types, StreamInv, HandedInv, Next
    PROVE  HandedInv'
  <1>0. /\ Handed \subseteq Nat /\ lastEventID \in Nat /\ head \in Nat /\ next \in Nat
        /\ eventChan \in Seq(Events) /\ Len(eventChan) \in Nat
    <2>1. Pending \in Seq(Edits)
      BY DEF Types, ProducerTypeOK, Pending
    <2>2. ToSet(Pending) \subseteq Edits /\ dropped \subseteq Edits /\ lost \subseteq Edits
      BY <2>1, ToSetType DEF Types, ProducerTypeOK
    <2>3. Handed \subseteq Edits
      BY <2>2 DEF Handed
    <2> QED  BY <2>3 DEF Types, ClientTypeOK, Events
  <1>1. CASE EventHandled
    <2>1. Handed' \subseteq Handed \cup {lastEventID}
      BY StepHands
    <2>2. lastEventID # 0 /\ lastEventID <= head /\ lastEventID' = lastEventID /\ head' = head
          /\ pc' = "stream"
      BY <1>1 DEF EventHandled, Types, ClientTypeOK, StreamInv
    <2>3. ASSUME NEW e \in Handed' PROVE e <= lastEventID
      <3>1. CASE e = lastEventID
        BY <1>0, <3>1
      <3>2. CASE e \in Handed
        BY <1>0, <2>2, <3>2 DEF HandedInv
      <3> QED  BY <2>1, <3>1, <3>2
    <2>4. ASSUME NEW e \in Handed' PROVE e <= head'
      <3>1. e \in Nat /\ e <= lastEventID
        BY <1>0, <2>1, <2>3
      <3> QED  BY <1>0, <2>2, <3>1
    <2> QED  BY <2>2, <2>3, <2>4 DEF HandedInv
  <1> SUFFICES ASSUME ~ EventHandled PROVE HandedInv'
    BY <1>1
  <1>2. Handed' \subseteq Handed
    BY StepHands
  <1>3. CASE UNCHANGED clientVars
    BY <1>2, <1>3 DEF clientVars, HandedInv, Streaming
  <1>4. CASE LoopStops \/ LoopEnters \/ BackoffStops \/ BackoffElapses \/ ClientStart
             \/ StopSignals \/ SubscriptionEnds
    BY <1>2, <1>4 DEF LoopStops, LoopEnters, BackoffStops, BackoffElapses, ClientStart,
                      StopSignals, SubscriptionEnds, HandedInv, Streaming
  <1>5. CASE PreflightFails \/ Subscribe \/ StreamStops \/ StreamEnds \/ IdleTimeout
    BY <1>2, <1>5 DEF PreflightFails, Subscribe, StreamStops, StreamEnds, IdleTimeout,
                      StreamFails, HandedInv, Streaming
  <1>6. CASE ServerAccepts
    <2>1. eventChan' = <<>> /\ UNCHANGED <<head, lastEventID, pc>>
          /\ (lastEventID = 0 => next' = head + 1)
      BY <1>6 DEF ServerAccepts, StreamInv
    <2>2. Len(eventChan') = 0
      BY <2>1
    <2> QED  BY <1>0, <1>2, <2>1, <2>2 DEF HandedInv
  <1>7. CASE Receive
    <2>1. /\ Len(eventChan') = Len(eventChan) + 1 /\ next' = next + 1
          /\ UNCHANGED <<head, lastEventID, pc>> /\ Streaming
      BY <1>0, <1>7 DEF Receive, Streaming
    <2> QED  BY <1>0, <1>2, <2>1 DEF HandedInv
  <1>8. CASE TakeEvent
    <2>1. /\ lastEventID' \in Nat /\ lastEventID' # 0
          /\ lastEventID' + Len(eventChan) = next
          /\ lastEventID # 0 => lastEventID' = lastEventID + 1
      BY <1>8, TakenIsNext DEF Types
    <2>2. Streaming /\ UNCHANGED head /\ pc' = "handle"
      BY <1>8 DEF TakeEvent, Streaming
    <2>3. \A e \in Handed : e < lastEventID'
      <3>1. CASE lastEventID = 0
        BY <1>0, <2>1, <2>2, <3>1 DEF HandedInv
      <3>2. CASE lastEventID # 0
        BY <1>0, <2>1, <3>2 DEF HandedInv
      <3> QED  BY <3>1, <3>2
    <2> QED  BY <1>0, <1>2, <2>1, <2>2, <2>3 DEF HandedInv
  <1>9. CASE Publish
    BY <1>0, <1>2, <1>9 DEF Publish, HandedInv, Streaming
  <1>10. CASE ClientRestarts
    <2>1. lastEventID' = 0 /\ head' = head /\ pc' = "off" /\ sub' = "none" /\ eventChan' = <<>>
      BY <1>10 DEF ClientRestarts
    <2>2. ~ Streaming'
      BY <2>1 DEF Streaming
    <2> QED  BY <1>2, <2>1, <2>2 DEF HandedInv
  <1> QED
    BY <1>3, <1>4, <1>5, <1>6, <1>7, <1>8, <1>9, <1>10, StepCases DEF ClientMoves

LEMMA HandedInvariant == Spec => [](Types /\ StreamInv /\ HandedInv)
  <1>1. Types /\ StreamInv /\ HandedInv /\ [Next]_vars => HandedInv'
    <2>1. UNCHANGED vars /\ HandedInv => HandedInv'
      BY DEF vars, producerVars, clientVars, HandedInv, Handed, Pending, OnTopic, ToSet, Streaming
    <2> QED  BY <2>1, HandedStep
  <1> QED  BY <1>1, HandedInit, StreamInvariant, PTL DEF Spec

\* No event is handed to the producer twice, whatever is replayed.
THEOREM NothingHandedTwice == Spec => []HandedOnce
  <1>1. Types /\ HandedInv => HandedOnce
    <2> SUFFICES ASSUME Types, HandedInv, pc = "handle"
                 PROVE  /\ lastEventID \notin ToSet(Pending) \cup dropped \cup lost
                        /\ ~ OnTopic(lastEventID)
      BY DEF HandedOnce
    <2>1. lastEventID \in Edits /\ lastEventID \in Nat
      BY DEF Types, ClientTypeOK, Events
    <2>2. lastEventID \notin Handed
      BY <2>1 DEF HandedInv
    <2> QED  BY <2>1, <2>2 DEF Handed
  <1> QED  BY <1>1, HandedInvariant, PTL

-----------------------------------------------------------------------------
(* Order within a partition: the queue is sorted, and a pending edit is    *)
(* newer than its whole partition unless it is already there.              *)

OrderInv ==
    /\ \A i, j \in DOMAIN Pending : i < j => Pending[i] < Pending[j]
    /\ \A t \in Titles : \A i \in DOMAIN topic[t] : TitleOf[topic[t][i]] = t
    /\ \A k \in sent : OnTopic(batch[k])
    /\ \A j \in DOMAIN Pending :
          \/ OnTopic(Pending[j])
          \/ \A x \in ToSet(topic[TitleOf[Pending[j]]]) : x < Pending[j]
    /\ PartitionOrder

LEMMA OrderInit == Init => OrderInv
  <1> SUFFICES ASSUME Init PROVE OrderInv
    OBVIOUS
  <1>1. Pending = <<>> /\ sent = {}
    BY DEF Init, ProducerInit, Pending
  <1>2. DOMAIN Pending = {}
    BY <1>1
  <1>3. \A t \in Titles : DOMAIN topic[t] = {}
    BY DEF Init, ProducerInit
  <1> QED  BY <1>1, <1>2, <1>3 DEF OrderInv, PartitionOrder

\* A step that moves nothing to the topic and leaves a part of the queue.
LEMMA OrderKept ==
    ASSUME OrderInv, ProducerTypeOK, UNCHANGED topic,
           NEW d \in Nat,
           \A j \in DOMAIN Pending' : /\ j \in Nat
                                      /\ j + d \in DOMAIN Pending
                                      /\ Pending'[j] = Pending[j + d],
           \A k \in sent' : k \in sent /\ batch'[k] = batch[k]
    PROVE  OrderInv'
  <1>2. \A i, j \in DOMAIN Pending' : i < j => Pending'[i] < Pending'[j]
    <2> SUFFICES ASSUME NEW i \in DOMAIN Pending', NEW j \in DOMAIN Pending', i < j
                 PROVE  Pending'[i] < Pending'[j]
      OBVIOUS
    <2>1. i + d < j + d
      OBVIOUS
    <2>2. Pending[i + d] < Pending[j + d]
      BY <2>1 DEF OrderInv
    <2> QED  BY <2>2
  <1>3. \A k \in sent' : OnTopic(batch[k])'
    BY DEF OrderInv, OnTopic, ToSet
  <1>4. \A j \in DOMAIN Pending' :
          \/ OnTopic(Pending[j])'
          \/ \A x \in ToSet(topic'[TitleOf[Pending'[j]]]) : x < Pending'[j]
    BY DEF OrderInv, OnTopic, ToSet
  <1>5. PartitionOrder'
    BY DEF OrderInv, PartitionOrder
  <1> QED  BY <1>2, <1>3, <1>4, <1>5 DEF OrderInv, ToSet

\* A newer edit joins the queue.
LEMMA OrderProduce ==
    ASSUME Types, OrderInv, NEW e \in Edits, ProduceAccepts(e), \A x \in Handed : x < e
    PROVE  OrderInv'
  <1>1. /\ Pending \in Seq(Edits) /\ Pending' = Append(Pending, e)
        /\ UNCHANGED <<topic, batch, sent>>
    BY DEF ProduceAccepts, Pending, Types, ProducerTypeOK
  <1>3. /\ DOMAIN Pending' = DOMAIN Pending \cup {Len(Pending) + 1}
        /\ \A j \in DOMAIN Pending : Pending'[j] = Pending[j] /\ j \in Nat /\ j <= Len(Pending)
        /\ Pending'[Len(Pending) + 1] = e
        /\ Len(Pending) \in Nat
    BY <1>1
  <1>4. \A j \in DOMAIN Pending : Pending[j] < e
    BY DEF Handed, ToSet
  <1>5. \A i, j \in DOMAIN Pending' : i < j => Pending'[i] < Pending'[j]
    <2> SUFFICES ASSUME NEW i \in DOMAIN Pending', NEW j \in DOMAIN Pending', i < j
                 PROVE  Pending'[i] < Pending'[j]
      OBVIOUS
    <2>1. i \in DOMAIN Pending
      BY <1>3
    <2>2. CASE j \in DOMAIN Pending
      BY <1>3, <2>1, <2>2 DEF OrderInv
    <2>3. CASE j = Len(Pending) + 1
      BY <1>3, <1>4, <2>1, <2>3
    <2> QED  BY <1>3, <2>2, <2>3
  <1>6. \A x \in ToSet(topic[TitleOf[e]]) : x < e
    <2> SUFFICES ASSUME NEW x \in ToSet(topic[TitleOf[e]])
                 PROVE  x < e
      OBVIOUS
    <2>1. TitleOf[e] \in Titles /\ topic[TitleOf[e]] \in Seq(Edits)
      BY DEF Titles, Types, ProducerTypeOK
    <2>2. x \in Edits /\ TitleOf[x] = TitleOf[e]
      BY <2>1 DEF ToSet, OrderInv
    <2>3. OnTopic(x)
      BY <2>2 DEF OnTopic
    <2> QED  BY <2>2, <2>3 DEF Handed
  <1>7. \A j \in DOMAIN Pending' :
          \/ OnTopic(Pending[j])'
          \/ \A x \in ToSet(topic'[TitleOf[Pending'[j]]]) : x < Pending'[j]
    <2> SUFFICES ASSUME NEW j \in DOMAIN Pending'
                 PROVE  \/ OnTopic(Pending[j])'
                        \/ \A x \in ToSet(topic'[TitleOf[Pending'[j]]]) : x < Pending'[j]
      OBVIOUS
    <2>1. CASE j \in DOMAIN Pending
      <3>1. Pending'[j] = Pending[j] /\ topic' = topic
        BY <1>1, <1>3, <2>1
      <3>2. \/ OnTopic(Pending[j])
            \/ \A x \in ToSet(topic[TitleOf[Pending[j]]]) : x < Pending[j]
        BY <2>1 DEF OrderInv
      <3> QED  BY <3>1, <3>2 DEF OnTopic, ToSet
    <2>2. CASE j = Len(Pending) + 1
      BY <1>1, <1>3, <1>6, <2>2
    <2> QED  BY <1>3, <2>1, <2>2
  <1>8. \A k \in sent' : OnTopic(batch[k])'
    BY <1>1 DEF OrderInv, OnTopic, ToSet
  <1>9. PartitionOrder'
    BY <1>1 DEF OrderInv, PartitionOrder
  <1> QED  BY <1>1, <1>5, <1>7, <1>8, <1>9 DEF OrderInv, ToSet

\* The broker appends: a copy of what the partition holds, or a newer edit.
LEMMA OrderAppend ==
    ASSUME ProducerTypeOK, OrderInv, NEW k \in DOMAIN batch, BrokerAppends(k)
    PROVE  OrderInv'
  <1> DEFINE e == batch[k]
             p == topic[TitleOf[e]]
  <1>1. /\ batch \in Seq(Edits) /\ buffer \in Seq(Edits) /\ Edits \subseteq Nat
        /\ topic \in [Titles -> Seq(Edits)] /\ e \in Edits /\ TitleOf[e] \in Titles
    <2>1. batch \in Seq(Edits) /\ buffer \in Seq(Edits) /\ topic \in [Titles -> Seq(Edits)]
      BY DEF ProducerTypeOK
    <2>2. Edits \subseteq Nat
      BY DEF Events
    <2>3. e \in Edits
      BY <2>1
    <2> QED  BY <2>1, <2>2, <2>3 DEF Titles
  <1>2. /\ UNCHANGED <<batch, buffer>> /\ Pending' = Pending
        /\ sent' = sent \cup {k}
        /\ topic' = [topic EXCEPT ![TitleOf[e]] = Append(p, e)]
    BY DEF BrokerAppends, Pending
  <1>3. /\ p \in Seq(Edits)
        /\ topic'[TitleOf[e]] = Append(p, e)
        /\ ToSet(topic'[TitleOf[e]]) = ToSet(p) \cup {e}
        /\ \A t \in Titles : t # TitleOf[e] => topic'[t] = topic[t]
    BY <1>1, <1>2, ToSetAppend
  <1>4. \A j \in DOMAIN batch : j \in DOMAIN Pending /\ Pending[j] = batch[j]
    BY <1>1 DEF Pending
  <1>5. \A f \in Edits : /\ OnTopic(f) => f \in ToSet(topic'[TitleOf[f]])
                         /\ TitleOf[f] \in Titles
    BY <1>3 DEF OnTopic, Titles
  <1>6. OnTopic(e) \/ \A x \in ToSet(p) : x < e
    BY <1>4 DEF OrderInv
  <1>7. \A t \in Titles : \A i \in DOMAIN topic'[t] : TitleOf[topic'[t][i]] = t
    <2> SUFFICES ASSUME NEW t \in Titles, NEW i \in DOMAIN topic'[t]
                 PROVE  TitleOf[topic'[t][i]] = t
      OBVIOUS
    <2>1. CASE t # TitleOf[e]
      BY <1>3, <2>1 DEF OrderInv
    <2>2. CASE t = TitleOf[e]
      <3>1. topic'[t][i] \in ToSet(p) \cup {e}
        BY <1>3, <2>2 DEF ToSet
      <3> QED  BY <2>2, <3>1 DEF ToSet, OrderInv
    <2> QED  BY <2>1, <2>2
  <1>8. \A m \in sent' : OnTopic(batch[m])'
    <2> SUFFICES ASSUME NEW m \in sent' PROVE batch[m] \in ToSet(topic'[TitleOf[batch[m]]])
      BY <1>2 DEF OnTopic, ToSet
    <2>1. CASE m = k
      BY <1>3, <2>1
    <2>2. CASE m \in sent
      <3>1. batch[m] \in Edits
        BY <1>1, <2>2 DEF ProducerTypeOK
      <3>2. OnTopic(batch[m])
        BY <2>2 DEF OrderInv
      <3> QED  BY <1>5, <3>1, <3>2
    <2> QED  BY <1>2, <2>1, <2>2
  <1>9. \A j \in DOMAIN Pending :
          \/ Pending[j] \in ToSet(topic'[TitleOf[Pending[j]]])
          \/ \A x \in ToSet(topic'[TitleOf[Pending[j]]]) : x < Pending[j]
    <2> SUFFICES ASSUME NEW j \in DOMAIN Pending
                 PROVE  \/ Pending[j] \in ToSet(topic'[TitleOf[Pending[j]]])
                        \/ \A x \in ToSet(topic'[TitleOf[Pending[j]]]) : x < Pending[j]
      OBVIOUS
    <2>0. Pending[j] \in Edits /\ j \in Nat /\ 1 <= j
      BY <1>1 DEF Pending
    <2>1. CASE OnTopic(Pending[j])
      BY <1>5, <2>0, <2>1
    <2>2. CASE ~ OnTopic(Pending[j]) /\ TitleOf[Pending[j]] # TitleOf[e]
      BY <1>3, <1>5, <2>0, <2>2 DEF OrderInv
    <2>3. CASE ~ OnTopic(Pending[j]) /\ TitleOf[Pending[j]] = TitleOf[e]
      <3>1. \A x \in ToSet(p) : x < Pending[j]
        BY <2>3 DEF OrderInv
      <3>2. CASE j < k
        <4>0. k \in 1..Len(batch) /\ Len(batch) \in Nat /\ DOMAIN batch = 1..Len(batch)
          BY <1>1
        <4>1. j \in 1..(k - 1) /\ j \in DOMAIN batch /\ Pending[j] = batch[j]
          BY <1>4, <2>0, <3>2, <4>0
        <4>2. j \in sent
          BY <2>3, <4>1 DEF BrokerAppends
        <4> QED  BY <2>3, <4>1, <4>2 DEF OrderInv
      <3>3. CASE j = k
        BY <1>3, <1>4, <3>3
      <3>4. CASE k < j
        <4>1. e < Pending[j]
          BY <1>4, <3>4 DEF OrderInv
        <4> QED  BY <1>3, <2>3, <3>1, <4>1
      <3> QED  BY <1>1, <2>0, <3>2, <3>3, <3>4
    <2> QED  BY <2>1, <2>2, <2>3
  <1>10. PartitionOrder'
    <2> SUFFICES ASSUME NEW t \in Titles, NEW j \in DOMAIN topic'[t]
                 PROVE  \/ \A i \in 1..(j - 1) : topic'[t][i] < topic'[t][j]
                        \/ \E i \in 1..(j - 1) : topic'[t][i] = topic'[t][j]
      BY DEF PartitionOrder
    <2>1. CASE t # TitleOf[e]
      BY <1>3, <2>1 DEF OrderInv, PartitionOrder
    <2>2. CASE t = TitleOf[e]
      <3>0. /\ \A i \in DOMAIN p : Append(p, e)[i] = p[i]
            /\ Append(p, e)[Len(p) + 1] = e
            /\ DOMAIN Append(p, e) = 1..(Len(p) + 1)
            /\ DOMAIN p = 1..Len(p) /\ Len(p) \in Nat
        <4> HIDE DEF p, e
        <4> QED  BY <1>1, <1>3
      <3>1. /\ \A i \in DOMAIN p : topic'[t][i] = p[i]
            /\ topic'[t][Len(p) + 1] = e
            /\ DOMAIN topic'[t] = 1..(Len(p) + 1)
            /\ DOMAIN p = 1..Len(p) /\ Len(p) \in Nat
        BY <1>3, <2>2, <3>0
      <3>2. CASE j \in DOMAIN p
        <4>1. \A i \in 1..(j - 1) : i \in DOMAIN p
          BY <3>1, <3>2
        <4>2. \/ \A i \in 1..(j - 1) : p[i] < p[j]
              \/ \E i \in 1..(j - 1) : p[i] = p[j]
          BY <1>1, <3>2 DEF OrderInv, PartitionOrder
        <4> QED  BY <3>1, <3>2, <4>1, <4>2
      <3>3. CASE j = Len(p) + 1
        <4>1. 1..(j - 1) = DOMAIN p
          BY <3>1, <3>3
        <4> QED  BY <1>6, <3>1, <3>3, <4>1 DEF OnTopic, ToSet
      <3> QED  BY <3>1, <3>2, <3>3
    <2> QED  BY <2>1, <2>2
  <1>11. \A j \in DOMAIN Pending' :
          \/ OnTopic(Pending[j])'
          \/ \A x \in ToSet(topic'[TitleOf[Pending'[j]]]) : x < Pending'[j]
    <2> HIDE DEF e, p
    <2> QED  BY <1>2, <1>9 DEF OnTopic, ToSet
  <1> QED  BY <1>2, <1>7, <1>8, <1>10, <1>11 DEF OrderInv, ToSet

LEMMA OrderStep ==
    ASSUME Types, HandedInv, OrderInv, [Next]_vars
    PROVE  OrderInv'
  <1>0. /\ ProducerTypeOK
        /\ batch \in Seq(Edits) /\ buffer \in Seq(Edits) /\ Pending \in Seq(Edits)
        /\ \A j \in DOMAIN Pending : j \in Nat
    BY DEF Types, ProducerTypeOK, Pending
  <1>1. CASE Pending' = Pending /\ UNCHANGED topic /\ \A k \in sent' : k \in sent /\ batch'[k] = batch[k]
    <2>1. \A j \in DOMAIN Pending' : /\ j \in Nat /\ j + 0 \in DOMAIN Pending
                                     /\ Pending'[j] = Pending[j + 0]
      BY <1>0, <1>1
    <2> QED  BY <1>0, <1>1, <2>1, OrderKept
  <1>2. CASE pc = "handle" /\ Produce(lastEventID)
    <2>1. lastEventID \in Edits /\ \A x \in Handed : x < lastEventID
      BY <1>2 DEF Types, ClientTypeOK, Events, HandedInv
    <2>2. CASE ProduceAccepts(lastEventID)
      BY <2>1, <2>2, OrderProduce
    <2>3. CASE ProduceDrops(lastEventID)
      BY <1>1, <2>3 DEF ProduceDrops, Pending
    <2> QED  BY <1>2, <2>2, <2>3 DEF Produce
  <1>3. CASE TakeEdit
    <2>1. \A k \in DOMAIN batch : Append(batch, Head(buffer))[k] = batch[k]
      BY <1>0
    <2>2. Pending' = Pending
      BY <1>0, <1>3, TakeKeepsPending
    <2>3. batch' = Append(batch, Head(buffer)) /\ UNCHANGED <<topic, sent>>
      BY <1>3 DEF TakeEdit
    <2>4. sent \subseteq DOMAIN batch
      BY <1>0 DEF ProducerTypeOK
    <2>5. \A k \in sent' : k \in sent /\ batch'[k] = batch[k]
      BY <2>1, <2>3, <2>4
    <2>6. UNCHANGED topic
      BY <2>3
    <2> QED  BY <1>1, <2>2, <2>5, <2>6
  <1>4. CASE \/ FlushTick \/ SeeStop \/ CloseSignals \/ UNCHANGED producerVars
             \/ \E t \in Titles : WriterRetries(t)
    BY <1>1, <1>4 DEF FlushTick, SeeStop, CloseSignals, producerVars, WriterRetries, Pending
  <1>5. CASE WriteReturns
    <2>1. Pending' = buffer /\ sent' = {} /\ UNCHANGED topic
      BY <1>0, <1>5 DEF WriteReturns, Pending
    <2>2. \A j \in DOMAIN Pending' : /\ j \in Nat /\ j + Len(batch) \in DOMAIN Pending
                                     /\ Pending'[j] = Pending[j + Len(batch)]
      BY <1>0, <2>1 DEF Pending
    <2>3. Len(batch) \in Nat /\ \A k \in sent' : k \in sent /\ batch'[k] = batch[k]
      BY <1>0, <2>1
    <2> QED  BY <1>0, <2>1, <2>2, <2>3, OrderKept
  <1>6. CASE \E k \in DOMAIN batch : BrokerAppends(k)
    BY <1>0, <1>6, OrderAppend
  <1>7. CASE CloseBuffer
    <2>1. Pending' = batch /\ UNCHANGED <<topic, sent, batch>>
      BY <1>0, <1>7 DEF CloseBuffer, Pending
    <2>2. \A j \in DOMAIN batch : /\ j \in Nat /\ j + 0 = j /\ j \in DOMAIN Pending
                                  /\ batch[j] = Pending[j]
      BY <1>0 DEF Pending
    <2> QED  BY <1>0, <2>1, <2>2, OrderKept
  <1>8. CASE ProducerDies \/ ProducerRestarts
    <2>1. Pending' = <<>> /\ sent' = {} /\ UNCHANGED topic
      BY <1>8 DEF ProducerDies, ProducerRestarts, Pending
    <2>2. DOMAIN Pending' = {}
      BY <2>1
    <2> QED  BY <1>0, <2>1, <2>2, OrderKept
  <1>9. CASE UNCHANGED vars
    BY <1>4, <1>9 DEF vars, producerVars
  <1> QED  BY <1>2, <1>3, <1>4, <1>5, <1>6, <1>7, <1>8, <1>9, StepCases

LEMMA OrderInvariant == Spec => []OrderInv
  <1>1. Types /\ HandedInv /\ OrderInv /\ [Next]_vars => OrderInv'
    BY OrderStep
  <1> QED  BY <1>1, OrderInit, HandedInvariant, PTL DEF Spec

\* The edits of a page are on its partition in the order of the stream, up to
\* copies made by the writer's retries.
THEOREM PagesInOrder == Spec => []PartitionOrder
  <1>1. OrderInv => PartitionOrder
    BY DEF OrderInv
  <1> QED  BY <1>1, OrderInvariant, PTL

-----------------------------------------------------------------------------
(* Nothing vanishes: no step of the producer takes an edit out of what it  *)
(* was handed, and the loop hands over what it takes before it goes on.    *)

\* An edit that is on its partition stays there.
LEMMA TopicGrows ==
    ASSUME ProducerTypeOK, NEW k \in DOMAIN batch, BrokerAppends(k), NEW e \in Edits, OnTopic(e)
    PROVE  OnTopic(e)'
  <1>1. topic \in [Titles -> Seq(Edits)] /\ batch[k] \in Edits /\ TitleOf[e] \in Titles
    BY DEF ProducerTypeOK, Titles
  <1>2. CASE TitleOf[e] = TitleOf[batch[k]]
    <2>1. topic'[TitleOf[e]] = Append(topic[TitleOf[e]], batch[k])
      BY <1>1, <1>2 DEF BrokerAppends
    <2>2. ToSet(topic'[TitleOf[e]]) = ToSet(topic[TitleOf[e]]) \cup {batch[k]}
      BY <1>1, <2>1, ToSetAppend
    <2> QED  BY <2>2 DEF OnTopic, ToSet
  <1>3. CASE TitleOf[e] # TitleOf[batch[k]]
    <2>1. topic'[TitleOf[e]] = topic[TitleOf[e]]
      BY <1>1, <1>3 DEF BrokerAppends
    <2> QED  BY <2>1 DEF OnTopic, ToSet
  <1> QED  BY <1>2, <1>3

\* What was handed over is still pending, refused, on its partition or lost,
\* unless the process is a new one.
LEMMA ProducerKeeps ==
    ASSUME ProducerTypeOK,
           \/ UNCHANGED producerVars
           \/ \E e \in Edits : Produce(e)
           \/ TakeEdit \/ FlushTick \/ SeeStop \/ WriteReturns
           \/ \E k \in DOMAIN batch : BrokerAppends(k)
           \/ \E t \in Titles : WriterRetries(t)
           \/ CloseSignals \/ CloseBuffer \/ ProducerDies
    PROVE  Handed \subseteq Handed'
  <1>0. /\ ToSet(Pending) = ToSet(batch) \cup ToSet(buffer)
        /\ batch \in Seq(Edits) /\ buffer \in Seq(Edits)
    BY PendingElems DEF ProducerTypeOK
  <1>a. ToSet(batch) \subseteq Edits /\ ToSet(buffer) \subseteq Edits
    BY <1>0, ToSetType
  <1>1. CASE UNCHANGED producerVars
    BY <1>1 DEF producerVars, Handed, Pending, OnTopic, ToSet
  <1>2. CASE \E e \in Edits : Produce(e)
    <2>1. PICK e \in Edits : Produce(e)
      BY <1>2
    <2>2. CASE ProduceAccepts(e)
      <3>1. Pending' = Append(Pending, e) /\ Pending \in Seq(Edits)
        BY <1>0, <2>2 DEF ProduceAccepts, Pending
      <3>2. ToSet(Pending') = ToSet(Pending) \cup {e}
        BY <3>1, ToSetAppend
      <3>3. UNCHANGED <<dropped, lost, topic>> /\ ToSet(Pending)' = ToSet(Pending')
        BY <2>2 DEF ProduceAccepts, ToSet
      <3> QED  BY <3>2, <3>3 DEF Handed, OnTopic, ToSet
    <2>3. CASE ProduceDrops(e)
      BY <2>3 DEF ProduceDrops, Handed, Pending, OnTopic, ToSet
    <2> QED  BY <2>1, <2>2, <2>3 DEF Produce
  <1>3. CASE TakeEdit
    BY <1>3, TakeKeepsPending DEF TakeEdit, Handed, OnTopic, ToSet
  <1>4. CASE FlushTick \/ SeeStop \/ CloseSignals \/ \E t \in Titles : WriterRetries(t)
    BY <1>4 DEF FlushTick, SeeStop, CloseSignals, WriterRetries, Handed, Pending, OnTopic, ToSet
  <1>5. CASE WriteReturns
    <2>1. Pending' = buffer
      BY <1>0, <1>5 DEF WriteReturns, Pending
    <2>2. lost' = lost \cup {e \in ToSet(batch) : ~ OnTopic(e)} /\ UNCHANGED <<dropped, topic>>
      BY <1>5 DEF WriteReturns
    <2> QED  BY <1>0, <1>a, <2>1, <2>2 DEF Handed, OnTopic, ToSet
  <1>6. CASE \E k \in DOMAIN batch : BrokerAppends(k)
    <2>1. PICK k \in DOMAIN batch : BrokerAppends(k)
      BY <1>6
    <2>2. \A e \in Edits : OnTopic(e) => OnTopic(e)'
      BY <2>1, TopicGrows
    <2>3. UNCHANGED <<buffer, batch, dropped, lost>>
      BY <2>1 DEF BrokerAppends
    <2> QED  BY <2>2, <2>3 DEF Handed, Pending, ToSet
  <1>7. CASE CloseBuffer
    <2>1. Pending' = batch
      BY <1>0, <1>7 DEF CloseBuffer, Pending
    <2>2. lost' = lost \cup {e \in ToSet(buffer) : ~ OnTopic(e)} /\ UNCHANGED <<dropped, topic>>
      BY <1>7 DEF CloseBuffer
    <2> QED  BY <1>0, <1>a, <2>1, <2>2 DEF Handed, OnTopic, ToSet
  <1>8. CASE ProducerDies
    <2>1. lost' = lost \cup {e \in ToSet(Pending) : ~ OnTopic(e)} /\ UNCHANGED <<dropped, topic>>
      BY <1>8 DEF ProducerDies
    <2> QED  BY <1>0, <1>a, <2>1 DEF Handed, OnTopic, ToSet
  <1> QED  BY <1>1, <1>2, <1>3, <1>4, <1>5, <1>6, <1>7, <1>8

\* Accounted in terms of what was handed over.
AccountInv ==
    \A e \in taken : Wanted(Feed[e]) => (e = lastEventID /\ pc = "handle") \/ e \in Handed

\* An event leaves the hand of processEvent for the producer, if it is wanted.
LEMMA HandedOver ==
    ASSUME Types, HandleProduces
    PROVE  lastEventID \in Handed'
  <1>1. lastEventID \in Edits /\ Produce(lastEventID)
    BY DEF HandleProduces, EventHandled, Types, ClientTypeOK, Events
  <1>2. batch \in Seq(Edits) /\ buffer \in Seq(Edits) /\ Pending \in Seq(Edits)
    BY DEF Types, ProducerTypeOK, Pending
  <1>3. CASE ProduceAccepts(lastEventID)
    <2>1. Pending' = Append(Pending, lastEventID)
      BY <1>2, <1>3 DEF ProduceAccepts, Pending
    <2>2. ToSet(Pending') = ToSet(Pending) \cup {lastEventID}
      BY <1>1, <1>2, <2>1, ToSetAppend
    <2> QED  BY <2>2 DEF Handed, ToSet
  <1>4. CASE ProduceDrops(lastEventID)
    BY <1>4 DEF ProduceDrops, Handed
  <1> QED  BY <1>1, <1>3, <1>4 DEF Produce

LEMMA AccountStep ==
    ASSUME Types, AccountInv, [Next]_vars
    PROVE  AccountInv'
  <1> USE DEF AccountInv
  <1>1. CASE HandleProduces
    <2>1. Handed \subseteq Handed'
      <3>1. lastEventID \in Edits /\ Produce(lastEventID)
        BY <1>1 DEF HandleProduces, EventHandled, Types, ClientTypeOK, Events
      <3> QED  BY <3>1, ProducerKeeps DEF Types
    <2>2. taken' = taken
      BY <1>1 DEF HandleProduces, EventHandled
    <2> QED  BY <1>1, <2>1, <2>2, HandedOver
  <1>2. CASE HandleFilters
    <2>1. /\ ~ Wanted(Feed[lastEventID]) /\ taken' = taken /\ UNCHANGED producerVars
      BY <1>2 DEF HandleFilters, EventHandled
    <2>2. Handed \subseteq Handed'
      BY <2>1, ProducerKeeps DEF Types
    <2> QED  BY <2>1, <2>2
  <1>3. CASE Restart
    BY <1>3 DEF Restart, ClientRestarts
  <1>4. CASE ClientStep
    <2>1. Handed \subseteq Handed'
      BY <1>4, ProducerKeeps DEF ClientStep, Types
    <2>2. CASE TakeEvent
      BY <2>1, <2>2 DEF TakeEvent
    <2>3. CASE ~ TakeEvent
      <3>1. taken' = taken /\ (pc # "handle" \/ UNCHANGED <<pc, lastEventID>>)
        BY <1>4, <2>3 DEF ClientStep, LoopStops, LoopEnters, PreflightFails, Subscribe,
             ServerAccepts, Receive, SubscriptionEnds, StreamStops, StreamEnds, IdleTimeout,
             BackoffStops, BackoffElapses, StreamFails
      <3> QED  BY <2>1, <3>1
    <2> QED  BY <2>2, <2>3
  <1>5. CASE Main \/ ProducerStep \/ UpstreamPublishes \/ HandlePanics \/ Crash \/ UNCHANGED vars
    <2>1. Handed \subseteq Handed'
      BY <1>5, ProducerKeeps DEF Types, Main, ConnectFails, ConnectAgain, ConnectAborts,
           ConnectSucceeds, ShutdownStarts, ShutdownSignalsProducer, ShutdownClosesProducer,
           ShutdownEnds, ProducerStep, UpstreamPublishes, HandlePanics, Crash, vars
    <2>2. UNCHANGED <<taken, lastEventID>> /\ (pc = "handle" => pc' = "handle")
      BY <1>5 DEF Main, ConnectFails, ConnectAgain, ConnectAborts,
           ConnectSucceeds, ShutdownStarts, ShutdownSignalsProducer, ShutdownClosesProducer,
           ShutdownEnds, ProducerStep, UpstreamPublishes, HandlePanics, Crash, vars, clientVars,
           Publish, ClientStart, StopSignals
    <2> QED  BY <2>1, <2>2
  <1> QED  BY <1>1, <1>2, <1>3, <1>4, <1>5 DEF Next

\* No wanted event that was taken vanishes unrecorded, whatever is written,
\* refused, given up at a shutdown or lost in a crash.
THEOREM NothingVanishes == Spec => []Accounted
  <1>1. Init => AccountInv
    BY DEF Init, ClientInit, AccountInv
  <1>2. Types /\ AccountInv => Accounted
    BY DEF AccountInv, Accounted, Handed, Types
  <1>3. Types /\ AccountInv /\ [Next]_vars => AccountInv'
    BY AccountStep
  <1> QED  BY <1>1, <1>2, <1>3, TypesInvariant, PTL DEF Spec

-----------------------------------------------------------------------------
(* The producer implements the ordered lossy channel.                      *)

\* Where the queue must be empty for a step to lose nothing silently: the
\* loop has left no batch behind when it is over, a dead process nothing.
EmptyInv ==
    /\ loop = "exited" => batch = <<>>
    /\ Writing => batch # <<>>
    /\ main = "dead" => batch = <<>> /\ buffer = <<>>

LEMMA EmptyInit == Init => EmptyInv
  BY DEF Init, ProducerInit, EmptyInv, Writing

LEMMA EmptyStep ==
    ASSUME Types, EmptyInv, [Next]_vars
    PROVE  EmptyInv'
  <1> USE DEF EmptyInv, Writing
  <1>1. CASE ProducerStep
    <2>0. Alive /\ main' = main /\ main # "dead"
      BY <1>1 DEF ProducerStep, Alive
    <2>1. CASE TakeEdit
      <3>1. batch' # <<>> /\ loop' # "exited"
        BY <2>1 DEF TakeEdit, Types, ProducerTypeOK
      <3> QED  BY <2>0, <3>1
    <2>2. CASE FlushTick \/ SeeStop \/ WriteReturns
      BY <2>0, <2>2 DEF FlushTick, SeeStop, WriteReturns
    <2>3. CASE (\E k \in DOMAIN batch : BrokerAppends(k)) \/ (\E t \in Titles : WriterRetries(t))
      BY <2>0, <2>3 DEF BrokerAppends, WriterRetries
    <2> QED  BY <1>1, <2>1, <2>2, <2>3 DEF ProducerStep
  <1>2. CASE HandleProduces
    BY <1>2 DEF HandleProduces, Alive, Produce, ProduceAccepts, ProduceDrops
  <1>3. CASE Main
    BY <1>3 DEF Main, ConnectFails, ConnectAgain, ConnectAborts, ConnectSucceeds, ShutdownStarts,
         ShutdownSignalsProducer, ShutdownClosesProducer, ShutdownEnds, CloseSignals, CloseBuffer,
         producerVars
  <1>4. CASE ClientStep \/ UpstreamPublishes \/ HandleFilters \/ HandlePanics \/ UNCHANGED vars
    BY <1>4 DEF ClientStep, UpstreamPublishes, HandleFilters, HandlePanics, vars, producerVars
  <1>5. CASE Crash \/ Restart
    BY <1>5 DEF Crash, Restart, ProducerDies, ProducerRestarts
  <1> QED  BY <1>1, <1>2, <1>3, <1>4, <1>5 DEF Next

\* The two ways to say that an edit is on its partition.
LEMMA Delivered == \A e : Channel!IsDelivered(e) <=> OnTopic(e)
  BY DEF Channel!IsDelivered, OnTopic, ToSet

\* Sequences with the same elements in the same places are equal.
LEMMA SameSequence ==
    ASSUME NEW S, NEW s \in Seq(S), NEW t \in Seq(S), Len(s) = Len(t),
           \A i \in 1..Len(t) : s[i] = t[i]
    PROVE  s = t
  OBVIOUS

\* The first part of a queue is settled, and what is not on its partition lost.
LEMMA Settled ==
    ASSUME NEW s \in Seq(Edits), NEW t \in Seq(Edits), s # <<>>,
           Pending = s \o t, Pending' = t, UNCHANGED topic,
           lost' = lost \cup {e \in ToSet(s) : ~ OnTopic(e)}
    PROVE  Channel!Next
  <1>1. /\ Len(s) \in Nat \ {0} /\ Len(t) \in Nat
        /\ Len(s) \in DOMAIN Pending /\ Len(Pending) = Len(s) + Len(t)
    OBVIOUS
  <1>2. SubSeq(s \o t, Len(s) + 1, Len(s \o t)) = t
    <2> DEFINE u == SubSeq(s \o t, Len(s) + 1, Len(s \o t))
    <2>1. u \in Seq(Edits) /\ Len(u) = Len(t)
      OBVIOUS
    <2>2. \A i \in 1..Len(t) : u[i] = t[i]
      OBVIOUS
    <2> HIDE DEF u
    <2>3. u = t
      BY <2>1, <2>2, SameSequence
    <2> QED  BY <2>3 DEF u
  <1>3. {Pending[i] : i \in 1..Len(s)} = ToSet(s)
    <2>1. \A i \in 1..Len(s) : Pending[i] = s[i]
      OBVIOUS
    <2>2. DOMAIN s = 1..Len(s)
      OBVIOUS
    <2> QED  BY <2>1, <2>2 DEF ToSet
  <1>4. lost' = lost \cup {e \in {Pending[i] : i \in 1..Len(s)} : ~ Channel!IsDelivered(e)}
    BY <1>3, Delivered
  <1>5. Channel!Settle(Len(s))
    BY <1>2, <1>4 DEF Channel!Settle
  <1> QED  BY <1>1, <1>5 DEF Channel!Next

\* Each step of the producer is one of the channel, or hidden by it.
LEMMA ChannelStep ==
    ASSUME Types, OrderInv, EmptyInv, [Next]_vars
    PROVE  [Channel!Next]_(Channel!vars)
  <1> DEFINE Hidden == Pending' = Pending /\ UNCHANGED <<topic, lost>>
  <1>0. /\ ProducerTypeOK
        /\ batch \in Seq(Edits) /\ buffer \in Seq(Edits) /\ Pending \in Seq(Edits)
        /\ Pending = batch \o buffer
    BY DEF Types, ProducerTypeOK, Pending
  <1>1. Hidden => UNCHANGED Channel!vars
    BY DEF Channel!vars
  <1>2. CASE pc = "handle" /\ Produce(lastEventID)
    <2>1. lastEventID \in Edits
      BY <1>2 DEF Types, ClientTypeOK, Events
    <2>2. CASE ProduceAccepts(lastEventID)
      <3>1. Pending' = Append(Pending, lastEventID) /\ UNCHANGED <<topic, lost>>
        BY <1>0, <2>1, <2>2 DEF ProduceAccepts, Pending
      <3> QED  BY <2>1, <3>1 DEF Channel!Next, Channel!Accept
    <2>3. CASE ProduceDrops(lastEventID)
      BY <1>1, <2>3 DEF ProduceDrops, Pending
    <2> QED  BY <1>2, <2>2, <2>3 DEF Produce
  <1>3. CASE TakeEdit
    BY <1>0, <1>1, <1>3, TakeKeepsPending DEF TakeEdit
  <1>4. CASE \/ FlushTick \/ SeeStop \/ CloseSignals \/ UNCHANGED producerVars
             \/ \E t \in Titles : WriterRetries(t)
    BY <1>1, <1>4 DEF FlushTick, SeeStop, CloseSignals, producerVars, WriterRetries, Pending
  <1>5. CASE WriteReturns
    <2>1. batch # <<>> /\ Pending' = buffer /\ UNCHANGED topic
      BY <1>0, <1>5 DEF WriteReturns, EmptyInv, Pending
    <2> QED  BY <1>0, <1>5, <2>1, Settled DEF WriteReturns
  <1>6. CASE \E k \in DOMAIN batch : BrokerAppends(k)
    <2>1. PICK k \in DOMAIN batch : BrokerAppends(k)
      BY <1>6
    <2>2. /\ DOMAIN batch = 1..Len(batch) /\ Len(batch) \in Nat
          /\ \A j \in DOMAIN batch : j \in DOMAIN Pending /\ Pending[j] = batch[j]
      BY <1>0
    <2>3. \A j \in 1..(k - 1) : TitleOf[Pending[j]] = TitleOf[Pending[k]] => OnTopic(Pending[j])
      <3> SUFFICES ASSUME NEW j \in 1..(k - 1), TitleOf[Pending[j]] = TitleOf[Pending[k]]
                   PROVE  OnTopic(Pending[j])
        OBVIOUS
      <3>1. j \in DOMAIN batch
        BY <2>2
      <3>2. j \in sent
        BY <2>1, <2>2, <3>1 DEF BrokerAppends
      <3> QED  BY <2>2, <3>1, <3>2 DEF OrderInv
    <2>4. /\ Pending' = Pending /\ UNCHANGED lost
          /\ topic' = [topic EXCEPT ![TitleOf[Pending[k]]] = Append(@, Pending[k])]
      BY <2>1, <2>2 DEF BrokerAppends, Pending
    <2>5. Channel!Deliver(k)
      BY <2>3, <2>4, Delivered DEF Channel!Deliver
    <2> QED  BY <2>2, <2>5 DEF Channel!Next
  <1>7. CASE CloseBuffer
    <2>1. /\ Pending = buffer /\ Pending' = <<>> /\ UNCHANGED topic
          /\ lost' = lost \cup {e \in ToSet(buffer) : ~ OnTopic(e)}
      BY <1>0, <1>7 DEF CloseBuffer, EmptyInv, Pending
    <2>2. CASE buffer = <<>>
      <3>1. ToSet(buffer) = {}
        BY <2>2 DEF ToSet
      <3> QED  BY <1>1, <2>1, <2>2, <3>1
    <2>3. CASE buffer # <<>>
      <3>1. <<>> \in Seq(Edits) /\ Pending = buffer \o <<>>
        BY <1>0, <2>1, EmptySequence
      <3> QED  BY <1>0, <2>1, <2>3, <3>1, Settled
    <2> QED  BY <2>2, <2>3
  <1>8. CASE ProducerDies
    <2>1. /\ Pending' = <<>> /\ UNCHANGED topic
          /\ lost' = lost \cup {e \in ToSet(Pending) : ~ OnTopic(e)}
      BY <1>8 DEF ProducerDies, Pending
    <2>2. CASE Pending = <<>>
      <3>1. ToSet(Pending) = {}
        BY <2>2 DEF ToSet
      <3> QED  BY <1>1, <2>1, <2>2, <3>1
    <2>3. CASE Pending # <<>>
      <3>1. <<>> \in Seq(Edits) /\ Pending = Pending \o <<>>
        BY <1>0, EmptySequence
      <3> HIDE DEF Pending
      <3> QED  BY <1>0, <2>1, <2>3, <3>1, Settled
    <2> QED  BY <2>2, <2>3
  <1>9. CASE Restart
    BY <1>1, <1>9 DEF Restart, ProducerRestarts, EmptyInv, Pending
  <1>10. CASE UNCHANGED vars
    BY <1>4, <1>10 DEF vars
  <1>11. CASE Next /\ ~ Restart
    <2>1. \/ UNCHANGED producerVars
          \/ pc = "handle" /\ Produce(lastEventID)
          \/ TakeEdit \/ FlushTick \/ SeeStop \/ WriteReturns
          \/ \E k \in DOMAIN batch : BrokerAppends(k)
          \/ \E t \in Titles : WriterRetries(t)
          \/ CloseSignals \/ CloseBuffer
          \/ ProducerDies
      BY <1>11 DEF Next, Main, ConnectFails, ConnectAgain, ConnectAborts, ConnectSucceeds,
           ShutdownStarts, ShutdownSignalsProducer, ShutdownClosesProducer, ShutdownEnds,
           ClientStep, ProducerStep, UpstreamPublishes, HandleProduces, HandleFilters,
           HandlePanics, Crash, EventHandled
    <2> QED  BY <2>1, <1>2, <1>3, <1>4, <1>5, <1>6, <1>7, <1>8
  <1> QED  BY <1>9, <1>10, <1>11

\* The producer is the ordered lossy channel, through retries, refusals, a
\* shutdown and crashes: an edit reaches its partition after the earlier edits
\* of its page, or it is lost.
THEOREM ProducerIsChannel == Spec => ImplementsChannel
  <1>1. Init => Channel!Init
    BY DEF Init, ProducerInit, Channel!Init, Pending, Titles, Channel!Titles
  <1>2. Types /\ OrderInv /\ EmptyInv /\ [Next]_vars => [Channel!Next]_(Channel!vars)
    BY ChannelStep
  <1>3. Types /\ EmptyInv /\ [Next]_vars => EmptyInv'
    BY EmptyStep
  <1> QED
    BY <1>1, <1>2, <1>3, EmptyInit, TypesInvariant, OrderInvariant, PTL
    DEF Spec, ImplementsChannel, Channel!Spec

=============================================================================
