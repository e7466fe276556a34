------------------------- MODULE IndexPipelineProofs -------------------------
(***************************************************************************)
(* Proofs about IndexPipeline, for every set of partitions, every log and  *)
(* every capacity, number of rebalances and number of restarts.            *)
(***************************************************************************)
EXTENDS IndexPipeline, SequenceFacts, TLAPS

USE ConsumerAssumption, StrategyAssumption, BulkAssumption, IndexerAssumption,
    PipelineAssumption

-----------------------------------------------------------------------------
(* The decision: failing reads never bring an edit into the index.         *)

\* A page that is significant to a decision whose reads partly failed is
\* significant when all of them succeed (getPageContext leaves the field of a
\* failed read zero, and zero never counts).
THEOREM FailSafe ==
    ASSUME NEW page \in Statuses, NEW got, Significant(PageContext(page, got))
    PROVE  Significant(page)
  <1>1. page.rank \in Nat /\ page.edits \in Nat /\ page.ratio \in Nat
        /\ page.hot \in BOOLEAN /\ page.spiking \in BOOLEAN /\ page.war \in BOOLEAN
    BY DEF Statuses
  <1> QED  BY <1>1 DEF Significant, PageContext

LEMMA DecisionJustified ==
    ASSUME NEW d \in Indexable
    PROVE  d \in Watched \/ Sampling \/ Significant(PageOf[d])
  <1>1. PageOf[d] \in Statuses /\ MayIndex(d \in Watched, PageOf[d])
    BY DEF Indexable
  <1> QED  BY <1>1, FailSafe DEF MayIndex

-----------------------------------------------------------------------------
(* The consumer.                                                           *)

ConsumerTypeOK ==
    /\ consumer \in {"loop", "fetch", "process", "commit", "exited"}
    /\ message \in Messages \cup {NoMessage}
    /\ consumerStop \in BOOLEAN
    /\ readerOpen \in BOOLEAN
    /\ position \in [Partitions -> Nat]
    /\ stash \in [Partitions -> Nat]
    /\ committed \in [Partitions -> Nat]
    /\ handled \in [Partitions -> SUBSET Nat]

\* The strengthening of the delivery promise.  Every offset up to the fetch
\* position has been handled, except for the message in hand; so has every
\* offset below the message in hand, which a rebalance may have left ahead of
\* the position, and every offset up to a stashed or committed one.
DeliveryInv ==
    /\ consumer \in {"process", "commit"} =>
          /\ message \in Messages
          /\ Offset <= Len(Log[Partition])
          /\ 1..(Offset - 1) \subseteq handled[Partition]
    /\ consumer = "commit" => Offset \in handled[Partition]
    /\ \A p \in Partitions :
          /\ handled[p] \subseteq 1..Len(Log[p])
          /\ 1..stash[p] \subseteq handled[p]
          /\ 1..committed[p] \subseteq handled[p]
          /\ \A i \in 1..position[p] :
                i \in handled[p] \/ (consumer = "process" /\ message = <<p, i>>)

Consumer == ConsumerTypeOK /\ DeliveryInv

\* What a handler that returns does, and what a step of the reader does.
LEMMA MessageFacts ==
    ASSUME Consumer, consumer \in {"process", "commit"}
    PROVE  /\ Partition \in Partitions
           /\ Offset \in Nat /\ Offset >= 1 /\ Offset <= Len(Log[Partition])
           /\ message = <<Partition, Offset>>
           /\ Edit \in Docs
  <1>1. message \in Messages /\ Offset <= Len(Log[Partition])
    BY DEF Consumer, DeliveryInv
  <1>2. Partition \in Partitions /\ Offset \in Nat /\ Offset >= 1
        /\ message = <<Partition, Offset>>
    BY <1>1 DEF Messages, Partition, Offset
  <1>3. Log[Partition] \in Seq(Docs) /\ Offset \in 1..Len(Log[Partition])
    BY <1>1, <1>2
  <1> QED  BY <1>1, <1>2, <1>3 DEF Edit

LEMMA ConsumerStarts == ConsumerInit => Consumer
  <1> SUFFICES ASSUME ConsumerInit
               PROVE  Consumer
    OBVIOUS
  <1>1. NoOffsets \in [Partitions -> Nat] /\ \A p \in Partitions : 1..NoOffsets[p] = {}
    BY DEF NoOffsets
  <1>2. ConsumerTypeOK
    BY <1>1 DEF ConsumerInit, ConsumerTypeOK
  <1>3. DeliveryInv
    BY <1>1 DEF ConsumerInit, DeliveryInv
  <1> QED  BY <1>2, <1>3 DEF Consumer

\* Kafka's answer to a commit keeps the committed offsets handled.
LEMMA CommitsHandled ==
    ASSUME Consumer, NEW ps \in SUBSET Stashed, Commits(ps)
    PROVE  /\ committed' \in [Partitions -> Nat]
           /\ \A p \in Partitions : 1..committed'[p] \subseteq handled[p]
  BY DEF Consumer, ConsumerTypeOK, DeliveryInv, Commits

LEMMA LoopKeeps ==
    ASSUME Consumer, LoopStops \/ LoopFetches \/ FetchFails \/ CommitRefused
                     \/ ConsumerStopSignals
    PROVE  Consumer'
  BY DEF Consumer, ConsumerTypeOK, DeliveryInv, LoopStops, LoopFetches, FetchFails,
         CommitRefused, ConsumerStopSignals, Messages, Partition, Offset

LEMMA FetchKeeps ==
    ASSUME Consumer, NEW q \in Partitions, FetchReturns(q)
    PROVE  Consumer'
  <1>1. position[q] \in Nat /\ Len(Log[q]) \in Nat /\ position[q] < Len(Log[q])
        /\ consumer = "fetch" /\ consumer' = "process"
        /\ position' = [position EXCEPT ![q] = @ + 1]
        /\ message' = <<q, position'[q]>>
        /\ UNCHANGED <<consumerStop, readerOpen, stash, committed, handled>>
    BY DEF Consumer, ConsumerTypeOK, FetchReturns
  <1>2. position'[q] = position[q] + 1 /\ position' \in [Partitions -> Nat]
    BY <1>1 DEF Consumer, ConsumerTypeOK
  <1>3. message' \in Messages /\ Partition' = q /\ Offset' = position[q] + 1
    BY <1>1, <1>2 DEF Messages, Partition, Offset
  <1>4. ConsumerTypeOK'
    BY <1>1, <1>2, <1>3 DEF Consumer, ConsumerTypeOK
  <1>5. \A p \in Partitions : 1..position[p] \subseteq handled[p]
    BY <1>1 DEF Consumer, DeliveryInv
  <1>6. \A p \in Partitions : \A i \in 1..position'[p] :
            i \in handled'[p] \/ (consumer' = "process" /\ message' = <<p, i>>)
    <2>1. ASSUME NEW p \in Partitions, NEW i \in 1..position'[p]
          PROVE  i \in handled[p] \/ message' = <<p, i>>
      <3>1. CASE p = q
        <4>1. i \in 1..position[q] \/ i = position[q] + 1
          BY <3>1, <1>1, <1>2, <2>1
        <4> QED  BY <4>1, <3>1, <1>1, <1>2, <1>5
      <3>2. CASE p # q
        <4>1. position'[p] = position[p]
          BY <3>2, <1>1 DEF Consumer, ConsumerTypeOK
        <4> QED  BY <4>1, <2>1, <1>5
      <3> QED  BY <3>1, <3>2
    <2> QED  BY <2>1, <1>1
  <1>7. Offset' <= Len(Log[Partition'])
        /\ 1..(Offset' - 1) \subseteq handled'[Partition']
    BY <1>1, <1>3, <1>5
  <1>8. \A p \in Partitions :
          /\ handled'[p] \subseteq 1..Len(Log[p])
          /\ 1..stash'[p] \subseteq handled'[p]
          /\ 1..committed'[p] \subseteq handled'[p]
    BY <1>1 DEF Consumer, DeliveryInv
  <1>9. DeliveryInv'
    BY <1>1, <1>3, <1>6, <1>7, <1>8 DEF DeliveryInv
  <1> QED  BY <1>4, <1>9 DEF Consumer

LEMMA HandledKeeps ==
    ASSUME Consumer, MessageHandled
    PROVE  Consumer'
  <1>1. consumer = "process" /\ consumer' = "commit"
        /\ handled' = [handled EXCEPT ![Partition] = @ \cup {Offset}]
        /\ UNCHANGED <<message, consumerStop, readerOpen, position, stash, committed>>
    BY DEF MessageHandled
  <1>2. Partition \in Partitions /\ Offset \in Nat /\ Offset >= 1
        /\ Offset <= Len(Log[Partition]) /\ message = <<Partition, Offset>>
    BY <1>1, MessageFacts
  <1>3. Partition' = Partition /\ Offset' = Offset
    BY <1>1 DEF Partition, Offset
  <1>4. handled' \in [Partitions -> SUBSET Nat]
        /\ (\A p \in Partitions : handled[p] \subseteq handled'[p])
        /\ Offset \in handled'[Partition]
    BY <1>1, <1>2 DEF Consumer, ConsumerTypeOK
  <1>5. ConsumerTypeOK'
    BY <1>1, <1>4 DEF Consumer, ConsumerTypeOK
  <1>6. ASSUME NEW p \in Partitions
        PROVE  handled'[p] \subseteq 1..Len(Log[p])
    BY <1>1, <1>2, <1>6 DEF Consumer, ConsumerTypeOK, DeliveryInv
  <1>7. ASSUME NEW p \in Partitions, NEW i \in 1..position'[p]
        PROVE  i \in handled'[p]
    <2>1. i \in handled[p] \/ message = <<p, i>>
      BY <1>1, <1>7 DEF Consumer, DeliveryInv
    <2>2. CASE message = <<p, i>>
      BY <2>2, <1>2, <1>4
    <2> QED  BY <2>1, <2>2, <1>4
  <1>8. message' \in Messages /\ 1..(Offset - 1) \subseteq handled[Partition]
        /\ \A p \in Partitions : 1..stash[p] \subseteq handled[p]
                                 /\ 1..committed[p] \subseteq handled[p]
    BY <1>1 DEF Consumer, DeliveryInv
  <1>9. ASSUME NEW p \in Partitions
        PROVE  1..stash'[p] \subseteq handled'[p] /\ 1..committed'[p] \subseteq handled'[p]
    BY <1>1, <1>4, <1>8
  <1>10. 1..(Offset' - 1) \subseteq handled'[Partition']
    BY <1>2, <1>3, <1>4, <1>8
  <1>11. DeliveryInv'
    BY <1>1, <1>2, <1>3, <1>4, <1>6, <1>7, <1>8, <1>9, <1>10 DEF DeliveryInv
  <1> QED  BY <1>5, <1>11 DEF Consumer

LEMMA RequestKeeps ==
    ASSUME Consumer, CommitRequested
    PROVE  Consumer'
  <1>1. consumer = "commit" /\ consumer' = "loop"
        /\ stash' = [stash EXCEPT ![Partition] = IF Offset > @ THEN Offset ELSE @]
        /\ UNCHANGED <<message, consumerStop, readerOpen, position, committed, handled>>
    BY DEF CommitRequested
  <1>2. Partition \in Partitions /\ Offset \in Nat /\ Offset >= 1
    BY <1>1, MessageFacts
  <1>3. stash' \in [Partitions -> Nat]
    BY <1>1, <1>2 DEF Consumer, ConsumerTypeOK
  <1>4. 1..(Offset - 1) \subseteq handled[Partition] /\ Offset \in handled[Partition]
    BY <1>1 DEF Consumer, DeliveryInv
  <1>5. 1..Offset \subseteq handled[Partition]
    BY <1>2, <1>4
  <1>6. \A p \in Partitions : 1..stash'[p] \subseteq handled[p]
    BY <1>1, <1>2, <1>5 DEF Consumer, ConsumerTypeOK, DeliveryInv
  <1>7. ConsumerTypeOK'
    BY <1>1, <1>3 DEF Consumer, ConsumerTypeOK
  <1>8. DeliveryInv'
    BY <1>1, <1>6 DEF Consumer, DeliveryInv
  <1> QED  BY <1>7, <1>8 DEF Consumer

LEMMA ReaderKeeps ==
    ASSUME Consumer, CommitTick \/ Rebalance \/ ReaderCloses
    PROVE  Consumer'
  <1>1. PICK ps \in SUBSET Stashed : Commits(ps)
    BY DEF CommitTick, Rebalance, ReaderCloses
  <1>2. committed' \in [Partitions -> Nat]
        /\ \A p \in Partitions : 1..committed'[p] \subseteq handled[p]
    BY <1>1, CommitsHandled
  <1>3. stash' \in {stash, NoOffsets} /\ position' \in {position, committed'}
        /\ UNCHANGED <<consumer, message, handled>>
        /\ consumerStop' = consumerStop /\ readerOpen' \in BOOLEAN
    BY DEF CommitTick, Rebalance, ReaderCloses, Consumer, ConsumerTypeOK
  <1>4. stash' \in [Partitions -> Nat] /\ position' \in [Partitions -> Nat]
        /\ \A p \in Partitions : 1..stash'[p] \subseteq handled[p]
    <2>1. NoOffsets \in [Partitions -> Nat] /\ \A p \in Partitions : 1..NoOffsets[p] = {}
      BY DEF NoOffsets
    <2>2. stash' \in [Partitions -> Nat] /\ position' \in [Partitions -> Nat]
      BY <1>2, <1>3, <2>1 DEF Consumer, ConsumerTypeOK
    <2>3. CASE stash' = stash
      BY <2>2, <2>3 DEF Consumer, DeliveryInv
    <2>4. CASE stash' = NoOffsets
      BY <2>1, <2>2, <2>4
    <2> QED  BY <1>3, <2>3, <2>4
  <1>5. \A p \in Partitions : \A i \in 1..position'[p] :
            i \in handled[p] \/ (consumer = "process" /\ message = <<p, i>>)
    <2>1. CASE position' = position
      BY <2>1 DEF Consumer, DeliveryInv
    <2>2. CASE position' = committed'
      <3>1. \A p \in Partitions : 1..position'[p] \subseteq handled[p]
        BY <2>2, <1>2
      <3> QED  BY <3>1
    <2> QED  BY <1>3, <2>1, <2>2
  <1>6. ConsumerTypeOK'
    BY <1>2, <1>3, <1>4 DEF Consumer, ConsumerTypeOK
  <1>7. Partition' = Partition /\ Offset' = Offset
    BY <1>3 DEF Partition, Offset
  <1>8. DeliveryInv'
    BY <1>2, <1>3, <1>4, <1>5, <1>7 DEF Consumer, DeliveryInv
  <1> QED  BY <1>6, <1>8 DEF Consumer

LEMMA ForgetKeeps ==
    ASSUME Consumer, ConsumerForgets
    PROVE  Consumer'
  <1>1. NoOffsets \in [Partitions -> Nat] /\ \A p \in Partitions : 1..NoOffsets[p] = {}
    BY DEF NoOffsets
  <1>2. ConsumerTypeOK'
    BY <1>1 DEF Consumer, ConsumerTypeOK, ConsumerForgets
  <1>3. DeliveryInv'
    BY <1>1 DEF Consumer, DeliveryInv, ConsumerForgets
  <1> QED  BY <1>2, <1>3 DEF Consumer

LEMMA ConsumerStutters ==
    ASSUME Consumer, UNCHANGED consumerVars
    PROVE  Consumer'
  BY DEF Consumer, ConsumerTypeOK, DeliveryInv, consumerVars, Partition, Offset

\* What a step of the pipeline does to the consumer.
ConsumerMoves ==
    \/ UNCHANGED consumerVars
    \/ LoopStops \/ LoopFetches \/ FetchFails \/ CommitRefused \/ ConsumerStopSignals
    \/ \E p \in Partitions : FetchReturns(p)
    \/ MessageHandled
    \/ CommitRequested
    \/ CommitTick \/ Rebalance \/ ReaderCloses
    \/ ConsumerForgets

LEMMA StepMovesConsumer ==
    ASSUME [Next]_vars
    PROVE  ConsumerMoves
  BY DEF Next, vars, HandleMessage, ConsumerStep, GroupRebalances, IndexerStep, IndexerSends,
         BulkStep, Shutdown, ShutdownStarts, ConsumersStopped, IndexerStopped, ShutdownEnds,
         MemoryIsLost, Crash, Restart, ConsumerMoves

LEMMA ConsumerInvariant == Spec => []Consumer
  <1>1. Init => Consumer
    BY ConsumerStarts DEF Init
  <1>2. Consumer /\ [Next]_vars => Consumer'
    <2> SUFFICES ASSUME Consumer, ConsumerMoves
                 PROVE  Consumer'
      BY StepMovesConsumer
    <2> QED  BY ConsumerStutters, LoopKeeps, FetchKeeps, HandledKeeps, RequestKeeps,
                ReaderKeeps, ForgetKeeps DEF ConsumerMoves
  <1> QED  BY <1>1, <1>2, PTL DEF Spec

-----------------------------------------------------------------------------
(* The consumer implements at-least-once delivery in order.                *)

LEMMA DeliveryStarts == Init => Delivery!Init
  BY DEF Init, ConsumerInit, Delivery!Init, NoOffsets

LEMMA HandledDelivers ==
    ASSUME Consumer, MessageHandled
    PROVE  Delivery!Next
  <1>1. consumer = "process" /\ committed' = committed
        /\ handled' = [handled EXCEPT ![Partition] = @ \cup {Offset}]
    BY DEF MessageHandled
  <1>2. Partition \in Partitions /\ Offset \in Nat
    BY <1>1, MessageFacts
  <1>3. 1..(Offset - 1) \subseteq handled[Partition]
    BY <1>1 DEF Consumer, DeliveryInv
  <1>4. Offset \in handled'[Partition]
    BY <1>1, <1>2 DEF Consumer, ConsumerTypeOK
  <1>5. Delivery!Handle(Partition, Offset)
    BY <1>1, <1>3 DEF Delivery!Handle
  <1> QED  BY <1>2, <1>4, <1>5 DEF Delivery!Next

LEMMA ReaderDelivers ==
    ASSUME Consumer, CommitTick \/ Rebalance \/ ReaderCloses
    PROVE  Delivery!Next
  <1>1. PICK ps \in SUBSET Stashed : Commits(ps)
    BY DEF CommitTick, Rebalance, ReaderCloses
  <1>2. committed' \in [Partitions -> Nat]
        /\ \A p \in Partitions : 1..committed'[p] \subseteq handled[p]
    BY <1>1, CommitsHandled
  <1>3. handled' = handled
    BY DEF CommitTick, Rebalance, ReaderCloses
  <1> QED  BY <1>2, <1>3 DEF Delivery!Next, Delivery!Commit

LEMMA StepDelivers ==
    ASSUME Consumer, ConsumerMoves
    PROVE  [Delivery!Next]_Delivery!vars
  <1>1. CASE MessageHandled
    BY <1>1, HandledDelivers
  <1>2. CASE CommitTick \/ Rebalance \/ ReaderCloses
    BY <1>2, ReaderDelivers
  <1>3. CASE UNCHANGED consumerVars \/ ConsumerForgets \/ CommitRequested
             \/ LoopStops \/ LoopFetches \/ FetchFails \/ CommitRefused \/ ConsumerStopSignals
    BY <1>3 DEF consumerVars, ConsumerForgets, CommitRequested, LoopStops, LoopFetches,
                FetchFails, CommitRefused, ConsumerStopSignals, Delivery!vars
  <1>4. CASE \E p \in Partitions : FetchReturns(p)
    BY <1>4 DEF FetchReturns, Delivery!vars
  <1> QED  BY <1>1, <1>2, <1>3, <1>4 DEF ConsumerMoves

\* The consumer of the indexer group implements AtLeastOnce: whatever the
\* commits, rebalances, cancellations and crashes, a message is handled after
\* the earlier ones of its partition and committed after it was handled.
THEOREM DeliversAtLeastOnce == Spec => ImplementsAtLeastOnce
  <1>1. Consumer /\ [Next]_vars => [Delivery!Next]_Delivery!vars
    BY StepMovesConsumer, StepDelivers
  <1> QED  BY DeliveryStarts, ConsumerInvariant, <1>1, PTL
           DEF Spec, ImplementsAtLeastOnce, Delivery!Spec

-----------------------------------------------------------------------------
(* The indexer and the Elasticsearch client.                               *)

IndexerTypeOK ==
    /\ indexBuffer \in Seq(Docs) /\ Len(indexBuffer) <= IndexBufferSize
    /\ indexBatch \in Seq(Docs)
    /\ indexer \in {"select", "send", "drain", "lastsend", "exited"}
    /\ indexStop \in BOOLEAN

BulkTypeOK ==
    /\ bulkBuffer \in Seq(Docs) /\ Len(bulkBuffer) <= BulkBufferSize
    /\ bulkBatch \in Seq(Docs) /\ Len(bulkBatch) <= BulkSize
    /\ bulk \in {"select", "request", "lastrequest", "exited"}
    /\ bulkStop \in BOOLEAN
    /\ indexed \subseteq Docs
    /\ givenUp \subseteq Docs
    /\ unrecorded \subseteq Docs
    /\ bulk = "select" => Len(bulkBatch) < BulkSize

MainTypeOK ==
    /\ main \in {"running", "consumers", "indexer", "client", "done", "dead"}
    /\ rebalances \in 0..MaxRebalances
    /\ restarts \in 0..MaxRestarts

\* The order of the shutdown.  The indexer is told to stop after the consumer
\* has left its loop, so nothing enters the channel that is being drained; it
\* leaves its own loop with nothing in hand, and the client is told to stop
\* after that.
StopInv ==
    /\ indexStop => consumer = "exited"
    /\ indexer \in {"drain", "lastsend", "exited"} => indexStop
    /\ indexer \in {"lastsend", "exited"} => indexBuffer = <<>>
    /\ indexer = "exited" => indexBatch = <<>>
    /\ main = "client" => indexer = "exited"

\* How long the indexer's batch is: the drained channel comes on top of a
\* batch that is not full.
BatchBound ==
    /\ indexer = "select" => Len(indexBatch) < IndexBatchSize
    /\ indexer = "send" => Len(indexBatch) <= IndexBatchSize
    /\ indexer \in {"drain", "lastsend", "exited"} =>
          Len(indexBatch) + Len(indexBuffer) < IndexBatchSize + IndexBufferSize

Pipeline == IndexerTypeOK /\ BulkTypeOK /\ MainTypeOK /\ StopInv /\ BatchBound

LEMMA PipelineStarts == Init => Pipeline
  <1> SUFFICES ASSUME Init
               PROVE  Pipeline
    OBVIOUS
  <1>1. /\ indexBuffer \in Seq(Docs) /\ Len(indexBuffer) = 0
        /\ indexBatch \in Seq(Docs) /\ Len(indexBatch) = 0
        /\ bulkBuffer \in Seq(Docs) /\ Len(bulkBuffer) = 0
        /\ bulkBatch \in Seq(Docs) /\ Len(bulkBatch) = 0
    BY EmptySequence DEF Init, IndexerInit, BulkInit
  <1>2. indexer = "select" /\ indexStop = FALSE /\ main = "running" /\ bulk = "select"
        /\ bulkStop = FALSE /\ indexed = {} /\ givenUp = {} /\ unrecorded = {}
        /\ rebalances = 0 /\ restarts = 0
    BY DEF Init, IndexerInit, BulkInit
  <1>3. /\ Len(indexBuffer) <= IndexBufferSize /\ Len(indexBatch) < IndexBatchSize
        /\ Len(bulkBuffer) <= BulkBufferSize
        /\ Len(bulkBatch) <= BulkSize /\ Len(bulkBatch) < BulkSize
        /\ rebalances \in 0..MaxRebalances /\ restarts \in 0..MaxRestarts
    BY <1>1, <1>2
  <1>4. indexStop \in BOOLEAN /\ bulkStop \in BOOLEAN /\ indexed \subseteq Docs
        /\ givenUp \subseteq Docs /\ unrecorded \subseteq Docs
    BY <1>2
  <1>5. IndexerTypeOK /\ BulkTypeOK
    BY <1>1, <1>2, <1>3, <1>4, Zenon DEF IndexerTypeOK, BulkTypeOK
  <1>6. BatchBound
    BY <1>2, <1>3 DEF BatchBound
  <1>7. MainTypeOK
    BY <1>2, <1>3 DEF MainTypeOK
  <1>8. StopInv
    BY <1>2 DEF StopInv
  <1> QED  BY <1>5, <1>6, <1>7, <1>8 DEF Pipeline

LEMMA ConsumerStepPipeline ==
    ASSUME Consumer, Pipeline, ConsumerStep \/ GroupRebalances
    PROVE  Pipeline'
  <1>1. UNCHANGED <<indexerVars, bulkVars, main, restarts>> /\ rebalances' \in 0..MaxRebalances
    BY DEF ConsumerStep, GroupRebalances, mainVars, Pipeline, MainTypeOK
  <1>2. consumer = "exited" => consumer' = "exited"
    BY DEF ConsumerStep, GroupRebalances, LoopStops, LoopFetches, FetchFails, FetchReturns,
           CommitRequested, CommitRefused, CommitTick, Rebalance
  <1> QED  BY <1>1, <1>2 DEF Pipeline, IndexerTypeOK, BulkTypeOK, MainTypeOK, StopInv,
                             BatchBound, indexerVars, bulkVars

LEMMA HandleMessagePipeline ==
    ASSUME Consumer, Pipeline, HandleMessage
    PROVE  Pipeline'
  <1>1. consumer = "process" /\ consumer' = "commit" /\ UNCHANGED mainVars
        /\ ~ indexStop /\ Edit \in Docs
    BY MessageFacts DEF HandleMessage, MessageHandled, Pipeline, StopInv
  <1>2. indexer \in {"select", "send"} /\ main # "client"
    BY <1>1 DEF Pipeline, StopInv, IndexerTypeOK
  <1>3. UNCHANGED <<indexBatch, indexer, indexStop, bulkBuffer, bulkBatch, bulk, bulkStop, indexed,
                    unrecorded>>
        /\ givenUp' \in {givenUp, givenUp \cup {Edit}}
        /\ \/ indexBuffer' = indexBuffer
           \/ indexBuffer' = Append(indexBuffer, Edit) /\ Len(indexBuffer) < IndexBufferSize
    BY DEF HandleMessage, ProcessEdit, EditSkipped, EditQueued, EditDropped, GiveUp,
           indexerVars, bulkVars
  <1>4. indexBuffer' \in Seq(Docs) /\ Len(indexBuffer') <= IndexBufferSize
    BY <1>1, <1>3 DEF Pipeline, IndexerTypeOK
  <1> QED  BY <1>1, <1>2, <1>3, <1>4 DEF Pipeline, IndexerTypeOK, BulkTypeOK, MainTypeOK,
                                         StopInv, BatchBound, mainVars

LEMMA IndexerStepPipeline ==
    ASSUME Pipeline, IndexerStep
    PROVE  Pipeline'
  <1>1. UNCHANGED <<consumerVars, bulkVars, mainVars, indexStop>>
    BY DEF IndexerStep, IndexerTakes, IndexerTick, IndexerSeesStop, IndexerDrains,
           IndexerDrained, BatchSent
  <1>2. BulkTypeOK' /\ MainTypeOK' /\ consumer' = consumer /\ main' = main
    BY <1>1 DEF Pipeline, BulkTypeOK, MainTypeOK, bulkVars, mainVars, consumerVars
  <1>3. CASE IndexerTakes \/ IndexerDrains
    <2>1. indexBuffer \in Seq(Docs) /\ indexBuffer # <<>> /\ indexBatch \in Seq(Docs)
          /\ indexBatch' = Append(indexBatch, Head(indexBuffer))
          /\ indexBuffer' = Tail(indexBuffer)
      BY <1>3 DEF Pipeline, IndexerTypeOK, IndexerTakes, IndexerDrains
    <2>2. indexBatch' \in Seq(Docs) /\ indexBuffer' \in Seq(Docs)
          /\ Len(indexBatch') = Len(indexBatch) + 1
          /\ Len(indexBuffer') = Len(indexBuffer) - 1
          /\ Len(indexBatch) \in Nat /\ Len(indexBuffer) \in Nat
      BY <2>1
    <2>3. CASE IndexerTakes
      BY <1>1, <1>2, <2>2, <2>3 DEF IndexerTakes, Pipeline, IndexerTypeOK, StopInv, BatchBound
    <2>4. CASE IndexerDrains
      BY <1>1, <1>2, <2>2, <2>4 DEF IndexerDrains, Pipeline, IndexerTypeOK, StopInv, BatchBound
    <2> QED  BY <1>3, <2>3, <2>4
  <1>4. CASE IndexerTick \/ IndexerSeesStop \/ IndexerDrained \/ BatchSent
    <2>1. UNCHANGED <<indexBuffer, indexBatch>> /\ Len(indexBatch) \in Nat
          /\ Len(indexBuffer) \in Nat /\ Len(indexBuffer) <= IndexBufferSize
      BY <1>4 DEF IndexerTick, IndexerSeesStop, IndexerDrained, BatchSent, Pipeline, IndexerTypeOK
    <2> QED  BY <1>1, <1>2, <1>4, <2>1 DEF IndexerTick, IndexerSeesStop, IndexerDrained, BatchSent,
                                      Sending, Pipeline, IndexerTypeOK, StopInv, BatchBound
  <1> QED  BY <1>3, <1>4 DEF IndexerStep

LEMMA IndexerSendsPipeline ==
    ASSUME Pipeline, IndexerSends
    PROVE  Pipeline'
  <1>1. UNCHANGED <<consumerVars, mainVars, indexBuffer, indexer, indexStop, bulkBatch, bulk,
                    bulkStop, indexed, unrecorded>>
        /\ indexer \in {"send", "lastsend"} /\ indexBatch # <<>> /\ indexBatch' = Tail(indexBatch)
    BY DEF IndexerSends, DocumentSent, Sending, IndexDocument, IndexDocumentAccepts,
           IndexDocumentRefuses, GiveUp
  <1>2. indexBatch \in Seq(Docs) /\ bulkBuffer \in Seq(Docs) /\ Len(bulkBuffer) <= BulkBufferSize
        /\ Head(indexBatch) \in Docs /\ indexBatch' \in Seq(Docs)
        /\ Len(indexBatch) \in Nat /\ Len(indexBuffer) \in Nat
        /\ Len(indexBatch') = Len(indexBatch) - 1 /\ Len(indexBatch') \in Nat
    BY <1>1 DEF Pipeline, IndexerTypeOK, BulkTypeOK
  <1>3. bulkBuffer' \in Seq(Docs) /\ Len(bulkBuffer') <= BulkBufferSize /\ givenUp' \subseteq Docs
    <2>1. CASE IndexDocumentAccepts(Head(indexBatch))
      BY <1>2, <2>1 DEF IndexDocumentAccepts, Pipeline, BulkTypeOK
    <2>2. CASE IndexDocumentRefuses(Head(indexBatch))
      BY <1>2, <2>2 DEF IndexDocumentRefuses, GiveUp, Pipeline, BulkTypeOK
    <2> QED  BY <2>1, <2>2 DEF IndexerSends, DocumentSent, IndexDocument
  <1>4. BulkTypeOK' /\ MainTypeOK' /\ IndexerTypeOK'
    BY <1>1, <1>2, <1>3 DEF Pipeline, BulkTypeOK, MainTypeOK, IndexerTypeOK, mainVars
  <1>5. StopInv'
    BY <1>1 DEF Pipeline, StopInv, consumerVars, mainVars
  <1>6. BatchBound'
    BY <1>1, <1>2 DEF Pipeline, BatchBound
  <1> QED  BY <1>4, <1>5, <1>6 DEF Pipeline

LEMMA BulkStepPipeline ==
    ASSUME Pipeline, BulkStep
    PROVE  Pipeline'
  <1>1. UNCHANGED <<consumerVars, indexerVars, mainVars>>
    BY DEF BulkStep
  <1>2. IndexerTypeOK' /\ MainTypeOK' /\ StopInv' /\ BatchBound'
    BY <1>1 DEF Pipeline, IndexerTypeOK, MainTypeOK, StopInv, BatchBound, consumerVars,
                indexerVars, mainVars
  <1>3. CASE BulkTakes
    <2>1. bulkBuffer \in Seq(Docs) /\ bulkBuffer # <<>> /\ bulkBatch \in Seq(Docs)
          /\ Len(bulkBuffer) <= BulkBufferSize /\ Len(bulkBatch) < BulkSize
      BY <1>3 DEF Pipeline, BulkTypeOK, BulkTakes
    <2>2. bulkBatch' \in Seq(Docs) /\ bulkBuffer' \in Seq(Docs)
          /\ Len(bulkBatch') = Len(bulkBatch) + 1 /\ Len(bulkBatch) \in Nat
          /\ Len(bulkBuffer') <= BulkBufferSize
      BY <1>3, <2>1 DEF BulkTakes
    <2>3. BulkTypeOK'
      BY <1>3, <2>1, <2>2 DEF BulkTakes, Pipeline, BulkTypeOK
    <2> QED  BY <1>2, <2>3 DEF Pipeline
  <1>4. CASE BulkTick \/ BulkSeesStop
    BY <1>2, <1>4 DEF BulkTick, BulkSeesStop, Pipeline, BulkTypeOK
  <1>5. CASE \E k \in DOMAIN bulkBatch : DocumentLands(k)
    BY <1>2, <1>5 DEF DocumentLands, Requesting, Pipeline, BulkTypeOK
  <1>6. CASE BulkReturns
    <2>1. ToSet(bulkBatch) \subseteq Docs
      BY DEF ToSet, Pipeline, BulkTypeOK
    <2> QED  BY <1>2, <1>6, <2>1 DEF BulkReturns, Pipeline, BulkTypeOK
  <1> QED  BY <1>3, <1>4, <1>5, <1>6 DEF BulkStep

LEMMA InPipelineType ==
    ASSUME Pipeline
    PROVE  InPipeline \subseteq Docs
  BY DEF Pipeline, IndexerTypeOK, BulkTypeOK, InPipeline, InIndexer, ToSet

LEMMA ShutdownPipeline ==
    ASSUME Pipeline, ShutdownStarts \/ ConsumersStopped \/ IndexerStopped
    PROVE  Pipeline'
  <1>1. IndexerTypeOK' /\ BulkTypeOK' /\ MainTypeOK' /\ BatchBound'
    BY DEF ShutdownStarts, ConsumersStopped, IndexerStopped, IndexStopSignals, BulkStopSignals,
           Pipeline, IndexerTypeOK, BulkTypeOK, MainTypeOK, BatchBound, indexerVars, bulkVars
  <1>2. StopInv'
    BY DEF ShutdownStarts, ConsumersStopped, IndexerStopped, IndexStopSignals, BulkStopSignals,
           ConsumerStopSignals, ReaderCloses, Pipeline, StopInv, indexerVars, consumerVars
  <1> QED  BY <1>1, <1>2 DEF Pipeline

LEMMA EndPipeline ==
    ASSUME Pipeline, ShutdownEnds \/ Crash
    PROVE  Pipeline'
  <1>1. /\ indexBuffer' = <<>> /\ indexBatch' = <<>> /\ indexer' = "select" /\ indexStop' = FALSE
        /\ bulkBuffer' = <<>> /\ bulkBatch' = <<>> /\ bulk' = "select" /\ bulkStop' = FALSE
        /\ indexed' = indexed /\ unrecorded' = unrecorded
        /\ givenUp' = givenUp \cup (InPipeline \ indexed)
        /\ main' \in {"done", "dead"} /\ UNCHANGED <<rebalances, restarts>>
    BY DEF ShutdownEnds, Crash, MemoryIsLost, IndexerForgets, BulkForgets
  <1>2. givenUp' \subseteq Docs
    BY <1>1, InPipelineType DEF Pipeline, BulkTypeOK
  <1>3. /\ indexBuffer' \in Seq(Docs) /\ Len(indexBuffer') = 0
        /\ indexBatch' \in Seq(Docs) /\ Len(indexBatch') = 0
        /\ bulkBuffer' \in Seq(Docs) /\ Len(bulkBuffer') = 0
        /\ bulkBatch' \in Seq(Docs) /\ Len(bulkBatch') = 0
    BY <1>1, EmptySequence
  <1>4. indexer' = "select" /\ indexStop' = FALSE /\ main' # "client" /\ bulk' = "select"
        /\ bulkStop' = FALSE
    BY <1>1
  <1>5. /\ Len(indexBuffer') <= IndexBufferSize /\ Len(indexBatch') < IndexBatchSize
        /\ Len(bulkBuffer') <= BulkBufferSize
        /\ Len(bulkBatch') <= BulkSize /\ Len(bulkBatch') < BulkSize
    BY <1>3
  <1>6. StopInv'
    BY <1>4 DEF StopInv
  <1>7. BatchBound'
    BY <1>4, <1>5 DEF BatchBound
  <1>8. IndexerTypeOK' /\ BulkTypeOK'
    <2>1. indexed' \subseteq Docs /\ unrecorded' \subseteq Docs
      BY <1>1 DEF Pipeline, BulkTypeOK
    <2>2. indexStop' \in BOOLEAN /\ bulkStop' \in BOOLEAN
      BY <1>4
    <2> QED  BY <1>2, <1>3, <1>4, <1>5, <2>1, <2>2, Zenon DEF IndexerTypeOK, BulkTypeOK
  <1>9. MainTypeOK'
    BY <1>1 DEF Pipeline, MainTypeOK
  <1> QED  BY <1>6, <1>7, <1>8, <1>9 DEF Pipeline

LEMMA RestPipeline ==
    ASSUME Pipeline, Restart \/ UNCHANGED vars
    PROVE  Pipeline'
  BY DEF Restart, vars, consumerVars, indexerVars, bulkVars, mainVars, Pipeline, IndexerTypeOK,
         BulkTypeOK, MainTypeOK, StopInv, BatchBound

LEMMA PipelineInvariant == Spec => [](Consumer /\ Pipeline)
  <1>1. Consumer /\ Pipeline /\ [Next]_vars => Pipeline'
    BY ConsumerStepPipeline, HandleMessagePipeline, IndexerStepPipeline, IndexerSendsPipeline,
       BulkStepPipeline, ShutdownPipeline, EndPipeline, RestPipeline DEF Next, Shutdown
  <1> QED  BY <1>1, PipelineStarts, ConsumerInvariant, PTL DEF Spec

\* Types, and the bounds of every channel and batch: the indexer's last batch
\* is bounded because the consumer has stopped before the channel is drained.
THEOREM TypeCorrect == Spec => []TypeOK
  <1>1. Consumer /\ Pipeline => TypeOK
    BY DEF Consumer, ConsumerTypeOK, Pipeline, IndexerTypeOK, BulkTypeOK, MainTypeOK,
           BatchBound, TypeOK
  <1> QED  BY <1>1, PipelineInvariant, PTL

\* The indexer leaves nothing behind in its channel and its batch when it has
\* stopped: gracefulShutdown stops the consumers first and waits for it.
THEOREM NothingLeftBehind == Spec => []IndexerEmptied
  <1>1. Pipeline => IndexerEmptied
    BY DEF Pipeline, StopInv, IndexerEmptied, InIndexer, ToSet
  <1> QED  BY <1>1, PipelineInvariant, PTL

-----------------------------------------------------------------------------
(* Where documents go.                                                     *)

Inside == InPipeline \cup indexed
Known == Inside \cup givenUp \cup unrecorded

\* The four sequences a document passes through.
LEMMA Channels ==
    ASSUME Pipeline
    PROVE  /\ indexBuffer \in Seq(Docs) /\ indexBatch \in Seq(Docs)
           /\ bulkBuffer \in Seq(Docs) /\ bulkBatch \in Seq(Docs)
  BY DEF Pipeline, IndexerTypeOK, BulkTypeOK

\* The handler lets in what the decision may take in, and whatever it decides
\* leaves a trace.
LEMMA HandleMessageFlow ==
    ASSUME Consumer, Pipeline, HandleMessage
    PROVE  /\ Inside' \subseteq Inside \cup Indexable
           /\ Known \subseteq Known'
           /\ Edit \in Known' \cup Unreadable
  <1>1. Edit \in Docs
    BY MessageFacts DEF HandleMessage, MessageHandled
  <1>2. CASE Edit \in Unreadable /\ UNCHANGED <<indexerVars, bulkVars>>
    BY <1>2 DEF Inside, Known, InPipeline, InIndexer, indexerVars, bulkVars
  <1>3. CASE EditSkipped(Edit) \/ EditDropped(Edit)
    BY <1>3 DEF EditSkipped, EditDropped, GiveUp, Inside, Known, InPipeline, InIndexer, indexerVars
  <1>4. CASE EditQueued(Edit)
    <2>1. ToSet(indexBuffer') = ToSet(indexBuffer) \cup {Edit}
      BY <1>1, <1>4, Channels, ToSetAppend DEF EditQueued
    <2>2. UNCHANGED <<indexBatch, bulkBuffer, bulkBatch, indexed, givenUp, unrecorded>>
          /\ Edit \in Indexable
      BY <1>4 DEF EditQueued, bulkVars
    <2>3. InPipeline' = InPipeline \cup {Edit}
      BY <2>1, <2>2 DEF InPipeline, InIndexer
    <2> QED  BY <2>2, <2>3 DEF Inside, Known
  <1> QED  BY <1>2, <1>3, <1>4 DEF HandleMessage, ProcessEdit

\* The indexer moves documents from its channel to its batch.
LEMMA IndexerStepFlow ==
    ASSUME Pipeline, IndexerStep
    PROVE  InPipeline' = InPipeline /\ UNCHANGED <<indexed, givenUp, unrecorded>>
  <1>1. UNCHANGED bulkVars
    BY DEF IndexerStep
  <1>2. CASE IndexerTakes \/ IndexerDrains
    <2>1. indexBuffer # <<>> /\ indexBatch' = Append(indexBatch, Head(indexBuffer))
          /\ indexBuffer' = Tail(indexBuffer)
      BY <1>2 DEF IndexerTakes, IndexerDrains
    <2>2. Head(indexBuffer) \in Docs
          /\ ToSet(indexBuffer) = {Head(indexBuffer)} \cup ToSet(indexBuffer')
      BY <2>1, Channels, ToSetHead
    <2>3. ToSet(indexBatch') = ToSet(indexBatch) \cup {Head(indexBuffer)}
      BY <2>1, <2>2, Channels, ToSetAppend
    <2> QED  BY <1>1, <2>2, <2>3 DEF InPipeline, InIndexer, bulkVars
  <1>3. CASE UNCHANGED <<indexBuffer, indexBatch>>
    BY <1>1, <1>3 DEF InPipeline, InIndexer, bulkVars
  <1> QED  BY <1>2, <1>3 DEF IndexerStep, IndexerTick, IndexerSeesStop, IndexerDrained, BatchSent

\* A document handed to the client is in its channel, or counted.
LEMMA IndexerSendsFlow ==
    ASSUME Pipeline, IndexerSends
    PROVE  Inside' \subseteq Inside /\ Known \subseteq Known'
  <1> DEFINE d == Head(indexBatch)
  <1>1. indexBatch # <<>> /\ indexBatch' = Tail(indexBatch) /\ UNCHANGED indexBuffer
        /\ (IndexDocumentAccepts(d) \/ IndexDocumentRefuses(d))
    BY DEF IndexerSends, DocumentSent, IndexDocument
  <1>2. d \in Docs /\ ToSet(indexBatch) = {d} \cup ToSet(indexBatch')
    BY <1>1, Channels, ToSetHead
  <1>3. CASE IndexDocumentAccepts(d)
    <2>1. bulkBuffer' = Append(bulkBuffer, d)
          /\ UNCHANGED <<bulkBatch, indexed, givenUp, unrecorded>>
      BY <1>3 DEF IndexDocumentAccepts
    <2>2. ToSet(bulkBuffer') = ToSet(bulkBuffer) \cup {d}
      BY <2>1, <1>2, Channels, ToSetAppend
    <2> QED  BY <1>1, <1>2, <2>1, <2>2 DEF Inside, Known, InPipeline, InIndexer
  <1>4. CASE IndexDocumentRefuses(d)
    <2>1. givenUp' = givenUp \cup {d} /\ UNCHANGED <<bulkBuffer, bulkBatch, indexed, unrecorded>>
      BY <1>4 DEF IndexDocumentRefuses, GiveUp
    <2> QED  BY <1>1, <1>2, <2>1 DEF Inside, Known, InPipeline, InIndexer
  <1> QED  BY <1>1, <1>3, <1>4

\* A request indexes documents of its batch only, and what its answer leaves
\* out of the index is counted or was refused with the request.
LEMMA BulkStepFlow ==
    ASSUME Pipeline, BulkStep
    PROVE  Inside' \subseteq Inside /\ Known \subseteq Known'
  <1>1. UNCHANGED <<indexBuffer, indexBatch>>
    BY DEF BulkStep, indexerVars
  <1>2. CASE BulkTakes
    <2>1. bulkBuffer # <<>> /\ bulkBatch' = Append(bulkBatch, Head(bulkBuffer))
          /\ bulkBuffer' = Tail(bulkBuffer) /\ UNCHANGED <<indexed, givenUp, unrecorded>>
      BY <1>2 DEF BulkTakes
    <2>2. Head(bulkBuffer) \in Docs
          /\ ToSet(bulkBuffer) = {Head(bulkBuffer)} \cup ToSet(bulkBuffer')
      BY <2>1, Channels, ToSetHead
    <2>3. ToSet(bulkBatch') = ToSet(bulkBatch) \cup {Head(bulkBuffer)}
      BY <2>1, <2>2, Channels, ToSetAppend
    <2> QED  BY <1>1, <2>1, <2>2, <2>3 DEF Inside, Known, InPipeline, InIndexer
  <1>3. CASE BulkTick \/ BulkSeesStop
    BY <1>1, <1>3 DEF BulkTick, BulkSeesStop, Inside, Known, InPipeline, InIndexer
  <1>4. CASE \E k \in DOMAIN bulkBatch : DocumentLands(k)
    <2>1. PICK k \in DOMAIN bulkBatch : DocumentLands(k)
      BY <1>4
    <2>2. indexed' = indexed \cup {bulkBatch[k]} /\ bulkBatch[k] \in ToSet(bulkBatch)
          /\ UNCHANGED <<bulkBuffer, bulkBatch, givenUp, unrecorded>>
      BY <2>1 DEF DocumentLands, ToSet
    <2> QED  BY <1>1, <2>2 DEF Inside, Known, InPipeline, InIndexer
  <1>5. CASE BulkReturns
    <2>1. ToSet(bulkBatch') = {} /\ UNCHANGED <<bulkBuffer, indexed>>
          /\ ToSet(bulkBatch) \ indexed \subseteq givenUp' \cup unrecorded'
          /\ givenUp \subseteq givenUp' /\ unrecorded \subseteq unrecorded'
      BY <1>5 DEF BulkReturns, ToSet
    <2> QED  BY <1>1, <2>1 DEF Inside, Known, InPipeline, InIndexer
  <1> QED  BY <1>2, <1>3, <1>4, <1>5 DEF BulkStep

\* What is in memory when the process ends is recorded as lost.
LEMMA EndFlow ==
    ASSUME ShutdownEnds \/ Crash
    PROVE  Inside' \subseteq Inside /\ Known \subseteq Known'
  <1>1. InPipeline' = {}
    BY DEF ShutdownEnds, Crash, MemoryIsLost, IndexerForgets, BulkForgets, InPipeline,
           InIndexer, ToSet
  <1>2. UNCHANGED <<indexed, unrecorded>> /\ givenUp' = givenUp \cup (InPipeline \ indexed)
    BY DEF ShutdownEnds, Crash, MemoryIsLost, BulkForgets
  <1> QED  BY <1>1, <1>2 DEF Inside, Known

LEMMA RestFlow ==
    ASSUME \/ ConsumerStep \/ GroupRebalances \/ ShutdownStarts \/ ConsumersStopped
           \/ IndexerStopped \/ Restart \/ UNCHANGED vars
    PROVE  Inside' = Inside /\ Known' = Known
  <1>1. UNCHANGED <<indexBuffer, indexBatch, bulkBuffer, bulkBatch, indexed, givenUp, unrecorded>>
    BY DEF ConsumerStep, GroupRebalances, ShutdownStarts, ConsumersStopped, IndexerStopped,
           IndexStopSignals, BulkStopSignals, Restart, vars, indexerVars, bulkVars
  <1> QED  BY <1>1 DEF Inside, Known, InPipeline, InIndexer

LEMMA StepFlow ==
    ASSUME Consumer, Pipeline, [Next]_vars
    PROVE  Inside' \subseteq Inside \cup Indexable /\ Known \subseteq Known'
  <1>1. CASE IndexerStep
    BY <1>1, IndexerStepFlow DEF Inside, Known
  <1> QED  BY <1>1, HandleMessageFlow, IndexerSendsFlow, BulkStepFlow, EndFlow, RestFlow
           DEF Next, Shutdown

-----------------------------------------------------------------------------

\* Whatever reads fail, and wherever the process is stopped or killed, only
\* edits that are watched, sampled or on a significant page reach the index.
THEOREM IndexesOnlyJustified == Spec => []IndexedJustified
  <1> DEFINE Justified(d) == d \in Watched \/ Sampling \/ Significant(PageOf[d])
  <1>1. \A d \in Indexable : Justified(d)
    BY DecisionJustified
  <1>2. IndexedJustified <=> \A d \in Inside : Justified(d)
    BY DEF IndexedJustified, Inside
  <1>3. Init => IndexedJustified
    BY DEF Init, IndexerInit, BulkInit, IndexedJustified, InPipeline, InIndexer, ToSet
  <1>4. Consumer /\ Pipeline /\ IndexedJustified /\ [Next]_vars => IndexedJustified'
    <2> SUFFICES ASSUME Consumer, Pipeline, IndexedJustified, [Next]_vars
                 PROVE  IndexedJustified'
      OBVIOUS
    <2>1. \A d \in Inside' : Justified(d)
      BY <1>1, <1>2, StepFlow
    <2> QED  BY <2>1 DEF IndexedJustified, Inside
  <1> QED  BY <1>3, <1>4, PipelineInvariant, PTL DEF Spec

\* No edit vanishes between the topic and the index but in the ways listed.
THEOREM AccountsForEdits == Spec => []Accounted
  <1>1. Accounted <=> \A p \in Partitions : \A i \in handled[p] :
                          Log[p][i] \in Unreadable \cup Known
    BY DEF Accounted, Known, Inside
  <1>2. Init => Accounted
    BY DEF Init, ConsumerInit, Accounted
  <1>3. Consumer /\ Pipeline /\ Accounted /\ [Next]_vars => Accounted'
    <2> SUFFICES ASSUME Consumer, Pipeline, Accounted, [Next]_vars
                 PROVE  \A p \in Partitions : \A i \in handled'[p] :
                            Log[p][i] \in Unreadable \cup Known'
      BY DEF Accounted, Known, Inside
    <2>1. Known \subseteq Known'
      BY StepFlow
    <2>2. CASE HandleMessage
      <3>1. handled' = [handled EXCEPT ![Partition] = @ \cup {Offset}]
            /\ Log[Partition][Offset] \in Known' \cup Unreadable
        BY <2>2, HandleMessageFlow DEF HandleMessage, MessageHandled, Edit
      <3>2. handled \in [Partitions -> SUBSET Nat]
        BY DEF Consumer, ConsumerTypeOK
      <3>3. \A p \in Partitions : \A i \in handled'[p] :
                i \in handled[p] \/ (p = Partition /\ i = Offset)
        BY <3>1, <3>2
      <3> QED  BY <1>1, <2>1, <3>1, <3>3
    <2>3. CASE UNCHANGED handled
      BY <1>1, <2>1, <2>3
    <2>4. HandleMessage \/ UNCHANGED handled
      BY DEF Next, Shutdown, ConsumerStep, LoopStops, LoopFetches, FetchFails, FetchReturns,
             CommitRequested, CommitRefused, CommitTick, GroupRebalances, Rebalance,
             IndexerStep, IndexerSends, BulkStep, ShutdownStarts, ConsumerStopSignals,
             ConsumersStopped, ReaderCloses, IndexerStopped, ShutdownEnds, Crash,
             MemoryIsLost, ConsumerForgets, Restart, vars, consumerVars
    <2> QED  BY <2>2, <2>3, <2>4
  <1> QED  BY <1>2, <1>3, PipelineInvariant, PTL DEF Spec
=============================================================================
