---------------------------- MODULE IndexPipeline ----------------------------
(***************************************************************************)
(* The indexing path of the processor (src/cmd/processor/main.go): the     *)
(* consumer of the group elasticsearch-indexer, the selective indexer that *)
(* is its handler, the Elasticsearch client the indexer feeds, the shutdown*)
(* that stops the three in that order, and crashes and restarts of the     *)
(* process.  The topic, the committed offsets and the index are durable.   *)
(***************************************************************************)
EXTENDS KafkaConsumer, SelectiveIndexer

CONSTANTS Unreadable,    \* edits whose message is not valid JSON
          MaxRebalances, \* bound: rebalances of the group
          MaxRestarts    \* bound: starts of the process after the first

ASSUME PipelineAssumption ==
    /\ \A p \in Partitions : Log[p] \in Seq(Docs)
    /\ Unreadable \subseteq Docs
    /\ MaxRebalances \in Nat
    /\ MaxRestarts \in Nat

VARIABLES main,        \* where main is
          rebalances,  \* rebalances so far
          restarts     \* restarts so far

mainVars == <<main, rebalances, restarts>>
vars == <<consumerVars, indexerVars, bulkVars, mainVars>>

Alive == main \in {"running", "consumers", "indexer", "client"}

\* Documents on their way to Elasticsearch.
InIndexer == ToSet(indexBuffer) \cup ToSet(indexBatch)
InPipeline == InIndexer \cup ToSet(bulkBuffer) \cup ToSet(bulkBatch)

\* The edit in hand.
Edit == Log[Partition][Offset]

-----------------------------------------------------------------------------

Init ==
    /\ ConsumerInit
    /\ IndexerInit
    /\ BulkInit
    /\ main = "running"
    /\ rebalances = 0
    /\ restarts = 0

\* processMessage: unmarshal, and ProcessEdit when that succeeds.
HandleMessage ==
    /\ Alive
    /\ MessageHandled
    /\ \/ Edit \notin Unreadable /\ ProcessEdit(Edit)
       \/ Edit \in Unreadable /\ UNCHANGED <<indexerVars, bulkVars>>
    /\ UNCHANGED mainVars

ConsumerStep ==
    /\ Alive
    /\ \/ LoopStops \/ LoopFetches \/ FetchFails
       \/ \E p \in Partitions : FetchReturns(p)
       \/ CommitRequested \/ CommitRefused \/ CommitTick
    /\ UNCHANGED <<indexerVars, bulkVars, mainVars>>

GroupRebalances ==
    /\ Alive
    /\ rebalances < MaxRebalances
    /\ rebalances' = rebalances + 1
    /\ Rebalance
    /\ UNCHANGED <<indexerVars, bulkVars, main, restarts>>

IndexerStep ==
    /\ Alive
    /\ \/ IndexerTakes \/ IndexerTick \/ IndexerSeesStop \/ IndexerDrains
       \/ IndexerDrained \/ BatchSent
    /\ UNCHANGED <<consumerVars, bulkVars, mainVars>>

IndexerSends ==
    /\ Alive
    /\ DocumentSent
    /\ UNCHANGED <<consumerVars, mainVars>>

BulkStep ==
    /\ Alive
    /\ \/ BulkTakes \/ BulkTick \/ BulkSeesStop \/ BulkReturns
       \/ \E k \in DOMAIN bulkBatch : DocumentLands(k)
    /\ UNCHANGED <<consumerVars, indexerVars, mainVars>>

-----------------------------------------------------------------------------
(* gracefulShutdown: stop the consumers, flush the indexer, flush the client *)

ShutdownStarts ==
    /\ main = "running"
    /\ main' = "consumers"
    /\ ConsumerStopSignals
    /\ UNCHANGED <<indexerVars, bulkVars, rebalances, restarts>>

\* Mutant: the indexer is stopped without waiting for the consumers.
ConsumersStopEarly ==
    /\ main = "consumers"
    /\ main' = "indexer"
    /\ IndexStopSignals
    /\ UNCHANGED <<consumerVars, bulkVars, rebalances, restarts>>

\* consumerWg.Wait() returns, and the selective indexer is stopped.
ConsumersStopped ==
    /\ main = "consumers"
    /\ main' = "indexer"
    /\ ReaderCloses
    /\ IndexStopSignals
    /\ UNCHANGED <<bulkVars, rebalances, restarts>>

\* selectiveIndexer.Stop() returns, and the Elasticsearch client is stopped.
IndexerStopped ==
    /\ main = "indexer"
    /\ indexer = "exited"
    /\ main' = "client"
    /\ BulkStopSignals
    /\ UNCHANGED <<consumerVars, indexerVars, rebalances, restarts>>

\* The process ends: what was in its memory is gone.
MemoryIsLost ==
    /\ givenUp' = givenUp \cup (InPipeline \ indexed)
    /\ ConsumerForgets
    /\ IndexerForgets
    /\ BulkForgets

\* esClient.Stop() returns, and then main.
ShutdownEnds ==
    /\ main = "client"
    /\ bulk = "exited"
    /\ main' = "done"
    /\ MemoryIsLost
    /\ UNCHANGED <<rebalances, restarts>>

Shutdown == ShutdownStarts \/ ConsumersStopped \/ IndexerStopped \/ ShutdownEnds

-----------------------------------------------------------------------------

\* The process is killed, at any point.
Crash ==
    /\ Alive
    /\ main' = "dead"
    /\ MemoryIsLost
    /\ UNCHANGED <<rebalances, restarts>>

\* The container is started again: by its restart policy after a crash, by a
\* deployment after a shutdown.
Restart ==
    /\ main \in {"dead", "done"}
    /\ restarts < MaxRestarts
    /\ restarts' = restarts + 1
    /\ main' = "running"
    /\ UNCHANGED <<consumerVars, indexerVars, bulkVars, rebalances>>

Next ==
    \/ HandleMessage \/ ConsumerStep \/ GroupRebalances
    \/ IndexerStep \/ IndexerSends \/ BulkStep
    \/ Shutdown \/ Crash \/ Restart

-----------------------------------------------------------------------------

(* Goroutines are scheduled, FetchMessage returns once its context is      *)
(* cancelled, requests end by their timeouts, and a Go select that finds   *)
(* several cases ready picks one at random, so a stop channel that stays   *)
(* closed is not passed over for ever (SF).  Nothing is assumed of Kafka,  *)
(* of Elasticsearch, of signals or of crashes.                             *)
Consumes(A) == Alive /\ A /\ UNCHANGED <<indexerVars, bulkVars, mainVars>>
Indexes(A) == Alive /\ A /\ UNCHANGED <<consumerVars, bulkVars, mainVars>>
Bulks(A) == Alive /\ A /\ UNCHANGED <<consumerVars, indexerVars, mainVars>>

Fairness ==
    /\ WF_vars(Consumes(LoopStops \/ LoopFetches))
    /\ WF_vars(Consumes(consumerStop /\ (FetchFails \/ \E p \in Partitions : FetchReturns(p))))
    /\ WF_vars(HandleMessage)
    /\ WF_vars(Consumes(CommitRequested \/ CommitRefused))
    /\ WF_vars(Indexes(IndexerTakes))
    /\ WF_vars(Indexes(IndexerTick))
    /\ SF_vars(Indexes(IndexerSeesStop))
    /\ WF_vars(Indexes(IndexerDrains \/ IndexerDrained \/ BatchSent))
    /\ WF_vars(IndexerSends)
    /\ WF_vars(Bulks(BulkTakes))
    /\ WF_vars(Bulks(BulkTick))
    /\ SF_vars(Bulks(BulkSeesStop))
    /\ WF_vars(Bulks(BulkReturns))
    /\ WF_vars(ConsumersStopped)
    /\ WF_vars(IndexerStopped)
    /\ WF_vars(ShutdownEnds)

Spec == Init /\ [][Next]_vars
FairSpec == Spec /\ Fairness

-----------------------------------------------------------------------------
(* Properties *)

\* Types of every variable, and the bounds of the channels and batches.  The
\* indexer's last batch holds at most one channel more than a full one: the
\* consumer that fills the channel has stopped by then.
TypeOK ==
    /\ consumer \in {"loop", "fetch", "process", "commit", "exited"}
    /\ message \in Messages \cup {NoMessage}
    /\ consumerStop \in BOOLEAN
    /\ readerOpen \in BOOLEAN
    /\ position \in [Partitions -> Nat]
    /\ stash \in [Partitions -> Nat]
    /\ committed \in [Partitions -> Nat]
    /\ handled \in [Partitions -> SUBSET Nat]
    /\ indexBuffer \in Seq(Docs) /\ Len(indexBuffer) <= IndexBufferSize
    /\ indexBatch \in Seq(Docs) /\ Len(indexBatch) < IndexBatchSize + IndexBufferSize
    /\ indexer \in {"select", "send", "drain", "lastsend", "exited"}
    /\ indexStop \in BOOLEAN
    /\ bulkBuffer \in Seq(Docs) /\ Len(bulkBuffer) <= BulkBufferSize
    /\ bulkBatch \in Seq(Docs) /\ Len(bulkBatch) <= BulkSize
    /\ bulk \in {"select", "request", "lastrequest", "exited"}
    /\ bulkStop \in BOOLEAN
    /\ indexed \subseteq Docs
    /\ givenUp \subseteq Docs
    /\ unrecorded \subseteq Docs
    /\ main \in {"running", "consumers", "indexer", "client", "done", "dead"}
    /\ rebalances \in 0..MaxRebalances
    /\ restarts \in 0..MaxRestarts

\* The consumer implements at-least-once delivery in the order of each
\* partition: commits in the background, rebalances, cancelled commits and
\* crashes repeat messages but never pass one over.
Delivery == INSTANCE AtLeastOnce

ImplementsAtLeastOnce == Delivery!Spec

\* Between the topic and the index edits are lost in three ways only: an edit
\* whose message has been handled is in the index or on its way, or it was
\* given up by a step that counts it (unreadable, skipped, dropped, failed), or
\* it was in memory when a process ended, or in a request refused as a whole.
Accounted ==
    \A p \in Partitions : \A i \in handled[p] :
        LET d == Log[p][i]
        IN d \in Unreadable \cup givenUp \cup unrecorded \cup indexed \cup InPipeline

\* The shutdown loses nothing on the way to the Elasticsearch client: once the
\* indexer has stopped nothing is left in its channel and batch, and nothing
\* more will come.
IndexerEmptied == main = "client" => InIndexer = {}

\* Failing Redis reads, and a context cancelled by the shutdown, can keep an
\* edit out of the index but never bring one in: what is indexed is watched,
\* sampled, or on a page that is significant.
IndexedJustified ==
    \A d \in indexed \cup InPipeline :
        d \in Watched \/ Sampling \/ Significant(PageOf[d])

\* No document is stuck: what has been queued is indexed, counted or lost with
\* the process, because the tickers flush batches that do not fill.
EventuallyDecided ==
    \A d \in Docs : d \in InPipeline /\ Alive ~> d \notin InPipeline \/ ~ Alive

\* The shutdown ends, wherever the goroutines are when the signal comes.
ShutdownCompletes == main = "consumers" ~> ~ Alive

=============================================================================
