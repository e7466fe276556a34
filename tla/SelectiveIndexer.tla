--------------------------- MODULE SelectiveIndexer ---------------------------
(***************************************************************************)
(* The processor's selective indexer (src/internal/processor/indexer.go):  *)
(* the handler that decides on an edit and puts it on a bounded channel    *)
(* without blocking, and a goroutine that collects batches and hands their *)
(* documents to the Elasticsearch client one by one.                       *)
(***************************************************************************)
EXTENDS BulkIndexer, IndexingStrategy

CONSTANTS Watched,           \* the edits of pages on the watchlist
          PageOf,            \* PageOf[d]: the status of the page of edit d
          IndexBufferSize,   \* capacity of indexBuffer
          IndexBatchSize     \* documents per batch

ASSUME IndexerAssumption ==
    /\ Watched \subseteq Docs
    /\ PageOf \in [Docs -> Statuses]
    /\ IndexBufferSize \in Nat \ {0}
    /\ IndexBatchSize \in Nat \ {0}

VARIABLES
    indexBuffer,  \* the channel si.indexBuffer
    indexBatch,   \* startBulkIndexer's batch, less what has been handed on
    indexer,      \* where startBulkIndexer is
    indexStop     \* TRUE once Stop has closed si.stopCh

indexerVars == <<indexBuffer, indexBatch, indexer, indexStop>>

\* The edits that the decision may take in, and those it may leave out.
Indexable == {d \in Docs : MayIndex(d \in Watched, PageOf[d])}
Skippable == {d \in Docs : MaySkip(d \in Watched, PageOf[d])}

Sending == indexer \in {"send", "lastsend"}

-----------------------------------------------------------------------------

\* NewSelectiveIndexer and Start.
IndexerInit ==
    /\ indexBuffer = <<>>
    /\ indexBatch = <<>>
    /\ indexer = "select"
    /\ indexStop = FALSE

-----------------------------------------------------------------------------
(* ProcessEdit, on the consumer's goroutine *)

\* The decision is not to index the edit (EditsSkipped).
EditSkipped(d) ==
    /\ d \in Skippable
    /\ GiveUp(d)
    /\ UNCHANGED indexerVars

EditQueued(d) ==
    /\ d \in Indexable
    /\ Len(indexBuffer) < IndexBufferSize
    /\ indexBuffer' = Append(indexBuffer, d)
    /\ UNCHANGED <<indexBatch, indexer, indexStop, bulkVars>>

\* The channel has no room (BufferFullDrops).
EditDropped(d) ==
    /\ d \in Indexable
    /\ Len(indexBuffer) = IndexBufferSize
    /\ GiveUp(d)
    /\ UNCHANGED indexerVars

ProcessEdit(d) == EditSkipped(d) \/ EditQueued(d) \/ EditDropped(d)

-----------------------------------------------------------------------------
(* startBulkIndexer: a select over the buffer, the ticker and the stop channel *)

\* case doc := <-si.indexBuffer
IndexerTakes ==
    /\ indexer = "select"
    /\ indexBuffer # <<>>
    /\ indexBatch' = Append(indexBatch, Head(indexBuffer))
    /\ indexBuffer' = Tail(indexBuffer)
    /\ indexer' = IF Len(indexBatch') >= IndexBatchSize THEN "send" ELSE "select"
    /\ UNCHANGED <<indexStop>>

\* case <-ticker.C
IndexerTick ==
    /\ indexer = "select"
    /\ indexBatch # <<>>
    /\ indexer' = "send"
    /\ UNCHANGED <<indexBuffer, indexBatch, indexStop>>

\* Mutant: the stop case sends the batch without draining the channel.
IndexerSeesStopUndrained ==
    /\ indexer = "select"
    /\ indexStop
    /\ indexer' = IF indexBatch = <<>> THEN "exited" ELSE "lastsend"
    /\ UNCHANGED <<indexBuffer, indexBatch, indexStop>>

\* case <-si.stopCh: the channel is drained into the batch, ...
IndexerSeesStop ==
    /\ indexer = "select"
    /\ indexStop
    /\ indexer' = "drain"
    /\ UNCHANGED <<indexBuffer, indexBatch, indexStop>>

IndexerDrains ==
    /\ indexer = "drain"
    /\ indexBuffer # <<>>
    /\ indexBatch' = Append(indexBatch, Head(indexBuffer))
    /\ indexBuffer' = Tail(indexBuffer)
    /\ UNCHANGED <<indexer, indexStop>>

\* ... and the batch, whatever its size, is handed on before the return.
IndexerDrained ==
    /\ indexer = "drain"
    /\ indexBuffer = <<>>
    /\ indexer' = IF indexBatch = <<>> THEN "exited" ELSE "lastsend"
    /\ UNCHANGED <<indexBuffer, indexBatch, indexStop>>

\* performBulkIndex passes the next document of the batch to IndexDocument;
\* an error is counted and the document forgotten.
DocumentSent ==
    /\ Sending
    /\ indexBatch # <<>>
    /\ IndexDocument(Head(indexBatch))
    /\ indexBatch' = Tail(indexBatch)
    /\ UNCHANGED <<indexBuffer, indexer, indexStop>>

\* performBulkIndex returns.
BatchSent ==
    /\ Sending
    /\ indexBatch = <<>>
    /\ indexer' = IF indexer = "lastsend" THEN "exited" ELSE "select"
    /\ UNCHANGED <<indexBuffer, indexBatch, indexStop>>

-----------------------------------------------------------------------------

\* Stop: close(si.stopCh), before si.wg.Wait().
IndexStopSignals ==
    /\ ~ indexStop
    /\ indexStop' = TRUE
    /\ UNCHANGED <<indexBuffer, indexBatch, indexer>>

\* The process ends: the next one has a new indexer.
IndexerForgets ==
    /\ indexBuffer' = <<>>
    /\ indexBatch' = <<>>
    /\ indexer' = "select"
    /\ indexStop' = FALSE

=============================================================================
