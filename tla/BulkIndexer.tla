----------------------------- MODULE BulkIndexer -----------------------------
(***************************************************************************)
(* The Elasticsearch client of the processor                               *)
(* (src/internal/storage/elasticsearch.go): a bounded channel that         *)
(* IndexDocument fills without blocking, and a goroutine that moves        *)
(* documents to a batch and sends the batch in one bulk request when it is *)
(* full, when the flush ticker fires, and when the client is stopped.      *)
(*                                                                         *)
(* A document stands for its edit: its id is a hash of the edit            *)
(* (src/internal/models/document.go), so indexing it again changes nothing.*)
(* Elasticsearch is external: of the documents of a request it indexes     *)
(* some, and the answer may be lost.                                       *)
(***************************************************************************)
EXTENDS Naturals, Sequences, SequencesExt

CONSTANTS Docs,             \* the edits that can become documents
          BulkBufferSize,   \* capacity of bulkBuffer
          BulkSize          \* documents per bulk request

ASSUME BulkAssumption ==
    /\ BulkBufferSize \in Nat \ {0}
    /\ BulkSize \in Nat \ {0}

VARIABLES
    bulkBuffer,  \* the channel es.bulkBuffer
    bulkBatch,   \* bulkProcessor's batch
    bulk,        \* where bulkProcessor is
    bulkStop,    \* TRUE once Stop has closed es.stopCh
    indexed,     \* the documents in Elasticsearch
    givenUp,     \* history: edits given up on, each counted in a metric (skipped,
                 \* dropped, failed) or lost with the process's memory
    unrecorded   \* history: documents of requests that were refused as a whole,
                 \* which no metric counts

bulkVars == <<bulkBuffer, bulkBatch, bulk, bulkStop, indexed, givenUp, unrecorded>>

Requesting == bulk \in {"request", "lastrequest"}

-----------------------------------------------------------------------------

\* NewElasticsearchClient and StartBulkProcessor, on an empty index.
BulkInit ==
    /\ bulkBuffer = <<>>
    /\ bulkBatch = <<>>
    /\ bulk = "select"
    /\ bulkStop = FALSE
    /\ indexed = {}
    /\ givenUp = {}
    /\ unrecorded = {}

\* An edit is given up before it reaches this client.
GiveUp(d) ==
    /\ givenUp' = givenUp \cup {d}
    /\ UNCHANGED <<bulkBuffer, bulkBatch, bulk, bulkStop, indexed, unrecorded>>

\* There is room in the channel.
IndexDocumentAccepts(d) ==
    /\ Len(bulkBuffer) < BulkBufferSize
    /\ bulkBuffer' = Append(bulkBuffer, d)
    /\ UNCHANGED <<bulkBatch, bulk, bulkStop, indexed, givenUp, unrecorded>>

\* The channel is full: an error for the caller, who counts it.
IndexDocumentRefuses(d) ==
    /\ Len(bulkBuffer) = BulkBufferSize
    /\ GiveUp(d)

IndexDocument(d) == IndexDocumentAccepts(d) \/ IndexDocumentRefuses(d)

-----------------------------------------------------------------------------
(* bulkProcessor: a select over the buffer, the ticker and the stop channel *)

\* case doc := <-es.bulkBuffer
BulkTakes ==
    /\ bulk = "select"
    /\ bulkBuffer # <<>>
    /\ bulkBatch' = Append(bulkBatch, Head(bulkBuffer))
    /\ bulkBuffer' = Tail(bulkBuffer)
    /\ bulk' = IF Len(bulkBatch') >= BulkSize THEN "request" ELSE "select"
    /\ UNCHANGED <<bulkStop, indexed, givenUp, unrecorded>>

\* Mutant: the ticker sends full batches only.
BulkTickFull ==
    /\ bulk = "select"
    /\ Len(bulkBatch) >= BulkSize
    /\ bulk' = "request"
    /\ UNCHANGED <<bulkBuffer, bulkBatch, bulkStop, indexed, givenUp, unrecorded>>

\* case <-ticker.C
BulkTick ==
    /\ bulk = "select"
    /\ bulkBatch # <<>>
    /\ bulk' = "request"
    /\ UNCHANGED <<bulkBuffer, bulkBatch, bulkStop, indexed, givenUp, unrecorded>>

\* Mutant: the return is inside the test for a non-empty batch.
BulkSeesStopNonEmpty ==
    /\ bulk = "select"
    /\ bulkStop
    /\ bulkBatch # <<>>
    /\ bulk' = "lastrequest"
    /\ UNCHANGED <<bulkBuffer, bulkBatch, bulkStop, indexed, givenUp, unrecorded>>

\* case <-es.stopCh: send what is in the batch, then return.  The select
\* chooses any ready case, so documents may still wait in the buffer.
BulkSeesStop ==
    /\ bulk = "select"
    /\ bulkStop
    /\ bulk' = IF bulkBatch = <<>> THEN "exited" ELSE "lastrequest"
    /\ UNCHANGED <<bulkBuffer, bulkBatch, bulkStop, indexed, givenUp, unrecorded>>

\* Elasticsearch indexes a document of the request.
DocumentLands(k) ==
    /\ Requesting
    /\ indexed' = indexed \cup {bulkBatch[k]}
    /\ UNCHANGED <<bulkBuffer, bulkBatch, bulk, bulkStop, givenUp, unrecorded>>

\* Mutant: the documents of a failed request are not counted.
BulkReturnsSilently ==
    /\ Requesting
    /\ \/ UNCHANGED <<givenUp, unrecorded>>
       \/ unrecorded' = unrecorded \cup (ToSet(bulkBatch) \ indexed) /\ UNCHANGED givenUp
    /\ bulkBatch' = <<>>
    /\ bulk' = IF bulk = "lastrequest" THEN "exited" ELSE "select"
    /\ UNCHANGED <<bulkBuffer, bulkStop, indexed>>

\* performBulkIndex returns.  The answer tells which documents failed, or there
\* is no answer and all of them count as failed, those too that were indexed;
\* or the answer refuses the request as a whole: it lists no documents, and its
\* status is not looked at, so none is counted.  The batch is emptied.
BulkReturns ==
    /\ Requesting
    /\ \/ givenUp' = givenUp \cup (ToSet(bulkBatch) \ indexed) /\ UNCHANGED unrecorded
       \/ unrecorded' = unrecorded \cup (ToSet(bulkBatch) \ indexed) /\ UNCHANGED givenUp
    /\ bulkBatch' = <<>>
    /\ bulk' = IF bulk = "lastrequest" THEN "exited" ELSE "select"
    /\ UNCHANGED <<bulkBuffer, bulkStop, indexed>>

-----------------------------------------------------------------------------

\* Stop: close(es.stopCh), before es.wg.Wait().
BulkStopSignals ==
    /\ ~ bulkStop
    /\ bulkStop' = TRUE
    /\ UNCHANGED <<bulkBuffer, bulkBatch, bulk, indexed, givenUp, unrecorded>>

\* The process ends: the next one has a new client, on the same index.
BulkForgets ==
    /\ bulkBuffer' = <<>>
    /\ bulkBatch' = <<>>
    /\ bulk' = "select"
    /\ bulkStop' = FALSE
    /\ UNCHANGED <<indexed, unrecorded>>

=============================================================================
