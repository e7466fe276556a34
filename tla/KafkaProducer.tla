--------------------------- MODULE KafkaProducer ---------------------------
(***************************************************************************)
(* The ingestor's producer (src/internal/kafka/producer.go): a bounded     *)
(* channel that Produce fills without blocking, and a goroutine that moves *)
(* edits from the channel to a batch and writes the batch to Kafka when it *)
(* is full, when the flush ticker fires, and when the producer is closed.  *)
(*                                                                         *)
(* The Kafka writer is a library (kafka-go): modelled as src/ configures   *)
(* it, a synchronous writer that keys messages by page title and retries a *)
(* partition whose acknowledgement it did not get.                         *)
(***************************************************************************)
EXTENDS Naturals, Sequences, SequencesExt

CONSTANTS Edits,        \* the edits, numbered in the order of the stream
          TitleOf,      \* [Edits -> page titles]: the key of an edit's message
          BufferSize,   \* capacity of the channel (DefaultBufferSize)
          BatchSize,    \* messages per batch (DefaultBatchSize)
          MaxAttempts   \* bound: attempts of the writer per batch

Titles == {TitleOf[e] : e \in Edits}

ASSUME ProducerAssumption ==
    /\ DOMAIN TitleOf = Edits
    /\ BufferSize \in Nat \ {0}
    /\ BatchSize \in Nat \ {0}
    /\ MaxAttempts \in Nat \ {0}

VARIABLES
    buffer,      \* the channel p.buffer
    bufferOpen,  \* FALSE once Close has closed p.buffer
    stopChan,    \* TRUE once Close has closed p.stopChan
    loop,        \* where batchingLoop is
    batch,       \* the loop's batch
    sent,        \* positions of the batch the broker has appended
    attempt,     \* the writer's attempt at this batch
    topic,       \* the partitions of wikipedia.edits, one per page title
    dropped,     \* edits Produce refused: the buffer was full (droppedCount)
    lost         \* accepted edits that were given up on

producerVars == <<buffer, bufferOpen, stopChan, loop, batch, sent, attempt,
                  topic, dropped, lost>>

\* The edit is on the partition of its page.
OnTopic(e) == e \in ToSet(topic[TitleOf[e]])

\* Edits accepted and not yet decided, oldest first.
Pending == batch \o buffer

-----------------------------------------------------------------------------

\* A new producer, and the goroutine Start launches: nothing buffered.
ProducerInit ==
    /\ buffer = <<>>
    /\ bufferOpen = TRUE
    /\ stopChan = FALSE
    /\ loop = "select"
    /\ batch = <<>>
    /\ sent = {}
    /\ attempt = 1
    /\ topic = [t \in Titles |-> <<>>]
    /\ dropped = {}
    /\ lost = {}

-----------------------------------------------------------------------------
(* Produce, called by the stream client on its own goroutine *)

\* There is room in the channel: the send case of the select.
ProduceAccepts(e) ==
    /\ bufferOpen
    /\ Len(buffer) < BufferSize
    /\ buffer' = Append(buffer, e)
    /\ UNCHANGED <<bufferOpen, stopChan, loop, batch, sent, attempt, topic, dropped, lost>>

\* The channel is full: the default case, and an error for the caller.
ProduceDrops(e) ==
    /\ bufferOpen
    /\ Len(buffer) = BufferSize
    /\ dropped' = dropped \cup {e}
    /\ UNCHANGED <<buffer, bufferOpen, stopChan, loop, batch, sent, attempt, topic, lost>>

Produce(e) == ProduceAccepts(e) \/ ProduceDrops(e)

-----------------------------------------------------------------------------
(* batchingLoop: a select over the stop channel, the buffer and the ticker *)

\* Mutant: the batch is written one edit too late.
TakeEditLate ==
    /\ loop = "select"
    /\ buffer # <<>>
    /\ batch' = Append(batch, Head(buffer))
    /\ buffer' = Tail(buffer)
    /\ loop' = IF Len(batch') > BatchSize THEN "writing" ELSE "select"
    /\ UNCHANGED <<bufferOpen, stopChan, sent, attempt, topic, dropped, lost>>

\* case edit := <-p.buffer: append, and write when the batch is full.
TakeEdit ==
    /\ loop = "select"
    /\ buffer # <<>>
    /\ batch' = Append(batch, Head(buffer))
    /\ buffer' = Tail(buffer)
    /\ loop' = IF Len(batch') >= BatchSize THEN "writing" ELSE "select"
    /\ UNCHANGED <<bufferOpen, stopChan, sent, attempt, topic, dropped, lost>>

\* Mutant: the ticker writes full batches only.
FlushTickFull ==
    /\ loop = "select"
    /\ Len(batch) >= BatchSize
    /\ loop' = "writing"
    /\ UNCHANGED <<buffer, bufferOpen, stopChan, batch, sent, attempt, topic, dropped, lost>>

\* case <-ticker.C: write what there is.
FlushTick ==
    /\ loop = "select"
    /\ batch # <<>>
    /\ loop' = "writing"
    /\ UNCHANGED <<buffer, bufferOpen, stopChan, batch, sent, attempt, topic, dropped, lost>>

\* Mutant: the batch is not written before the loop returns.
SeeStopDiscards ==
    /\ loop = "select"
    /\ stopChan
    /\ loop' = "exited"
    /\ batch' = <<>>
    /\ UNCHANGED <<buffer, bufferOpen, stopChan, sent, attempt, topic, dropped, lost>>

\* Mutant: the return is inside the test for a non-empty batch.
SeeStopNonEmpty ==
    /\ loop = "select"
    /\ stopChan
    /\ batch # <<>>
    /\ loop' = "flushing"
    /\ UNCHANGED <<buffer, bufferOpen, stopChan, batch, sent, attempt, topic, dropped, lost>>

\* case <-p.stopChan: write what is in the batch, then return.  The select
\* chooses any ready case, so edits may still wait in the buffer.
SeeStop ==
    /\ loop = "select"
    /\ stopChan
    /\ loop' = IF batch = <<>> THEN "exited" ELSE "flushing"
    /\ UNCHANGED <<buffer, bufferOpen, stopChan, batch, sent, attempt, topic, dropped, lost>>

Writing == loop \in {"writing", "flushing"}

\* The broker appends the batch's k-th message to the partition of its key.
\* The writer sends a partition's messages in order.
BrokerAppends(k) ==
    /\ Writing
    /\ k \notin sent
    /\ \A j \in 1..(k - 1) : TitleOf[batch[j]] = TitleOf[batch[k]] => j \in sent
    /\ sent' = sent \cup {k}
    /\ topic' = [topic EXCEPT ![TitleOf[batch[k]]] = Append(@, batch[k])]
    /\ UNCHANGED <<buffer, bufferOpen, stopChan, loop, batch, attempt, dropped, lost>>

\* The acknowledgement of a partition is lost and the writer sends the
\* partition's messages once more.
WriterRetries(t) ==
    /\ Writing
    /\ attempt < MaxAttempts
    /\ \E k \in sent : TitleOf[batch[k]] = t
    /\ attempt' = attempt + 1
    /\ sent' = {k \in sent : TitleOf[batch[k]] # t}
    /\ UNCHANGED <<buffer, bufferOpen, stopChan, loop, batch, topic, dropped, lost>>

\* Mutant: the messages of a failed write go back to the end of the buffer.
WriteReturnsRequeues ==
    /\ Writing
    /\ batch' = <<>>
    /\ buffer' = IF sent = DOMAIN batch THEN buffer ELSE buffer \o batch
    /\ sent' = {}
    /\ attempt' = 1
    /\ loop' = IF loop = "flushing" THEN "exited" ELSE "select"
    /\ UNCHANGED <<bufferOpen, stopChan, topic, dropped, lost>>

\* writeBatch returns: the loop resets the batch whatever the result, so the
\* messages of a failed write that the broker did not get are lost.
WriteReturns ==
    /\ Writing
    /\ lost' = lost \cup {e \in ToSet(batch) : ~ OnTopic(e)}
    /\ batch' = <<>>
    /\ sent' = {}
    /\ attempt' = 1
    /\ loop' = IF loop = "flushing" THEN "exited" ELSE "select"
    /\ UNCHANGED <<buffer, bufferOpen, stopChan, topic, dropped>>

-----------------------------------------------------------------------------
(* Close, on the goroutine that stops the client *)

\* close(p.stopChan)
CloseSignals ==
    /\ ~ stopChan
    /\ stopChan' = TRUE
    /\ UNCHANGED <<buffer, bufferOpen, loop, batch, sent, attempt, topic, dropped, lost>>

\* Mutant: the buffer is closed without waiting for the batching loop.
CloseBufferEarly ==
    /\ stopChan
    /\ bufferOpen
    /\ bufferOpen' = FALSE
    /\ buffer' = <<>>
    /\ lost' = lost \cup {e \in ToSet(buffer) : ~ OnTopic(e)}
    /\ UNCHANGED <<stopChan, loop, batch, sent, attempt, topic, dropped>>

\* p.wg.Wait() has returned: close(p.buffer).  No goroutine reads the channel
\* any more: what is in it is lost.
CloseBuffer ==
    /\ stopChan
    /\ loop = "exited"
    /\ bufferOpen
    /\ bufferOpen' = FALSE
    /\ buffer' = <<>>
    /\ lost' = lost \cup {e \in ToSet(buffer) : ~ OnTopic(e)}
    /\ UNCHANGED <<stopChan, loop, batch, sent, attempt, topic, dropped>>

-----------------------------------------------------------------------------

\* The process dies: what it held in memory is lost, the topic stays.
ProducerDies ==
    /\ lost' = lost \cup {e \in ToSet(Pending) : ~ OnTopic(e)}
    /\ buffer' = <<>>
    /\ batch' = <<>>
    /\ sent' = {}
    /\ attempt' = 1
    /\ loop' = "exited"
    /\ UNCHANGED <<bufferOpen, stopChan, topic, dropped>>

\* A new process starts with a new producer.
ProducerRestarts ==
    /\ buffer' = <<>>
    /\ bufferOpen' = TRUE
    /\ stopChan' = FALSE
    /\ loop' = "select"
    /\ batch' = <<>>
    /\ sent' = {}
    /\ attempt' = 1
    /\ UNCHANGED <<topic, dropped, lost>>

=============================================================================
