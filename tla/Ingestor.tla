------------------------------ MODULE Ingestor ------------------------------
(***************************************************************************)
(* The ingestor process (src/cmd/ingestor/main.go): the stream client and  *)
(* the Kafka producer it feeds, the shutdown that stops both, and crashes  *)
(* of the process, after which the container is started again.  All of the *)
(* process is volatile; upstream and the Kafka topic are not.              *)
(***************************************************************************)
EXTENDS KafkaProducer, StreamClient, EditFilter

CONSTANTS Feed,        \* the stream: Feed[e] is the record of event e
          MaxCrashes   \* bound: crashes of the process

ASSUME IngestorAssumption ==
    /\ Edits = Events
    /\ DOMAIN Feed = Events
    /\ \A e \in Events : TitleOf[e] = Feed[e].title
    /\ MaxCrashes \in Nat

VARIABLES main,     \* where main is
          crashes   \* crashes so far

vars == <<producerVars, clientVars, main, crashes>>

\* The goroutines run.
Alive == main \in {"connecting", "retrying", "running", "closing", "draining"}

Init ==
    /\ ProducerInit
    /\ ClientInit
    /\ main = "connecting"
    /\ crashes = 0

-----------------------------------------------------------------------------
(* main: connect, with retries, then run until a signal *)

ConnectFails ==
    /\ main = "connecting"
    /\ main' = "retrying"
    /\ UNCHANGED <<producerVars, clientVars, crashes>>

ConnectAgain ==
    /\ main = "retrying"
    /\ main' = "connecting"
    /\ UNCHANGED <<producerVars, clientVars, crashes>>

\* A signal during the wait between attempts: os.Exit(0).
ConnectAborts ==
    /\ main = "retrying"
    /\ main' = "aborted"
    /\ UNCHANGED <<producerVars, clientVars, crashes>>

ConnectSucceeds ==
    /\ main = "connecting"
    /\ main' = "running"
    /\ ClientStart
    /\ UNCHANGED <<producerVars, crashes>>

\* A signal while running: client.Stop begins by closing its stop channel.
ShutdownStarts ==
    /\ main = "running"
    /\ main' = "closing"
    /\ StopSignals
    /\ UNCHANGED <<producerVars, crashes>>

\* Stop calls producer.Close before it waits for the event loop.
ShutdownSignalsProducer ==
    /\ main = "closing"
    /\ CloseSignals
    /\ UNCHANGED <<clientVars, main, crashes>>

ShutdownClosesProducer ==
    /\ main = "closing"
    /\ main' = "draining"
    /\ CloseBuffer
    /\ UNCHANGED <<clientVars, crashes>>

\* w.wg.Wait() returns, and with it Stop.
ShutdownEnds ==
    /\ main = "draining"
    /\ pc = "exited"
    /\ main' = "done"
    /\ UNCHANGED <<producerVars, clientVars, crashes>>

Main ==
    \/ ConnectFails \/ ConnectAgain \/ ConnectAborts \/ ConnectSucceeds
    \/ ShutdownStarts \/ ShutdownSignalsProducer \/ ShutdownClosesProducer
    \/ ShutdownEnds

-----------------------------------------------------------------------------
(* The event loop: processEvent hands a wanted event to the producer *)

HandleProduces ==
    /\ Alive
    /\ EventHandled
    /\ Wanted(Feed[lastEventID])
    /\ Produce(lastEventID)
    /\ UNCHANGED <<main, crashes>>

HandleFilters ==
    /\ Alive
    /\ EventHandled
    /\ ~ Wanted(Feed[lastEventID])
    /\ UNCHANGED <<producerVars, main, crashes>>

\* Produce sends on a channel that Close has closed: the process panics.
HandlePanics ==
    /\ Alive
    /\ pc = "handle"
    /\ Wanted(Feed[lastEventID])
    /\ ~ bufferOpen
    /\ main' = "panicked"
    /\ UNCHANGED <<producerVars, clientVars, crashes>>

ClientStep ==
    /\ Alive
    /\ \/ LoopStops \/ LoopEnters \/ PreflightFails \/ Subscribe
       \/ ServerAccepts \/ Receive \/ SubscriptionEnds
       \/ StreamStops \/ StreamEnds \/ IdleTimeout \/ TakeEvent
       \/ BackoffStops \/ BackoffElapses
    /\ UNCHANGED <<producerVars, main, crashes>>

ProducerStep ==
    /\ Alive
    /\ \/ TakeEdit \/ FlushTick \/ SeeStop \/ WriteReturns
       \/ \E k \in DOMAIN batch : BrokerAppends(k)
       \/ \E t \in Titles : WriterRetries(t)
    /\ UNCHANGED <<clientVars, main, crashes>>

UpstreamPublishes == Publish /\ UNCHANGED <<producerVars, main, crashes>>

-----------------------------------------------------------------------------

\* The process is killed, at any point.
Crash ==
    /\ Alive
    /\ crashes < MaxCrashes
    /\ crashes' = crashes + 1
    /\ main' = "dead"
    /\ ProducerDies
    /\ UNCHANGED clientVars

\* The container's restart policy starts it again, unless it is being stopped.
Restart ==
    /\ main = "dead"
    /\ ~ clientStop
    /\ main' = "connecting"
    /\ ProducerRestarts
    /\ ClientRestarts
    /\ UNCHANGED crashes

Next ==
    \/ Main \/ ClientStep \/ ProducerStep \/ UpstreamPublishes
    \/ HandleProduces \/ HandleFilters \/ HandlePanics
    \/ Crash \/ Restart

-----------------------------------------------------------------------------

(* Goroutines are scheduled, network calls end by their timeouts, and a Go *)
(* select that finds several cases ready picks one at random, so a stop    *)
(* channel that stays closed is not passed over for ever (SF).  Nothing is *)
(* assumed of upstream, of the broker, of signals or of crashes.           *)
Ticks(A) == Alive /\ A /\ UNCHANGED <<clientVars, main, crashes>>
Loops(A) == Alive /\ A /\ UNCHANGED <<producerVars, main, crashes>>

Fairness ==
    /\ WF_vars(Ticks(TakeEdit))
    /\ WF_vars(Ticks(FlushTick))
    /\ WF_vars(Ticks(WriteReturns))
    /\ SF_vars(Ticks(SeeStop))
    /\ WF_vars(Loops(LoopStops \/ LoopEnters))
    /\ WF_vars(Loops(PreflightFails \/ Subscribe))
    /\ WF_vars(HandleProduces \/ HandleFilters \/ HandlePanics)
    /\ SF_vars(Loops(StreamStops))
    /\ WF_vars(Loops(BackoffStops \/ BackoffElapses))
    /\ WF_vars(ShutdownSignalsProducer)
    /\ WF_vars(ShutdownClosesProducer)
    /\ WF_vars(ShutdownEnds)

Spec == Init /\ [][Next]_vars
FairSpec == Spec /\ Fairness

-----------------------------------------------------------------------------
(* Properties *)

\* Types of every variable, and the capacities of the channels and the batch:
\* eventChan and p.buffer are bounded, a batch never outgrows BatchSize.
TypeOK ==
    /\ buffer \in Seq(Edits) /\ Len(buffer) <= BufferSize
    /\ bufferOpen \in BOOLEAN
    /\ stopChan \in BOOLEAN
    /\ loop \in {"select", "writing", "flushing", "exited"}
    /\ batch \in Seq(Edits) /\ Len(batch) <= BatchSize
    /\ sent \subseteq DOMAIN batch
    /\ attempt \in 1..MaxAttempts
    /\ topic \in [Titles -> Seq(Edits)]
    /\ dropped \subseteq Edits
    /\ lost \subseteq Edits
    /\ head \in 0..NumEvents
    /\ clientStop \in BOOLEAN
    /\ pc \in {"off", "loop", "preflight", "stream", "handle", "backoff", "exited"}
    /\ lastEventID \in 0..NumEvents
    /\ delay \in BaseDelay..MaxDelay
    /\ benign \in BOOLEAN
    /\ sub \in {"none", "dialing", "open", "ended"}
    /\ subBenign \in BOOLEAN
    /\ next \in 1..(NumEvents + 1)
    /\ eventChan \in Seq(Events) /\ Len(eventChan) <= ChanSize
    /\ taken \subseteq Events
    /\ main \in {"connecting", "retrying", "running", "closing", "draining",
                 "done", "aborted", "dead", "panicked"}
    /\ crashes \in 0..MaxCrashes

\* Reconnects are gap-free (client.go: "tracks the last SSE event ID for
\* gap-free reconnects"): between two events a process has taken it has taken
\* every event, though each lost connection throws away a channel of events.
GapFree == \A a, b \in taken : a..b \subseteq taken

\* No event is handed to the producer twice: neither a replay after a
\* reconnect nor a restart of the process repeats an edit that is buffered,
\* on the topic, or was given up on.
HandedOnce ==
    pc = "handle" =>
        /\ lastEventID \notin ToSet(Pending) \cup dropped \cup lost
        /\ ~ OnTopic(lastEventID)

\* "All edits to [a page] land in the same partition, in order": an entry of a
\* partition is newer than every entry before it, or a copy of one of them
\* (the writer's retry), whatever was dropped or lost in between.
PartitionOrder ==
    \A t \in Titles : \A j \in DOMAIN topic[t] :
        \/ \A i \in 1..(j - 1) : topic[t][i] < topic[t][j]
        \/ \E i \in 1..(j - 1) : topic[t][i] = topic[t][j]

\* No edit vanishes unrecorded: a wanted event the loop has taken is in hand,
\* pending, on its partition, refused because the buffer was full, or counted
\* among the edits a failed write, a shutdown or a crash gave up.
Accounted ==
    \A e \in taken :
        Wanted(Feed[e]) =>
            \/ e = lastEventID /\ pc = "handle"
            \/ e \in ToSet(Pending) \cup dropped \cup lost
            \/ OnTopic(e)

\* The producer implements the ordered lossy channel: batch and buffer are one
\* queue, and what leaves it is on its partition or lost.
Channel == INSTANCE EditChannel
             WITH pending <- Pending, delivered <- topic

ImplementsChannel == Channel!Spec

\* No edit is stuck: an accepted edit is written or given up, because the
\* ticker flushes a batch that does not fill.
EventuallyDecided ==
    \A e \in Edits : e \in ToSet(Pending) ~> e \notin ToSet(Pending)

\* Stop returns: closing the producer and waiting for the event loop never
\* block for good, wherever the two goroutines are when the signal comes.
StopCompletes ==
    main = "closing" ~> main \in {"done", "panicked", "dead"}

\* "Stop gracefully shuts down the SSE client" (client.go): the process does
\* not die of a send on the closed channel.
StopIsGraceful == main # "panicked"

=============================================================================
