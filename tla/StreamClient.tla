---------------------------- MODULE StreamClient ----------------------------
(***************************************************************************)
(* The ingestor's SSE client (src/internal/ingestor/client.go): an event   *)
(* loop that subscribes to Wikipedia's stream, takes events from the       *)
(* channel a subscription goroutine fills, and reconnects with exponential *)
(* backoff, asking the server to resume after the last event it took.      *)
(*                                                                         *)
(* Upstream is external: a stream of events numbered 1, 2, ... of which the*)
(* first `head` have been published.  Every event carries its number as its*)
(* SSE id (lastEventID = 0: none yet), and a server given a Last-Event-ID  *)
(* replays from the event after it; without one it starts at its live end. *)
(***************************************************************************)
EXTENDS Naturals, Sequences

CONSTANTS NumEvents,   \* bound: events upstream publishes
          ChanSize,    \* capacity of eventChan
          BaseDelay,   \* config: ingestor.reconnect_delay
          MaxDelay     \* config: ingestor.max_reconnect_delay

ASSUME ClientAssumption ==
    /\ NumEvents \in Nat
    /\ ChanSize \in Nat \ {0}
    /\ BaseDelay \in Nat \ {0}
    /\ MaxDelay \in Nat
    /\ BaseDelay <= MaxDelay

Events == 1..NumEvents

VARIABLES
    head,         \* events upstream has published
    clientStop,   \* TRUE once Stop has closed w.stopChan
    pc,           \* where eventLoop is
    lastEventID,  \* w.lastEventID
    delay,        \* w.reconnectDelay
    benign,       \* the error processStream returned is not a real failure
    sub,          \* the subscription goroutine of the current stream
    subBenign,    \* the error the ended subscription left in subDone is benign
    next,         \* the event the server sends next on the subscription
    eventChan,    \* events received and not yet taken
    taken         \* history: events this process's loop has taken

clientVars == <<head, clientStop, pc, lastEventID, delay, benign, sub,
                subBenign, next, eventChan, taken>>

Doubled(d) == IF 2 * d > MaxDelay THEN MaxDelay ELSE 2 * d

-----------------------------------------------------------------------------

\* NewWikiStreamClient, before Start.
ClientInit ==
    /\ head = 0
    /\ clientStop = FALSE
    /\ pc = "off"
    /\ lastEventID = 0
    /\ delay = BaseDelay
    /\ benign = FALSE
    /\ sub = "none"
    /\ subBenign = FALSE
    /\ next = 1
    /\ eventChan = <<>>
    /\ taken = {}

\* Upstream publishes an event, whoever listens.
Publish ==
    /\ head < NumEvents
    /\ head' = head + 1
    /\ UNCHANGED <<clientStop, pc, lastEventID, delay, benign, sub, subBenign,
                   next, eventChan, taken>>

\* Start launches eventLoop.
ClientStart ==
    /\ pc = "off"
    /\ pc' = "loop"
    /\ UNCHANGED <<head, clientStop, lastEventID, delay, benign, sub, subBenign,
                   next, eventChan, taken>>

-----------------------------------------------------------------------------
(* eventLoop and processStream *)

\* The loop's select has a default: a closed stop channel always wins.
LoopStops ==
    /\ pc = "loop"
    /\ clientStop
    /\ pc' = "exited"
    /\ UNCHANGED <<head, clientStop, lastEventID, delay, benign, sub, subBenign,
                   next, eventChan, taken>>

LoopEnters ==
    /\ pc = "loop"
    /\ ~ clientStop
    /\ pc' = "preflight"
    /\ UNCHANGED <<head, clientStop, lastEventID, delay, benign, sub, subBenign,
                   next, eventChan, taken>>

\* processStream returns an error: its context is cancelled, its channel is
\* garbage, and a benign error resets the backoff before the wait.
StreamFails(harmless) ==
    /\ pc' = "backoff"
    /\ benign' = harmless
    /\ delay' = IF harmless THEN BaseDelay ELSE delay
    /\ sub' = "none"
    /\ eventChan' = <<>>
    /\ UNCHANGED <<head, clientStop, lastEventID, subBenign, next, taken>>

\* checkConnectivity fails: HTTP 503 is benign, any other failure is not.
PreflightFails ==
    /\ pc = "preflight"
    /\ \E harmless \in BOOLEAN : StreamFails(harmless)

\* checkConnectivity passes: a fresh channel, and the goroutine that subscribes.
Subscribe ==
    /\ pc = "preflight"
    /\ pc' = "stream"
    /\ sub' = "dialing"
    /\ eventChan' = <<>>
    /\ UNCHANGED <<head, clientStop, lastEventID, delay, benign, subBenign, next, taken>>

\* Mutant: the stream resumes at the last event instead of after it.
ServerAcceptsInclusive ==
    /\ sub = "dialing"
    /\ sub' = "open"
    /\ next' = IF lastEventID = 0 THEN head + 1 ELSE lastEventID
    /\ UNCHANGED <<head, clientStop, pc, lastEventID, delay, benign, subBenign,
                   eventChan, taken>>

\* The server answers the subscription, resuming after the Last-Event-ID the
\* stream was seeded with.
ServerAccepts ==
    /\ sub = "dialing"
    /\ sub' = "open"
    /\ next' = IF lastEventID = 0 THEN head + 1 ELSE lastEventID + 1
    /\ UNCHANGED <<head, clientStop, pc, lastEventID, delay, benign, subBenign,
                   eventChan, taken>>

\* Mutant: the event id is recorded when the event is received.
ReceiveRecords ==
    /\ sub = "open"
    /\ next <= head
    /\ Len(eventChan) < ChanSize
    /\ eventChan' = Append(eventChan, next)
    /\ next' = next + 1
    /\ lastEventID' = next
    /\ UNCHANGED <<head, clientStop, pc, delay, benign, sub, subBenign, taken>>

\* The subscription's callback puts the next event on eventChan.
Receive ==
    /\ sub = "open"
    /\ next <= head
    /\ Len(eventChan) < ChanSize
    /\ eventChan' = Append(eventChan, next)
    /\ next' = next + 1
    /\ UNCHANGED <<head, clientStop, pc, lastEventID, delay, benign, sub, subBenign, taken>>

\* The connection is refused or lost: a CANCEL or 503 is benign.
SubscriptionEnds ==
    /\ sub \in {"dialing", "open"}
    /\ sub' = "ended"
    /\ subBenign' \in BOOLEAN
    /\ UNCHANGED <<head, clientStop, pc, lastEventID, delay, benign, next, eventChan, taken>>

\* case <-w.stopChan: processStream returns nil, which resets the backoff.
StreamStops ==
    /\ pc = "stream"
    /\ clientStop
    /\ pc' = "loop"
    /\ delay' = BaseDelay
    /\ sub' = "none"
    /\ eventChan' = <<>>
    /\ UNCHANGED <<head, clientStop, lastEventID, benign, subBenign, next, taken>>

\* case subErr := <-subDone: events still in the channel are not taken.
StreamEnds ==
    /\ pc = "stream"
    /\ sub = "ended"
    /\ StreamFails(subBenign)

\* case <-idleTimer.C: "idle for" is benign.  The timer may fire as an event
\* arrives, so the channel need not be empty.
IdleTimeout ==
    /\ pc = "stream"
    /\ StreamFails(TRUE)

\* case event := <-eventChan: the id is recorded before the event is handled.
TakeEvent ==
    /\ pc = "stream"
    /\ eventChan # <<>>
    /\ pc' = "handle"
    /\ lastEventID' = Head(eventChan)
    /\ eventChan' = Tail(eventChan)
    /\ taken' = taken \cup {Head(eventChan)}
    /\ UNCHANGED <<head, clientStop, delay, benign, sub, subBenign, next>>

\* processEvent returns, whatever became of the event.
EventHandled ==
    /\ pc = "handle"
    /\ pc' = "stream"
    /\ UNCHANGED <<head, clientStop, lastEventID, delay, benign, sub, subBenign,
                   next, eventChan, taken>>

\* The stop signal is seen during the reconnection wait.
BackoffStops ==
    /\ pc = "backoff"
    /\ clientStop
    /\ pc' = "exited"
    /\ UNCHANGED <<head, clientStop, lastEventID, delay, benign, sub, subBenign,
                   next, eventChan, taken>>

\* The wait is over; a genuine failure doubles the next one.
BackoffElapses ==
    /\ pc = "backoff"
    /\ pc' = "loop"
    /\ delay' = IF benign THEN delay ELSE Doubled(delay)
    /\ UNCHANGED <<head, clientStop, lastEventID, benign, sub, subBenign, next,
                   eventChan, taken>>

\* close(w.stopChan), the first step of Stop.
StopSignals ==
    /\ ~ clientStop
    /\ clientStop' = TRUE
    /\ UNCHANGED <<head, pc, lastEventID, delay, benign, sub, subBenign, next,
                   eventChan, taken>>

\* A new process starts with a new client; upstream goes on.
ClientRestarts ==
    /\ UNCHANGED head
    /\ clientStop' = FALSE
    /\ pc' = "off"
    /\ lastEventID' = 0
    /\ delay' = BaseDelay
    /\ benign' = FALSE
    /\ sub' = "none"
    /\ subBenign' = FALSE
    /\ next' = 1
    /\ eventChan' = <<>>
    /\ taken' = {}

=============================================================================
