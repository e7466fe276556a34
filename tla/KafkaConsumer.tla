---------------------------- MODULE KafkaConsumer ----------------------------
(***************************************************************************)
(* A Kafka consumer of the processor (src/internal/kafka/consumer.go): one *)
(* goroutine that fetches a message, has the handler process it, and asks  *)
(* for its offset to be committed, whatever the handler returned.          *)
(*                                                                         *)
(* The reader is a library (kafka-go), modelled as src/ configures it: a   *)
(* member of a consumer group that starts at the committed offset, or at   *)
(* the first, and commits the offsets it was asked to once an interval, in *)
(* the background.  Offset i is the i-th message of a partition; an offset *)
(* of 0 stands for none.                                                   *)
(***************************************************************************)
EXTENDS Naturals, Sequences

CONSTANTS Partitions,
          Log   \* Log[p]: the edits on partition p, oldest first

ASSUME ConsumerAssumption == \A p \in Partitions : Len(Log[p]) \in Nat

VARIABLES
    consumer,      \* where consumeLoop is
    message,       \* the message in hand: its partition and its offset
    consumerStop,  \* TRUE once Stop has closed c.stopChan and cancelled c.ctx
    readerOpen,    \* FALSE once Stop has closed the reader
    position,      \* the last offset fetched from each partition
    stash,         \* the offset to commit at the next interval
    committed,     \* the group's committed offsets, kept by Kafka
    handled        \* history: the offsets whose handler has returned

consumerVars == <<consumer, message, consumerStop, readerOpen, position, stash,
                  committed, handled>>

Messages == Partitions \X (Nat \ {0})
NoMessage == <<>>
NoOffsets == [p \in Partitions |-> 0]

Partition == message[1]
Offset == message[2]
Stashed == {p \in Partitions : stash[p] # 0}

-----------------------------------------------------------------------------

\* NewConsumer and Start, the first time.
ConsumerInit ==
    /\ consumer = "loop"
    /\ message = NoMessage
    /\ consumerStop = FALSE
    /\ readerOpen = TRUE
    /\ position = NoOffsets
    /\ stash = NoOffsets
    /\ committed = NoOffsets
    /\ handled = [p \in Partitions |-> {}]

-----------------------------------------------------------------------------
(* consumeLoop *)

\* The select at the top has a default: a stop always wins there.
LoopStops ==
    /\ consumer = "loop"
    /\ consumerStop
    /\ consumer' = "exited"
    /\ UNCHANGED <<message, consumerStop, readerOpen, position, stash, committed, handled>>

LoopFetches ==
    /\ consumer = "loop"
    /\ ~ consumerStop
    /\ consumer' = "fetch"
    /\ UNCHANGED <<message, consumerStop, readerOpen, position, stash, committed, handled>>

\* Mutant: ReadMessage in place of FetchMessage, which commits what it returns.
FetchReturnsCommits(p) ==
    /\ consumer = "fetch"
    /\ position[p] < Len(Log[p])
    /\ consumer' = "process"
    /\ position' = [position EXCEPT ![p] = @ + 1]
    /\ message' = <<p, position'[p]>>
    /\ stash' = [stash EXCEPT ![p] = position'[p]]
    /\ UNCHANGED <<consumerStop, readerOpen, committed, handled>>

\* FetchMessage returns the next message of a partition, at times also when
\* its context has been cancelled meanwhile.
FetchReturns(p) ==
    /\ consumer = "fetch"
    /\ position[p] < Len(Log[p])
    /\ consumer' = "process"
    /\ position' = [position EXCEPT ![p] = @ + 1]
    /\ message' = <<p, position'[p]>>
    /\ UNCHANGED <<consumerStop, readerOpen, stash, committed, handled>>

\* FetchMessage fails: the context is cancelled, or the broker is in trouble.
FetchFails ==
    /\ consumer = "fetch"
    /\ consumer' = "loop"
    /\ UNCHANGED <<message, consumerStop, readerOpen, position, stash, committed, handled>>

\* processMessage returns, with or without an error.
MessageHandled ==
    /\ consumer = "process"
    /\ consumer' = "commit"
    /\ handled' = [handled EXCEPT ![Partition] = @ \cup {Offset}]
    /\ UNCHANGED <<message, consumerStop, readerOpen, position, stash, committed>>

\* CommitMessages hands the offset to the reader's background commit.
CommitRequested ==
    /\ consumer = "commit"
    /\ consumer' = "loop"
    /\ stash' = [stash EXCEPT ![Partition] = IF Offset > @ THEN Offset ELSE @]
    /\ UNCHANGED <<message, consumerStop, readerOpen, position, committed, handled>>

\* CommitMessages sees the cancelled context first: the offset is not noted.
CommitRefused ==
    /\ consumer = "commit"
    /\ consumerStop
    /\ consumer' = "loop"
    /\ UNCHANGED <<message, consumerStop, readerOpen, position, stash, committed, handled>>

-----------------------------------------------------------------------------
(* The reader's group membership *)

\* Kafka takes the stashed offsets of the partitions in ps.
Commits(ps) == committed' = [p \in Partitions |-> IF p \in ps THEN stash[p] ELSE committed[p]]

\* The commit interval: offsets stay in the stash until all are accepted.
CommitTick ==
    /\ readerOpen
    /\ Stashed # {}
    /\ \E ps \in SUBSET Stashed :
          /\ Commits(ps)
          /\ stash' = IF ps = Stashed THEN NoOffsets ELSE stash
    /\ UNCHANGED <<consumer, message, consumerStop, readerOpen, position, handled>>

\* The generation ends by a rebalance: a last commit, which may fail, and the
\* reader starts again at the committed offsets.  A message in hand stays.
Rebalance ==
    /\ readerOpen
    /\ \E ps \in SUBSET Stashed : Commits(ps)
    /\ stash' = NoOffsets
    /\ position' = committed'
    /\ UNCHANGED <<consumer, message, consumerStop, readerOpen, handled>>

-----------------------------------------------------------------------------

\* Stop: close(c.stopChan) and c.cancel().
ConsumerStopSignals ==
    /\ ~ consumerStop
    /\ consumerStop' = TRUE
    /\ UNCHANGED <<consumer, message, readerOpen, position, stash, committed, handled>>

\* c.wg.Wait() has returned: reader.Close, with a last commit that may fail.
ReaderCloses ==
    /\ consumerStop
    /\ consumer = "exited"
    /\ readerOpen
    /\ readerOpen' = FALSE
    /\ \E ps \in SUBSET Stashed : Commits(ps)
    /\ stash' = NoOffsets
    /\ UNCHANGED <<consumer, message, consumerStop, position, handled>>

\* The process ends: the next one has a new consumer, which resumes after the
\* committed offsets.
ConsumerForgets ==
    /\ consumer' = "loop"
    /\ message' = NoMessage
    /\ consumerStop' = FALSE
    /\ readerOpen' = TRUE
    /\ position' = committed
    /\ stash' = NoOffsets
    /\ UNCHANGED <<committed, handled>>

=============================================================================
