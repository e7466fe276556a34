----------------------------- MODULE AtLeastOnce -----------------------------
(***************************************************************************)
(* What a Kafka consumer of the processor promises to its consumer group:  *)
(* the messages of a partition are handled in order, each for the first    *)
(* time after all the earlier ones, and an offset is committed only when   *)
(* every message up to it has been handled.  A commit may move backwards   *)
(* and a message may be handled again, never skipped.                      *)
(*                                                                         *)
(* The specification is abstract: no code is translated here.              *)
(* IndexPipeline.tla implements it.                                        *)
(***************************************************************************)
EXTENDS Naturals

CONSTANT Partitions

VARIABLES handled,    \* for each partition, the offsets handled at least once
          committed   \* for each partition, the offset a new reader resumes after

vars == <<handled, committed>>

-----------------------------------------------------------------------------

Init ==
    /\ handled = [p \in Partitions |-> {}]
    /\ committed = [p \in Partitions |-> 0]

Handle(p, i) ==
    /\ 1..(i - 1) \subseteq handled[p]
    /\ handled' = [handled EXCEPT ![p] = @ \cup {i}]
    /\ UNCHANGED committed

Commit ==
    /\ committed' \in [Partitions -> Nat]
    /\ \A p \in Partitions : 1..committed'[p] \subseteq handled[p]
    /\ UNCHANGED handled

Next ==
    \/ \E p \in Partitions : \E i \in handled'[p] : Handle(p, i)
    \/ Commit

Spec == Init /\ [][Next]_vars
=============================================================================
