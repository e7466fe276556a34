---------------------------- MODULE EditChannel ----------------------------
(***************************************************************************)
(* What the ingestor's Kafka producer promises to the client that calls    *)
(* Produce: an edit it accepts is put on its page's partition, after the   *)
(* earlier edits of that page, or it is lost; accepted edits are dealt     *)
(* with in the order they were accepted in.  A partition may hold copies   *)
(* of an edit (the writer retries), never an edit nobody produced.         *)
(*                                                                         *)
(* The specification is abstract: no code is translated here.  Ingestor.tla*)
(* implements it, with pending the producer's batch followed by its buffer.*)
(***************************************************************************)
EXTENDS Naturals, Sequences

CONSTANTS Edits,    \* the edits that can be produced
          TitleOf   \* the page an edit belongs to: the message key

VARIABLES pending,    \* accepted edits nothing is decided about, oldest first
          delivered,  \* for each page, the edits on its partition, oldest first
          lost        \* accepted edits given up on

vars == <<pending, delivered, lost>>

Titles == {TitleOf[e] : e \in Edits}

-----------------------------------------------------------------------------

Init ==
    /\ pending = <<>>
    /\ delivered = [t \in Titles |-> <<>>]
    /\ lost = {}

\* An edit is on the partition of its page.
IsDelivered(e) == \E i \in DOMAIN delivered[TitleOf[e]] : delivered[TitleOf[e]][i] = e

\* The channel takes an edit.
Accept(e) ==
    /\ pending' = Append(pending, e)
    /\ UNCHANGED <<delivered, lost>>

\* The k-th pending edit reaches its partition, behind the pending edits of
\* its page that are older.
Deliver(k) ==
    /\ \A j \in 1..(k - 1) :
          TitleOf[pending[j]] = TitleOf[pending[k]] => IsDelivered(pending[j])
    /\ delivered' = [delivered EXCEPT ![TitleOf[pending[k]]] = Append(@, pending[k])]
    /\ UNCHANGED <<pending, lost>>

\* The k oldest pending edits are decided: those not delivered are lost.
Settle(k) ==
    /\ pending' = SubSeq(pending, k + 1, Len(pending))
    /\ lost' = lost \cup {e \in {pending[i] : i \in 1..k} : ~ IsDelivered(e)}
    /\ UNCHANGED delivered

Next ==
    \/ \E e \in Edits : Accept(e)
    \/ \E k \in DOMAIN pending : Deliver(k) \/ Settle(k)

Spec == Init /\ [][Next]_vars
=============================================================================
