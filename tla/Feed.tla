-------------------------------- MODULE Feed --------------------------------
(***************************************************************************)
(* What a hub of the API promises to its subscribers: whoever is a member  *)
(* when a message is published and wants it is owed that message.  A       *)
(* subscriber receives only what it is owed, each message at most once,    *)
(* the messages of a source in the order they were published.  It may miss *)
(* some.                                                                   *)
(*                                                                         *)
(* The specification is abstract: no code is translated here.              *)
(* WebSocketHub.tla and AlertHub.tla implement it.                         *)
(***************************************************************************)
EXTENDS Naturals, Sequences, SequencesExt

CONSTANTS Clients,
          Messages,  \* pairs <<source, number>>
          Wants      \* for each client, the messages its filter lets through

VARIABLES published,  \* the messages published so far
          members,
          owed,       \* for each client, the messages it is owed
          got         \* for each client, the messages it received

vars == <<published, members, owed, got>>

Before(m, n) == m[1] = n[1] /\ m[2] < n[2]

\* No message twice, and none after a later one of its source.
InOrder(s) ==
    \A i, j \in DOMAIN s : i < j => s[i] # s[j] /\ ~ Before(s[j], s[i])

-----------------------------------------------------------------------------

Init ==
    /\ published = {}
    /\ members = {}
    /\ owed = [c \in Clients |-> {}]
    /\ got = [c \in Clients |-> <<>>]

Join(c) ==
    /\ c \notin members
    /\ members' = members \cup {c}
    /\ UNCHANGED <<published, owed, got>>

Leave(C) ==
    /\ members' = members \ C
    /\ UNCHANGED <<published, owed, got>>

Publish(m) ==
    /\ \A n \in published : n[1] = m[1] => Before(n, m)
    /\ published' = published \cup {m}
    /\ owed' = [c \in Clients |->
                   owed[c] \cup (IF c \in members THEN Wants[c] \cap {m} ELSE {})]
    /\ UNCHANGED <<members, got>>

Receive(c) ==
    /\ IsPrefix(got[c], got'[c])
    /\ InOrder(got'[c])
    /\ ToSet(got'[c]) \subseteq owed[c]
    /\ got' = [got EXCEPT ![c] = got'[c]]
    /\ UNCHANGED <<published, members, owed>>

Next ==
    \/ \E c \in Clients : Join(c) \/ Receive(c)
    \/ \E C \in SUBSET Clients : Leave(C)
    \/ \E m \in Messages : Publish(m)

Spec == Init /\ [][Next]_vars
=============================================================================
