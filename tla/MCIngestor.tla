----------------------------- MODULE MCIngestor -----------------------------
(***************************************************************************)
(* Ingestor on a stream of MCNumEvents events: edits of two pages, and one *)
(* event the filters reject.  Channels and batches are as small as they can*)
(* be without losing a case: two events in eventChan, one edit in the      *)
(* buffer, two in a batch.                                                 *)
(***************************************************************************)
EXTENDS Ingestor

\* An edit of a page by a human on an allowed wiki.
Article(t) == [title |-> t, valid |-> TRUE, bot |-> FALSE, wikipedia |-> TRUE,
               language |-> "en", namespace |-> 0, prefixed |-> FALSE, type |-> "edit"]

Bot(t) == [Article(t) EXCEPT !.bot = TRUE]

MCFeed == <<Article("p"), Article("q"), Bot("p"), Article("p"), Article("p")>>
MCNumEvents == Len(MCFeed)
MCEdits == 1..MCNumEvents
MCTitleOf == [e \in MCEdits |-> MCFeed[e].title]

\* A shorter stream for the liveness properties.
MCShortFeed == <<Article("p"), Bot("p"), Article("p")>>
MCShortNumEvents == Len(MCShortFeed)
MCShortEdits == 1..MCShortNumEvents
MCShortTitleOf == [e \in MCShortEdits |-> MCShortFeed[e].title]

MCLanguages == {"en"}
MCNamespaces == {0}
=============================================================================
