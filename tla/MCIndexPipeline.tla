--------------------------- MODULE MCIndexPipeline ---------------------------
(***************************************************************************)
(* IndexPipeline on two partitions: edits of a watched page, of a page in  *)
(* the trending list and of an unranked page.  Every channel holds one     *)
(* document, the indexer's batches two.                                    *)
(***************************************************************************)
EXTENDS IndexPipeline

Quiet == [rank |-> 0, hot |-> FALSE, edits |-> 0, spiking |-> FALSE, ratio |-> 0, war |-> FALSE]
Trending == [Quiet EXCEPT !.rank = 1]

MCLog == [p |-> <<1, 2>>, q |-> <<3>>]
MCPartitions == DOMAIN MCLog
MCDocs == 1..3
MCWatched == {1}
MCPageOf == <<Quiet, Trending, Quiet>>

\* For the liveness properties: an edit, its copy, and an unreadable message.
MCShortLog == [p |-> <<1, 2, 1>>]
MCShortPartitions == DOMAIN MCShortLog
MCShortDocs == 1..2
MCShortPageOf == <<Trending, Quiet>>
MCShortUnreadable == {2}
=============================================================================
