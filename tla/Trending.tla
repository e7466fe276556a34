------------------------------- MODULE Trending -------------------------------
(***************************************************************************)
(* The trending scores (src/internal/storage/redis_trending.go), the       *)
(* aggregators that update them with each edit                             *)
(* (src/internal/processor/aggregator.go), and the statistics they record  *)
(* next (src/internal/storage/redis_stats.go).  A page has a hash with its *)
(* score and the time of its last edit, and a place in a ranking; the      *)
(* score is read, decayed, raised and written back by two pipelines, while *)
(* a pruner removes what has decayed.                                      *)
(*                                                                         *)
(* A score is a whole number of times the least score that is kept.  Of    *)
(* the time since its last edit the model keeps the power of two it has    *)
(* decayed by.  No half-life passes within an aggregator's update: it is   *)
(* 20 minutes or more.  Redis carries out the few commands of a pipeline   *)
(* in one go, or the first of them when the connection breaks.  Hashes are *)
(* pruned long before the eight days after which they would expire.        *)
(***************************************************************************)
EXTENDS Integers, FiniteSets, FiniteSetsExt, Faults

CONSTANTS Titles,
          Aggregators,   \* consumers, in the processes of a rebalance
          Increments,    \* what calculateIncrement gives, in units
          MaxPages,      \* max_pages
          MaxScored,     \* bound on the edits
          NoTitle

ASSUME TrendingAssumption ==
    /\ Increments \subseteq Nat \ {0}
    /\ IsFiniteSet(Increments) /\ Increments # {}
    /\ IsFiniteSet(Titles) /\ IsFiniteSet(Aggregators)
    /\ MaxPages \in Nat \ {0}
    /\ MaxScored \in Nat
    /\ NoTitle \notin Titles

VARIABLES
    rawScore,  \* raw_score, 0 when the hash has none
    decay,     \* 2 ^ (half-lives since last_updated)
    undated,   \* pages whose hash has a raw_score and no last_updated
    serverURL, \* pages whose hash has a server_url
    ranking,   \* trending:global: the score stored with each page, 0 for none
    updating,  \* for each aggregator, where it is,
    title,     \* with which page,
    newScore,  \* and the score it will write
    pruner,    \* where the pruner is, and with which page
    excess,    \* what it found the ranking to hold past MaxPages
    languages, \* stats:languages, the total of today
    pageEdits, \* stats:page:{title} of today
    scored,    \* edits handled so far
    exact      \* history: each page's score, had no update been lost; it does
               \* not decay while the hash has no time to decay from

scoreVars == <<rawScore, decay, undated, serverURL, ranking>>
statVars == <<languages, pageEdits>>
trendingVars == <<scoreVars, updating, title, newScore, pruner, excess, statVars, scored, exact>>

Resting == <<"resting", NoTitle>>

TrendingInit ==
    /\ rawScore = [p \in Titles |-> 0]
    /\ decay = [p \in Titles |-> 1]
    /\ undated = {}
    /\ serverURL = {}
    /\ ranking = [p \in Titles |-> 0]
    /\ updating = [w \in Aggregators |-> "idle"]
    /\ title = [w \in Aggregators |-> NoTitle]
    /\ newScore = [w \in Aggregators |-> 0]
    /\ pruner = Resting
    /\ excess = 0
    /\ languages = 0
    /\ pageEdits = [p \in Titles |-> 0]
    /\ scored = 0
    /\ exact = [p \in Titles |-> 0]

\* rawScore * 0.5 ^ (elapsed / halfLife), and rawScore without last_updated.
Decayed(p) == rawScore[p] \div decay[p]

\* Mutant: the score is raised as it was stored.
RaisedUndecayed(p, increment) == rawScore[p] + increment

\* Apply lazy decay, add the increment.
Raised(p, increment) == Decayed(p) + increment

Exists(p) == rawScore[p] > 0 \/ p \in serverURL
Ranked == {p \in Titles : ranking[p] > 0}

-----------------------------------------------------------------------------
(* ProcessEdit of the aggregator and of the scorer, IncrementScore *)

UpdateEnds(w) ==
    /\ updating' = [updating EXCEPT ![w] = "idle"]
    /\ title' = [title EXCEPT ![w] = NoTitle]
    /\ newScore' = [newScore EXCEPT ![w] = 0]

UpdateGoes(w, next) ==
    /\ updating' = [updating EXCEPT ![w] = next]
    /\ UNCHANGED <<title, newScore>>

\* The first pipeline: the score and its time.  When it fails the edit is done.
ScoreRead(w, p, increment) ==
    /\ updating[w] = "idle"
    /\ scored < MaxScored
    /\ scored' = scored + 1
    /\ exact' = [exact EXCEPT ![p] = @ + increment]
    /\ \/ /\ Works
          /\ updating' = [updating EXCEPT ![w] = "writing"]
          /\ title' = [title EXCEPT ![w] = p]
          /\ newScore' = [newScore EXCEPT ![w] = Raised(p, increment)]
       \/ Fails /\ UNCHANGED <<updating, title, newScore>>
    /\ UNCHANGED <<scoreVars, pruner, excess, statVars>>

\* The second one: HSET of the score, HSET of the time, EXPIRE and ZADD, or as
\* many of them as are carried out before the connection breaks.  Then the
\* consumer goes on to the next edit.
ScoreWritten(w) ==
    LET p == title[w]
        scoreSet == rawScore' = [rawScore EXCEPT ![p] = newScore[w]]
        timeSet == decay' = [decay EXCEPT ![p] = 1] /\ undated' = undated \ {p}
        rankingSet == ranking' = [ranking EXCEPT ![p] = newScore[w]]
    IN  /\ updating[w] = "writing"
        /\ \/ /\ Works /\ scoreSet /\ timeSet /\ UpdateGoes(w, "linking")
              /\ rankingSet
           \/ /\ Fails /\ UpdateEnds(w)
              /\ \/ UNCHANGED <<rawScore, decay, undated, ranking>>
                 \/ /\ scoreSet /\ UNCHANGED <<decay, ranking>>
                    /\ undated' = IF rawScore[p] = 0 THEN undated \cup {p} ELSE undated
                 \/ scoreSet /\ timeSet /\ (rankingSet \/ UNCHANGED ranking)
        /\ UNCHANGED <<serverURL, pruner, excess, statVars, scored, exact>>

\* HSETNX of server_url, its error ignored: it makes a hash without a score
\* when the page has been pruned meanwhile.
ServerLinked(w) ==
    /\ updating[w] = "linking"
    /\ \/ Works /\ serverURL' = serverURL \cup {title[w]}
       \/ Fails /\ UNCHANGED serverURL
    /\ UpdateGoes(w, "recording")
    /\ UNCHANGED <<rawScore, decay, undated, ranking, pruner, excess, statVars, scored, exact>>

\* RecordEdit, whose failure is logged.
EditRecorded(w) ==
    /\ updating[w] = "recording"
    /\ \/ Works /\ languages' = languages + 1
       \/ Fails /\ UNCHANGED languages
    /\ UpdateGoes(w, "recordingPage")
    /\ UNCHANGED <<scoreVars, pruner, excess, pageEdits, scored, exact>>

\* RecordPageEdit, whose failure is logged.
PageEditRecorded(w) ==
    /\ updating[w] = "recordingPage"
    /\ \/ Works /\ pageEdits' = [pageEdits EXCEPT ![title[w]] = @ + 1]
       \/ Fails /\ UNCHANGED pageEdits
    /\ UpdateEnds(w)
    /\ UNCHANGED <<scoreVars, pruner, excess, languages, scored, exact>>

-----------------------------------------------------------------------------
(* pruneTrendingSet *)

\* ZREMRANGEBYSCORE of the least scores, as stored, and ZCARD.
PruneCounts ==
    LET kept == {p \in Ranked : ranking[p] > 1} IN
    /\ pruner = Resting
    /\ ranking' = [p \in Titles |-> IF p \in kept THEN ranking[p] ELSE 0]
    /\ excess' = Cardinality(kept) - MaxPages
    /\ pruner' = <<"capping", NoTitle>>
    /\ UNCHANGED <<rawScore, decay, undated, serverURL, updating, title, newScore, statVars, scored,
                   exact, faults>>

\* ZREMRANGEBYRANK of as many as there were too many, the lowest as stored.
PruneCaps ==
    /\ pruner[1] = "capping"
    /\ IF excess <= 0 THEN UNCHANGED ranking
       ELSE \E out \in kSubset(Min({excess, Cardinality(Ranked)}), Ranked) :
              /\ \A p \in out, q \in Ranked \ out : ranking[p] <= ranking[q]
              /\ ranking' = [p \in Titles |-> IF p \in out THEN 0 ELSE ranking[p]]
    /\ pruner' = <<"scanning", NoTitle>>
    /\ excess' = 0
    /\ UNCHANGED <<rawScore, decay, undated, serverURL, updating, title, newScore, statVars, scored,
                   exact, faults>>

\* SCAN and HGETALL: what to do about a page is decided by what it is now.
PruneJudges(p) ==
    /\ pruner[1] = "scanning"
    /\ Exists(p)
    /\ pruner' = IF rawScore[p] = 0 \/ p \in undated THEN <<"invalid", p>>
                 ELSE IF Decayed(p) < 1 THEN <<"decayed", p>>
                 ELSE pruner
    /\ UNCHANGED <<scoreVars, updating, title, newScore, excess, statVars, scored, exact, faults>>

\* DEL, its error ignored; then ZREM unless the hash had no score or no time.
PruneDeletes ==
    LET p == pruner[2] IN
    /\ pruner[1] \in {"invalid", "decayed"}
    /\ \/ /\ Works
          /\ rawScore' = [rawScore EXCEPT ![p] = 0]
          /\ decay' = [decay EXCEPT ![p] = 1]
          /\ undated' = undated \ {p}
          /\ serverURL' = serverURL \ {p}
       \/ Fails /\ UNCHANGED <<rawScore, decay, undated, serverURL>>
    /\ pruner' = IF pruner[1] = "invalid" THEN <<"scanning", NoTitle>> ELSE <<"unranking", p>>
    /\ UNCHANGED <<ranking, updating, title, newScore, excess, statVars, scored, exact>>

\* ZREM, its error ignored: a page edited since HGETALL loses its place.
PruneUnranks ==
    /\ pruner[1] = "unranking"
    /\ \/ Works /\ ranking' = [ranking EXCEPT ![pruner[2]] = 0]
       \/ Fails /\ UNCHANGED ranking
    /\ pruner' = <<"scanning", NoTitle>>
    /\ UNCHANGED <<rawScore, decay, undated, serverURL, updating, title, newScore, excess, statVars,
                   scored, exact>>

\* The scan is over, or one of the calls before a page is judged has failed.
PruneEnds ==
    /\ \/ pruner[1] = "scanning" /\ Works
       \/ pruner[1] = "capping" /\ Fails
    /\ pruner' = Resting
    /\ excess' = 0
    /\ UNCHANGED <<scoreVars, updating, title, newScore, statVars, scored, exact>>

-----------------------------------------------------------------------------

\* The pages whose score decays with time.
Decaying == {p \in Titles \ undated : Decayed(p) > 0}

\* A half-life passes.
HalfLifePasses ==
    /\ \A w \in Aggregators : updating[w] = "idle"
    /\ Decaying # {}
    /\ decay' = [p \in Titles |-> IF p \in Decaying THEN 2 * decay[p] ELSE decay[p]]
    /\ exact' = [p \in Titles |-> IF p \in undated THEN exact[p] ELSE exact[p] \div 2]
    /\ UNCHANGED <<rawScore, undated, serverURL, ranking, updating, title, newScore, pruner, excess,
                   statVars, scored, faults>>

\* An aggregator's process ends between two calls; the edit may come again.
AggregatorRestarts(w) ==
    /\ updating[w] # "idle"
    /\ UpdateEnds(w)
    /\ UNCHANGED <<scoreVars, pruner, excess, statVars, scored, exact, faults>>

TrendingNext ==
    \/ \E w \in Aggregators :
          \/ \E p \in Titles, increment \in Increments : ScoreRead(w, p, increment)
          \/ ScoreWritten(w) \/ ServerLinked(w) \/ EditRecorded(w) \/ PageEditRecorded(w)
          \/ AggregatorRestarts(w)
    \/ PruneCounts \/ PruneCaps \/ (\E p \in Titles : PruneJudges(p))
    \/ PruneDeletes \/ PruneUnranks \/ PruneEnds
    \/ HalfLifePasses

TrendingSpec ==
    /\ TrendingInit /\ faults = MaxFaults
    /\ [][TrendingNext]_<<trendingVars, faults>>

-----------------------------------------------------------------------------

TrendingTypeOK ==
    /\ rawScore \in [Titles -> Nat]
    /\ decay \in [Titles -> Nat \ {0}]
    /\ undated \subseteq Titles
    /\ serverURL \subseteq Titles
    /\ ranking \in [Titles -> Nat]
    /\ updating \in [Aggregators -> {"idle", "writing", "linking", "recording", "recordingPage"}]
    /\ title \in [Aggregators -> Titles \cup {NoTitle}]
    /\ newScore \in [Aggregators -> Nat]
    /\ pruner \in {"resting", "capping", "scanning", "invalid", "decayed", "unranking"}
                    \X (Titles \cup {NoTitle})
    /\ excess \in Int
    /\ languages \in 0..MaxScored
    /\ pageEdits \in [Titles -> 0..MaxScored]
    /\ scored \in 0..MaxScored
    /\ exact \in [Titles -> Nat]

\* However updates of a page overlap with each other and with the pruner, its
\* score never exceeds the decayed sum of the edits handled: an update may be
\* lost, but none is counted twice and no score with a time outlives its decay.
ScoreWithinEdits == \A p \in Titles : Decayed(p) <= exact[p]

=============================================================================
