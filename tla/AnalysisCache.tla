---------------------------- MODULE AnalysisCache ----------------------------
(***************************************************************************)
(* The analyses of edit wars (src/internal/llm/analysis.go): a summary of  *)
(* the page's timeline by a language model, cached in Redis for hours      *)
(* while the war lasts, and for days when the sweeper has closed it.       *)
(*                                                                         *)
(* An analyst is a goroutine that runs Analyze, Reanalyze or               *)
(* FinalizeAnalysis: one of the detector's, the API's or a digest's, or    *)
(* the sweeper.  Of a timeline the model keeps how long it lasts, and of   *)
(* an analysis which of the two times to live it was stored with.          *)
(***************************************************************************)
EXTENDS Integers, FiniteSets

CONSTANTS Pages,
          Readers,     \* API requests and digests that ask for an analysis
          Slots,       \* analysisSem: the analyses a detector runs at once
          MaxFaults, NoPage

Sweeper == "sweeper"
Analysts == Readers \cup Slots \cup {Sweeper}

ASSUME AnalysisAssumption ==
    /\ MaxFaults \in Nat
    /\ NoPage \notin Pages
    /\ Sweeper \notin Readers \cup Slots
    /\ Readers \cap Slots = {}

VARIABLES
    timelineTTL, \* time until editwar:timeline:{page} expires, 0 when it is empty
    analysis,    \* editwar:analysis:{page}: how long it is kept
    task,        \* for each analyst, where it is
    topic,       \* and with which page
    faults       \* calls to Redis that may still fail

analysisVars == <<timelineTTL, analysis, task, topic, faults>>

AnalysisInit ==
    /\ timelineTTL = [p \in Pages |-> 0]
    /\ analysis = [p \in Pages |-> "no"]
    /\ task = [a \in Analysts |-> "free"]
    /\ topic = [a \in Analysts |-> NoPage]
    /\ faults = MaxFaults

Works == UNCHANGED faults
Fails == faults > 0 /\ faults' = faults - 1

Turns(a, next) ==
    /\ task' = [task EXCEPT ![a] = next]
    /\ topic' = IF next = "free" THEN [topic EXCEPT ![a] = NoPage] ELSE topic

Kept(a, howLong) == analysis' = [analysis EXCEPT ![topic[a]] = howLong]

\* Analyze is called, after the cached analysis was deleted or not.
Analyzes(a, p, first) ==
    /\ task[a] = "free"
    /\ task' = [task EXCEPT ![a] = first]
    /\ topic' = [topic EXCEPT ![a] = p]
    /\ UNCHANGED <<timelineTTL, analysis, faults>>

\* Reanalyze and FinalizeAnalysis: DEL, whose error is ignored.
CacheCleared(a) ==
    /\ task[a] = "clearing"
    /\ \/ Works /\ Kept(a, "no")
       \/ Fails /\ UNCHANGED analysis
    /\ Turns(a, "looking")
    /\ UNCHANGED timelineTTL

\* Analyze returns; the sweeper has more to do.
Returns(a, outcome) == Turns(a, IF a = Sweeper THEN outcome ELSE "free")

\* GET: a cached analysis is returned.
CacheLooked(a) ==
    /\ task[a] = "looking"
    /\ \/ Works /\ analysis[topic[a]] # "no" /\ Returns(a, "done")
       \/ Works /\ analysis[topic[a]] = "no" /\ Turns(a, "reading")
       \/ Fails /\ Turns(a, "reading")
    /\ UNCHANGED <<timelineTTL, analysis>>

\* LRANGE: an empty timeline gives a remark instead of an analysis.  Else the
\* model answers, or the heuristic takes its place and is not cached.
TimelineRead(a) ==
    /\ task[a] = "reading"
    /\ \/ Works /\ timelineTTL[topic[a]] > 0 /\ Turns(a, "storing")
       \/ Works /\ Returns(a, "done")
       \/ Fails /\ Returns(a, "failed")
    /\ UNCHANGED <<timelineTTL, analysis>>

\* SET with the cache's TTL.
AnalysisStored(a) ==
    /\ task[a] = "storing"
    /\ \/ Works /\ Kept(a, "hours")
       \/ Fails /\ UNCHANGED analysis
    /\ Returns(a, "done")
    /\ UNCHANGED timelineTTL

\* FinalizeAnalysis: what Analyze has returned is SET again for seven days;
\* after an error of Analyze it returns at once.
AnalysisFinalized ==
    /\ \/ task[Sweeper] = "done" /\ Works /\ Kept(Sweeper, "days")
       \/ task[Sweeper] = "done" /\ Fails /\ UNCHANGED analysis
       \/ task[Sweeper] = "failed" /\ Works /\ UNCHANGED analysis
    /\ task' = [task EXCEPT ![Sweeper] = "free"]
    /\ UNCHANGED <<timelineTTL, topic>>

\* Analyze, as far as it goes on its own.
AnalystStep(a) == CacheCleared(a) \/ CacheLooked(a) \/ TimelineRead(a) \/ AnalysisStored(a)

\* The process ends, and with it its goroutines.
AnalystsForget(gone) ==
    /\ task' = [a \in Analysts |-> IF a \in gone THEN "free" ELSE task[a]]
    /\ topic' = [a \in Analysts |-> IF a \in gone THEN NoPage ELSE topic[a]]
    /\ UNCHANGED <<timelineTTL, analysis, faults>>

=============================================================================
