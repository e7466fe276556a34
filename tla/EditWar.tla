------------------------------- MODULE EditWar -------------------------------
(***************************************************************************)
(* The detector of edit wars and its sweeper                               *)
(* (src/internal/processor/edit_war_detector.go).  The handler of a        *)
(* consumer counts, in Redis, the edits of each editor of a hot page and   *)
(* the reverts among them; past three thresholds it publishes a war and    *)
(* marks the page for 30 minutes, which further edits renew.  The sweeper  *)
(* remembers the marked pages; when it finds one of them without a marker  *)
(* it has a last analysis made and publishes the final state of the war.   *)
(*                                                                         *)
(* Time passes in Ticks of ten minutes, the detection window.  An edit is  *)
(* handled, and an analysis made, within a tick; of its sweeps the first   *)
(* is modelled, and readers ask before its end.  A page that is not hot    *)
(* makes no step: the handler returns at once.                             *)
(***************************************************************************)
EXTENDS AnalysisCache, Sequences, FiniteSetsExt

CONSTANTS Users,
          EditKinds,    \* the edits a page may receive: user and bytes
          MinEdits,     \* minEdits: 5
          MinEditors,   \* minEditors: 2
          MinReverts,   \* minReverts: 2
          MarkerTTL,    \* 30 minutes, in ticks
          LongTTL,      \* 12 hours, in ticks
          KeepChanges,  \* length of editwar:changes:{page}: 500
          Reanalysis,   \* reanalyzeEvery > 0
          MaxEdits, MaxRestarts

ASSUME WarAssumption ==
    /\ EditKinds \subseteq Users \X Int
    /\ IsFiniteSet(Users)
    /\ {MinEdits, MinEditors, LongTTL, KeepChanges} \subseteq Nat \ {0}
    /\ {MinReverts, MaxEdits, MaxRestarts} \subseteq Nat
    /\ MarkerTTL \in 2..LongTTL
    /\ Reanalysis \in BOOLEAN

TimeWindow == 1

VARIABLES
    editors,      \* editwar:editors:{page}: edits of each user
    changes,      \* editwar:changes:{page}: byte changes, oldest first
    countersTTL,  \* ticks until both expire; they get their times together
    marker,       \* ticks until editwar:{page} expires
    active,       \* editwar:active_set
    latest,       \* the latest entry of the page in alerts:editwars
    detector,     \* where ProcessEdit is,
    inHand,       \* with which edit: page, user, bytes, time to live of the counters
    cooling,      \* pages alerted less than 5 minutes ago
    sweep,        \* where the sweeper is,
    seen,         \* the pages it has seen marked,
    todo,         \* and those it has still to close
    swept,        \* TRUE once a sweep was done in this tick
    edits, restarts,
    clean         \* history: pages for whose war no call has failed

counters == <<editors, changes, countersTTL, timelineTTL>>
analyses == <<analysis, task, topic>>
handler == <<detector, inHand, cooling>>
sweeper == <<active, sweep, seen, todo, swept>>
bounds == <<edits, restarts>>
warVars == <<editors, changes, countersTTL, marker, latest, handler, sweeper, bounds, clean>>
vars == <<analysisVars, warVars>>

NoEdits == [u \in Users |-> 0]
Nothing == <<NoPage, NoPage, 0, 0>>

Page == inHand[1]
User == inHand[2]
Bytes == inHand[3]

Goes(next) ==
    /\ detector' = next
    /\ inHand' = IF next = "idle" THEN Nothing ELSE inHand

Total(p) == MapThenSumSet(LAMBDA u : editors[p][u], Users)
EditorsOf(p) == {u \in Users : editors[p][u] > 0}

Init ==
    /\ AnalysisInit
    /\ editors = [p \in Pages |-> NoEdits]
    /\ changes = [p \in Pages |-> <<>>]
    /\ countersTTL = [p \in Pages |-> 0]
    /\ marker = [p \in Pages |-> 0]
    /\ active = {}
    /\ latest = [p \in Pages |-> "none"]
    /\ detector = "idle" /\ inHand = Nothing
    /\ cooling = {}
    /\ sweep = "resting" /\ seen = {} /\ todo = {} /\ swept = FALSE
    /\ edits = 0 /\ restarts = 0
    /\ clean = Pages

\* A call about page p that may fail, and if it does the war is not clean.
Done == Works /\ UNCHANGED clean
Failed(p) == Fails /\ clean' = clean \ {p}

-----------------------------------------------------------------------------
(* countReverts, calculateEditWarSeverity *)

Abs(n) == IF n < 0 THEN -n ELSE n

\* Opposite signs, and both small or within 40 per cent of each other; or
\* two changes of no byte.
Reverts(prev, curr) ==
    LET small == Min({Abs(prev), Abs(curr)})
        large == Max({Abs(prev), Abs(curr)})
    IN  \/ prev = 0 /\ curr = 0
        \/ prev * curr < 0 /\ (large < 10 \/ 10 * small >= 6 * large)

RevertCount(list) ==
    Cardinality({i \in 2..Len(list) : Reverts(list[i - 1], list[i])})

-----------------------------------------------------------------------------
(* ProcessEdit *)

\* An edit of a hot page; the handler fails at once when IsHot does.
EditArrives(p, kind) ==
    /\ detector = "idle"
    /\ edits < MaxEdits
    /\ edits' = edits + 1
    /\ detector' = "looking"
    /\ inHand' = <<p, kind[1], kind[2], 0>>
    /\ UNCHANGED <<analysisVars, counters, marker, sweeper, latest, cooling, restarts, clean>>

Chosen(time) == inHand' = [inHand EXCEPT ![4] = time]

\* EXISTS of the marker; an error is taken for no.
MarkerLooked ==
    /\ detector = "looking"
    /\ detector' = "tracking"
    /\ \/ Done /\ Chosen(IF marker[Page] > 0 THEN LongTTL ELSE TimeWindow)
       \/ Failed(Page) /\ Chosen(TimeWindow)
    /\ UNCHANGED <<counters, analyses, marker, sweeper, latest, cooling, bounds>>

\* Mutant: the list of changes is not cut.
TrackedUncut ==
    /\ editors' = [editors EXCEPT ![Page][User] = @ + 1]
    /\ changes' = [changes EXCEPT ![Page] = Append(@, Bytes)]
    /\ countersTTL' = [countersTTL EXCEPT ![Page] = inHand[4]]
    /\ timelineTTL' = [timelineTTL EXCEPT ![Page] = LongTTL]

Tracked ==
    /\ editors' = [editors EXCEPT ![Page][User] = @ + 1]
    /\ changes' = [changes EXCEPT ![Page] =
                     LET all == Append(@, Bytes) IN
                     IF Len(all) > KeepChanges THEN Tail(all) ELSE all]
    /\ countersTTL' = [countersTTL EXCEPT ![Page] = inHand[4]]
    /\ timelineTTL' = [timelineTTL EXCEPT ![Page] = LongTTL]

\* The pipeline on counters and timeline; when it fails, done or not,
\* ProcessEdit returns.
EditTracked ==
    /\ detector = "tracking"
    /\ \/ Done /\ Tracked /\ Goes("refreshing")
       \/ Failed(Page) /\ Tracked /\ Goes("idle")
       \/ /\ Failed(Page) /\ Goes("idle")
          /\ UNCHANGED counters
    /\ UNCHANGED <<analyses, marker, sweeper, latest, cooling, bounds>>

\* EXISTS and EXPIRE of the marker: a war that goes on stays marked.
MarkerRefreshed ==
    /\ detector = "refreshing"
    /\ Goes("measuring")
    /\ \/ Done /\ marker' = [marker EXCEPT ![Page] = IF @ > 0 THEN MarkerTTL ELSE 0]
       \/ Failed(Page) /\ UNCHANGED marker
    /\ UNCHANGED <<counters, analyses, sweeper, latest, cooling, bounds>>

\* The thresholds of ProcessEdit and detectEditWar.
AtWar(p) ==
    /\ Total(p) >= MinEdits
    /\ Cardinality(EditorsOf(p)) >= MinEditors
    /\ RevertCount(changes[p]) >= MinReverts

\* HGETALL, LRANGE (whose failure counts no reverts) and the cooldown, which
\* begins before the alert is published.
Measured ==
    /\ detector = "measuring"
    /\ \/ /\ Done
          /\ ~ AtWar(Page)
          /\ Goes("idle")
          /\ UNCHANGED cooling
       \/ /\ Done
          /\ AtWar(Page)
          /\ Goes(IF Page \in cooling THEN "reanalyzing" ELSE "publishing")
          /\ cooling' = cooling \cup {Page}
       \/ /\ Failed(Page)
          /\ Goes("idle")
          /\ UNCHANGED cooling
    /\ UNCHANGED <<counters, analyses, marker, sweeper, latest, bounds>>

\* publishEditWarAlert: XADD; when it fails, done or not, it returns.  An
\* alert while no marker is left declares a war.
Published ==
    /\ detector = "publishing"
    /\ \/ /\ Works
          /\ Goes("marking")
          /\ latest' = [latest EXCEPT ![Page] = "war"]
          /\ clean' = IF marker[Page] = 0 THEN clean \cup {Page} ELSE clean
       \/ /\ Failed(Page)
          /\ Goes("idle")
          /\ latest' \in {latest, [latest EXCEPT ![Page] = "war"]}
    /\ UNCHANGED <<counters, analyses, marker, sweeper, cooling, bounds>>

\* SET of the marker; a failure is logged.
Marked ==
    /\ detector = "marking"
    /\ Goes("extending")
    /\ \/ Done /\ marker' = [marker EXCEPT ![Page] = MarkerTTL]
       \/ Failed(Page) /\ UNCHANGED marker
    /\ UNCHANGED <<counters, analyses, sweeper, latest, cooling, bounds>>

Renewed(left) == [left EXCEPT ![Page] = IF @ > 0 THEN LongTTL ELSE 0]

\* Mutant: the counters keep the time of the detection window.
ExtendedTimeline ==
    /\ detector = "extending"
    /\ Goes("analyzing")
    /\ Done
    /\ timelineTTL' = Renewed(timelineTTL)
    /\ UNCHANGED <<editors, changes, countersTTL, analyses, marker, sweeper, latest, cooling, bounds>>

\* EXPIRE of timeline and counters, errors ignored.
Extended ==
    /\ detector = "extending"
    /\ Goes("analyzing")
    /\ \/ Done /\ timelineTTL' = Renewed(timelineTTL) /\ countersTTL' = Renewed(countersTTL)
       \/ Failed(Page) /\ timelineTTL' = Renewed(timelineTTL) /\ UNCHANGED countersTTL
       \/ Failed(Page) /\ countersTTL' = Renewed(countersTTL) /\ UNCHANGED timelineTTL
    /\ UNCHANGED <<analyses, editors, changes, marker, sweeper, latest, cooling, bounds>>

\* An analysis is started unless the semaphore is taken: Analyze for an
\* alert, Reanalyze for every so many edits of a page that is cooling.
AnalysisStarted ==
    /\ detector \in {"analyzing", "reanalyzing"}
    /\ Goes("idle")
    /\ \/ /\ detector = "reanalyzing" => Reanalysis
          /\ \E a \in Slots :
                Analyzes(a, Page, IF detector = "analyzing" THEN "looking" ELSE "clearing")
       \/ /\ detector = "reanalyzing" \/ \A a \in Slots : task[a] # "free"
          /\ UNCHANGED analysisVars
    /\ UNCHANGED <<counters, marker, sweeper, latest, cooling, bounds, clean>>

Handling ==
    \/ MarkerLooked \/ EditTracked \/ MarkerRefreshed \/ Measured \/ Published
    \/ Marked \/ Extended \/ AnalysisStarted

-----------------------------------------------------------------------------
(* sweepDeactivatedWars *)

\* Mutant: a page counts as a war as long as its counters last.
TrackedPages == {p \in Pages : countersTTL[p] > 0}

WarPages == {p \in Pages : countersTTL[p] > 0 /\ marker[p] > 0}

\* SCAN of the counters and EXISTS of each marker: an error of EXISTS is
\* taken for no marker, an error of SCAN ends the sweep.
SweepScans ==
    /\ sweep = "resting" /\ ~ swept
    /\ \/ /\ Done
          /\ seen' = WarPages
          /\ sweep' = "listing"
          /\ UNCHANGED swept
       \/ /\ \E p \in WarPages : Failed(p) /\ seen' = WarPages \ {p}
          /\ sweep' = "listing"
          /\ UNCHANGED swept
       \/ Fails /\ clean' = {} /\ swept' = TRUE /\ UNCHANGED <<seen, sweep>>
    /\ UNCHANGED <<counters, analyses, marker, active, latest, handler, todo, bounds>>

\* SADD of the pages seen and SMEMBERS.
SweepLists ==
    /\ sweep = "listing"
    /\ \/ /\ Done
          /\ active' = active \cup seen
          /\ todo' = active \ seen
          /\ sweep' = "closing"
          /\ UNCHANGED swept
       \/ /\ \E p \in seen : Failed(p) /\ active' = active \cup (seen \ {p})
          /\ todo' = active \ seen
          /\ sweep' = "closing"
          /\ UNCHANGED swept
       \/ /\ Fails /\ clean' = {}
          /\ active' = active \cup seen
          /\ sweep' = "resting"
          /\ swept' = TRUE
          /\ UNCHANGED todo
    /\ UNCHANGED <<counters, analyses, marker, latest, handler, seen, bounds>>

\* FinalizeAnalysis of a page that is not seen at war any more.
SweepCloses(p) ==
    /\ sweep = "closing"
    /\ p \in todo
    /\ Analyzes(Sweeper, p, "clearing")
    /\ sweep' = "finalizing"
    /\ todo' = todo \ {p}
    /\ UNCHANGED <<counters, marker, active, latest, handler, seen, swept, bounds, clean>>

SweepFinalizes ==
    /\ sweep = "finalizing"
    /\ AnalysisFinalized
    /\ sweep' = "writing"
    /\ UNCHANGED <<counters, marker, active, latest, handler, seen, todo, swept, bounds, clean>>

\* writeFinalSnapshot: the editors, from the timeline when their hash has
\* expired; without either no snapshot is written.  Failures are logged.
SnapshotWritten ==
    LET p == topic[Sweeper]
        known == EditorsOf(p) # {} \/ timelineTTL[p] > 0
    IN  /\ sweep = "writing"
        /\ sweep' = "removing"
        /\ \/ Done /\ latest' = IF known THEN [latest EXCEPT ![p] = "final"] ELSE latest
           \/ Failed(p) /\ UNCHANGED latest
        /\ UNCHANGED <<counters, analyses, marker, active, handler, seen, todo, swept, bounds>>

\* SREM, whose error is ignored.
SweepRemoves ==
    LET p == topic[Sweeper] IN
    /\ sweep = "removing"
    /\ sweep' = "closing"
    /\ \/ Done /\ active' = active \ {p}
       \/ Failed(p) /\ UNCHANGED active
    /\ UNCHANGED <<counters, analyses, marker, latest, handler, seen, todo, swept, bounds>>

SweepEnds ==
    /\ sweep = "closing"
    /\ todo = {}
    /\ sweep' = "resting"
    /\ swept' = TRUE
    /\ seen' = {}
    /\ UNCHANGED <<analysisVars, counters, marker, active, latest, handler, todo, bounds, clean>>

Sweeping ==
    \/ SweepScans \/ SweepLists \/ (\E p \in Pages : SweepCloses(p))
    \/ SweepFinalizes \/ SnapshotWritten \/ SweepRemoves \/ SweepEnds

-----------------------------------------------------------------------------

\* Somebody opens a war's page of the dashboard, or a digest is prepared.
ReaderAsks(a, p) ==
    /\ latest[p] # "none" /\ ~ swept
    /\ Analyzes(a, p, "looking")
    /\ UNCHANGED warVars

Analyst(a) ==
    /\ AnalystStep(a)
    /\ UNCHANGED warVars

\* Five minutes have passed since the alert.
CooldownExpires ==
    /\ cooling # {} /\ detector = "idle"
    /\ cooling' = {}
    /\ UNCHANGED <<analysisVars, counters, marker, sweeper, latest, detector, inHand, bounds, clean>>

Left(n) == IF n = 0 THEN 0 ELSE n - 1
Passed(left) == [p \in Pages |-> Left(left[p])]

\* Ten minutes pass: keys expire, and a cached analysis that is kept for
\* hours may.  An analysis is given up after a minute at most.
Tick ==
    /\ detector = "idle" /\ sweep = "resting" /\ swept
    /\ \A a \in Analysts : task[a] = "free"
    /\ countersTTL' = Passed(countersTTL)
    /\ editors' = [p \in Pages |-> IF countersTTL[p] > 1 THEN editors[p] ELSE NoEdits]
    /\ changes' = [p \in Pages |-> IF countersTTL[p] > 1 THEN changes[p] ELSE <<>>]
    /\ timelineTTL' = Passed(timelineTTL)
    /\ marker' = Passed(marker)
    /\ \E gone \in SUBSET {p \in Pages : analysis[p] = "hours"} :
          analysis' = [p \in Pages |-> IF p \in gone THEN "no" ELSE analysis[p]]
    /\ cooling' = {}
    /\ swept' = FALSE
    /\ UNCHANGED <<task, topic, faults, active, latest, detector, inHand, sweep, seen, todo, bounds, clean>>

\* The processor's process ends at any point and is started again.
Restart ==
    /\ restarts < MaxRestarts
    /\ restarts' = restarts + 1
    /\ AnalystsForget(Slots \cup {Sweeper})
    /\ Goes("idle")
    /\ cooling' = {}
    /\ sweep' = "resting" /\ seen' = {} /\ todo' = {}
    /\ clean' = IF detector = "idle" THEN clean ELSE clean \ {Page}
    /\ UNCHANGED <<counters, marker, active, latest, swept, edits>>

Next ==
    \/ \E p \in Pages, kind \in EditKinds : EditArrives(p, kind)
    \/ Handling \/ Sweeping
    \/ \E a \in Readers, p \in Pages : ReaderAsks(a, p)
    \/ \E a \in Analysts : Analyst(a)
    \/ CooldownExpires \/ Tick \/ Restart

Spec == Init /\ [][Next]_vars

-----------------------------------------------------------------------------

TypeOK ==
    /\ analysis \in [Pages -> {"no", "hours", "days"}]
    /\ task \in [Analysts -> {"free", "clearing", "looking", "reading", "storing",
                              "done", "failed"}]
    /\ topic \in [Analysts -> Pages \cup {NoPage}]
    /\ faults \in 0..MaxFaults
    /\ editors \in [Pages -> [Users -> 0..MaxEdits]]
    /\ \A p \in Pages : Len(changes[p]) <= KeepChanges
    /\ countersTTL \in [Pages -> 0..LongTTL]
    /\ timelineTTL \in [Pages -> 0..LongTTL]
    /\ marker \in [Pages -> 0..MarkerTTL]
    /\ active \subseteq Pages
    /\ latest \in [Pages -> {"none", "war", "final"}]
    /\ detector \in {"idle", "looking", "tracking", "refreshing", "measuring",
                     "publishing", "marking", "extending", "analyzing", "reanalyzing"}
    /\ cooling \subseteq Pages
    /\ sweep \in {"resting", "listing", "closing", "finalizing", "writing", "removing"}
    /\ seen \subseteq Pages /\ todo \subseteq Pages
    /\ clean \subseteq Pages

\* While a page is marked as a war, the counters behind it last at least as
\* long, through gaps longer than the detection window, unless a call failed.
CountersOutliveMarker ==
    \A p \in Pages \cap clean :
       marker[p] > 0 /\ detector # "extending" => countersTTL[p] >= marker[p]

-----------------------------------------------------------------------------

Fairness ==
    /\ WF_vars(Handling)
    /\ WF_vars(Sweeping)
    /\ \A a \in Analysts : WF_vars(Analyst(a))
    /\ WF_vars(Tick)

FairSpec == Spec /\ Fairness

\* Every war that was published comes to an end with a final snapshot after its
\* last mark, wherever edits, sweeps and restarts fall and even when a sweep
\* closes a war just as it is declared anew, unless one of its calls failed.
WarsAreClosed ==
    \A p \in Pages :
       latest[p] = "war" ~> (latest[p] = "final" /\ marker[p] = 0) \/ p \notin clean

=============================================================================
