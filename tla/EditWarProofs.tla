---------------------------- MODULE EditWarProofs ----------------------------
(***************************************************************************)
(* Proofs about the detector of edit wars, for any pages, users, readers   *)
(* and analyses at a time, any thresholds and times to live, and any       *)
(* number of edits, failures and restarts.                                 *)
(***************************************************************************)
EXTENDS EditWar, TLAPS

Stages == {"looking", "tracking", "refreshing", "measuring", "publishing", "marking",
           "extending", "analyzing", "reanalyzing"}

\* The stages at which the edit in hand has been counted in Redis, and its
\* counters have had no other time to live.
CountedStages == {"refreshing", "measuring", "publishing", "marking", "extending"}

-----------------------------------------------------------------------------
(* The parts of the state, by who changes them.                            *)

\* The analyses.
TasksOK ==
    /\ analysis \in [Pages -> {"no", "hours", "days"}]
    /\ task \in [Analysts -> {"free", "clearing", "looking", "reading", "storing", "done", "failed"}]
    /\ topic \in [Analysts -> Pages \cup {NoPage}]

\* The edit in hand.
HandOK ==
    /\ detector \in Stages \cup {"idle"}
    /\ detector # "idle" => inHand \in Pages \X Users \X Int \X (0..LongTTL)
    /\ detector \notin {"idle", "looking"} => inHand[4] >= 1
    /\ cooling \subseteq Pages

\* The counters: an edit is counted at most once.
CountersOK ==
    /\ edits \in 0..MaxEdits
    /\ editors \in [Pages -> [Users -> Nat]]
    /\ \A p \in Pages, u \in Users :
          editors[p][u] + (IF detector \in {"looking", "tracking"} THEN 1 ELSE 0) <= edits
    /\ changes \in [Pages -> Seq(Int)]
    /\ \A p \in Pages : Len(changes[p]) <= KeepChanges

TimesOK ==
    /\ countersTTL \in [Pages -> 0..LongTTL]
    /\ timelineTTL \in [Pages -> 0..LongTTL]
    /\ marker \in [Pages -> 0..MarkerTTL]

\* The sweeper, and what is published.
SweepOK ==
    /\ active \subseteq Pages
    /\ latest \in [Pages -> {"none", "war", "final"}]
    /\ sweep \in {"resting", "listing", "closing", "finalizing", "writing", "removing"}
    /\ seen \subseteq Pages /\ todo \subseteq Pages

TypeInv == TasksOK /\ HandOK /\ CountersOK /\ TimesOK /\ SweepOK
           /\ clean \subseteq Pages /\ faults \in 0..MaxFaults

LEMMA Constants ==
    /\ MaxEdits \in Nat /\ MaxFaults \in Nat
    /\ KeepChanges \in Nat /\ KeepChanges >= 1
    /\ LongTTL \in Nat /\ MarkerTTL \in Nat /\ 2 <= MarkerTTL /\ MarkerTTL <= LongTTL
    /\ TimeWindow = 1
    /\ NoPage \notin Pages /\ Sweeper \in Analysts
  BY WarAssumption, AnalysisAssumption DEF TimeWindow, Analysts

-----------------------------------------------------------------------------
(* Who changes what.                                                       *)

LEMMA TypesStart == Init => TypeInv
  <1> SUFFICES ASSUME Init PROVE TypeInv
    OBVIOUS
  <1> USE Constants DEF Init
  <1>1. TasksOK /\ faults \in 0..MaxFaults
    BY DEF AnalysisInit, TasksOK
  <1>2. HandOK
    BY DEF HandOK
  <1>3. ASSUME NEW p \in Pages PROVE Len(changes[p]) <= KeepChanges
    BY DEF CountersOK
  <1>4. CountersOK
    BY <1>3 DEF CountersOK, NoEdits
  <1>5. TimesOK /\ SweepOK
    BY DEF AnalysisInit, TimesOK, SweepOK
  <1> QED  BY <1>1, <1>2, <1>4, <1>5 DEF TypeInv

\* What analysts do.
LEMMA AnalystTypes ==
    ASSUME TasksOK, NEW a \in Analysts, AnalystStep(a)
    PROVE  TasksOK' /\ UNCHANGED timelineTTL /\ (Works \/ Fails)
  <1>1. /\ UNCHANGED analysis \/ \E kept \in {"no", "hours"} : Kept(a, kept)
        /\ UNCHANGED timelineTTL /\ (Works \/ Fails)
        /\ \E next \in {"free", "looking", "reading", "storing", "done", "failed"} : Turns(a, next)
    BY DEF AnalystStep, CacheCleared, CacheLooked, TimelineRead, AnalysisStored, Returns
  <1>2. analysis' \in [Pages -> {"no", "hours", "days"}]
    BY <1>1 DEF TasksOK, Kept
  <1>3. /\ task' \in [Analysts -> {"free", "clearing", "looking", "reading", "storing", "done", "failed"}]
        /\ topic' \in [Analysts -> Pages \cup {NoPage}]
    BY <1>1 DEF TasksOK, Turns
  <1> QED  BY <1>1, <1>2, <1>3 DEF TasksOK

LEMMA CallsTypes ==
    ASSUME TasksOK, NEW a \in Analysts, NEW p \in Pages, NEW first \in {"clearing", "looking"},
           Analyzes(a, p, first)
    PROVE  TasksOK' /\ UNCHANGED <<timelineTTL, faults>>
  BY DEF Analyzes, TasksOK

\* One call fails at a time; a page's war is clean again only when declared.
LEMMA Outcomes ==
    ASSUME NEW p, Done \/ Failed(p), clean \subseteq Pages, faults \in 0..MaxFaults
    PROVE  clean' \subseteq clean /\ faults' \in 0..MaxFaults
  BY Constants DEF Done, Failed, Works, Fails

\* The edit in hand goes from stage to stage.
LEMMA HandMoves ==
    ASSUME HandOK, NEW next \in Stages \cup {"idle"}, Goes(next), cooling' \subseteq Pages,
           detector \notin {"idle", "looking"}
    PROVE  HandOK'
  BY DEF HandOK, Goes

LEMMA HandTimed ==
    ASSUME NEW h \in Pages \X Users \X Int \X (0..LongTTL), NEW time \in 1..LongTTL
    PROVE  /\ [h EXCEPT ![4] = time] \in Pages \X Users \X Int \X (0..LongTTL)
           /\ [h EXCEPT ![4] = time][4] = time
           /\ [h EXCEPT ![4] = time][1] = h[1]
           /\ h[1] \in Pages /\ h[2] \in Users /\ h[3] \in Int /\ h[4] \in 0..LongTTL
  BY Constants

LEMMA TasksRest == TasksOK /\ UNCHANGED analyses => TasksOK'
  BY DEF TasksOK, analyses

LEMMA CountersRest ==
    ASSUME CountersOK, UNCHANGED <<editors, changes, edits>>,
           detector' \in {"looking", "tracking"} => detector \in {"looking", "tracking"}
    PROVE  CountersOK'
  BY Constants DEF CountersOK

LEMMA TimesRest == TimesOK /\ UNCHANGED <<countersTTL, timelineTTL, marker>> => TimesOK'
  BY DEF TimesOK

LEMMA SweepRest == SweepOK /\ UNCHANGED <<sweeper, latest>> => SweepOK'
  BY DEF SweepOK, sweeper

LEMMA HandRest == HandOK /\ UNCHANGED handler => HandOK'
  BY DEF HandOK, handler

-----------------------------------------------------------------------------
(* The handler of an edit.                                                 *)

LEMMA ArrivesTypes ==
    ASSUME TypeInv, NEW p \in Pages, NEW kind \in EditKinds, EditArrives(p, kind)
    PROVE  TypeInv'
  <1> USE DEF TypeInv
  <1>1. kind[1] \in Users /\ kind[2] \in Int
    BY WarAssumption
  <1>2. HandOK'
    BY <1>1, Constants DEF EditArrives, HandOK, Stages
  <1>3. CountersOK'
    <2>1. /\ UNCHANGED <<editors, changes>> /\ edits' = edits + 1 /\ edits < MaxEdits
          /\ detector = "idle"
      BY DEF EditArrives, counters
    <2>2. ASSUME NEW q \in Pages, NEW u \in Users PROVE editors[q][u] \in Nat /\ editors[q][u] <= edits
      BY <2>1 DEF CountersOK
    <2> QED  BY <2>1, <2>2, Constants DEF CountersOK
  <1>4. UNCHANGED <<analyses, countersTTL, timelineTTL, marker, sweeper, latest, clean, faults>>
    BY DEF EditArrives, analysisVars, analyses, counters
  <1> QED  BY <1>2, <1>3, <1>4, TasksRest, TimesRest, SweepRest

LEMMA LookedTypes == ASSUME TypeInv, MarkerLooked PROVE TypeInv'
  <1> USE DEF TypeInv
  <1>1. PICK time \in 1..LongTTL : inHand' = [inHand EXCEPT ![4] = time]
    BY Constants DEF MarkerLooked, Chosen
  <1>2. HandOK'
    <2>1. inHand \in Pages \X Users \X Int \X (0..LongTTL)
      BY DEF MarkerLooked, HandOK
    <2>2. inHand' \in Pages \X Users \X Int \X (0..LongTTL) /\ inHand'[4] = time
      BY <1>1, <2>1, HandTimed
    <2> QED  BY <2>2 DEF MarkerLooked, HandOK, Stages
  <1>3. CountersOK'
    BY CountersRest DEF MarkerLooked, counters, bounds
  <1>4. UNCHANGED <<analyses, countersTTL, timelineTTL, marker, sweeper, latest>>
    BY DEF MarkerLooked, counters
  <1>5. clean' \subseteq clean /\ faults' \in 0..MaxFaults
    BY Outcomes DEF MarkerLooked
  <1> QED  BY <1>2, <1>3, <1>4, <1>5, TasksRest, TimesRest, SweepRest

\* The pipeline counts one edit of one user, and drops the oldest change when
\* there are too many.
LEMMA TrackedCounts ==
    ASSUME TypeInv, detector = "tracking", Tracked, detector' \in {"refreshing", "idle"},
           UNCHANGED <<edits, marker>>
    PROVE  CountersOK' /\ TimesOK'
  <1> USE DEF TypeInv
  <1>1. Page \in Pages /\ User \in Users /\ Bytes \in Int /\ inHand[4] \in 0..LongTTL
    BY DEF HandOK, Page, User, Bytes
  <1>2. TimesOK'
    BY <1>1, Constants DEF Tracked, TimesOK
  <1>3. editors' \in [Pages -> [Users -> Nat]]
    BY <1>1 DEF Tracked, CountersOK
  <1>4. ASSUME NEW p \in Pages, NEW u \in Users
        PROVE  editors'[p][u] + (IF detector' \in {"looking", "tracking"} THEN 1 ELSE 0) <= edits'
    <2>1. editors[p][u] \in Nat /\ editors[p][u] + 1 <= edits /\ edits \in Nat
      BY Constants DEF CountersOK
    <2>2. editors'[p][u] \in {editors[p][u], editors[p][u] + 1}
      BY <1>1 DEF Tracked, CountersOK
    <2> QED  BY <2>1, <2>2
  <1>5. ASSUME NEW p \in Pages
        PROVE  changes'[p] \in Seq(Int) /\ Len(changes'[p]) <= KeepChanges
    <2> DEFINE all == Append(changes[Page], Bytes)
    <2>1. changes[p] \in Seq(Int) /\ Len(changes[p]) <= KeepChanges
      BY DEF CountersOK
    <2>2. CASE p = Page
      <3>1. all \in Seq(Int) /\ Len(all) = Len(changes[p]) + 1
        BY <1>1, <2>1, <2>2
      <3>2. changes'[p] = IF Len(all) > KeepChanges THEN Tail(all) ELSE all
        BY <1>1, <2>2 DEF Tracked, CountersOK
      <3> HIDE DEF all
      <3>3. Len(all) > KeepChanges => Tail(all) \in Seq(Int) /\ Len(Tail(all)) = Len(all) - 1
        BY <3>1, Constants
      <3> QED  BY <2>1, <3>1, <3>2, <3>3, Constants
    <2>3. CASE p # Page
      BY <2>1, <2>3 DEF Tracked, CountersOK
    <2> QED  BY <2>2, <2>3
  <1>6. DOMAIN changes' = Pages
    BY DEF Tracked, CountersOK
  <1> QED  BY <1>2, <1>3, <1>4, <1>5, <1>6 DEF CountersOK, Tracked

LEMMA TrackTypes == ASSUME TypeInv, EditTracked PROVE TypeInv'
  <1> USE DEF TypeInv
  <1>1. /\ UNCHANGED <<analyses, marker, sweeper, latest, cooling, edits>> /\ detector = "tracking"
        /\ Goes("refreshing") \/ Goes("idle")
        /\ Tracked \/ UNCHANGED counters
        /\ Done \/ Failed(Page)
    BY DEF EditTracked, bounds
  <1>2. HandOK'
    BY <1>1, HandMoves DEF HandOK, Stages
  <1>3. detector' \in {"refreshing", "idle"}
    BY <1>1 DEF Goes
  <1>4. CountersOK' /\ TimesOK'
    <2>1. CASE Tracked
      BY <1>1, <1>3, <2>1, TrackedCounts
    <2>2. CASE UNCHANGED counters
      BY <1>1, <1>3, <2>2, CountersRest, TimesRest DEF counters
    <2> QED  BY <1>1, <2>1, <2>2
  <1>5. clean' \subseteq clean /\ faults' \in 0..MaxFaults
    BY <1>1, Outcomes
  <1> QED  BY <1>1, <1>2, <1>4, <1>5, TasksRest, SweepRest

LEMMA LaterTypes ==
    ASSUME TypeInv, MarkerRefreshed \/ Measured \/ Published \/ Marked \/ Extended
    PROVE  TypeInv'
  <1> USE DEF TypeInv
  <1>1. detector \in CountedStages
    BY DEF MarkerRefreshed, Measured, Published, Marked, Extended, CountedStages
  <1>2. Page \in Pages
    BY <1>1 DEF HandOK, Page, CountedStages
  <1>3. HandOK'
    <2>1. PICK next \in {"idle", "measuring", "reanalyzing", "publishing", "marking", "extending",
                         "analyzing"} : Goes(next)
      BY DEF MarkerRefreshed, Measured, Published, Marked, Extended
    <2>2. cooling' \subseteq Pages
      BY <1>2 DEF MarkerRefreshed, Measured, Published, Marked, Extended, HandOK
    <2> QED  BY <1>1, <2>1, <2>2, HandMoves DEF HandOK, Stages, CountedStages
  <1>4. CountersOK'
    <2>1. detector' \notin {"looking", "tracking"} /\ UNCHANGED <<editors, changes, edits>>
      BY DEF MarkerRefreshed, Measured, Published, Marked, Extended, Goes, counters, bounds
    <2> QED  BY <2>1, CountersRest
  <1>5. TimesOK'
    <2>1. UNCHANGED timelineTTL \/ timelineTTL' = Renewed(timelineTTL)
      BY DEF MarkerRefreshed, Measured, Published, Marked, Extended, counters
    <2>2. UNCHANGED countersTTL \/ countersTTL' = Renewed(countersTTL)
      BY DEF MarkerRefreshed, Measured, Published, Marked, Extended, counters
    <2>3. \/ UNCHANGED marker
          \/ marker' = [marker EXCEPT ![Page] = IF @ > 0 THEN MarkerTTL ELSE 0]
          \/ marker' = [marker EXCEPT ![Page] = MarkerTTL]
      BY DEF MarkerRefreshed, Measured, Published, Marked, Extended
    <2>4. timelineTTL' \in [Pages -> 0..LongTTL] /\ countersTTL' \in [Pages -> 0..LongTTL]
      BY <2>1, <2>2, Constants DEF TimesOK, Renewed
    <2>5. marker' \in [Pages -> 0..MarkerTTL]
      BY <2>3, Constants DEF TimesOK
    <2> QED  BY <2>4, <2>5 DEF TimesOK
  <1>6. UNCHANGED <<analyses, sweeper>>
    BY DEF MarkerRefreshed, Measured, Published, Marked, Extended
  <1>7. SweepOK'
    BY <1>6 DEF MarkerRefreshed, Measured, Published, Marked, Extended, SweepOK, sweeper
  <1>8. clean' \subseteq Pages /\ faults' \in 0..MaxFaults
    BY <1>2, Constants DEF MarkerRefreshed, Measured, Published, Marked, Extended, Done, Failed, Works, Fails
  <1> QED  BY <1>3, <1>4, <1>5, <1>6, <1>7, <1>8, TasksRest

LEMMA StartedTypes == ASSUME TypeInv, AnalysisStarted PROVE TypeInv'
  <1> USE DEF TypeInv
  <1>1. /\ detector \in {"analyzing", "reanalyzing"} /\ Goes("idle")
        /\ UNCHANGED <<counters, marker, sweeper, latest, cooling, bounds, clean>>
    BY DEF AnalysisStarted
  <1>2. Page \in Pages
    BY <1>1 DEF HandOK, Page
  <1>3. TasksOK' /\ UNCHANGED faults
    <2>1. CASE \E a \in Slots : Analyzes(a, Page, IF detector = "analyzing" THEN "looking" ELSE "clearing")
      BY <1>2, <2>1, CallsTypes DEF Analysts
    <2>2. CASE UNCHANGED analysisVars
      BY <2>2, TasksRest DEF analysisVars, analyses
    <2> QED  BY <2>1, <2>2 DEF AnalysisStarted
  <1>4. HandOK'
    BY <1>1, HandMoves DEF HandOK
  <1>5. CountersOK' /\ TimesOK'
    BY <1>1, CountersRest, TimesRest DEF counters, bounds, Goes
  <1> QED  BY <1>1, <1>3, <1>4, <1>5, SweepRest

-----------------------------------------------------------------------------
(* The sweeper, the analysts, time and restarts.                           *)

\* What a sweep leaves alone.
LEMMA SweepFrame ==
    Sweeping => UNCHANGED <<editors, changes, countersTTL, timelineTTL, marker, handler, bounds>>
  BY DEF Sweeping, SweepScans, SweepLists, SweepCloses, SweepFinalizes, SnapshotWritten, SweepRemoves,
         SweepEnds, counters, analysisVars, analyses, Analyzes, AnalysisFinalized

LEMMA SweepTypes == ASSUME TypeInv, Sweeping PROVE TypeInv' /\ clean' \subseteq clean
  <1> USE DEF TypeInv
  <1>1. UNCHANGED <<editors, changes, countersTTL, timelineTTL, marker, handler, bounds>>
    BY SweepFrame
  <1>2. HandOK' /\ CountersOK' /\ TimesOK'
    BY <1>1, HandRest, CountersRest, TimesRest DEF handler, bounds
  <1>3. TasksOK'
    <2>1. CASE UNCHANGED analyses
      BY <2>1, TasksRest
    <2>2. ASSUME NEW p \in Pages, SweepCloses(p) PROVE TasksOK'
      BY <2>2, CallsTypes, Constants DEF SweepCloses
    <2>3. CASE AnalysisFinalized
      BY <2>3, Constants DEF AnalysisFinalized, Kept, TasksOK
    <2> QED  BY <2>1, <2>2, <2>3
             DEF Sweeping, SweepScans, SweepLists, SweepFinalizes, SnapshotWritten, SweepRemoves,
                 SweepEnds, analysisVars, analyses
  <1>4. SweepOK'
    <2>1. CASE SweepScans
      BY <2>1 DEF SweepScans, SweepOK, WarPages
    <2>2. CASE SweepLists
      BY <2>2 DEF SweepLists, SweepOK
    <2>3. CASE (\E p \in Pages : SweepCloses(p)) \/ SweepFinalizes \/ SweepEnds
      BY <2>3 DEF SweepCloses, SweepFinalizes, SweepEnds, SweepOK
    <2>4. CASE SnapshotWritten \/ SweepRemoves
      BY <2>4 DEF SnapshotWritten, SweepRemoves, SweepOK
    <2> QED  BY <2>1, <2>2, <2>3, <2>4 DEF Sweeping
  <1>5. clean' \subseteq clean
    BY DEF Sweeping, SweepScans, SweepLists, SweepCloses, SweepFinalizes, SnapshotWritten, SweepRemoves,
           SweepEnds, Done, Failed
  <1>6. faults' \in 0..MaxFaults
    BY Constants
    DEF Sweeping, SweepScans, SweepLists, SweepCloses, SweepFinalizes, SnapshotWritten, SweepRemoves,
        SweepEnds, Analyzes, AnalysisFinalized, analysisVars, Done, Failed, Works, Fails
  <1> QED  BY <1>2, <1>3, <1>4, <1>5, <1>6

LEMMA AskedTypes ==
    ASSUME TypeInv,
           \/ \E a \in Readers, p \in Pages : ReaderAsks(a, p)
           \/ \E a \in Analysts : Analyst(a)
    PROVE  TypeInv' /\ UNCHANGED warVars
  <1> USE DEF TypeInv
  <1>1. TasksOK' /\ UNCHANGED <<timelineTTL, warVars>> /\ faults' \in 0..MaxFaults
    <2>1. ASSUME NEW a \in Readers, NEW p \in Pages, ReaderAsks(a, p)
          PROVE  TasksOK' /\ UNCHANGED <<timelineTTL, warVars>> /\ faults' \in 0..MaxFaults
      BY <2>1, CallsTypes DEF ReaderAsks, Analysts
    <2>2. ASSUME NEW a \in Analysts, Analyst(a)
          PROVE  TasksOK' /\ UNCHANGED <<timelineTTL, warVars>> /\ faults' \in 0..MaxFaults
      <3>1. TasksOK' /\ UNCHANGED timelineTTL /\ (Works \/ Fails)
        BY <2>2, AnalystTypes DEF Analyst
      <3> QED  BY <2>2, <3>1, Constants DEF Analyst, Works, Fails
    <2> QED  BY <2>1, <2>2
  <1>2. HandOK' /\ CountersOK' /\ TimesOK' /\ SweepOK' /\ UNCHANGED clean
    BY <1>1, HandRest, CountersRest, TimesRest, SweepRest DEF warVars, handler, bounds
  <1> QED  BY <1>1, <1>2

LEMMA TickTypes == ASSUME TypeInv, Tick PROVE TypeInv'
  <1> USE DEF TypeInv
  <1>1. TasksOK' /\ faults' = faults
    BY DEF Tick, TasksOK
  <1>2. HandOK'
    BY DEF Tick, HandOK
  <1>3. TimesOK'
    <2>1. \A n \in 0..LongTTL : Left(n) \in 0..LongTTL
      BY Constants DEF Left
    <2>2. \A n \in 0..MarkerTTL : Left(n) \in 0..MarkerTTL
      BY Constants DEF Left
    <2> QED  BY <2>1, <2>2 DEF Tick, Passed, TimesOK
  <1>4. CountersOK'
    <2>1. /\ editors' = [p \in Pages |-> IF countersTTL[p] > 1 THEN editors[p] ELSE NoEdits]
          /\ changes' = [p \in Pages |-> IF countersTTL[p] > 1 THEN changes[p] ELSE <<>>]
          /\ UNCHANGED <<edits, detector>> /\ detector = "idle"
      BY DEF Tick, bounds
    <2>2. editors' \in [Pages -> [Users -> Nat]]
      BY <2>1 DEF CountersOK, NoEdits
    <2>3. ASSUME NEW p \in Pages, NEW u \in Users PROVE editors'[p][u] <= edits
      <3>1. editors[p][u] <= edits /\ 0 <= edits
        BY <2>1, Constants DEF CountersOK
      <3>2. editors'[p][u] \in {editors[p][u], 0}
        BY <2>1 DEF NoEdits
      <3> QED  BY <3>1, <3>2
    <2>4. ASSUME NEW p \in Pages PROVE changes'[p] \in Seq(Int) /\ Len(changes'[p]) <= KeepChanges
      <3>1. CASE countersTTL[p] > 1
        BY <2>1, <3>1 DEF CountersOK
      <3>2. CASE ~ (countersTTL[p] > 1)
        <4>1. changes'[p] = <<>>
          BY <2>1, <3>2
        <4> QED  BY <4>1, Constants
      <3> QED  BY <3>1, <3>2
    <2>5. changes' \in [Pages -> Seq(Int)]
      BY <2>1, <2>4
    <2>6. \A p \in Pages, u \in Users :
             editors'[p][u] + (IF detector' \in {"looking", "tracking"} THEN 1 ELSE 0) <= edits'
      BY <2>1, <2>2, <2>3
    <2> QED  BY <2>1, <2>2, <2>4, <2>5, <2>6 DEF CountersOK
  <1>5. SweepOK'
    BY DEF Tick, SweepOK
  <1> QED  BY <1>1, <1>2, <1>3, <1>4, <1>5 DEF Tick

LEMMA RestartTypes == ASSUME TypeInv, Restart PROVE TypeInv'
  <1> USE DEF TypeInv
  <1>1. TasksOK' /\ UNCHANGED <<timelineTTL, faults>>
    BY DEF Restart, AnalystsForget, TasksOK
  <1>2. HandOK'
    BY DEF Restart, Goes, HandOK
  <1>3. CountersOK' /\ TimesOK'
    BY <1>1, CountersRest, TimesRest DEF Restart, Goes, counters
  <1>4. SweepOK' /\ clean' \subseteq clean
    BY DEF Restart, SweepOK
  <1> QED  BY <1>1, <1>2, <1>3, <1>4

LEMMA TypesStep == TypeInv /\ [Next]_vars => TypeInv'
  <1> SUFFICES ASSUME TypeInv, [Next]_vars PROVE TypeInv'
    OBVIOUS
  <1>1. CASE Handling
    BY <1>1, LookedTypes, TrackTypes, LaterTypes, StartedTypes DEF Handling
  <1>2. CASE UNCHANGED vars \/ CooldownExpires
    <2>1. /\ UNCHANGED <<analyses, counters, marker, sweeper, latest, detector, inHand, bounds, clean, faults>>
          /\ cooling' \in {cooling, {}}
      BY <1>2 DEF vars, warVars, handler, sweeper, counters, analysisVars, analyses, bounds, CooldownExpires
    <2>2. HandOK'
      BY <2>1 DEF TypeInv, HandOK
    <2>3. CountersOK' /\ TimesOK'
      BY <2>1, CountersRest, TimesRest DEF TypeInv, counters, bounds
    <2> QED  BY <2>1, <2>2, <2>3, TasksRest, SweepRest DEF TypeInv
  <1>3. CASE Next /\ ~ Handling /\ ~ CooldownExpires
    BY <1>3, ArrivesTypes, SweepTypes, AskedTypes, TickTypes, RestartTypes DEF Next
  <1> QED  BY <1>1, <1>2, <1>3

LEMMA TypesHold == TypeInv => TypeOK
  <1> SUFFICES ASSUME TypeInv PROVE TypeOK
    OBVIOUS
  <1> USE DEF TypeInv
  <1>1. ASSUME NEW p \in Pages, NEW u \in Users PROVE editors[p][u] \in 0..MaxEdits
    BY Constants DEF CountersOK
  <1>2. editors \in [Pages -> [Users -> 0..MaxEdits]]
    BY <1>1 DEF CountersOK
  <1> QED  BY <1>2 DEF TasksOK, HandOK, CountersOK, TimesOK, SweepOK, Stages, TypeOK

\* What the detector keeps of a page is bounded: its list of changes by
\* KeepChanges, its times to live by 12 hours and 30 minutes, and an edit is
\* counted once, whatever fails and wherever restarts and expiries fall.
THEOREM WarTyped == Spec => []TypeOK
  BY TypesStart, TypesStep, TypesHold, PTL DEF Spec

-----------------------------------------------------------------------------
(* The counters outlive the marker.                                        *)

Outlived(p) == marker[p] > 0 => countersTTL[p] >= marker[p]

\* The detector gives the counters of a marked page the longer time, which is
\* still theirs when it renews the marker.  Between marking a page and
\* renewing its counters they may have the time of the detection window.
OutliveInv ==
    /\ \A p \in Pages \cap clean : ~ (detector = "extending" /\ p = Page) => Outlived(p)
    /\ detector \in CountedStages => countersTTL[Page] = inHand[4]
    /\ detector \in {"tracking", "refreshing"} /\ Page \in clean /\ marker[Page] > 0 =>
          inHand[4] = LongTTL

LEMMA OutliveStart == Init => OutliveInv
  BY DEF Init, OutliveInv, Outlived, CountedStages

\* A step that leaves times, marker and handler alone and fails, or not.
LEMMA OutliveRest ==
    ASSUME OutliveInv, UNCHANGED <<countersTTL, marker, detector, inHand>>, clean' \subseteq clean
    PROVE  OutliveInv'
  BY DEF OutliveInv, Outlived, Page

\* The handler moves on and leaves times and marker alone.
LEMMA OutliveMoves ==
    ASSUME OutliveInv, UNCHANGED <<countersTTL, marker>>, clean' \subseteq clean,
           detector # "extending",
           detector' \notin {"tracking", "refreshing", "extending"},
           detector' \in CountedStages => detector \in CountedStages /\ inHand' = inHand
    PROVE  OutliveInv'
  BY DEF OutliveInv, Outlived, Page

LEMMA LookedOutlives == ASSUME TypeInv, OutliveInv, MarkerLooked PROVE OutliveInv'
  <1>1. PICK time \in 1..LongTTL :
           /\ inHand' = [inHand EXCEPT ![4] = time]
           /\ Page \in clean' /\ marker[Page] > 0 => time = LongTTL
    BY Constants DEF MarkerLooked, Chosen, Done, Failed
  <1>2. /\ detector' = "tracking" /\ UNCHANGED <<countersTTL, marker>> /\ detector = "looking"
        /\ clean' \subseteq clean
    BY DEF MarkerLooked, counters, Done, Failed
  <1>3. inHand'[4] = time /\ inHand'[1] = inHand[1]
    <2>1. inHand \in Pages \X Users \X Int \X (0..LongTTL)
      BY <1>2 DEF TypeInv, HandOK
    <2> QED  BY <1>1, <2>1, HandTimed
  <1> QED  BY <1>1, <1>2, <1>3 DEF OutliveInv, Outlived, Page, CountedStages

LEMMA TrackOutlives == ASSUME TypeInv, OutliveInv, EditTracked PROVE OutliveInv'
  <1>1. Page \in Pages /\ inHand[4] \in 0..LongTTL /\ inHand[4] >= 1 /\ detector = "tracking"
    BY DEF EditTracked, TypeInv, HandOK, Page
  <1>2. UNCHANGED marker /\ clean' \subseteq clean
    BY DEF EditTracked, Done, Failed
  <1>3. CASE Failed(Page) /\ Goes("idle")
    <2>1. detector' = "idle" /\ clean' = clean \ {Page}
      BY <1>3 DEF Goes, Failed
    <2>2. \A p \in Pages \ {Page} : countersTTL'[p] = countersTTL[p]
      BY <1>1 DEF EditTracked, Tracked, counters, TypeInv, TimesOK
    <2> QED  BY <1>1, <1>2, <2>1, <2>2 DEF OutliveInv, Outlived, CountedStages
  <1>4. CASE Done /\ Tracked /\ Goes("refreshing")
    <2>1. /\ detector' = "refreshing" /\ inHand' = inHand /\ clean' = clean
          /\ countersTTL' = [countersTTL EXCEPT ![Page] = inHand[4]]
      BY <1>4 DEF Goes, Done, Tracked
    <2>2. countersTTL'[Page] = inHand[4] /\ \A p \in Pages \ {Page} : countersTTL'[p] = countersTTL[p]
      BY <1>1, <2>1 DEF TypeInv, TimesOK
    <2>3. Page \in clean /\ marker[Page] > 0 => inHand[4] = LongTTL
      BY <1>1 DEF OutliveInv
    <2>4. \A p \in Pages : marker[p] \in 0..MarkerTTL
      BY DEF TypeInv, TimesOK
    <2>5. \A p \in Pages \cap clean : marker[p] > 0 => countersTTL'[p] >= marker[p]
      BY <1>1, <2>2, <2>3, <2>4, Constants DEF OutliveInv, Outlived
    <2>6. Page' = Page
      BY <2>1 DEF Page
    <2> QED  BY <1>2, <2>1, <2>2, <2>3, <2>5, <2>6 DEF OutliveInv, Outlived, CountedStages
  <1> QED  BY <1>3, <1>4 DEF EditTracked

LEMMA RefreshedOutlives == ASSUME TypeInv, OutliveInv, MarkerRefreshed PROVE OutliveInv'
  <1>1. /\ detector = "refreshing" /\ detector' = "measuring" /\ inHand' = inHand
        /\ UNCHANGED countersTTL /\ clean' \subseteq clean
    BY DEF MarkerRefreshed, Goes, counters, Done, Failed
  <1>2. Page \in Pages /\ countersTTL[Page] = inHand[4] /\ Page' = Page
    BY <1>1 DEF TypeInv, HandOK, OutliveInv, CountedStages, Page
  <1>3. CASE UNCHANGED marker
    BY <1>1, <1>3, OutliveMoves DEF CountedStages
  <1>4. CASE Done /\ marker' = [marker EXCEPT ![Page] = IF @ > 0 THEN MarkerTTL ELSE 0]
    <2>1. /\ marker'[Page] = (IF marker[Page] > 0 THEN MarkerTTL ELSE 0) /\ clean' = clean
          /\ \A p \in Pages \ {Page} : marker'[p] = marker[p]
      BY <1>2, <1>4 DEF TypeInv, TimesOK, Done
    <2>2. Page \in clean /\ marker[Page] > 0 => inHand[4] = LongTTL
      BY <1>1 DEF OutliveInv
    <2>3. \A p \in Pages \cap clean : marker'[p] > 0 => countersTTL[p] >= marker'[p]
      BY <1>1, <1>2, <2>1, <2>2, Constants DEF OutliveInv, Outlived
    <2> QED  BY <1>1, <1>2, <2>1, <2>3 DEF OutliveInv, Outlived, CountedStages
  <1> QED  BY <1>3, <1>4 DEF MarkerRefreshed

\* A war is clean again only when it is declared without a marker.
LEMMA PublishedOutlives == ASSUME TypeInv, OutliveInv, Published PROVE OutliveInv'
  <1>1. /\ detector = "publishing" /\ UNCHANGED <<countersTTL, marker>>
        /\ \/ detector' = "marking" /\ inHand' = inHand
           \/ detector' = "idle"
    BY DEF Published, Goes, counters
  <1>2. \A p \in clean' : p \in clean \/ (p = Page /\ marker[Page] = 0)
    <2>1. \/ clean' = IF marker[Page] = 0 THEN clean \cup {Page} ELSE clean
          \/ clean' = clean \ {Page}
      BY DEF Published, Failed
    <2> QED  BY <2>1
  <1> QED  BY <1>1, <1>2 DEF OutliveInv, Outlived, CountedStages, Page

LEMMA MarkedOutlives == ASSUME TypeInv, OutliveInv, Marked PROVE OutliveInv'
  <1>1. /\ detector = "marking" /\ detector' = "extending" /\ inHand' = inHand
        /\ UNCHANGED countersTTL /\ clean' \subseteq clean
        /\ UNCHANGED marker \/ marker' = [marker EXCEPT ![Page] = MarkerTTL]
    BY DEF Marked, Goes, counters, Done, Failed
  <1>2. Page' = Page /\ countersTTL[Page] = inHand[4]
    BY <1>1 DEF OutliveInv, CountedStages, Page
  <1>3. \A p \in Pages \ {Page} : marker'[p] = marker[p]
    BY <1>1 DEF TypeInv, TimesOK
  <1> QED  BY <1>1, <1>2, <1>3 DEF OutliveInv, Outlived

LEMMA ExtendedOutlives == ASSUME TypeInv, OutliveInv, Extended PROVE OutliveInv'
  <1>1. /\ detector = "extending" /\ detector' = "analyzing" /\ inHand' = inHand /\ UNCHANGED marker
        /\ \/ clean' = clean /\ countersTTL' = Renewed(countersTTL)
           \/ clean' = clean \ {Page} /\ countersTTL' \in {countersTTL, Renewed(countersTTL)}
    BY DEF Extended, Goes, Done, Failed
  <1>2. /\ Page \in Pages /\ countersTTL[Page] = inHand[4] /\ inHand[4] >= 1
        /\ countersTTL[Page] \in 0..LongTTL
    BY <1>1 DEF TypeInv, HandOK, TimesOK, OutliveInv, CountedStages, Page
  <1>3. \A p \in Pages \ {Page} : countersTTL'[p] = countersTTL[p]
    BY <1>1 DEF Renewed, TypeInv, TimesOK
  <1>4. Page \in clean' => countersTTL'[Page] = LongTTL
    BY <1>1, <1>2, Constants DEF Renewed, TypeInv, TimesOK
  <1>5. marker'[Page] \in 0..MarkerTTL
    BY <1>1, <1>2 DEF TypeInv, TimesOK
  <1>6. ASSUME NEW p \in Pages \cap clean', marker'[p] > 0 PROVE countersTTL'[p] >= marker'[p]
    <2>1. CASE p = Page
      BY <1>4, <1>5, <2>1, Constants
    <2>2. CASE p # Page
      BY <1>1, <1>3, <1>6, <2>2 DEF OutliveInv, Outlived
    <2> QED  BY <2>1, <2>2
  <1> QED  BY <1>1, <1>6 DEF OutliveInv, Outlived, CountedStages

LEMMA TickOutlives == ASSUME TypeInv, OutliveInv, Tick PROVE OutliveInv'
  <1>1. /\ detector = "idle" /\ UNCHANGED <<detector, inHand, clean>>
        /\ countersTTL' = Passed(countersTTL) /\ marker' = Passed(marker)
    BY DEF Tick
  <1>2. ASSUME NEW p \in Pages \cap clean, marker'[p] > 0 PROVE countersTTL'[p] >= marker'[p]
    <2>1. marker[p] \in Nat /\ countersTTL[p] \in Nat
      BY Constants DEF TypeInv, TimesOK
    <2>2. marker'[p] = Left(marker[p]) /\ countersTTL'[p] = Left(countersTTL[p])
      BY <1>1 DEF Passed
    <2>3. marker[p] > 0 => countersTTL[p] >= marker[p]
      BY <1>1 DEF OutliveInv, Outlived
    <2> QED  BY <1>2, <2>1, <2>2, <2>3 DEF Left
  <1> QED  BY <1>1, <1>2 DEF OutliveInv, Outlived, CountedStages

\* A restart gives up the edit in hand, and its war with it.
LEMMA RestartOutlives == ASSUME OutliveInv, Restart PROVE OutliveInv'
  <1>1. /\ detector' = "idle" /\ UNCHANGED <<countersTTL, marker>>
        /\ clean' = IF detector = "idle" THEN clean ELSE clean \ {Page}
    BY DEF Restart, Goes, counters
  <1> QED  BY <1>1 DEF OutliveInv, Outlived, CountedStages

LEMMA OutliveStep == TypeInv /\ OutliveInv /\ [Next]_vars => OutliveInv'
  <1> SUFFICES ASSUME TypeInv, OutliveInv, [Next]_vars PROVE OutliveInv'
    OBVIOUS
  <1>1. ASSUME NEW p \in Pages, NEW kind \in EditKinds, EditArrives(p, kind) PROVE OutliveInv'
    <2>1. /\ detector = "idle" /\ detector' = "looking" /\ UNCHANGED <<countersTTL, marker, clean>>
      BY <1>1 DEF EditArrives, counters
    <2> QED  BY <2>1, OutliveMoves DEF CountedStages
  <1>2. CASE Measured
    <2>1. /\ detector = "measuring" /\ UNCHANGED <<countersTTL, marker>> /\ clean' \subseteq clean
          /\ \/ detector' = "idle"
             \/ detector' \in {"reanalyzing", "publishing"} /\ inHand' = inHand
      BY <1>2 DEF Measured, Goes, counters, Done, Failed
    <2> QED  BY <2>1, OutliveMoves DEF CountedStages
  <1>3. CASE AnalysisStarted
    <2>1. /\ detector \in {"analyzing", "reanalyzing"} /\ detector' = "idle"
          /\ UNCHANGED <<countersTTL, marker, clean>>
      BY <1>3 DEF AnalysisStarted, Goes, counters
    <2> QED  BY <2>1, OutliveMoves DEF CountedStages
  <1>4. CASE Sweeping
    BY <1>4, SweepFrame, SweepTypes, OutliveRest DEF handler
  <1>5. CASE \/ \E a \in Readers, p \in Pages : ReaderAsks(a, p)
             \/ \E a \in Analysts : Analyst(a)
    BY <1>5, AskedTypes, OutliveRest DEF warVars, handler
  <1>6. CASE CooldownExpires \/ UNCHANGED vars
    BY <1>6, OutliveRest DEF CooldownExpires, counters, vars, warVars, handler
  <1> QED  BY <1>1, <1>2, <1>3, <1>4, <1>5, <1>6, LookedOutlives, TrackOutlives, RefreshedOutlives,
              PublishedOutlives, MarkedOutlives, ExtendedOutlives, TickOutlives, RestartOutlives
           DEF Next, Handling

\* While a page is marked as a war its counters last as long, unless a call
\* about it failed, for any thresholds and times to live of the order of the
\* code's: the detector looks at the marker before it sets their time, and
\* renews them after it has set the marker.
THEOREM CountersLast == Spec => []CountersOutliveMarker
  <1>1. OutliveInv => CountersOutliveMarker
    BY DEF OutliveInv, Outlived, CountersOutliveMarker
  <1> QED  BY <1>1, TypesStart, TypesStep, OutliveStart, OutliveStep, PTL DEF Spec

=============================================================================
