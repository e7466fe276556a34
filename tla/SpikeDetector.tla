--------------------------- MODULE SpikeDetector ---------------------------
(***************************************************************************)
(* The spike detector (src/internal/processor/detector.go): the handler of *)
(* a consumer that has the tracker count each edit, and compares the edits *)
(* of a hot page in the last five minutes with those of the last hour, as  *)
(* far as the page's window holds them.                                    *)
(***************************************************************************)
EXTENDS HotPages

CONSTANTS MinimumEdits,         \* minimumEdits: 3
          SpikeRatioThreshold,  \* spikeRatioThreshold: 5
          Cooldown,             \* cooldownDuration, in ticks
          PurgeAbove            \* cooldowns kept before old ones are deleted: 100

ASSUME DetectorAssumption ==
    /\ {MinimumEdits, SpikeRatioThreshold, Cooldown} \subseteq Nat \ {0}
    /\ PurgeAbove \in Nat

VARIABLES
    cooldowns,  \* for each worker and page, ticks since the entry was made
    spiking,    \* pages with a marker spike:{wiki}:{page}
    quiet       \* history: ticks since the worker last decided to alert on it

detectorVars == <<cooldowns, spiking, quiet>>
vars == <<trackerVars, detectorVars>>

None == -1
Since == None..(Cooldown + 1)    \* the last stands for every later one

\* A map of a new process: no page has an entry.
NoEntries == [p \in Pages |-> None]

Init ==
    /\ HotPagesInit
    /\ cooldowns = [w \in Workers |-> NoEntries]
    /\ spiking = {}
    /\ quiet = [w \in Workers |-> NoEntries]

-----------------------------------------------------------------------------
(* detectSpike *)

\* The edits per minute of five minutes over those of an hour, at least 0.1,
\* are at least k: without divisions.
RatioAtLeast(fiveMin, hour, k) ==
    IF hour < 6 THEN 2 * fiveMin >= k ELSE 12 * fiveMin >= k * hour

IsSpike(fiveMin, hour) ==
    /\ fiveMin >= MinimumEdits
    /\ RatioAtLeast(fiveMin, hour, SpikeRatioThreshold)

-----------------------------------------------------------------------------
(* ProcessEdit *)

\* The tracker's ProcessEdit takes the edit.
Handle(w) ==
    /\ \E p \in Pages : EditCounted(w, p) \/ CountFails(w, p)
    /\ UNCHANGED detectorVars

Track(w) ==
    /\ \/ WindowLooked(w) \/ AddLooked(w) \/ PagesCounted(w)
       \/ \E lag \in 0..MaxLag : EditStored(w, lag) \/ Promoted(w, lag) \/ StoreFails(w, lag)
    /\ UNCHANGED detectorVars

\* IsHot: also asked when the page was not counted as hot.
Decided(w) ==
    /\ At(w, "deciding")
    /\ \/ Works /\ Goes(w, IF Hot(page[w]) THEN "measuring" ELSE "idle")
       \/ Fails /\ Goes(w, "idle")
    /\ UNCHANGED <<activity, activityTTL, window, windowTTL, page, cache, fresh,
                   cleanup, edits, owner, detectorVars>>

Suppressed(w, p) == cooldowns[w][p] \in 0..(Cooldown - 1)

\* Mutant: a purge deletes the entries that have not expired.
PurgedYoung(entries) ==
    IF Cardinality({p \in Pages : entries[p] # None}) <= PurgeAbove THEN entries
    ELSE [p \in Pages |-> IF entries[p] <= Cooldown THEN None ELSE entries[p]]

\* A map that has grown past PurgeAbove loses the entries older than Cooldown.
Purged(entries) ==
    IF Cardinality({p \in Pages : entries[p] # None}) <= PurgeAbove THEN entries
    ELSE [p \in Pages |-> IF entries[p] > Cooldown THEN None ELSE entries[p]]

\* What detectSpike makes of the two counts; a cooldown begins before the
\* alert is published.
Judged(w, fiveMin, hour) ==
    LET p == page[w]
        alert == IsSpike(fiveMin, hour) /\ ~ Suppressed(w, p)
    IN  /\ Goes(w, IF alert THEN "publishing" ELSE "idle")
        /\ cooldowns' = IF alert
                        THEN [cooldowns EXCEPT ![w] = Purged([@ EXCEPT ![p] = 0])]
                        ELSE cooldowns
        /\ quiet' = IF alert THEN [quiet EXCEPT ![w][p] = 0] ELSE quiet

\* GetPageStats and detectSpike.  Each ZCOUNT may fail and gives 0; when
\* EXISTS or HGETALL fails, or the count of five minutes, there is no alert.
Measured(w) ==
    LET fiveMin == Recent(window[page[w]], FiveMinutes)
        hour == Recent(window[page[w]], Hour)
    IN  /\ At(w, "measuring")
        /\ \/ Works /\ Judged(w, fiveMin, hour)
           \/ Fails /\ Judged(w, fiveMin, 0)
           \/ Fails /\ Goes(w, "idle") /\ UNCHANGED <<cooldowns, quiet>>
        /\ UNCHANGED <<activity, activityTTL, window, windowTTL, page, cache, fresh,
                       cleanup, edits, owner, spiking>>

\* publishAlert: XADD, then the marker; or an error, with or without the entry.
Published(w) ==
    /\ At(w, "publishing")
    /\ \/ Works /\ Goes(w, "marking")
       \/ Fails /\ Goes(w, "idle")
    /\ UNCHANGED <<activity, activityTTL, window, windowTTL, page, cache, fresh,
                   cleanup, edits, owner, detectorVars>>

\* markPageSpiking, which may fail.
Marked(w) ==
    /\ At(w, "marking")
    /\ \/ Works /\ spiking' = spiking \cup {page[w]}
       \/ Fails /\ UNCHANGED spiking
    /\ Goes(w, "idle")
    /\ UNCHANGED <<activity, activityTTL, window, windowTTL, page, cache, fresh,
                   cleanup, edits, owner, cooldowns, quiet>>

-----------------------------------------------------------------------------

Later(n) == IF n \in {None, Cooldown + 1} THEN n ELSE n + 1

\* Five minutes pass; a marker, which lives for an hour, may expire.
Tick ==
    /\ HotPagesTick
    /\ cooldowns' = [w \in Workers |-> [p \in Pages |-> Later(cooldowns[w][p])]]
    /\ quiet' = [w \in Workers |-> [p \in Pages |-> Later(quiet[w][p])]]
    /\ spiking' \in SUBSET spiking

Expire == (\E w \in Workers : CacheExpires(w)) /\ UNCHANGED detectorVars

Cleanup ==
    /\ \/ \E p \in Pages : CleanupScans(p)
       \/ CleanupLooks \/ CleanupDeletes \/ CleanupFails
    /\ UNCHANGED detectorVars

\* The process ends, at any point; its successor knows nothing of its alerts.
Restart(w) ==
    /\ HotPagesForgets(w)
    /\ cooldowns' = [cooldowns EXCEPT ![w] = NoEntries]
    /\ quiet' = [quiet EXCEPT ![w] = NoEntries]
    /\ UNCHANGED <<spiking>>

\* The handler goes on with the edit in hand.
Proceed(w) ==
    \/ Track(w) \/ Decided(w) \/ Measured(w) \/ Published(w) \/ Marked(w)

Next ==
    \/ \E w \in Workers : Handle(w) \/ Proceed(w) \/ Restart(w)
    \/ Tick \/ Expire \/ Cleanup

Spec == Init /\ [][Next]_vars

-----------------------------------------------------------------------------

Steps == {"idle", "checking", "adding", "storing", "counting", "promoting",
          "promotingBlind", "deciding", "measuring", "publishing", "marking"}

\* Types; a window never holds more than MaxMembers edits.
TypeOK ==
    /\ activity \in [Pages -> 0..HotThreshold]
    /\ activityTTL \in [Pages -> Forever..ActivityTTL]
    /\ window \in [Pages -> [Ages -> 0..MaxMembers]]
    /\ \A p \in Pages : Recent(window[p], Oldest) <= MaxMembers
    /\ windowTTL \in [Pages -> Forever..WindowTTL]
    /\ step \in [Workers -> Steps]
    /\ page \in [Workers -> Pages \cup {NoPage}]
    /\ cache \in [Workers -> SUBSET Pages]
    /\ fresh \in [Workers -> BOOLEAN]
    /\ cleanup \in {Idle} \cup (Pages \X {"scanned", "stale"})
    /\ edits \in 0..MaxEdits
    /\ faults \in 0..MaxFaults
    /\ owner \in [Pages -> Workers \cup {NoOne}]
    /\ cooldowns \in [Workers -> [Pages -> Since]]
    /\ spiking \subseteq Pages
    /\ quiet \in [Workers -> [Pages -> Since]]

\* The pages a worker lets in by a count, of its cache or a SCAN, never exceed
\* MaxHotPages, however old that count is, whatever expires, is deleted or
\* added by others meanwhile, and across restarts.  (Windows made after a
\* failed SCAN or a lost answer, or anew after they expired, are not counted.)
PromotedWithinLimit == \A w \in Workers : Cardinality(Owned(w)) <= MaxHotPages

\* Why it holds: a fresh cache, or one just counted, lists what the worker let in.
CountCovers ==
    \A w \in Workers :
       /\ fresh[w] \/ At(w, "promoting") => Owned(w) \subseteq cache[w]
       /\ At(w, "promoting") => Cardinality(cache[w]) < MaxHotPages

\* A process decides to alert on a page again only when Cooldown has passed,
\* whatever was purged from its map of cooldowns meanwhile.
AlertsSpaced ==
    [][\A w \in Workers : At(w, "measuring") /\ step'[w] = "publishing" =>
          quiet[w][page[w]] \notin 0..(Cooldown - 1)]_vars

-----------------------------------------------------------------------------

Fairness ==
    /\ WF_vars(Tick)
    /\ \A w \in Workers : WF_vars(Proceed(w))
    /\ \A p \in Pages : SF_vars(CleanupScans(p) /\ UNCHANGED detectorVars)
    /\ WF_vars(CleanupLooks /\ UNCHANGED detectorVars)
    /\ SF_vars(CleanupDeletes /\ UNCHANGED detectorVars)

FairSpec == Spec /\ Fairness

\* When edits stop, no page stays hot: windows expire, and those whose EXPIRE
\* was lost are reclaimed by the cleanup.
HotPagesCool == <>[](HotSet = {})

=============================================================================
