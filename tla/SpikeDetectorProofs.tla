------------------------ MODULE SpikeDetectorProofs ------------------------
(***************************************************************************)
(* Proofs about SpikeDetector: the limit on hot pages that a process       *)
(* enforces from a cached count, and the time between its alerts, for any  *)
(* number of pages, processes, failures and edits.                         *)
(***************************************************************************)
EXTENDS SpikeDetector, FiniteSetTheorems, TLAPS

(* The limit on hot pages.                                                 *)

PlacesOK ==
    /\ windowTTL \in [Pages -> Int]
    /\ step \in [Workers -> Steps]
    /\ page \in [Workers -> Pages \cup {NoPage}]
    /\ cache \in [Workers -> SUBSET Pages]
    /\ fresh \in [Workers -> BOOLEAN]
    /\ owner \in [Pages -> Workers \cup {NoOne}]
    /\ \A w \in Workers : step[w] # "idle" => page[w] \in Pages

\* What was let in by a count is in Redis, where the next SCAN finds it.
OwnedHot == \A p \in Pages : owner[p] # NoOne => Hot(p)

LimitInv == PlacesOK /\ OwnedHot /\ CountCovers /\ PromotedWithinLimit

LEMMA Ticks ==
    /\ Forever = -1 /\ WindowTTL \in Nat /\ WindowTTL > 0 /\ MaxHotPages \in Nat \ {0}
    /\ IsFiniteSet(Pages) /\ NoOne \notin Workers /\ NoPage \notin Pages
  BY HotPagesAssumption DEF Forever, WindowTTL

LEMMA Starts == Init => LimitInv
  <1> SUFFICES ASSUME Init PROVE LimitInv
    OBVIOUS
  <1> USE Ticks DEF Init, HotPagesInit
  <1>1. PlacesOK
    BY DEF PlacesOK, Steps
  <1>2. OwnedHot
    BY DEF OwnedHot
  <1>3. \A w \in Workers : Owned(w) = {}
    BY DEF Owned
  <1>4. CountCovers
    BY <1>3 DEF CountCovers, At
  <1>5. PromotedWithinLimit
    BY <1>3, FS_EmptySet DEF PromotedWithinLimit
  <1> QED  BY <1>1, <1>2, <1>4, <1>5 DEF LimitInv

\* The handler's moves keep the types, and a page is in hand all the way.
LEMMA HandlerTypes ==
    ASSUME PlacesOK, NEW w \in Workers, NEW next \in Steps, Goes(w, next),
           page[w] \in Pages \/ next = "idle", UNCHANGED page,
           windowTTL' \in [Pages -> Int], cache' \in [Workers -> SUBSET Pages],
           fresh' \in [Workers -> BOOLEAN], owner' \in [Pages -> Workers \cup {NoOne}]
    PROVE  PlacesOK'
  BY DEF PlacesOK, Goes

\* A window is let in only by Promoted; whatever takes windows away, and does
\* not renew a count, keeps the count's promise.
LEMMA OwnersShrink ==
    ASSUME LimitInv, PlacesOK',
           \A p \in Pages : owner'[p] \in {owner[p], NoOne},
           \A p \in Pages : owner'[p] # NoOne => windowTTL'[p] # 0,
           \A w \in Workers :
              \/ cache'[w] = cache[w] /\ (fresh'[w] => fresh[w])
                 /\ (step'[w] = "promoting" => step[w] = "promoting")
              \/ ~ fresh'[w] /\ step'[w] # "promoting"
    PROVE  LimitInv'
  <1>1. OwnedHot'
    BY DEF OwnedHot, Hot
  <1>2. \A w \in Workers : Owned(w)' \subseteq Owned(w)
    BY Ticks DEF Owned
  <1>3. CountCovers'
    BY <1>2 DEF LimitInv, CountCovers, At
  <1>4. \A w \in Workers : Cardinality(Owned(w)') <= MaxHotPages
    <2> TAKE w \in Workers
    <2>1. Owned(w) \subseteq Pages
      BY DEF Owned
    <2>2. IsFiniteSet(Owned(w)) /\ Cardinality(Owned(w)) \in Nat
      BY <2>1, Ticks, FS_Subset, FS_CardinalityType
    <2>3. Cardinality(Owned(w)') <= Cardinality(Owned(w)) /\ Cardinality(Owned(w)') \in Nat
      BY <1>2, <2>2, FS_Subset, FS_CardinalityType
    <2>4. Cardinality(Owned(w)) <= MaxHotPages
      BY DEF LimitInv, PromotedWithinLimit
    <2> QED  BY <2>2, <2>3, <2>4, Ticks
  <1> QED  BY <1>1, <1>3, <1>4 DEF LimitInv, PromotedWithinLimit

\* A worker's move that leaves windows, owners and counts alone.
LEMMA WorkerMoves ==
    ASSUME LimitInv, PlacesOK', NEW w \in Workers, NEW next, Goes(w, next),
           next # "promoting", UNCHANGED <<windowTTL, cache, fresh, owner>>
    PROVE  LimitInv'
  <1>1. \A v \in Workers : step'[v] = "promoting" => step[v] = "promoting"
    BY DEF Goes, LimitInv, PlacesOK
  <1> QED  BY <1>1, OwnersShrink DEF LimitInv, OwnedHot, Hot

LEMMA CountStep ==
    ASSUME LimitInv, NEW w \in Workers, NEW p \in Pages, EditCounted(w, p) \/ CountFails(w, p)
    PROVE  LimitInv'
  <1>1. CASE EditCounted(w, p)
    <2>1. PICK next \in {"checking", "deciding"} : Goes(w, next)
      BY <1>1 DEF EditCounted
    <2>2. PlacesOK'
      BY <1>1, <2>1 DEF EditCounted, LimitInv, PlacesOK, Goes, Steps
    <2> QED  BY <1>1, <2>1, <2>2, WorkerMoves DEF EditCounted
  <1>2. CASE CountFails(w, p)
    <2>1. PlacesOK'
      BY <1>2 DEF CountFails, LimitInv, PlacesOK
    <2> QED  BY <1>2, <2>1, OwnersShrink DEF CountFails, LimitInv, OwnedHot, Hot
  <1> QED  BY <1>1, <1>2

LEMMA LookStep ==
    ASSUME LimitInv, NEW w \in Workers,
           WindowLooked(w) \/ AddLooked(w) \/ Decided(w) \/ Measured(w) \/ Published(w) \/ Marked(w)
    PROVE  LimitInv'
  <1>1. /\ UNCHANGED <<page, windowTTL, cache, fresh, owner>>
        /\ step[w] # "idle"
    BY DEF WindowLooked, AddLooked, Decided, Measured, Published, Marked, detectorVars, At
  <1>2. PICK next \in Steps \ {"promoting"} : Goes(w, next)
    BY DEF WindowLooked, AddLooked, Decided, Measured, Judged, Published, Marked, Steps
  <1>3. PlacesOK'
    BY <1>1, <1>2, HandlerTypes DEF LimitInv, PlacesOK
  <1> QED  BY <1>1, <1>2, <1>3, WorkerMoves

\* Adding to a window never makes it vanish.
LEMMA StoreStep ==
    ASSUME LimitInv, NEW w \in Workers, NEW lag, EditStored(w, lag) \/ StoreFails(w, lag)
    PROVE  LimitInv'
  <1>1. /\ UNCHANGED <<page, cache, fresh, owner>>
        /\ step[w] # "idle" /\ page[w] \in Pages
    BY DEF EditStored, StoreFails, At, LimitInv, PlacesOK
  <1>2. PICK next \in {"idle", "deciding"} : Goes(w, next)
    BY DEF EditStored, StoreFails
  <1>3. /\ windowTTL' \in [Pages -> Int]
        /\ \A p \in Pages : windowTTL[p] # 0 => windowTTL'[p] # 0
    BY <1>1, Ticks DEF EditStored, StoreFails, LimitInv, PlacesOK
  <1>4. PlacesOK'
    BY <1>1, <1>2, <1>3, HandlerTypes DEF LimitInv, PlacesOK, Steps
  <1>5. \A v \in Workers : step'[v] = "promoting" => step[v] = "promoting"
    BY <1>2 DEF Goes, LimitInv, PlacesOK
  <1> QED  BY <1>1, <1>3, <1>4, <1>5, OwnersShrink DEF LimitInv, OwnedHot, Hot

\* A count lists every page the worker let in: of the cache because it does,
\* of the SCAN because they are in Redis.
LEMMA CountedStep ==
    ASSUME LimitInv, NEW w \in Workers, PagesCounted(w)
    PROVE  LimitInv'
  <1>1. UNCHANGED <<page, windowTTL, owner>> /\ page[w] \in Pages
    BY DEF PagesCounted, At, LimitInv, PlacesOK
  <1>2. PICK next \in {"deciding", "promoting", "promotingBlind"} :
           /\ Goes(w, next)
           /\ next = "promoting" => fresh'[w] /\ Cardinality(cache'[w]) < MaxHotPages
    <2>1. CASE fresh[w] /\ Gate(w, Cardinality(cache[w])) /\ UNCHANGED <<cache, fresh>>
      <3>1. IsFiniteSet(cache[w]) /\ Cardinality(cache[w]) \in Nat
        BY Ticks, FS_Subset, FS_CardinalityType DEF LimitInv, PlacesOK
      <3> QED  BY <2>1, <3>1, Ticks DEF Gate
    <2>2. CASE /\ cache' = [cache EXCEPT ![w] = HotSet] /\ fresh' = [fresh EXCEPT ![w] = TRUE]
               /\ Gate(w, Cardinality(HotSet))
      <3>1. cache'[w] = HotSet /\ fresh'[w]
        BY <2>2 DEF LimitInv, PlacesOK
      <3>2. Cardinality(HotSet) \in Nat
        BY Ticks, FS_Subset, FS_CardinalityType DEF HotSet
      <3> QED  BY <2>2, <3>1, <3>2, Ticks DEF Gate
    <2>3. CASE Goes(w, "promotingBlind")
      BY <2>3
    <2> QED  BY <2>1, <2>2, <2>3 DEF PagesCounted
  <1>3. /\ cache' \in [Workers -> SUBSET Pages] /\ fresh' \in [Workers -> BOOLEAN]
        /\ \A v \in Workers \ {w} : cache'[v] = cache[v] /\ fresh'[v] = fresh[v]
    BY DEF PagesCounted, LimitInv, PlacesOK, HotSet
  <1>4. PlacesOK'
    BY <1>1, <1>2, <1>3, HandlerTypes DEF LimitInv, PlacesOK, Steps
  <1>5. \A v \in Workers : Owned(v)' = Owned(v)
    BY <1>1 DEF Owned
  <1>6. fresh'[w] => Owned(w) \subseteq cache'[w]
    <2>1. Owned(w) \subseteq HotSet
      BY Ticks DEF Owned, HotSet, LimitInv, OwnedHot
    <2> QED  BY <2>1 DEF PagesCounted, LimitInv, PlacesOK, CountCovers
  <1>7. \A v \in Workers \ {w} : step'[v] = step[v]
    BY <1>2 DEF Goes, LimitInv, PlacesOK
  <1>8. step'[w] = "promoting" => fresh'[w] /\ Cardinality(cache'[w]) < MaxHotPages
    BY <1>2 DEF Goes, LimitInv, PlacesOK
  <1>9. CountCovers'
    BY <1>3, <1>5, <1>6, <1>7, <1>8 DEF LimitInv, CountCovers, At
  <1>10. OwnedHot' /\ PromotedWithinLimit'
    BY <1>1, <1>5 DEF LimitInv, OwnedHot, Hot, PromotedWithinLimit
  <1> QED  BY <1>4, <1>9, <1>10 DEF LimitInv

LEMMA PromotedStep ==
    ASSUME LimitInv, NEW w \in Workers, NEW lag, Promoted(w, lag)
    PROVE  LimitInv'
  <1> DEFINE p == page[w]
  <1>1. UNCHANGED <<page, fresh>> /\ p \in Pages
    BY DEF Promoted, LimitInv, PlacesOK
  <1>2. /\ windowTTL' = [windowTTL EXCEPT ![p] = WindowTTL]
        /\ cache' = [cache EXCEPT ![w] = @ \cup {p}]
        /\ owner' = [owner EXCEPT ![p] = IF At(w, "promoting") THEN w ELSE NoOne]
        /\ Goes(w, "deciding")
    BY DEF Promoted
  <1>3. PlacesOK'
    <2>1. windowTTL' \in [Pages -> Int] /\ cache' \in [Workers -> SUBSET Pages]
          /\ owner' \in [Pages -> Workers \cup {NoOne}]
      BY <1>1, <1>2, Ticks DEF LimitInv, PlacesOK
    <2> QED  BY <1>1, <1>2, <2>1, HandlerTypes DEF LimitInv, PlacesOK, Steps
  <1>4. OwnedHot'
    BY <1>1, <1>2, Ticks DEF LimitInv, PlacesOK, OwnedHot, Hot
  <1>5. \A v \in Workers \ {w} :
           /\ Owned(v)' \subseteq Owned(v) /\ cache'[v] = cache[v]
           /\ step'[v] = step[v]
    BY <1>1, <1>2, Ticks DEF Owned, LimitInv, PlacesOK, Goes
  <1>6. /\ Owned(w)' \subseteq Owned(w) \cup {p} /\ cache'[w] = cache[w] \cup {p}
        /\ ~ At(w, "promoting") => Owned(w)' \subseteq Owned(w)
        /\ step'[w] = "deciding"
    BY <1>1, <1>2, Ticks DEF Owned, LimitInv, PlacesOK, Goes
  <1>7. CountCovers'
    BY <1>1, <1>5, <1>6 DEF LimitInv, CountCovers, At
  <1>8. \A v \in Workers : Cardinality(Owned(v)') <= MaxHotPages
    <2>1. ASSUME NEW v \in Workers, Owned(v)' \subseteq Owned(v)
          PROVE  Cardinality(Owned(v)') <= MaxHotPages
      <3>1. IsFiniteSet(Owned(v)) /\ Cardinality(Owned(v)) \in Nat
        BY Ticks, FS_Subset, FS_CardinalityType DEF Owned
      <3>2. Cardinality(Owned(v)') <= Cardinality(Owned(v)) /\ Cardinality(Owned(v)') \in Nat
        BY <2>1, <3>1, FS_Subset, FS_CardinalityType
      <3> QED  BY <3>1, <3>2, Ticks DEF LimitInv, PromotedWithinLimit
    <2>2. CASE At(w, "promoting")
      <3>1. Owned(w)' \subseteq cache[w] \cup {p} /\ Cardinality(cache[w]) < MaxHotPages
        BY <1>6, <2>2 DEF LimitInv, CountCovers
      <3>2. IsFiniteSet(cache[w]) /\ Cardinality(cache[w]) \in Nat
        BY Ticks, FS_Subset, FS_CardinalityType DEF LimitInv, PlacesOK
      <3> DEFINE noted == cache[w] \cup {p}
      <3>3. /\ IsFiniteSet(noted) /\ Cardinality(noted) \in Nat
            /\ Cardinality(noted) <= Cardinality(cache[w]) + 1
        <4>1. IsFiniteSet(noted) /\ (Cardinality(noted) = Cardinality(cache[w])
                                      \/ Cardinality(noted) = Cardinality(cache[w]) + 1)
          BY <3>2, FS_AddElement
        <4> HIDE DEF noted
        <4> QED  BY <3>2, <4>1
      <3>4. Cardinality(Owned(w)') <= Cardinality(noted) /\ Cardinality(Owned(w)') \in Nat
        BY <3>1, <3>3, FS_Subset, FS_CardinalityType
      <3>5. Cardinality(Owned(w)') <= MaxHotPages
        BY <3>1, <3>2, <3>3, <3>4, Ticks
      <3> QED  BY <1>5, <2>1, <3>5
    <2>3. CASE ~ At(w, "promoting")
      BY <1>5, <1>6, <2>1, <2>3
    <2> QED  BY <2>2, <2>3
  <1> QED  BY <1>3, <1>4, <1>7, <1>8 DEF LimitInv, PromotedWithinLimit

\* Time, the cleanup and the end of a process take windows and counts away.
LEMMA OutsideStep ==
    ASSUME LimitInv,
           Tick \/ Expire \/ Cleanup \/ (\E w \in Workers : Restart(w)) \/ UNCHANGED vars
    PROVE  LimitInv'
  <1> USE DEF LimitInv
  <1>1. CASE Tick
    <2>1. /\ UNCHANGED <<step, page, cache>> /\ fresh' = [w \in Workers |-> FALSE]
          /\ windowTTL' = [p \in Pages |-> Left(windowTTL[p])]
          /\ owner' = [p \in Pages |-> IF windowTTL[p] = 1 THEN NoOne ELSE owner[p]]
      BY <1>1 DEF Tick, HotPagesTick
    <2>2. PlacesOK'
      BY <2>1 DEF PlacesOK, Left
    <2>3. \A p \in Pages : owner'[p] # NoOne => windowTTL'[p] # 0
      BY <2>1 DEF PlacesOK, Left, OwnedHot, Hot
    <2> QED  BY <2>1, <2>2, <2>3, OwnersShrink
  <1>2. CASE Expire
    <2>1. PICK w \in Workers : CacheExpires(w)
      BY <1>2 DEF Expire
    <2>2. PlacesOK' /\ UNCHANGED <<step, cache, owner, windowTTL>>
          /\ \A v \in Workers : fresh'[v] => fresh[v]
      BY <2>1 DEF CacheExpires, PlacesOK
    <2> QED  BY <2>2, OwnersShrink DEF OwnedHot, Hot
  <1>3. CASE Cleanup
    <2>1. UNCHANGED <<step, page, cache, fresh>>
      BY <1>3 DEF Cleanup, CleanupScans, CleanupLooks, CleanupDeletes, CleanupFails
    <2>2. CASE CleanupDeletes
      <3>1. PICK q : windowTTL' = [windowTTL EXCEPT ![q] = 0] /\ owner' = [owner EXCEPT ![q] = NoOne]
        BY <2>2 DEF CleanupDeletes
      <3>2. PlacesOK'
        <4>1. windowTTL' \in [Pages -> Int]
          <5>1. windowTTL' = [p \in Pages |-> IF p = q THEN 0 ELSE windowTTL[p]]
            BY <3>1, Zenon DEF PlacesOK
          <5> QED  BY <5>1 DEF PlacesOK
        <4>2. owner' \in [Pages -> Workers \cup {NoOne}]
          BY <3>1 DEF PlacesOK
        <4> QED  BY <2>1, <4>1, <4>2 DEF PlacesOK
      <3>3. \A p \in Pages : owner'[p] \in {owner[p], NoOne} /\ (owner'[p] # NoOne => windowTTL'[p] # 0)
        BY <3>1 DEF PlacesOK, OwnedHot, Hot
      <3> QED  BY <2>1, <3>2, <3>3, OwnersShrink
    <2>3. CASE UNCHANGED <<windowTTL, owner>>
      <3>1. PlacesOK'
        BY <2>1, <2>3 DEF PlacesOK
      <3> QED  BY <2>1, <2>3, <3>1, OwnersShrink DEF OwnedHot, Hot
    <2> QED  BY <1>3, <2>2, <2>3 DEF Cleanup, CleanupScans, CleanupLooks, CleanupFails
  <1>4. CASE \E w \in Workers : Restart(w)
    <2>1. PICK w \in Workers : HotPagesForgets(w)
      BY <1>4 DEF Restart
    <2>2. PlacesOK' /\ UNCHANGED <<windowTTL, owner>>
      BY <2>1 DEF HotPagesForgets, Goes, PlacesOK, Steps
    <2>3. /\ ~ fresh'[w] /\ step'[w] # "promoting"
          /\ \A v \in Workers \ {w} : cache'[v] = cache[v] /\ fresh'[v] = fresh[v] /\ step'[v] = step[v]
      BY <2>1 DEF HotPagesForgets, Goes, PlacesOK
    <2> QED  BY <2>2, <2>3, OwnersShrink DEF OwnedHot, Hot
  <1>5. CASE UNCHANGED vars
    <2>1. PlacesOK' /\ UNCHANGED <<step, cache, fresh, owner, windowTTL>>
      BY <1>5 DEF vars, trackerVars, PlacesOK
    <2> QED  BY <2>1, OwnersShrink DEF OwnedHot, Hot
  <1> QED  BY <1>1, <1>2, <1>3, <1>4, <1>5

LEMMA Steady == LimitInv /\ [Next]_vars => LimitInv'
  <1> SUFFICES ASSUME LimitInv, [Next]_vars PROVE LimitInv'
    OBVIOUS
  <1>1. ASSUME NEW w \in Workers, Handle(w) PROVE LimitInv'
    BY <1>1, CountStep DEF Handle
  <1>2. ASSUME NEW w \in Workers, Proceed(w) PROVE LimitInv'
    BY <1>2, LookStep, StoreStep, CountedStep, PromotedStep DEF Proceed, Track
  <1> QED  BY <1>1, <1>2, OutsideStep DEF Next

\* The pages a process lets in by a count never exceed MaxHotPages, for any
\* number of pages and processes, however often calls to Redis fail.
THEOREM LimitKept == Spec => []PromotedWithinLimit
  <1>1. LimitInv => PromotedWithinLimit
    BY DEF LimitInv
  <1> QED  BY <1>1, Starts, Steady, PTL DEF Spec

-----------------------------------------------------------------------------
(* The time between alerts.                                                *)

EntriesOK ==
    /\ cooldowns \in [Workers -> [Pages -> Since]]
    /\ quiet \in [Workers -> [Pages -> Since]]

\* As long as an alert is recent, the entry it made is there and as recent.
EntriesKept ==
    \A w \in Workers, p \in Pages :
       quiet[w][p] \in 0..Cooldown => cooldowns[w][p] \in 0..quiet[w][p]

SpacingInv == PlacesOK /\ EntriesOK /\ EntriesKept

LEMMA Durations == Cooldown \in Nat \ {0} /\ None = -1 /\ None \in Since /\ 0 \in Since
  BY DetectorAssumption DEF None, Since

\* A purge takes only entries older than Cooldown.
LEMMA PurgeKeepsYoung ==
    ASSUME NEW entries \in [Pages -> Since]
    PROVE  /\ Purged(entries) \in [Pages -> Since]
           /\ \A p \in Pages : entries[p] <= Cooldown => Purged(entries)[p] = entries[p]
  BY Durations DEF Purged, Since

LEMMA JudgedKeeps ==
    ASSUME SpacingInv, NEW w \in Workers, page[w] \in Pages, NEW fiveMin, NEW hour,
           Judged(w, fiveMin, hour)
    PROVE  EntriesOK' /\ EntriesKept'
  <1> DEFINE alert == IsSpike(fiveMin, hour) /\ ~ Suppressed(w, page[w])
  <1>1. CASE alert
    <2> DEFINE p == page[w]
               entered == [cooldowns[w] EXCEPT ![p] = 0]
    <2>1. /\ cooldowns' = [cooldowns EXCEPT ![w] = Purged(entered)]
          /\ quiet' = [quiet EXCEPT ![w][p] = 0]
      BY <1>1 DEF Judged
    <2>2. entered \in [Pages -> Since] /\ entered[p] = 0
          /\ \A q \in Pages \ {p} : entered[q] = cooldowns[w][q]
      BY Durations DEF SpacingInv, EntriesOK
    <2> HIDE DEF entered
    <2>3. /\ Purged(entered) \in [Pages -> Since]
          /\ \A q \in Pages : entered[q] <= Cooldown => Purged(entered)[q] = entered[q]
      BY <2>2, PurgeKeepsYoung
    <2>4. EntriesOK'
      BY <2>1, <2>3, Durations DEF SpacingInv, EntriesOK
    <2>5. ASSUME NEW v \in Workers, NEW q \in Pages, quiet'[v][q] \in 0..Cooldown
          PROVE  cooldowns'[v][q] \in 0..quiet'[v][q]
      <3>1. CASE v = w /\ q = p
        <4>1. quiet'[v][q] = 0 /\ cooldowns'[v][q] = 0
          BY <2>1, <2>2, <2>3, <3>1, Durations DEF SpacingInv, EntriesOK
        <4> QED  BY <4>1
      <3>2. CASE v = w /\ q # p
        <4>1. quiet'[v][q] = quiet[w][q] /\ cooldowns'[v][q] = Purged(entered)[q]
          BY <2>1, <3>2 DEF SpacingInv, EntriesOK
        <4>2. cooldowns[w][q] \in 0..quiet[w][q]
          BY <2>5, <4>1, <3>2 DEF SpacingInv, EntriesKept
        <4>3. cooldowns[w][q] <= Cooldown
          BY <2>5, <4>1, <4>2, Durations
        <4> QED  BY <2>2, <2>3, <3>2, <4>1, <4>2, <4>3
      <3>3. CASE v # w
        BY <2>1, <2>5, <3>3 DEF SpacingInv, EntriesOK, EntriesKept
      <3> QED  BY <3>1, <3>2, <3>3
    <2> QED  BY <2>4, <2>5 DEF EntriesKept
  <1>2. CASE ~ alert
    BY <1>2 DEF Judged, SpacingInv, EntriesOK, EntriesKept
  <1> QED  BY <1>1, <1>2

LEMMA EntriesStep == SpacingInv /\ [Next]_vars => EntriesOK' /\ EntriesKept'
  <1> SUFFICES ASSUME SpacingInv, [Next]_vars PROVE EntriesOK' /\ EntriesKept'
    OBVIOUS
  <1>1. CASE UNCHANGED <<cooldowns, quiet>>
    BY <1>1 DEF SpacingInv, EntriesOK, EntriesKept
  <1>2. ASSUME NEW w \in Workers, Handle(w) \/ Track(w) \/ Decided(w) \/ Published(w) \/ Marked(w)
        PROVE  EntriesOK' /\ EntriesKept'
    BY <1>1, <1>2 DEF Handle, Track, Decided, Published, Marked, detectorVars
  <1>3. ASSUME NEW w \in Workers, Measured(w)
        PROVE  EntriesOK' /\ EntriesKept'
    <2>1. page[w] \in Pages
      BY <1>3 DEF Measured, At, SpacingInv, PlacesOK
    <2> QED  BY <1>1, <1>3, <2>1, JudgedKeeps DEF Measured
  <1>4. CASE Tick
    <2>1. \A n \in Since : Later(n) \in Since /\ (Later(n) \in 0..Cooldown => n = Later(n) - 1 /\ n \in {-1} \cup 0..Cooldown)
          /\ (n \in 0..Cooldown => Later(n) = n + 1) /\ (n = None => Later(n) = None)
      BY Durations DEF Later, Since
    <2>2. /\ cooldowns' = [w \in Workers |-> [p \in Pages |-> Later(cooldowns[w][p])]]
          /\ quiet' = [w \in Workers |-> [p \in Pages |-> Later(quiet[w][p])]]
      BY <1>4 DEF Tick
    <2>3. EntriesOK'
      BY <2>1, <2>2 DEF SpacingInv, EntriesOK
    <2>4. ASSUME NEW w \in Workers, NEW p \in Pages, quiet'[w][p] \in 0..Cooldown
          PROVE  cooldowns'[w][p] \in 0..quiet'[w][p]
      <3>1. /\ quiet'[w][p] = Later(quiet[w][p]) /\ cooldowns'[w][p] = Later(cooldowns[w][p])
            /\ quiet[w][p] \in Since /\ cooldowns[w][p] \in Since
        BY <2>2 DEF SpacingInv, EntriesOK
      <3>2. quiet[w][p] \in 0..Cooldown /\ quiet'[w][p] = quiet[w][p] + 1
        BY <2>1, <2>4, <3>1, Durations DEF Since
      <3>3. cooldowns[w][p] \in 0..quiet[w][p]
        BY <3>2 DEF SpacingInv, EntriesKept
      <3>4. cooldowns[w][p] \in 0..Cooldown /\ cooldowns'[w][p] = cooldowns[w][p] + 1
        BY <2>1, <3>1, <3>2, <3>3, Durations
      <3> QED  BY <3>2, <3>3, <3>4
    <2> QED  BY <2>3, <2>4 DEF EntriesKept
  <1>5. CASE Expire \/ Cleanup \/ UNCHANGED vars
    BY <1>1, <1>5 DEF Expire, Cleanup, vars, detectorVars
  <1>6. ASSUME NEW w \in Workers, Restart(w)
        PROVE  EntriesOK' /\ EntriesKept'
    <2>1. NoEntries \in [Pages -> Since] /\ \A p \in Pages : NoEntries[p] = -1
      BY Durations DEF NoEntries
    <2>2. cooldowns' = [cooldowns EXCEPT ![w] = NoEntries] /\ quiet' = [quiet EXCEPT ![w] = NoEntries]
      BY <1>6 DEF Restart
    <2> HIDE DEF NoEntries
    <2>3. EntriesOK'
      BY <2>1, <2>2 DEF SpacingInv, EntriesOK
    <2>4. ASSUME NEW v \in Workers, NEW p \in Pages, quiet'[v][p] \in 0..Cooldown
          PROVE  cooldowns'[v][p] \in 0..quiet'[v][p]
      <3>1. v # w
        BY <2>1, <2>2, <2>4 DEF SpacingInv, EntriesOK
      <3> QED  BY <2>2, <2>4, <3>1 DEF SpacingInv, EntriesOK, EntriesKept
    <2> QED  BY <2>3, <2>4 DEF EntriesKept
  <1> QED  BY <1>2, <1>3, <1>4, <1>5, <1>6 DEF Next, Proceed

\* An entry that keeps an alert back is there as long as it has to.
LEMMA DecidesLate ==
    ASSUME SpacingInv, [Next]_vars, NEW w \in Workers, At(w, "measuring"), step'[w] = "publishing"
    PROVE  quiet[w][page[w]] \notin 0..(Cooldown - 1)
  <1>1. ~ UNCHANGED step
    BY DEF At
  <1>2. \A v \in Workers : \A next : Goes(v, next) => v = w /\ next = "publishing"
    BY DEF Goes, At, SpacingInv, PlacesOK
  <1>3. PICK v \in Workers : Handle(v) \/ Proceed(v) \/ Restart(v)
    BY <1>1 DEF Next, Tick, HotPagesTick, Expire, CacheExpires, Cleanup, CleanupScans,
        CleanupLooks, CleanupDeletes, CleanupFails, vars, trackerVars
  <1>4. Measured(w)
    <2>1. ~ Handle(v) /\ ~ Restart(v)
      BY <1>1, <1>2 DEF Handle, EditCounted, CountFails, Restart, HotPagesForgets
    <2>2. ~ Track(v)
      BY <1>2 DEF Track, WindowLooked, AddLooked, PagesCounted, Gate, EditStored, Promoted, StoreFails
    <2>3. ~ Decided(v) /\ ~ Published(v) /\ ~ Marked(v)
      BY <1>2 DEF Decided, Published, Marked
    <2>4. Measured(v)
      BY <1>3, <2>1, <2>2, <2>3 DEF Proceed
    <2>5. v = w
      BY <1>2, <2>4 DEF Measured, Judged
    <2> QED  BY <2>4, <2>5
  <1>5. ~ Suppressed(w, page[w])
    <2>1. \A a, b : Judged(w, a, b) => ~ Suppressed(w, page[w])
      BY <1>2 DEF Judged
    <2>2. ~ Goes(w, "idle")
      BY <1>2
    <2> QED  BY <1>4, <2>1, <2>2 DEF Measured
  <1>6. page[w] \in Pages
    BY DEF At, SpacingInv, PlacesOK
  <1> QED  BY <1>5, <1>6, Durations DEF Suppressed, SpacingInv, EntriesKept

\* A process leaves Cooldown between its decisions to alert on a page, for any
\* number of pages and any size at which the map of cooldowns is purged.
THEOREM CooldownKept == Spec => AlertsSpaced
  <1>1. Init => SpacingInv
    BY Starts, Durations DEF LimitInv, SpacingInv, Init, EntriesOK, EntriesKept, NoEntries
  <1>2. LimitInv /\ SpacingInv /\ [Next]_vars => SpacingInv'
    BY Steady, EntriesStep DEF LimitInv, SpacingInv
  <1>3. SpacingInv /\ [Next]_vars
        => [\A w \in Workers : At(w, "measuring") /\ step'[w] = "publishing" =>
              quiet[w][page[w]] \notin 0..(Cooldown - 1)]_vars
    BY DecidesLate
  <1> QED  BY <1>1, <1>2, <1>3, Starts, Steady, PTL DEF Spec, AlertsSpaced

=============================================================================
