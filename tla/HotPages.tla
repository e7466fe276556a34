------------------------------ MODULE HotPages ------------------------------
(***************************************************************************)
(* The tracker of hot pages (src/internal/storage/redis_hot_pages.go): a   *)
(* page whose activity counter reaches HotThreshold gets a window, a       *)
(* sorted set of the times of its latest edits, unless the tracker of the  *)
(* process counts MaxHotPages windows already.  A background cleanup       *)
(* deletes the windows that would never expire.                            *)
(*                                                                         *)
(* Time passes in Ticks of five minutes.  The keys of Redis carry the      *)
(* ticks they have left, the members of a window the ticks since the edit. *)
(* A call to Redis may fail, with or without its effect: MaxFaults bounds  *)
(* how often.  An edit may reach the tracker up to MaxLag ticks late.      *)
(***************************************************************************)
EXTENDS Integers, FiniteSets, FiniteSetsExt

CONSTANTS Pages,
          Workers,       \* processes that run the spike detector
          HotThreshold,  \* edits in ActivityTTL that make a page hot
          Window,        \* window_duration, in ticks
          MaxHotPages,   \* max_tracked
          MaxMembers,    \* max_members_per_page
          Hour,          \* ticks in the longer period of GetPageStats: 12
          MaxLag, MaxEdits, MaxFaults,
          NoPage, NoOne

ASSUME HotPagesAssumption ==
    /\ {HotThreshold, Window, MaxHotPages, MaxMembers} \subseteq Nat \ {0}
    /\ {Hour, MaxLag, MaxEdits, MaxFaults} \subseteq Nat
    /\ IsFiniteSet(Pages)
    /\ NoPage \notin Pages
    /\ NoOne \notin Workers

ActivityTTL == 2   \* 10 minutes
WindowTTL == Window + 2
FiveMinutes == 1
Forever == -1      \* the time to live of a key without expiry
Oldest == Hour + Window + MaxLag + 1   \* stands for every age from there on
Ages == 0..Oldest

VARIABLES
    activity,     \* activity:{page}, counted up to HotThreshold
    activityTTL,  \* ticks until it expires, 0 when there is none
    window,       \* hot:window:{page}: how many members have each age
    windowTTL,    \* ticks until it expires, 0 when there is none
    step, page,   \* for each worker, where ProcessEdit is, and of which page
    cache,        \* hotPagesCache of each worker's tracker
    fresh,        \* TRUE while the cache is younger than 10 s
    cleanup,      \* the page the cleanup looks at, and what it has found
    edits,        \* edits handled so far
    faults,       \* calls to Redis that may still fail
    owner         \* history: the worker that let a window in by its count

trackerVars == <<activity, activityTTL, window, windowTTL, step, page, cache,
                 fresh, cleanup, edits, faults, owner>>

NoMembers == [a \in Ages |-> 0]
Idle == <<NoPage, "idle">>
Hot(p) == windowTTL[p] # 0
HotSet == {p \in Pages : Hot(p)}
Owned(w) == {p \in Pages : owner[p] = w}

\* ZCOUNT: the members of at most age n.
Recent(members, n) == MapThenSumSet(LAMBDA a : members[a], 0..n)

HotPagesInit ==
    /\ activity = [p \in Pages |-> 0]
    /\ activityTTL = [p \in Pages |-> 0]
    /\ window = [p \in Pages |-> NoMembers]
    /\ windowTTL = [p \in Pages |-> 0]
    /\ step = [w \in Workers |-> "idle"]
    /\ page = [w \in Workers |-> NoPage]
    /\ cache = [w \in Workers |-> {}]
    /\ fresh = [w \in Workers |-> FALSE]
    /\ cleanup = Idle
    /\ edits = 0
    /\ faults = MaxFaults
    /\ owner = [p \in Pages |-> NoOne]

Works == UNCHANGED faults
Fails == faults > 0 /\ faults' = faults - 1
Goes(w, next) == step' = [step EXCEPT ![w] = next]
At(w, here) == step[w] = here

-----------------------------------------------------------------------------
(* ProcessEdit: the activity counter *)

\* INCR, and EXPIRE when the counter is new.  When that EXPIRE fails, the
\* counter stays for ever.
EditCounted(w, p) ==
    LET count == activity[p] + 1 IN
    /\ At(w, "idle")
    /\ edits < MaxEdits
    /\ edits' = edits + 1
    /\ page' = [page EXCEPT ![w] = p]
    /\ activity' = [activity EXCEPT ![p] = IF count > HotThreshold THEN @ ELSE count]
    /\ \/ count = 1 /\ Works /\ activityTTL' = [activityTTL EXCEPT ![p] = ActivityTTL]
       \/ count = 1 /\ Fails /\ activityTTL' = [activityTTL EXCEPT ![p] = Forever]
       \/ count > 1 /\ Works /\ UNCHANGED activityTTL
    /\ Goes(w, IF count >= HotThreshold THEN "checking" ELSE "deciding")
    /\ UNCHANGED <<window, windowTTL, cache, fresh, cleanup, owner>>

\* INCR fails, done or not: ProcessEdit returns.
CountFails(w, p) ==
    /\ At(w, "idle")
    /\ edits < MaxEdits
    /\ Fails
    /\ edits' = edits + 1
    /\ \/ UNCHANGED <<activity, activityTTL>>
       \/ /\ activity' = [activity EXCEPT ![p] = IF @ = HotThreshold THEN @ ELSE @ + 1]
          /\ activityTTL' = [activityTTL EXCEPT ![p] = IF @ = 0 THEN Forever ELSE @]
    /\ UNCHANGED <<window, windowTTL, step, page, cache, fresh, cleanup, owner>>

-----------------------------------------------------------------------------
(* promoteToHot and AddEditToWindow *)

\* EXISTS in promoteToHot: an error is taken for "not hot".
WindowLooked(w) ==
    /\ At(w, "checking")
    /\ \/ Works /\ Goes(w, IF Hot(page[w]) THEN "adding" ELSE "counting")
       \/ Fails /\ Goes(w, "counting")
    /\ UNCHANGED <<activity, activityTTL, window, windowTTL, page, cache, fresh,
                   cleanup, edits, owner>>

\* EXISTS again, in AddEditToWindow: the window may have gone.
AddLooked(w) ==
    /\ At(w, "adding")
    /\ \/ Works /\ Goes(w, IF Hot(page[w]) THEN "storing" ELSE "deciding")
       \/ Fails /\ Goes(w, "idle")
    /\ UNCHANGED <<activity, activityTTL, window, windowTTL, page, cache, fresh,
                   cleanup, edits, owner>>

\* ZADD of an edit of age lag, ZREMRANGEBYSCORE of what is a window older
\* than it, ZREMRANGEBYRANK of all but the newest MaxMembers.
Stored(members, lag) ==
    LET added == [members EXCEPT ![lag] = @ + 1]
        young == [a \in Ages |-> IF a >= lag + Window THEN 0 ELSE added[a]]
    IN  [a \in Ages |-> LET newer == IF a = 0 THEN 0 ELSE Recent(young, a - 1) IN
                        IF newer >= MaxMembers THEN 0
                        ELSE Min({young[a], MaxMembers - newer})]

WindowStored(p, lag) == window' = [window EXCEPT ![p] = Stored(@, lag)]

\* The pipeline of AddEditToWindow.  The window may have expired since EXISTS:
\* it is then made anew, past the limit.
EditStored(w, lag) ==
    /\ At(w, "storing")
    /\ Works
    /\ WindowStored(page[w], lag)
    /\ windowTTL' = [windowTTL EXCEPT ![page[w]] = WindowTTL]
    /\ Goes(w, "deciding")
    /\ UNCHANGED <<activity, activityTTL, page, cache, fresh, cleanup, edits, owner>>

\* Either pipeline fails: nothing was done, all was done but the answer is
\* lost, or the connection broke before the EXPIRE.  ProcessEdit returns.
StoreFails(w, lag) ==
    LET p == page[w] IN
    /\ step[w] \in {"storing", "promoting", "promotingBlind"}
    /\ Fails
    /\ \/ UNCHANGED <<window, windowTTL>>
       \/ /\ WindowStored(p, lag)
          /\ windowTTL' = [windowTTL EXCEPT ![p] = WindowTTL]
       \/ /\ WindowStored(p, lag)
          /\ windowTTL' = [windowTTL EXCEPT ![p] = IF @ = 0 THEN Forever ELSE @]
    /\ Goes(w, "idle")
    /\ UNCHANGED <<activity, activityTTL, page, cache, fresh, cleanup, edits, owner>>

\* What the count of hot pages leads to.
Gate(w, count) == Goes(w, IF count >= MaxHotPages THEN "deciding" ELSE "promoting")

\* GetHotPagesCount: the cache while it is fresh, else a SCAN.  When the SCAN
\* fails the count is 0.
PagesCounted(w) ==
    /\ At(w, "counting")
    /\ \/ /\ fresh[w]
          /\ Works
          /\ Gate(w, Cardinality(cache[w]))
          /\ UNCHANGED <<cache, fresh>>
       \/ /\ ~ fresh[w]
          /\ Works
          /\ cache' = [cache EXCEPT ![w] = HotSet]
          /\ fresh' = [fresh EXCEPT ![w] = TRUE]
          /\ Gate(w, Cardinality(HotSet))
       \/ /\ ~ fresh[w]
          /\ Fails
          /\ Goes(w, "promotingBlind")
          /\ UNCHANGED <<cache, fresh>>
    /\ UNCHANGED <<activity, activityTTL, window, windowTTL, page, cleanup, edits, owner>>

\* Mutant: the new page is not noted in the cache.
PromotedUnnoted(w, lag) ==
    LET p == page[w] IN
    /\ step[w] \in {"promoting", "promotingBlind"}
    /\ Works
    /\ WindowStored(p, lag)
    /\ windowTTL' = [windowTTL EXCEPT ![p] = WindowTTL]
    /\ owner' = [owner EXCEPT ![p] = IF At(w, "promoting") THEN w ELSE NoOne]
    /\ Goes(w, "deciding")
    /\ UNCHANGED <<activity, activityTTL, page, cache, fresh, cleanup, edits>>

\* The pipeline of promoteToHot, and the page noted in the cache.
Promoted(w, lag) ==
    LET p == page[w] IN
    /\ step[w] \in {"promoting", "promotingBlind"}
    /\ Works
    /\ WindowStored(p, lag)
    /\ windowTTL' = [windowTTL EXCEPT ![p] = WindowTTL]
    /\ cache' = [cache EXCEPT ![w] = @ \cup {p}]
    /\ owner' = [owner EXCEPT ![p] = IF At(w, "promoting") THEN w ELSE NoOne]
    /\ Goes(w, "deciding")
    /\ UNCHANGED <<activity, activityTTL, page, fresh, cleanup, edits>>

\* Ten seconds have passed since the cache was filled.
CacheExpires(w) ==
    /\ fresh[w]
    /\ fresh' = [fresh EXCEPT ![w] = FALSE]
    /\ UNCHANGED <<activity, activityTTL, window, windowTTL, step, page, cache,
                   cleanup, edits, faults, owner>>

-----------------------------------------------------------------------------
(* cleanupStaleHotPages, of whichever process *)

\* SCAN lists a window.
CleanupScans(p) ==
    /\ cleanup = Idle
    /\ Hot(p)
    /\ cleanup' = <<p, "scanned">>
    /\ UNCHANGED <<activity, activityTTL, window, windowTTL, step, page, cache,
                   fresh, edits, faults, owner>>

\* Mutant: a window without expiry is not stale.
CleanupLooksForEmpty ==
    /\ cleanup[2] = "scanned"
    /\ cleanup' = IF Hot(cleanup[1]) THEN Idle ELSE <<cleanup[1], "stale">>
    /\ UNCHANGED <<activity, activityTTL, window, windowTTL, step, page, cache,
                   fresh, edits, faults, owner>>

\* ZCARD and TTL: stale when it has no expiry or is not there any more.
CleanupLooks ==
    /\ cleanup[2] = "scanned"
    /\ cleanup' = IF windowTTL[cleanup[1]] > 0 THEN Idle ELSE <<cleanup[1], "stale">>
    /\ UNCHANGED <<activity, activityTTL, window, windowTTL, step, page, cache,
                   fresh, edits, faults, owner>>

\* DEL of the window, as it is by now.
CleanupDeletes ==
    LET p == cleanup[1] IN
    /\ cleanup[2] = "stale"
    /\ cleanup' = Idle
    /\ window' = [window EXCEPT ![p] = NoMembers]
    /\ windowTTL' = [windowTTL EXCEPT ![p] = 0]
    /\ owner' = [owner EXCEPT ![p] = NoOne]
    /\ UNCHANGED <<activity, activityTTL, step, page, cache, fresh, edits, faults>>

\* One of the calls fails, or the 30 s of a cleanup are over.
CleanupFails ==
    /\ cleanup # Idle
    /\ Fails
    /\ cleanup' = Idle
    /\ UNCHANGED <<activity, activityTTL, window, windowTTL, step, page, cache,
                   fresh, edits, owner>>

-----------------------------------------------------------------------------

Older(members) ==
    [a \in Ages |-> IF a = 0 THEN 0
                    ELSE IF a = Oldest THEN members[a] + members[a - 1]
                    ELSE members[a - 1]]

Left(ttl) == IF ttl > 0 THEN ttl - 1 ELSE ttl

\* Five minutes pass: keys expire, members age, caches are stale.
HotPagesTick ==
    /\ activityTTL' = [p \in Pages |-> Left(activityTTL[p])]
    /\ activity' = [p \in Pages |-> IF activityTTL[p] = 1 THEN 0 ELSE activity[p]]
    /\ windowTTL' = [p \in Pages |-> Left(windowTTL[p])]
    /\ window' = [p \in Pages |-> IF windowTTL[p] = 1 THEN NoMembers ELSE Older(window[p])]
    /\ owner' = [p \in Pages |-> IF windowTTL[p] = 1 THEN NoOne ELSE owner[p]]
    /\ fresh' = [w \in Workers |-> FALSE]
    /\ UNCHANGED <<step, page, cache, cleanup, edits, faults>>

\* The worker's process ends; the next one has a new tracker.
HotPagesForgets(w) ==
    /\ Goes(w, "idle")
    /\ page' = [page EXCEPT ![w] = NoPage]
    /\ cache' = [cache EXCEPT ![w] = {}]
    /\ fresh' = [fresh EXCEPT ![w] = FALSE]
    /\ UNCHANGED <<activity, activityTTL, window, windowTTL, cleanup, edits, faults, owner>>

=============================================================================
