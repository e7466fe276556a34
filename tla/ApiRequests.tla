----------------------------- MODULE ApiRequests -----------------------------
(***************************************************************************)
(* The read endpoints of the API (src/internal/api/handlers.go) behind     *)
(* their validation and time limit, with the two caches their answers go   *)
(* through: the response cache (src/internal/api/cache.go) and the one of  *)
(* the statistics.  A request looks in the cache, reads what it needs with *)
(* one call after another, stores the answer and gives it; others do the   *)
(* same in between.                                                        *)
(*                                                                         *)
(* An answer is represented by the time since its reads began and by       *)
(* whether one of them failed; calls that follow each other and whose      *)
(* failure means the same appear as one.  A tick is 5 s.                   *)
(***************************************************************************)
EXTENDS Naturals, FiniteSets, Sequences, Faults

CONSTANTS Requests,    \* requests served at a time
          Queries,     \* the endpoints they ask, with one set of parameters
          MaxEntries,  \* responseCacheMaxEntries
          Longest,     \* bound on the ticks a request takes
          NoQuery

VARIABLES
    serving,  \* where each request is
    query,    \* what it asks
    position, \* the read it makes next
    spent,    \* ticks since it came
    gone,     \* its client has left, or its time limit has passed
    answer,   \* what it has read or gives: how old, and whether whole
    cache     \* the answers stored, by endpoint

apiVars == <<serving, query, position, spent, gone, answer, cache>>

-----------------------------------------------------------------------------
(* What the handlers read, call by call, after a look in the cache. *)

\* A call whose failure fails the request, one whose failure leaves a gap in
\* the answer; and those that do not end with the request's context.
Must == [needed |-> TRUE, bound |-> TRUE]
May == [needed |-> FALSE, bound |-> TRUE]
MustUnbound == [needed |-> TRUE, bound |-> FALSE]
MayUnbound == [needed |-> FALSE, bound |-> FALSE]

TrendingReads == <<MustUnbound, May>>
StatsReads == <<May>>
TimelineReads == <<Must>>
AlertsReads == <<May>>
ActiveWarsReads == <<Must, May>>
WarHistoryReads == <<Must, May>>
AnalysisReads == <<MustUnbound>>
WarTimelineReads == <<Must>>
SearchReads == <<MustUnbound>>

GeoRegionsAndWarsReads == <<May>>
GeoHotspotsReads == <<MayUnbound, May>>
GeoReads == GeoRegionsAndWarsReads \o GeoHotspotsReads

ReadsOf == [trending |-> TrendingReads, stats |-> StatsReads, timeline |-> TimelineReads,
            alerts |-> AlertsReads, activeWars |-> ActiveWarsReads,
            warHistory |-> WarHistoryReads, analysis |-> AnalysisReads,
            warTimeline |-> WarTimelineReads, search |-> SearchReads, geo |-> GeoReads]

\* The lives of cached answers, in ticks: 10 s, 5 s, 10 s and 30 s.
Life == [stats |-> 2, alerts |-> 1, search |-> 2, geo |-> 6]
Cached == DOMAIN Life \cap Queries

ASSUME ApiAssumption ==
    /\ Queries \subseteq DOMAIN ReadsOf
    /\ {MaxEntries, Longest} \subseteq Nat
    /\ NoQuery \notin Queries

NoAnswer == [age |-> 0, whole |-> TRUE]
NotStored == [age |-> 0, whole |-> TRUE, held |-> 0, stored |-> FALSE]

ApiInit ==
    /\ serving = [r \in Requests |-> "out"]
    /\ query = [r \in Requests |-> NoQuery]
    /\ position = [r \in Requests |-> 1]
    /\ spent = [r \in Requests |-> 0]
    /\ gone = [r \in Requests |-> FALSE]
    /\ answer = [r \in Requests |-> NoAnswer]
    /\ cache = [q \in Cached |-> NotStored]

-----------------------------------------------------------------------------
(* The caches *)

\* Mutant: what is stored is found until the cleanup removes it.
FoundStored(q) == q \in Cached /\ cache[q].stored

\* Get, and the look at the age of the statistics.
Found(q) ==
    /\ q \in Cached
    /\ cache[q].stored
    /\ cache[q].held <= Life[q]
    /\ q = "stats" => cache[q].held < Life[q]

\* The statistics are kept apart and are not counted.
Entries == {q \in Cached \ {"stats"} : cache[q].stored}

\* Set: a full cache takes nothing, not even for a key it has.
Stored(q, found) ==
    IF q \notin Cached \/ (q # "stats" /\ Cardinality(Entries) >= MaxEntries)
    THEN UNCHANGED cache
    ELSE cache' = [cache EXCEPT ![q] = [age |-> found.age, whole |-> found.whole,
                                        held |-> 0, stored |-> TRUE]]

\* cleanup, every 30 s; it is not part of the statistics' cache.
CacheCleaned ==
    /\ cache' = [q \in Cached |-> IF q # "stats" /\ cache[q].held > Life[q]
                                  THEN NotStored ELSE cache[q]]
    /\ cache' # cache
    /\ UNCHANGED <<serving, query, position, spent, gone, answer, faults>>

-----------------------------------------------------------------------------
(* A request *)

ServingGoes(r, next) == serving' = [serving EXCEPT ![r] = next]

\* The request passes RequestValidationMiddleware and the limiter, its
\* parameters are valid and the service it needs is configured.
RequestComes(r, q) ==
    /\ serving[r] = "out"
    /\ query' = [query EXCEPT ![r] = q]
    /\ ServingGoes(r, "looking")
    /\ UNCHANGED <<position, spent, gone, answer, cache, faults>>

\* Or not: 400, 405, 413, 415, 429 or 503; a preflight ends here with 204.
RequestRefused(r) ==
    /\ serving[r] = "looking"
    /\ ServingGoes(r, "failed")
    /\ UNCHANGED <<query, position, spent, gone, answer, cache, faults>>

LooksInCache(r) ==
    LET q == query[r] IN
    /\ serving[r] = "looking"
    /\ IF Found(q)
       THEN /\ ServingGoes(r, "answered")
            /\ answer' = [answer EXCEPT ![r] = [age |-> cache[q].age + cache[q].held,
                                                whole |-> cache[q].whole]]
       ELSE ServingGoes(r, "reading") /\ UNCHANGED answer
    /\ UNCHANGED <<query, position, spent, gone, cache, faults>>

\* A call works, or fails with its service or since its context has ended.
Reads(r) ==
    LET reads == ReadsOf[query[r]]
        read == reads[position[r]]
        ends == read.bound /\ gone[r]
        goesOn == /\ position' = [position EXCEPT ![r] = @ + 1]
                  /\ ServingGoes(r, IF position[r] = Len(reads) THEN "storing" ELSE "reading")
    IN  /\ serving[r] = "reading"
        /\ \/ Works /\ ~ ends /\ goesOn /\ UNCHANGED answer
           \/ /\ IF ends THEN Works ELSE Fails
              /\ IF read.needed
                 THEN ServingGoes(r, "failed") /\ UNCHANGED <<position, answer>>
                 ELSE goesOn /\ answer' = [answer EXCEPT ![r].whole = FALSE]
        /\ UNCHANGED <<query, spent, gone, cache>>

\* The answer is stored, with gaps or not, and given.
Stores(r) ==
    /\ serving[r] = "storing"
    /\ answer' = [answer EXCEPT ![r].age = spent[r]]
    /\ Stored(query[r], answer'[r])
    /\ ServingGoes(r, "answered")
    /\ UNCHANGED <<query, position, spent, gone, faults>>

RequestLeaves(r) ==
    /\ serving[r] \in {"answered", "failed"}
    /\ ServingGoes(r, "out")
    /\ query' = [query EXCEPT ![r] = NoQuery]
    /\ position' = [position EXCEPT ![r] = 1]
    /\ spent' = [spent EXCEPT ![r] = 0]
    /\ gone' = [gone EXCEPT ![r] = FALSE]
    /\ answer' = [answer EXCEPT ![r] = NoAnswer]
    /\ UNCHANGED <<cache, faults>>

\* The client closes its connection, or RequestTimeoutMiddleware's 90 s pass.
RequestEnds(r) ==
    /\ serving[r] \in {"looking", "reading", "storing"}
    /\ ~ gone[r]
    /\ gone' = [gone EXCEPT ![r] = TRUE]
    /\ UNCHANGED <<serving, query, position, spent, answer, cache, faults>>

\* Time passes; an answer is given at once, and how long an entry has been
\* past its end no longer matters.
TimePasses ==
    LET underWay == {r \in Requests : serving[r] \in {"looking", "reading", "storing"}}
    IN  /\ \A r \in Requests : serving[r] # "answered"
        /\ \A r \in underWay : spent[r] < Longest
        /\ spent' = [r \in Requests |-> IF r \in underWay THEN spent[r] + 1 ELSE spent[r]]
        /\ cache' = [q \in Cached |-> IF cache[q].stored /\ cache[q].held <= Life[q]
                                      THEN [cache[q] EXCEPT !.held = @ + 1] ELSE cache[q]]
        /\ <<spent', cache'>> # <<spent, cache>>
        /\ UNCHANGED <<serving, query, position, gone, answer, faults>>

ApiNext ==
    \/ \E r \in Requests :
          \/ \E q \in Queries : RequestComes(r, q)
          \/ RequestRefused(r) \/ LooksInCache(r) \/ Reads(r) \/ Stores(r)
          \/ RequestLeaves(r) \/ RequestEnds(r)
    \/ CacheCleaned \/ TimePasses

ApiSpec ==
    /\ ApiInit /\ faults = MaxFaults
    /\ [][ApiNext]_<<apiVars, faults>>

-----------------------------------------------------------------------------

ApiTypeOK ==
    /\ serving \in [Requests -> {"out", "looking", "reading", "storing", "answered", "failed"}]
    /\ query \in [Requests -> Queries \cup {NoQuery}]
    /\ \A r \in Requests :
          IF serving[r] = "out" THEN query[r] = NoQuery /\ position[r] = 1
          ELSE position[r] \in 1..(Len(ReadsOf[query[r]]) + 1)
    /\ spent \in [Requests -> 0..Longest]
    /\ gone \in [Requests -> BOOLEAN]
    /\ answer \in [Requests -> [age : Nat, whole : BOOLEAN]]
    /\ DOMAIN cache = Cached
    /\ \A q \in Cached :
          cache[q] \in [age : 0..Longest, whole : BOOLEAN, held : 0..(Life[q] + 1), stored : BOOLEAN]
    /\ Cardinality(Entries) <= MaxEntries

\* An answer, of whichever request that left it in a cache, with the gaps a
\* failure or a departed client made in it, was read at most the time of one
\* request and the life of its kind before it is given: what one request got
\* wrong the others see for no longer than that, also with a full cache and
\* between cleanups.
ServedFresh ==
    \A r \in Requests : serving[r] = "answered" =>
       answer[r].age <= Longest + (IF query[r] \in Cached THEN Life[query[r]] ELSE 0)

=============================================================================
