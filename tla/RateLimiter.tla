----------------------------- MODULE RateLimiter -----------------------------
(***************************************************************************)
(* The API's sliding-window rate limiter                                   *)
(* (src/internal/api/rate_limiter.go): for each endpoint and client a      *)
(* sorted set in Redis, with an entry for each request let in during the   *)
(* last minute.  A request counts the entries with one pipeline and adds   *)
(* its own with another; requests of the client run in between.            *)
(*                                                                         *)
(* Of the time of a request only its effect is modelled: entries leave the *)
(* window at any moment.                                                   *)
(***************************************************************************)
EXTENDS Integers, FiniteSets, Faults

CONSTANTS Callers,            \* requests served at a time
          Paths,              \* the paths they ask for
          Addresses,          \* what getClientIP finds
          Whitelist,          \* the addresses that parseWhitelist kept
          Limits,             \* the table of limits, by endpoint
          RequestsPerMinute,  \* requests_per_minute in the configuration
          NoKey

\* normalizeEndpoint: the paths that are counted together.
EndpointOf == [health |-> "health", trending |-> "trending", stats |-> "stats",
               alerts |-> "alerts", activeWars |-> "edit-wars", warHistory |-> "edit-wars",
               analysis |-> "edit-wars", warTimeline |-> "edit-wars", search |-> "search",
               docs |-> "docs", feed |-> "ws", alertFeed |-> "ws", timeline |-> "other",
               geo |-> "other", login |-> "other", profile |-> "other"]

Endpoints == {EndpointOf[path] : path \in Paths}
Keys == Endpoints \X Addresses

\* NewRateLimiter and getLimitForEndpoint.
DefaultLimit == IF RequestsPerMinute <= 0 THEN 1000 ELSE RequestsPerMinute
LimitOf(k) == IF k[1] \in DOMAIN Limits THEN Limits[k[1]] ELSE DefaultLimit

ASSUME LimiterAssumption ==
    /\ IsFiniteSet(Callers)
    /\ Callers # {}
    /\ Paths \subseteq DOMAIN EndpointOf
    /\ RequestsPerMinute \in Int
    /\ \A e \in DOMAIN Limits : Limits[e] \in Nat \ {0}
    /\ NoKey \notin Keys

VARIABLES
    gate,      \* where each request is in the middleware
    counted,   \* the key it is counted under
    inWindow   \* entries of the last minute in the sorted set of each key

limiterVars == <<gate, counted, inWindow>>

LimiterInit ==
    /\ gate = [c \in Callers |-> "out"]
    /\ counted = [c \in Callers |-> NoKey]
    /\ inWindow = [k \in Keys |-> 0]

-----------------------------------------------------------------------------

Ends(c, verdict) ==
    /\ gate' = [gate EXCEPT ![c] = verdict]
    /\ counted' = [counted EXCEPT ![c] = NoKey]

Whitelisted(address) == address \in Whitelist

\* A request comes; one of a whitelisted client is not counted.
Arrives(c, path, address) ==
    /\ gate[c] = "out"
    /\ \/ Whitelisted(address) /\ Ends(c, "admitted")
       \/ /\ ~ Whitelisted(address)
          /\ gate' = [gate EXCEPT ![c] = "counting"]
          /\ counted' = [counted EXCEPT ![c] = <<EndpointOf[path], address>>]
    /\ UNCHANGED <<inWindow, faults>>

\* Mutant: the request that makes the limit full does not close it.
HasRoomOver(k) == inWindow[k] <= LimitOf(k)

HasRoom(k) == inWindow[k] < LimitOf(k)

\* The first pipeline: ZREMRANGEBYSCORE of what is older than a minute and
\* ZCARD.  When it fails the request is let in.
Counts(c) ==
    /\ gate[c] = "counting"
    /\ \/ /\ Works /\ HasRoom(counted[c])
          /\ gate' = [gate EXCEPT ![c] = "adding"]
          /\ UNCHANGED counted
       \/ Works /\ ~ HasRoom(counted[c]) /\ Ends(c, "refused")
       \/ Fails /\ Ends(c, "admitted")
    /\ UNCHANGED inWindow

EntryAdded(k) == inWindow' = [inWindow EXCEPT ![k] = @ + 1]

\* The second one: ZADD with the time at which the request came, perhaps more
\* than a minute ago, and EXPIRE.  When it fails, done or not, the request is
\* let in all the same.
Adds(c) ==
    /\ gate[c] = "adding"
    /\ Works \/ Fails
    /\ EntryAdded(counted[c]) \/ UNCHANGED inWindow
    /\ Ends(c, "admitted")

\* The handler has answered, or the answer was 429.
Departs(c) ==
    /\ gate[c] \in {"admitted", "refused"}
    /\ gate' = [gate EXCEPT ![c] = "out"]
    /\ UNCHANGED <<counted, inWindow, faults>>

\* Entries become older than a minute; the key expires after 70 seconds.
WindowSlides(k) ==
    /\ \E left \in 0..inWindow[k] : left < inWindow[k] /\ inWindow' = [inWindow EXCEPT ![k] = left]
    /\ UNCHANGED <<gate, counted, faults>>

LimiterNext ==
    \/ \E c \in Callers :
          \/ \E path \in Paths, address \in Addresses : Arrives(c, path, address)
          \/ Counts(c) \/ Adds(c) \/ Departs(c)
    \/ \E k \in Keys : WindowSlides(k)

LimiterSpec ==
    /\ LimiterInit /\ faults = MaxFaults
    /\ [][LimiterNext]_<<limiterVars, faults>>

-----------------------------------------------------------------------------

Adding(k) == {c \in Callers : gate[c] = "adding" /\ counted[c] = k}

LimiterTypeOK ==
    /\ gate \in [Callers -> {"out", "counting", "adding", "admitted", "refused"}]
    /\ counted \in [Callers -> Keys \cup {NoKey}]
    /\ inWindow \in [Keys -> Nat]

\* However the pipelines of concurrent requests interleave and fail, the
\* entries of a minute exceed the limit by less than the number of requests
\* the server handles at once: each of those may have counted the same room.
OvershootBounded ==
    \A k \in Keys : inWindow[k] + Cardinality(Adding(k)) <= LimitOf(k) + Cardinality(Callers) - 1

=============================================================================
