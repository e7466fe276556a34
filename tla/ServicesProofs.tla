---------------------------- MODULE ServicesProofs ----------------------------
(***************************************************************************)
(* Proofs about the services, for any number of requests, pages, accounts, *)
(* operations, limits, thresholds and failures: first about each component *)
(* on its own, then about all of them side by side.                        *)
(***************************************************************************)
EXTENDS Services, FiniteSetTheorems, TLAPS

-----------------------------------------------------------------------------
(* The rate limiter.                                                       *)

\* A request that is being counted has a key.
CountedInv == \A c \in Callers : gate[c] \in {"counting", "adding"} => counted[c] \in Keys

LimiterInv == LimiterTypeOK /\ CountedInv /\ OvershootBounded

LEMMA Limit == ASSUME NEW k \in Keys PROVE LimitOf(k) \in Nat \ {0}
  BY LimiterAssumption DEF LimitOf, DefaultLimit

\* There are fewer requests between the pipelines than requests at all.
LEMMA AddingCount ==
    ASSUME NEW k \in Keys
    PROVE  /\ IsFiniteSet(Adding(k)) /\ Cardinality(Adding(k)) \in Nat
           /\ Cardinality(Callers) \in Nat \ {0}
           /\ Cardinality(Adding(k)) <= Cardinality(Callers)
  <1>1. Adding(k) \subseteq Callers
    BY DEF Adding
  <1>2. IsFiniteSet(Adding(k)) /\ Cardinality(Adding(k)) <= Cardinality(Callers)
    BY <1>1, LimiterAssumption, FS_Subset
  <1>3. Cardinality(Adding(k)) \in Nat /\ Cardinality(Callers) \in Nat
    BY <1>2, LimiterAssumption, FS_CardinalityType
  <1>4. Cardinality(Callers) # 0
    BY LimiterAssumption, FS_EmptySet
  <1> QED  BY <1>2, <1>3, <1>4

LEMMA LimiterStarts == LimiterInit => LimiterInv
  <1> SUFFICES ASSUME LimiterInit PROVE LimiterInv
    OBVIOUS
  <1> USE DEF LimiterInit
  <1>1. LimiterTypeOK /\ CountedInv
    BY DEF LimiterTypeOK, CountedInv
  <1>2. ASSUME NEW k \in Keys
        PROVE  inWindow[k] + Cardinality(Adding(k)) <= LimitOf(k) + Cardinality(Callers) - 1
    <2>1. Adding(k) = {}
      BY DEF Adding
    <2>2. Cardinality(Adding(k)) = 0 /\ inWindow[k] = 0
      BY <2>1, FS_EmptySet
    <2> QED  BY <2>2, Limit, AddingCount
  <1> QED  BY <1>1, <1>2 DEF LimiterInv, OvershootBounded

\* A request that leaves the gap between the pipelines makes one fewer there.
LEMMA OneFewerAdding ==
    ASSUME NEW c \in Callers, LimiterTypeOK, NEW verdict, verdict # "adding",
           Ends(c, verdict), gate[c] = "adding", NEW k \in Keys
    PROVE  Cardinality(Adding(k)') = Cardinality(Adding(k)) - (IF counted[c] = k THEN 1 ELSE 0)
  <1>1. Adding(k)' = Adding(k) \ {c}
    BY LimiterAssumption DEF Adding, Ends, LimiterTypeOK
  <1>2. CASE counted[c] = k
    <2>1. c \in Adding(k)
      BY <1>2 DEF Adding
    <2> QED  BY <1>1, <1>2, <2>1, AddingCount, FS_RemoveElement
  <1>3. CASE counted[c] # k
    <2>1. Adding(k)' = Adding(k)
      BY <1>1, <1>3 DEF Adding
    <2> QED  BY <1>3, <2>1, AddingCount
  <1> QED  BY <1>2, <1>3

LEMMA LimiterStep == LimiterInv /\ [LimiterNext]_<<limiterVars, faults>> => LimiterInv'
  <1> SUFFICES ASSUME LimiterInv, [LimiterNext]_<<limiterVars, faults>> PROVE LimiterInv'
    OBVIOUS
  <1> USE DEF LimiterInv
  <1> DEFINE Bound(k) == inWindow[k] + Cardinality(Adding(k)) <= LimitOf(k) + Cardinality(Callers) - 1
  <1>1. ASSUME NEW c \in Callers, NEW path \in Paths, NEW address \in Addresses, Arrives(c, path, address)
        PROVE  LimiterInv'
    <2>1. <<EndpointOf[path], address>> \in Keys
      BY DEF Keys, Endpoints
    <2>2. LimiterTypeOK' /\ CountedInv'
      BY <1>1, <2>1 DEF Arrives, Ends, LimiterTypeOK, CountedInv
    <2>3. \A k \in Keys : Adding(k)' = Adding(k)
      BY <1>1 DEF Arrives, Ends, LimiterTypeOK, Adding
    <2>4. inWindow' = inWindow
      BY <1>1 DEF Arrives
    <2>5. OvershootBounded'
      BY <2>3, <2>4 DEF OvershootBounded
    <2> QED  BY <2>2, <2>5
  <1>2. ASSUME NEW c \in Callers, Counts(c)
        PROVE  LimiterInv'
    <2>1. counted[c] \in Keys /\ inWindow' = inWindow
      BY <1>2 DEF Counts, CountedInv
    <2>2. LimiterTypeOK' /\ CountedInv'
      BY <1>2, <2>1 DEF Counts, Ends, LimiterTypeOK, CountedInv
    <2>3. ASSUME NEW k \in Keys PROVE Bound(k)'
      <3>1. CASE Adding(k)' \subseteq Adding(k)
        <4>1. Cardinality(Adding(k)') <= Cardinality(Adding(k)) /\ Cardinality(Adding(k)') \in Nat
          BY <3>1, AddingCount, FS_Subset, FS_CardinalityType
        <4>2. Bound(k) /\ inWindow[k] \in Nat
          BY DEF OvershootBounded, LimiterTypeOK
        <4> QED  BY <2>1, <4>1, <4>2, Limit, AddingCount
      <3>2. CASE ~ (Adding(k)' \subseteq Adding(k))
        <4>1. HasRoom(k)
          BY <1>2, <3>2 DEF Counts, Ends, Adding, LimiterTypeOK
        <4>2. Adding(k)' \subseteq Callers
          BY DEF Adding
        <4>3. Cardinality(Adding(k)') <= Cardinality(Callers) /\ Cardinality(Adding(k)') \in Nat
          BY <4>2, LimiterAssumption, FS_Subset, FS_CardinalityType
        <4>4. inWindow[k] \in Nat /\ inWindow'[k] < LimitOf(k)
          BY <2>1, <4>1 DEF HasRoom, LimiterTypeOK
        <4> QED  BY <2>1, <4>3, <4>4, Limit, AddingCount
      <3> QED  BY <3>1, <3>2
    <2> QED  BY <2>2, <2>3 DEF OvershootBounded
  <1>3. ASSUME NEW c \in Callers, Adds(c)
        PROVE  LimiterInv'
    <2>1. /\ counted[c] \in Keys /\ gate[c] = "adding" /\ Ends(c, "admitted")
          /\ inWindow' \in {inWindow, [inWindow EXCEPT ![counted[c]] = @ + 1]}
      BY <1>3 DEF Adds, EntryAdded, CountedInv
    <2>2. LimiterTypeOK' /\ CountedInv'
      BY <2>1 DEF Ends, LimiterTypeOK, CountedInv
    <2>3. ASSUME NEW k \in Keys PROVE Bound(k)'
      <3>1. Cardinality(Adding(k)') = Cardinality(Adding(k)) - (IF counted[c] = k THEN 1 ELSE 0)
        BY <2>1, OneFewerAdding
      <3>2. /\ inWindow[k] \in Nat
            /\ inWindow'[k] \in {inWindow[k], inWindow[k] + (IF counted[c] = k THEN 1 ELSE 0)}
        BY <2>1 DEF LimiterTypeOK
      <3>3. Bound(k)
        BY DEF OvershootBounded
      <3> QED  BY <3>1, <3>2, <3>3, Limit, AddingCount
    <2> QED  BY <2>2, <2>3 DEF OvershootBounded
  <1>4. ASSUME NEW c \in Callers, Departs(c)
        PROVE  LimiterInv'
    <2>1. LimiterTypeOK' /\ CountedInv'
      BY <1>4 DEF Departs, LimiterTypeOK, CountedInv
    <2>2. \A k \in Keys : Adding(k)' = Adding(k)
      BY <1>4 DEF Departs, LimiterTypeOK, Adding
    <2>3. inWindow' = inWindow
      BY <1>4 DEF Departs
    <2>4. OvershootBounded'
      BY <2>2, <2>3 DEF OvershootBounded
    <2> QED  BY <2>1, <2>4
  <1>5. ASSUME NEW j \in Keys, WindowSlides(j)
        PROVE  LimiterInv'
    <2>1. PICK left \in 0..inWindow[j] : inWindow' = [inWindow EXCEPT ![j] = left]
      BY <1>5 DEF WindowSlides
    <2>2. LimiterTypeOK' /\ CountedInv'
      BY <1>5, <2>1 DEF WindowSlides, LimiterTypeOK, CountedInv
    <2>3. ASSUME NEW k \in Keys PROVE Bound(k)'
      <3>1. Adding(k)' = Adding(k)
        BY <1>5 DEF WindowSlides, Adding
      <3>2. inWindow[k] \in Nat /\ inWindow'[k] \in Nat /\ inWindow'[k] <= inWindow[k]
        BY <2>1 DEF LimiterTypeOK
      <3>3. Bound(k)
        BY DEF OvershootBounded
      <3> QED  BY <3>1, <3>2, <3>3, Limit, AddingCount
    <2> QED  BY <2>2, <2>3 DEF OvershootBounded
  <1>6. CASE UNCHANGED <<limiterVars, faults>>
    BY <1>6 DEF limiterVars, LimiterTypeOK, CountedInv, OvershootBounded, Adding
  <1> QED  BY <1>1, <1>2, <1>3, <1>4, <1>5, <1>6 DEF LimiterNext

\* The limiter's entries exceed a limit by less than the number of requests
\* served at once, for any of these numbers and any failures of Redis.
THEOREM LimitExceededByFewer == LimiterSpec => []OvershootBounded
  <1>1. LimiterInv => OvershootBounded
    BY DEF LimiterInv
  <1> QED  BY <1>1, LimiterStarts, LimiterStep, PTL DEF LimiterSpec

-----------------------------------------------------------------------------
(* The circuit breaker.                                                    *)

\* An operation that waits has an attempt left.
AttemptInv == \A o \in Operations : call[o] = "waiting" => attempt[o] < MaxAttempts

BreakerInv == BreakerTypeOK /\ AttemptInv /\ ClosedWhileFewFailures

\* The parts of the state: the calls and the breaker.
CallsOK ==
    /\ call \in [Operations -> {"idle", "calling", "running", "waiting"}]
    /\ attempt \in [Operations -> 0..MaxAttempts]
    /\ AttemptInv

CountsOK ==
    /\ breaker \in {"closed", "open", "half-open"} /\ timedOut \in BOOLEAN
    /\ failures \in Nat /\ successes \in Nat
    /\ ClosedWhileFewFailures

LEMMA Thresholds ==
    /\ FailureThreshold \in Nat /\ FailureThreshold > 0
    /\ HalfOpenMaxCalls \in Nat /\ HalfOpenMaxCalls > 0
    /\ MaxAttempts \in Nat /\ MaxAttempts > 0
  BY BreakerAssumption

LEMMA BreakerParts == BreakerInv <=> CallsOK /\ CountsOK
  BY DEF BreakerInv, BreakerTypeOK, CallsOK, CountsOK

LEMMA BreakerStarts == BreakerInit => BreakerInv
  BY BreakerAssumption, BreakerParts
  DEF BreakerInit, CallsOK, CountsOK, AttemptInv, ClosedWhileFewFailures

LEMMA AttemptTypes ==
    ASSUME CallsOK, NEW o \in Operations, NEW outcome, AttemptEnds(o, outcome)
    PROVE  CallsOK'
  <1>1. CASE outcome = "retry" /\ attempt[o] < MaxAttempts
    BY <1>1 DEF CallsOK, AttemptEnds, CallGoes, AttemptInv
  <1>2. CASE ~ (outcome = "retry" /\ attempt[o] < MaxAttempts)
    BY <1>2, BreakerAssumption DEF CallsOK, AttemptEnds, CallGoes, AttemptInv
  <1> QED  BY <1>1, <1>2

\* What calls do to themselves.
LEMMA CallsStep == CallsOK /\ [BreakerNext]_breakerVars => CallsOK'
  <1> SUFFICES ASSUME CallsOK, [BreakerNext]_breakerVars PROVE CallsOK'
    OBVIOUS
  <1>1. ASSUME NEW o \in Operations, OperationStarts(o) \/ Retried(o) \/ OperationCancelled(o)
        PROVE  CallsOK'
    BY <1>1, BreakerAssumption
    DEF OperationStarts, Retried, OperationCancelled, CallGoes, CallsOK, AttemptInv
  <1>2. ASSUME NEW o \in Operations, CallRejected(o) \/ CallFails(o) \/ CallSucceeds(o)
        PROVE  CallsOK'
    BY <1>2, AttemptTypes DEF CallRejected, CallFails, CallSucceeds
  <1>3. ASSUME NEW o \in Operations, CallAdmitted(o)
        PROVE  CallsOK'
    BY <1>3 DEF CallAdmitted, CallGoes, CallsOK, AttemptInv
  <1>4. CASE StateRead \/ BreakerReset \/ ResetTimeoutPasses \/ UNCHANGED breakerVars
    BY <1>4 DEF StateRead, BreakerReset, ResetTimeoutPasses, breakerVars, CallsOK, AttemptInv
  <1> QED  BY <1>1, <1>2, <1>3, <1>4 DEF BreakerNext

\* What they do to the breaker.
LEMMA CountsStep == CountsOK /\ [BreakerNext]_breakerVars => CountsOK'
  <1> SUFFICES ASSUME CountsOK, [BreakerNext]_breakerVars PROVE CountsOK'
    OBVIOUS
  <1> USE Thresholds DEF CountsOK, ClosedWhileFewFailures
  <1>1. ASSUME NEW o \in Operations,
               OperationStarts(o) \/ Retried(o) \/ OperationCancelled(o) \/ CallRejected(o)
        PROVE  CountsOK'
    BY <1>1 DEF OperationStarts, Retried, OperationCancelled, CallRejected
  <1>2. ASSUME NEW o \in Operations, CallAdmitted(o)
        PROVE  CountsOK'
    BY <1>2 DEF CallAdmitted, Reopens
  <1>3. ASSUME NEW o \in Operations, CallFails(o)
        PROVE  CountsOK'
    <2>1. timedOut' \in BOOLEAN
      BY <1>3 DEF CallFails
    <2>2. /\ failures' = failures + 1 /\ successes' = successes
          /\ breaker' = IF failures' >= FailureThreshold THEN "open" ELSE breaker
      BY <1>3 DEF CallFails
    <2>3. failures' \in Nat /\ breaker' \in {"closed", "open", "half-open"}
      BY <2>2
    <2>4. breaker' = "closed" <=> failures' < FailureThreshold
      BY <2>2
    <2> QED  BY <2>1, <2>2, <2>3, <2>4
  <1>4. ASSUME NEW o \in Operations, CallSucceeds(o)
        PROVE  CountsOK'
    <2>1. CASE breaker = "half-open" /\ Probed(successes + 1 >= HalfOpenMaxCalls)
      BY <1>4, <2>1 DEF CallSucceeds, Probed
    <2>2. CASE breaker = "closed" /\ failures' = 0 /\ UNCHANGED <<breaker, successes>>
      BY <1>4, <2>2 DEF CallSucceeds
    <2>3. CASE breaker = "open" /\ UNCHANGED <<breaker, failures, successes>>
      BY <1>4, <2>3 DEF CallSucceeds
    <2> QED  BY <1>4, <2>1, <2>2, <2>3 DEF CallSucceeds
  <1>5. CASE StateRead
    BY <1>5 DEF StateRead, Reopens
  <1>6. CASE BreakerReset
    BY <1>6 DEF BreakerReset
  <1>7. CASE ResetTimeoutPasses \/ UNCHANGED breakerVars
    BY <1>7 DEF ResetTimeoutPasses, breakerVars
  <1> QED  BY <1>1, <1>2, <1>3, <1>4, <1>5, <1>6, <1>7 DEF BreakerNext

LEMMA BreakerSteady == BreakerInv /\ [BreakerNext]_breakerVars => BreakerInv'
  BY BreakerParts, CallsStep, CountsStep, PTL

\* The breaker is closed exactly while few failures are counted, for any
\* number of calls that overlap, any thresholds, and any order of outcomes.
THEOREM BreakerConsistent == BreakerSpec => []ClosedWhileFewFailures
  <1>1. BreakerInv => ClosedWhileFewFailures
    BY DEF BreakerInv
  <1> QED  BY <1>1, BreakerStarts, BreakerSteady, PTL DEF BreakerSpec

-----------------------------------------------------------------------------
(* The degradation manager.                                                *)

\* The level is that of the health, and whatever is unhealthy is in trouble; it
\* may be in trouble for what was reported without its health.
CauseInv ==
    /\ level = LevelOf(health)
    /\ Unhealthy(health) \subseteq troubled
    /\ NothingOutlastsItsCause

DegradationInv == DegradationTypeOK /\ CauseInv

LEMMA NoneUnhealthy ==
    ASSUME NEW state, Unhealthy(state) = {}
    PROVE  LevelOf(state) = "none"
  BY FS_EmptySet DEF LevelOf

LEMMA Levels == ASSUME NEW state PROVE LevelOf(state) \in {"none", "partial", "severe"}
  BY DEF LevelOf

LEMMA DegradationStarts == DegradationInit => DegradationInv
  <1> SUFFICES ASSUME DegradationInit PROVE DegradationInv
    OBVIOUS
  <1> USE DEF DegradationInit
  <1>1. Unhealthy(health) = {}
    BY DEF Unhealthy
  <1>2. level = LevelOf(health) /\ level = "none"
    BY <1>1, NoneUnhealthy
  <1>3. NothingOutlastsItsCause
    BY <1>2 DEF NothingOutlastsItsCause
  <1> QED  BY <1>1, <1>2, <1>3, DegradationAssumption
           DEF DegradationInv, DegradationTypeOK, CauseInv, Infrastructure

\* Each report sets the component's health and the level of all of them, and
\* undoes or applies what the component is the cause of.
LEMMA HandlersKeepCauses ==
    ASSUME DegradationInv,
           \/ HandleElasticsearchUnavailable \/ HandleElasticsearchRecovered
           \/ HandleRedisMemoryLimit \/ HandleRedisMemoryCritical \/ HandleRedisRecovered
           \/ HandleHighKafkaLag \/ HandleKafkaLagRecovered,
           monitor' \in {"new", "running", "stopped"}, wasHigh' \in {"first", "no", "yes"}
    PROVE  DegradationInv'
  <1>1. level' = LevelOf(health') /\ Unhealthy(health') \subseteq troubled'
    <2> USE DEF DegradationInv, DegradationTypeOK, CauseInv, Unhealthy, Infrastructure, Reported
    <2>1. CASE HandleElasticsearchUnavailable
      BY <2>1 DEF HandleElasticsearchUnavailable
    <2>2. CASE HandleElasticsearchRecovered
      BY <2>2 DEF HandleElasticsearchRecovered
    <2>3. CASE HandleRedisMemoryLimit
      BY <2>3 DEF HandleRedisMemoryLimit
    <2>4. CASE HandleRedisMemoryCritical
      BY <2>4 DEF HandleRedisMemoryCritical
    <2>5. CASE HandleRedisRecovered
      BY <2>5 DEF HandleRedisRecovered
    <2>6. CASE HandleHighKafkaLag
      BY <2>6 DEF HandleHighKafkaLag
    <2>7. CASE HandleKafkaLagRecovered
      BY <2>7 DEF HandleKafkaLagRecovered
    <2> QED  BY <2>1, <2>2, <2>3, <2>4, <2>5, <2>6, <2>7
  <1>2. level' \in {"none", "partial", "severe"} /\ (troubled' = {} => level' = "none")
    <2>1. LevelOf(health') \in {"none", "partial", "severe"}
      BY Levels
    <2>2. troubled' = {} => Unhealthy(health') = {}
      BY <1>1
    <2>3. Unhealthy(health') = {} => LevelOf(health') = "none"
      BY NoneUnhealthy
    <2> QED  BY <1>1, <2>1, <2>2, <2>3
  <1>3. /\ health' \in [Infrastructure -> {"unknown", "healthy", "unhealthy"}]
        /\ enabled' \subseteq Managed
        /\ maxTracked' \in {NormalLimit, ReducedLimit}
        /\ troubled' \subseteq Infrastructure
        /\ Indexing \in Configured \ enabled' => {"elasticsearch", "kafka"} \cap troubled' # {}
        /\ TrendingTracking \in Configured \ enabled' => "redis" \in troubled'
        /\ maxTracked' # NormalLimit => "redis" \in troubled'
    <2> USE DegradationAssumption DEF DegradationInv, DegradationTypeOK, CauseInv,
            NothingOutlastsItsCause, Infrastructure, Managed, Indexing, TrendingTracking, Reported,
            EnableFeature, DisableFeature
    <2>1. CASE HandleElasticsearchUnavailable
      BY <2>1 DEF HandleElasticsearchUnavailable
    <2>2. CASE HandleElasticsearchRecovered
      BY <2>2 DEF HandleElasticsearchRecovered
    <2>3. CASE HandleRedisMemoryLimit
      BY <2>3 DEF HandleRedisMemoryLimit
    <2>4. CASE HandleRedisMemoryCritical
      BY <2>4 DEF HandleRedisMemoryCritical
    <2>5. CASE HandleRedisRecovered
      BY <2>5 DEF HandleRedisRecovered
    <2>6. CASE HandleHighKafkaLag
      BY <2>6 DEF HandleHighKafkaLag
    <2>7. CASE HandleKafkaLagRecovered
      BY <2>7 DEF HandleKafkaLagRecovered
    <2> QED  BY <2>1, <2>2, <2>3, <2>4, <2>5, <2>6, <2>7
  <1>4. NothingOutlastsItsCause'
    BY <1>2, <1>3 DEF NothingOutlastsItsCause
  <1>5. CauseInv'
    BY <1>1, <1>4 DEF CauseInv, Unhealthy, LevelOf
  <1> QED  BY <1>2, <1>3, <1>5 DEF DegradationInv, DegradationTypeOK

LEMMA DegradationStep == DegradationInv /\ [DegradationNext]_degradationVars => DegradationInv'
  <1> SUFFICES ASSUME DegradationInv, [DegradationNext]_degradationVars PROVE DegradationInv'
    OBVIOUS
  <1>1. monitor \in {"new", "running", "stopped"} /\ wasHigh \in {"first", "no", "yes"}
    BY DEF DegradationInv, DegradationTypeOK
  <1>2. CASE ComponentReported
    BY <1>1, <1>2, HandlersKeepCauses DEF ComponentReported
  <1>3. CASE MemoryHigh \/ DiskHigh \/ LagRose \/ LagFell
    BY <1>1, <1>3, HandlersKeepCauses DEF MemoryHigh, DiskHigh, LagRose, LagFell
  <1>4. CASE MonitorStarts \/ MonitorStops \/ FirstLagChecked \/ UNCHANGED degradationVars
    BY <1>4 DEF MonitorStarts, MonitorStops, FirstLagChecked, degradationVars, DegradationInv,
        DegradationTypeOK, CauseInv, NothingOutlastsItsCause, LevelOf, Unhealthy
  <1> QED  BY <1>2, <1>3, <1>4 DEF DegradationNext

\* No degradation outlasts its causes, for every configuration of features
\* and limits and every order of reports, the second stage of memory pressure
\* without the first included.
THEOREM DegradationEnds == DegradationSpec => []NothingOutlastsItsCause
  <1>1. DegradationInv => NothingOutlastsItsCause
    BY DEF DegradationInv, CauseInv
  <1> QED  BY <1>1, DegradationStarts, DegradationStep, PTL DEF DegradationSpec

-----------------------------------------------------------------------------
(* Cached answers.                                                         *)

LivesOK == \A q \in Cached : Life[q] \in Nat

AnswersOK ==
    /\ serving \in [Requests -> {"out", "looking", "reading", "storing", "answered", "failed"}]
    /\ spent \in [Requests -> 0..Longest]
    /\ answer \in [Requests -> [age : Nat, whole : BOOLEAN]]
    /\ cache \in [Cached -> [age : 0..Longest, whole : BOOLEAN, held : Nat, stored : BOOLEAN]]

FreshInv == AnswersOK /\ ServedFresh

LEMMA Lives == LivesOK /\ Longest \in Nat
  BY ApiAssumption DEF LivesOK, Cached, Life

LEMMA AnswersStart == ApiInit => FreshInv
  BY Lives DEF ApiInit, FreshInv, AnswersOK, ServedFresh, NoAnswer, NotStored

\* Whoever answers does it with something fresh; the others answer as before.
LEMMA OneAnswers ==
    ASSUME FreshInv, NEW r \in Requests, NEW next, ServingGoes(r, next),
           \A s \in Requests \ {r} : answer'[s] = answer[s] /\ query'[s] = query[s],
           next = "answered" =>
              answer'[r].age <= Longest + (IF query'[r] \in Cached THEN Life[query'[r]] ELSE 0)
    PROVE  ServedFresh'
  <1> SUFFICES ASSUME NEW s \in Requests, serving'[s] = "answered"
               PROVE  answer'[s].age <= Longest + (IF query'[s] \in Cached THEN Life[query'[s]] ELSE 0)
    BY DEF ServedFresh
  <1>1. CASE s = r
    BY <1>1 DEF ServingGoes, FreshInv, AnswersOK
  <1>2. CASE s # r
    BY <1>2 DEF ServingGoes, FreshInv, AnswersOK, ServedFresh
  <1> QED  BY <1>1, <1>2

LEMMA LookStep == ASSUME FreshInv, NEW r \in Requests, LooksInCache(r) PROVE FreshInv'
  <1>1. UNCHANGED <<query, spent, cache>>
    BY DEF LooksInCache
  <1>2. CASE Found(query[r])
    <2> DEFINE q == query[r]
               given == [age |-> cache[q].age + cache[q].held, whole |-> cache[q].whole]
    <2>1. ServingGoes(r, "answered") /\ answer' = [answer EXCEPT ![r] = given]
      BY <1>2 DEF LooksInCache
    <2>2. /\ q \in Cached /\ Life[q] \in Nat /\ cache[q].held <= Life[q]
          /\ cache[q].age \in 0..Longest /\ cache[q].held \in Nat /\ cache[q].whole \in BOOLEAN
      BY <1>2, Lives DEF Found, LivesOK, FreshInv, AnswersOK
    <2>3. given \in [age : Nat, whole : BOOLEAN] /\ given.age <= Longest + Life[q]
      BY <2>2, Lives
    <2>4. AnswersOK'
      BY <1>1, <2>1, <2>3 DEF FreshInv, AnswersOK, ServingGoes
    <2>5. answer'[r] = given /\ \A s \in Requests \ {r} : answer'[s] = answer[s]
      BY <2>1 DEF FreshInv, AnswersOK
    <2> QED  BY <1>1, <2>1, <2>2, <2>3, <2>4, <2>5, OneAnswers DEF FreshInv
  <1>3. CASE ~ Found(query[r])
    <2>1. ServingGoes(r, "reading") /\ UNCHANGED answer
      BY <1>3 DEF LooksInCache
    <2>2. AnswersOK'
      BY <1>1, <2>1 DEF FreshInv, AnswersOK, ServingGoes
    <2> QED  BY <1>1, <2>1, <2>2, OneAnswers DEF FreshInv
  <1> QED  BY <1>2, <1>3

LEMMA ReadStep == ASSUME FreshInv, NEW r \in Requests, Reads(r) PROVE FreshInv'
  <1>1. UNCHANGED <<query, spent, cache>>
    BY DEF Reads
  <1>2. PICK next \in {"storing", "reading", "failed"} : ServingGoes(r, next)
    BY DEF Reads
  <1>3. UNCHANGED answer \/ answer' = [answer EXCEPT ![r].whole = FALSE]
    BY DEF Reads
  <1>4. /\ answer' \in [Requests -> [age : Nat, whole : BOOLEAN]]
        /\ \A s \in Requests \ {r} : answer'[s] = answer[s]
    BY <1>3 DEF FreshInv, AnswersOK
  <1>5. AnswersOK'
    BY <1>1, <1>2, <1>4 DEF FreshInv, AnswersOK, ServingGoes
  <1> QED  BY <1>1, <1>2, <1>4, <1>5, OneAnswers DEF FreshInv

LEMMA StoreStep == ASSUME FreshInv, NEW r \in Requests, Stores(r) PROVE FreshInv'
  <1>1. UNCHANGED <<query, spent>> /\ ServingGoes(r, "answered")
        /\ answer' = [answer EXCEPT ![r].age = spent[r]]
    BY DEF Stores
  <1>2. spent[r] \in 0..Longest
    BY DEF FreshInv, AnswersOK
  <1>3. /\ answer'[r].age = spent[r] /\ answer'[r].whole \in BOOLEAN
        /\ answer' \in [Requests -> [age : Nat, whole : BOOLEAN]]
        /\ \A s \in Requests \ {r} : answer'[s] = answer[s]
    BY <1>1, <1>2 DEF FreshInv, AnswersOK
  <1>4. cache' \in [Cached -> [age : 0..Longest, whole : BOOLEAN, held : Nat, stored : BOOLEAN]]
    <2> DEFINE row == [age |-> answer'[r].age, whole |-> answer'[r].whole, held |-> 0, stored |-> TRUE]
    <2>1. UNCHANGED cache \/ cache' = [cache EXCEPT ![query[r]] = row]
      BY DEF Stores, Stored
    <2>2. row \in [age : 0..Longest, whole : BOOLEAN, held : Nat, stored : BOOLEAN]
      BY <1>2, <1>3
    <2> HIDE DEF row
    <2> QED  BY <2>1, <2>2 DEF FreshInv, AnswersOK
  <1>5. AnswersOK'
    BY <1>1, <1>3, <1>4 DEF FreshInv, AnswersOK, ServingGoes
  <1>6. answer'[r].age <= Longest + (IF query'[r] \in Cached THEN Life[query'[r]] ELSE 0)
    BY <1>2, <1>3, Lives DEF LivesOK
  <1> QED  BY <1>1, <1>3, <1>5, <1>6, OneAnswers DEF FreshInv

LEMMA OtherApiStep ==
    ASSUME FreshInv,
           \/ \E r \in Requests :
                 \/ \E q \in Queries : RequestComes(r, q)
                 \/ RequestRefused(r) \/ RequestLeaves(r) \/ RequestEnds(r)
           \/ CacheCleaned \/ TimePasses \/ UNCHANGED <<apiVars, faults>>
    PROVE  FreshInv'
  <1> USE DEF FreshInv
  <1>1. ASSUME NEW r \in Requests, NEW q \in Queries, RequestComes(r, q) PROVE FreshInv'
    <2>1. AnswersOK'
      BY <1>1 DEF RequestComes, ServingGoes, AnswersOK
    <2>2. ServingGoes(r, "looking") /\ UNCHANGED answer /\ \A s \in Requests \ {r} : query'[s] = query[s]
      BY <1>1 DEF RequestComes
    <2> QED  BY <2>1, <2>2, OneAnswers
  <1>2. ASSUME NEW r \in Requests, RequestRefused(r) PROVE FreshInv'
    <2>1. AnswersOK'
      BY <1>2 DEF RequestRefused, ServingGoes, AnswersOK
    <2> QED  BY <1>2, <2>1, OneAnswers DEF RequestRefused
  <1>3. ASSUME NEW r \in Requests, RequestLeaves(r) PROVE FreshInv'
    <2>1. AnswersOK'
      BY <1>3, Lives DEF RequestLeaves, ServingGoes, AnswersOK, NoAnswer
    <2>2. /\ ServingGoes(r, "out")
          /\ \A s \in Requests \ {r} : query'[s] = query[s] /\ answer'[s] = answer[s]
      BY <1>3 DEF RequestLeaves, AnswersOK
    <2> QED  BY <2>1, <2>2, OneAnswers
  <1>4. CASE (\E r \in Requests : RequestEnds(r)) \/ UNCHANGED <<apiVars, faults>>
    BY <1>4 DEF RequestEnds, apiVars, AnswersOK, ServedFresh
  <1>5. CASE CacheCleaned
    <2>1. cache' = [q \in Cached |-> cache'[q]]
          /\ \A q \in Cached : cache'[q] \in {cache[q], NotStored}
      BY <1>5 DEF CacheCleaned
    <2>2. AnswersOK'
      BY <1>5, <2>1, Lives DEF CacheCleaned, AnswersOK, NotStored
    <2> QED  BY <1>5, <2>2 DEF CacheCleaned, ServedFresh
  <1>6. CASE TimePasses
    <2>1. UNCHANGED <<serving, query, answer>> /\ \A r \in Requests : serving[r] # "answered"
      BY <1>6 DEF TimePasses
    <2>2. spent' \in [Requests -> 0..Longest]
      BY <1>6, Lives DEF TimePasses, AnswersOK
    <2>3. cache' \in [Cached -> [age : 0..Longest, whole : BOOLEAN, held : Nat, stored : BOOLEAN]]
      BY <1>6 DEF TimePasses, AnswersOK
    <2> QED  BY <2>1, <2>2, <2>3 DEF AnswersOK, ServedFresh
  <1> QED  BY <1>1, <1>2, <1>3, <1>4, <1>5, <1>6

LEMMA AnswersSteady == FreshInv /\ [ApiNext]_<<apiVars, faults>> => FreshInv'
  BY LookStep, ReadStep, StoreStep, OtherApiStep DEF ApiNext

\* No answer is older than the time of a request and the life of its kind in
\* the cache, for any number of requests, endpoints and places in the cache.
THEOREM AnswersFresh == ApiSpec => []ServedFresh
  <1>1. FreshInv => ServedFresh
    BY DEF FreshInv
  <1> QED  BY <1>1, AnswersStart, AnswersSteady, PTL DEF ApiSpec

-----------------------------------------------------------------------------
(* Places.                                                                 *)

\* A call about the article failed since it was looked up, or the sources
\* asked so far, and those that will be, are all there are.
Failing(l) == sinceFail[article[l]] = 0
Silent(a, sources) == Telling[a] \cap sources = {}

LookupsOK ==
    /\ looking \in [Lookups -> {"idle", "cache", "article", "wikidata", "english", "place", "nowhere"}]
    /\ article \in [Lookups -> Articles \cup {NoArticle}]
    /\ read \in [Lookups -> SUBSET Sources]
    /\ \A l \in Lookups : looking[l] # "idle" => article[l] \in Articles
    /\ placed \in [Pages -> {"absent", "nowhere", "place"}]
    /\ heldFor \in [Pages -> Nat]
    /\ source \in [Pages -> Articles \cup {NoArticle}]
    /\ sinceFail \in [Articles -> Nat]

\* What each stage of a lookup knows when no call about its article has failed.
StagesKnow ==
    \A l \in Lookups :
       /\ looking[l] = "wikidata" => read[l] = {"title", "extract"}
       /\ looking[l] = "wikidata" /\ ~ Failing(l) => article[l] \in Linked /\ Silent(article[l], {"article"})
       /\ looking[l] = "english" /\ ~ Failing(l) =>
             article[l] \in Foreign /\ Silent(article[l], Asked(article[l]) \ {"english"})
       /\ looking[l] = "nowhere" /\ ~ Failing(l) => Silent(article[l], Asked(article[l]))

\* What is cached is about an article of that title; that it has no place is
\* right, or cached since the last failure of a call about it.
CachedSinceFailure ==
    \A p \in Pages :
       /\ placed[p] # "absent" =>
             heldFor[p] < CacheLife /\ source[p] \in Articles /\ source[p][1] = p
       /\ placed[p] = "nowhere" /\ ~ Silent(source[p], Asked(source[p])) =>
             sinceFail[source[p]] <= heldFor[p]

PlaceInv == LookupsOK /\ StagesKnow /\ CachedSinceFailure

LEMMA MapFacts ==
    /\ CacheLife \in Nat /\ CacheLife > 0 /\ NoArticle \notin Articles /\ Foreign \subseteq Linked
    /\ \A a \in Articles : Telling[a] \subseteq Sources /\ a[1] \in Pages
  BY GeoAssumption

LEMMA PlacesStart == GeoInit => PlaceInv
  BY MapFacts DEF GeoInit, PlaceInv, LookupsOK, StagesKnow, CachedSinceFailure, Sources, Long

\* A lookup's step that caches nothing: it keeps to its article, fails or not.
LEMMA LookupMoves ==
    ASSUME PlaceInv, NEW l \in Lookups, article[l] \in Articles,
           NEW next \in {"article", "wikidata", "english", "place", "nowhere"}, LookingGoes(l, next),
           NEW known \in SUBSET Sources, read' = [read EXCEPT ![l] = known],
           UNCHANGED <<article, placed, heldFor, source>>,
           UNCHANGED sinceFail \/ sinceFail' = [sinceFail EXCEPT ![article[l]] = 0],
           next = "wikidata" => known = {"title", "extract"},
           sinceFail'[article[l]] # 0 =>
              /\ next = "wikidata" => article[l] \in Linked /\ Silent(article[l], {"article"})
              /\ next = "english" => article[l] \in Foreign /\ Silent(article[l], Asked(article[l]) \ {"english"})
              /\ next = "nowhere" => Silent(article[l], Asked(article[l]))
    PROVE  PlaceInv'
  <1>1. LookupsOK'
    BY DEF PlaceInv, LookupsOK, LookingGoes
  <1>2. \A a \in Articles : sinceFail'[a] \in {sinceFail[a], 0}
    BY DEF PlaceInv, LookupsOK
  <1>3. /\ looking'[l] = next /\ read'[l] = known /\ article'[l] = article[l]
        /\ \A k \in Lookups \ {l} : looking'[k] = looking[k] /\ read'[k] = read[k] /\ article'[k] = article[k]
    BY DEF PlaceInv, LookupsOK, LookingGoes
  <1>4. StagesKnow'
    <2> SUFFICES ASSUME NEW k \in Lookups
                 PROVE  /\ looking'[k] = "wikidata" => read'[k] = {"title", "extract"}
                        /\ looking'[k] = "wikidata" /\ sinceFail'[article'[k]] # 0 =>
                              article'[k] \in Linked /\ Silent(article'[k], {"article"})
                        /\ looking'[k] = "english" /\ sinceFail'[article'[k]] # 0 =>
                              article'[k] \in Foreign /\ Silent(article'[k], Asked(article'[k]) \ {"english"})
                        /\ looking'[k] = "nowhere" /\ sinceFail'[article'[k]] # 0 =>
                              Silent(article'[k], Asked(article'[k]))
      BY DEF StagesKnow, Failing, Silent, Asked
    <2>1. CASE k = l
      BY <1>3, <2>1
    <2>2. CASE k # l
      <3>1. looking[k] # "idle" => (sinceFail'[article[k]] # 0 => sinceFail[article[k]] # 0)
        BY <1>2 DEF PlaceInv, LookupsOK
      <3> QED  BY <1>3, <2>2, <3>1 DEF PlaceInv, StagesKnow, Failing
    <2> QED  BY <2>1, <2>2
  <1>5. CachedSinceFailure'
    BY <1>2 DEF PlaceInv, LookupsOK, CachedSinceFailure, Silent, Asked
  <1> QED  BY <1>1, <1>4, <1>5 DEF PlaceInv

\* With the claims silent, AfterClaims ends only when the rest is silent too.
LEMMA ClaimsSilent ==
    ASSUME NEW l \in Lookups, article[l] \in Articles, NEW known \in SUBSET Sources
    PROVE  /\ AfterClaims(l, known) \in {"place", "english", "nowhere"}
           /\ AfterClaims(l, known) = "english" =>
                 /\ article[l] \in Foreign /\ "description" \in known
                 /\ Silent(article[l], known \cap {"title", "extract", "description"})
           /\ AfterClaims(l, known) = "nowhere" =>
                 /\ Silent(article[l], known \cap {"title", "extract", "description"})
                 /\ "description" \in known => article[l] \notin Foreign
  BY DEF AfterClaims, Tells, Silent

LEMMA CallOutcome ==
    ASSUME PlaceInv, NEW l \in Lookups, article[l] \in Articles
    PROVE  /\ CallDone(l) => UNCHANGED sinceFail
           /\ CallLost(l) => sinceFail' = [sinceFail EXCEPT ![article[l]] = 0] /\ sinceFail'[article[l]] = 0
  BY DEF CallDone, CallLost, PlaceInv, LookupsOK

LEMMA ArticleStep == ASSUME PlaceInv, NEW l \in Lookups, ArticleAsked(l) PROVE PlaceInv'
  <1>1. article[l] \in Articles /\ UNCHANGED <<article, placed, heldFor, source>>
    BY DEF ArticleAsked, PlaceInv, LookupsOK
  <1>2. CASE CallLost(l) /\ read' = [read EXCEPT ![l] = {"title"}] /\ LookingGoes(l, AfterClaims(l, read'[l]))
    <2>1. read'[l] = {"title"}
      BY <1>2 DEF PlaceInv, LookupsOK
    <2>2. {"title"} \in SUBSET Sources
      BY DEF Sources
    <2> DEFINE next == AfterClaims(l, {"title"})
    <2>3. LookingGoes(l, next) /\ next \in {"place", "english", "nowhere"}
      BY <1>1, <1>2, <2>1, <2>2, ClaimsSilent
    <2>4. sinceFail' = [sinceFail EXCEPT ![article[l]] = 0] /\ sinceFail'[article[l]] = 0
      BY <1>1, <1>2, CallOutcome
    <2> HIDE DEF next
    <2> QED  BY <1>1, <1>2, <2>2, <2>3, <2>4, LookupMoves
  <1>3. CASE /\ CallDone(l) /\ read' = [read EXCEPT ![l] = {"title", "extract"}]
             /\ LookingGoes(l, IF Tells(l, {"article"}) THEN "place"
                               ELSE IF article[l] \in Linked THEN "wikidata"
                               ELSE AfterClaims(l, read'[l]))
    <2> DEFINE known == {"title", "extract"}
    <2>1. read'[l] = known /\ known \in SUBSET Sources
      BY <1>3 DEF PlaceInv, LookupsOK, Sources
    <2>2. CASE Tells(l, {"article"})
      BY <1>1, <1>3, <2>1, <2>2, CallOutcome, LookupMoves
    <2>3. CASE ~ Tells(l, {"article"}) /\ article[l] \in Linked
      BY <1>1, <1>3, <2>1, <2>3, CallOutcome, LookupMoves DEF Tells, Silent
    <2>4. CASE ~ Tells(l, {"article"}) /\ article[l] \notin Linked
      <3>1. /\ AfterClaims(l, known) \in {"place", "nowhere"}
            /\ AfterClaims(l, known) = "nowhere" => Silent(article[l], known \cap {"title", "extract", "description"})
        BY <1>1, <2>1, ClaimsSilent
      <3>2. Asked(article[l]) = {"article", "title", "extract"}
        BY <2>4, MapFacts DEF Asked
      <3>3. AfterClaims(l, known) = "nowhere" => Silent(article[l], Asked(article[l]))
        BY <2>4, <3>1, <3>2 DEF Silent, Tells
      <3> DEFINE next == AfterClaims(l, known)
      <3>4. LookingGoes(l, next) /\ UNCHANGED sinceFail
        BY <1>1, <1>3, <2>1, <2>4, CallOutcome
      <3> HIDE DEF next
      <3>5. next \in {"place", "nowhere"} /\ (next = "nowhere" => Silent(article[l], Asked(article[l])))
        BY <3>1, <3>3 DEF next
      <3> QED  BY <1>1, <1>3, <2>1, <3>4, <3>5, LookupMoves
    <2> QED  BY <2>2, <2>3, <2>4
  <1> QED  BY <1>2, <1>3 DEF ArticleAsked

LEMMA WikidataStep == ASSUME PlaceInv, NEW l \in Lookups, WikidataAsked(l) PROVE PlaceInv'
  <1>1. article[l] \in Articles /\ UNCHANGED <<article, placed, heldFor, source>> /\ read[l] = {"title", "extract"}
    BY DEF WikidataAsked, PlaceInv, LookupsOK, StagesKnow
  <1>2. CASE CallLost(l) /\ LookingGoes(l, AfterClaims(l, read[l])) /\ UNCHANGED read
    <2>1. read' = [read EXCEPT ![l] = read[l]] /\ read[l] \in SUBSET Sources
      BY <1>2 DEF PlaceInv, LookupsOK
    <2>2. AfterClaims(l, read[l]) \in {"place", "english", "nowhere"}
      BY <1>1, <2>1, ClaimsSilent
    <2> QED  BY <1>1, <1>2, <2>1, <2>2, CallOutcome, LookupMoves
  <1>3. CASE CallDone(l) /\ ClaimsRead(l)
    <2> DEFINE known == {"title", "extract", "description"}
    <2>1. /\ read' = [read EXCEPT ![l] = known] /\ read'[l] = known /\ known \in SUBSET Sources
          /\ LookingGoes(l, IF Tells(l, {"wikidata"}) THEN "place" ELSE AfterClaims(l, known))
      <3>1. read[l] \cup {"description"} = known
        BY <1>1
      <3>2. read' = [read EXCEPT ![l] = known]
        BY <1>3, <3>1 DEF ClaimsRead
      <3>3. read'[l] = known
        BY <3>2 DEF PlaceInv, LookupsOK
      <3> QED  BY <1>3, <3>2, <3>3 DEF ClaimsRead, Sources
    <2>2. CASE Tells(l, {"wikidata"})
      BY <1>1, <1>3, <2>1, <2>2, CallOutcome, LookupMoves
    <2>3. CASE ~ Tells(l, {"wikidata"})
      <3>1. /\ AfterClaims(l, known) \in {"place", "english", "nowhere"}
            /\ AfterClaims(l, known) = "english" => article[l] \in Foreign /\ Silent(article[l], known)
            /\ AfterClaims(l, known) = "nowhere" => article[l] \notin Foreign /\ Silent(article[l], known)
        BY <1>1, <2>1, ClaimsSilent DEF Silent
      <3>2. ~ Failing(l) => Silent(article[l], {"article"}) /\ article[l] \in Linked
        BY DEF WikidataAsked, PlaceInv, StagesKnow
      <3>3. article[l] \in Linked => Asked(article[l]) \ {"english"} = known \cup {"article", "wikidata"}
        BY DEF Asked
      <3>4. article[l] \notin Foreign => Asked(article[l]) = Asked(article[l]) \ {"english"}
        BY DEF Asked
      <3>5. ~ Failing(l) /\ Silent(article[l], known) => Silent(article[l], Asked(article[l]) \ {"english"})
        BY <2>3, <3>2, <3>3 DEF Silent, Tells
      <3>6. sinceFail'[article[l]] # 0 => ~ Failing(l)
        BY <1>1, <1>3, CallOutcome DEF Failing
      <3> DEFINE next == AfterClaims(l, known)
      <3>7. LookingGoes(l, next) /\ UNCHANGED sinceFail
        BY <1>1, <1>3, <2>1, <2>3, CallOutcome
      <3>8. /\ next \in {"place", "english", "nowhere"}
            /\ sinceFail'[article[l]] # 0 /\ next = "english" =>
                  article[l] \in Foreign /\ Silent(article[l], Asked(article[l]) \ {"english"})
            /\ sinceFail'[article[l]] # 0 /\ next = "nowhere" => Silent(article[l], Asked(article[l]))
        BY <3>1, <3>4, <3>5, <3>6
      <3> HIDE DEF next, known
      <3> QED  BY <1>1, <2>1, <3>7, <3>8, LookupMoves
    <2> QED  BY <2>2, <2>3
  <1> QED  BY <1>2, <1>3 DEF WikidataAsked

LEMMA EnglishStep == ASSUME PlaceInv, NEW l \in Lookups, EnglishAsked(l) PROVE PlaceInv'
  <1>1. article[l] \in Articles /\ UNCHANGED <<article, placed, heldFor, source>>
    BY DEF EnglishAsked, PlaceInv, LookupsOK
  <1>2. read' = [read EXCEPT ![l] = read[l]] /\ read[l] \in SUBSET Sources
    BY DEF EnglishAsked, PlaceInv, LookupsOK
  <1>3. CASE CallLost(l) /\ LookingGoes(l, "nowhere")
    BY <1>1, <1>2, <1>3, CallOutcome, LookupMoves
  <1>4. CASE CallDone(l) /\ LookingGoes(l, IF Tells(l, {"english"}) THEN "place" ELSE "nowhere")
    <2>1. ~ Failing(l) => Silent(article[l], Asked(article[l]) \ {"english"})
      BY DEF EnglishAsked, PlaceInv, StagesKnow
    <2>2. ~ Failing(l) /\ ~ Tells(l, {"english"}) => Silent(article[l], Asked(article[l]))
      BY <2>1 DEF Silent, Tells
    <2>3. sinceFail'[article[l]] # 0 => ~ Failing(l)
      BY <1>1, <1>4, CallOutcome DEF Failing
    <2>4. CASE Tells(l, {"english"})
      BY <1>1, <1>2, <1>4, <2>4, CallOutcome, LookupMoves
    <2>5. CASE ~ Tells(l, {"english"})
      BY <1>1, <1>2, <1>4, <2>2, <2>3, <2>5, CallOutcome, LookupMoves
    <2> QED  BY <2>4, <2>5
  <1> QED  BY <1>3, <1>4 DEF EnglishAsked

LEMMA CacheStep == ASSUME PlaceInv, NEW l \in Lookups, CacheAsked(l) PROVE PlaceInv'
  <1>1. article[l] \in Articles /\ UNCHANGED <<placed, heldFor, source>>
    BY DEF CacheAsked, PlaceInv, LookupsOK
  <1>2. CASE LookingGoes(l, "article") /\ UNCHANGED <<article, read>>
    <2>1. read' = [read EXCEPT ![l] = read[l]] /\ read[l] \in SUBSET Sources
      BY <1>2 DEF PlaceInv, LookupsOK
    <2>2. UNCHANGED sinceFail \/ sinceFail' = [sinceFail EXCEPT ![article[l]] = 0]
      BY <1>1, CallOutcome DEF CacheAsked
    <2> QED  BY <1>1, <1>2, <2>1, <2>2, LookupMoves
  <1>3. CASE LookupEnds(l) /\ UNCHANGED sinceFail
    <2>1. LookupsOK'
      BY <1>1, <1>3 DEF LookupEnds, LookingGoes, PlaceInv, LookupsOK
    <2>2. /\ looking'[l] = "idle"
          /\ \A k \in Lookups \ {l} : looking'[k] = looking[k] /\ read'[k] = read[k] /\ article'[k] = article[k]
      BY <1>3 DEF LookupEnds, LookingGoes, PlaceInv, LookupsOK
    <2>3. StagesKnow'
      BY <1>3, <2>2 DEF PlaceInv, StagesKnow, Failing, Silent, Asked
    <2> QED  BY <1>1, <1>3, <2>1, <2>3 DEF PlaceInv, CachedSinceFailure, Silent, Asked
  <1> QED  BY <1>2, <1>3 DEF CacheAsked, CallDone

LEMMA ResultStep == ASSUME PlaceInv, NEW l \in Lookups, ResultCached(l) PROVE PlaceInv'
  <1> DEFINE a == article[l]
  <1> DEFINE p == a[1]
  <1>1. a \in Articles /\ p \in Pages /\ looking[l] \in {"place", "nowhere"} /\ LookupEnds(l)
    BY MapFacts DEF ResultCached, PlaceInv, LookupsOK
  <1>2. sinceFail' \in [Articles -> Nat] /\ \A b \in Articles : sinceFail'[b] \in {sinceFail[b], 0}
    BY <1>1, CallOutcome DEF ResultCached, PlaceInv, LookupsOK
  <1>3. /\ placed' \in [Pages -> {"absent", "nowhere", "place"}] /\ heldFor' \in [Pages -> Nat]
        /\ source' \in [Pages -> Articles \cup {NoArticle}]
        /\ \A q \in Pages \ {p} : placed'[q] = placed[q] /\ heldFor'[q] = heldFor[q] /\ source'[q] = source[q]
        /\ \/ placed'[p] = placed[p] /\ heldFor'[p] = heldFor[p] /\ source'[p] = source[p]
           \/ placed'[p] = looking[l] /\ heldFor'[p] = 0 /\ source'[p] = a /\ sinceFail' = sinceFail
    BY <1>1, CallOutcome DEF ResultCached, Title, PlaceInv, LookupsOK
  <1>4. LookupsOK'
    BY <1>1, <1>2, <1>3 DEF LookupEnds, LookingGoes, PlaceInv, LookupsOK
  <1>5. /\ looking'[l] = "idle"
        /\ \A k \in Lookups \ {l} :
              looking'[k] = looking[k] /\ read'[k] = read[k] /\ article'[k] = article[k]
    BY <1>1 DEF LookupEnds, LookingGoes, PlaceInv, LookupsOK
  <1>6. StagesKnow'
    <2>1. \A k \in Lookups \ {l} : looking[k] # "idle" => (sinceFail'[article[k]] # 0 => ~ Failing(k))
      BY <1>2 DEF PlaceInv, LookupsOK, Failing
    <2> QED  BY <1>5, <2>1 DEF PlaceInv, StagesKnow, Failing, Silent, Asked
  <1>7. CachedSinceFailure'
    <2> SUFFICES ASSUME NEW q \in Pages
                 PROVE  /\ placed'[q] # "absent" =>
                              heldFor'[q] < CacheLife /\ source'[q] \in Articles /\ source'[q][1] = q
                        /\ placed'[q] = "nowhere" /\ ~ Silent(source'[q], Asked(source'[q])) =>
                              sinceFail'[source'[q]] <= heldFor'[q]
      BY DEF CachedSinceFailure, Silent, Asked
    <2>1. CASE placed'[q] = placed[q] /\ heldFor'[q] = heldFor[q] /\ source'[q] = source[q]
      <3>1. /\ placed[q] # "absent" =>
                  heldFor[q] < CacheLife /\ source[q] \in Articles /\ source[q][1] = q
            /\ placed[q] = "nowhere" /\ ~ Silent(source[q], Asked(source[q])) =>
                  sinceFail[source[q]] <= heldFor[q]
        BY DEF PlaceInv, CachedSinceFailure
      <3>2. heldFor[q] \in Nat
        BY DEF PlaceInv, LookupsOK
      <3> QED  BY <1>2, <2>1, <3>1, <3>2
    <2>2. CASE q = p /\ placed'[p] = looking[l] /\ heldFor'[p] = 0 /\ source'[p] = a /\ sinceFail' = sinceFail
      <3>1. looking[l] = "nowhere" /\ ~ Silent(a, Asked(a)) => sinceFail[a] = 0
        BY DEF PlaceInv, StagesKnow, Failing
      <3>2. /\ sinceFail'[source'[q]] = sinceFail[a] /\ placed'[q] = looking[l] /\ heldFor'[q] = 0
            /\ source'[q] = a /\ a[1] = q
        BY <2>2
      <3> HIDE DEF a, p
      <3> QED  BY <1>1, <3>1, <3>2, MapFacts
    <2> QED  BY <1>3, <2>1, <2>2
  <1> QED  BY <1>4, <1>6, <1>7 DEF PlaceInv

LEMMA OtherMapStep ==
    ASSUME PlaceInv,
           \/ \E l \in Lookups : (\E a \in Articles : LookupStarts(l, a)) \/ LookupCut(l)
           \/ MapTicks \/ UNCHANGED <<geoVars, faults>>
    PROVE  PlaceInv'
  <1>1. ASSUME NEW l \in Lookups, NEW a \in Articles, LookupStarts(l, a) PROVE PlaceInv'
    <2>1. LookupsOK'
      BY <1>1 DEF LookupStarts, LookingGoes, PlaceInv, LookupsOK
    <2>2. /\ looking'[l] = "cache"
          /\ \A k \in Lookups \ {l} :
                looking'[k] = looking[k] /\ read'[k] = read[k] /\ article'[k] = article[k]
      BY <1>1 DEF LookupStarts, LookingGoes, PlaceInv, LookupsOK
    <2>3. UNCHANGED <<placed, heldFor, source, sinceFail>>
      BY <1>1 DEF LookupStarts
    <2>4. StagesKnow'
      BY <2>2, <2>3 DEF PlaceInv, StagesKnow, Failing, Silent, Asked
    <2> QED  BY <2>1, <2>3, <2>4 DEF PlaceInv, CachedSinceFailure, Silent, Asked
  <1>2. CASE (\E l \in Lookups : LookupCut(l)) \/ UNCHANGED <<geoVars, faults>>
    <2>1. UNCHANGED <<looking, article, read, placed, heldFor, source, sinceFail>>
      BY <1>2 DEF LookupCut, geoVars
    <2> QED  BY <2>1 DEF PlaceInv, LookupsOK, StagesKnow, CachedSinceFailure, Failing, Silent, Asked
  <1>3. CASE MapTicks
    <2>1. /\ UNCHANGED <<looking, article, read>> /\ \A l \in Lookups : looking[l] = "idle"
          /\ placed' = [p \in Pages |-> IF heldFor[p] + 1 >= CacheLife THEN "absent" ELSE placed[p]]
          /\ heldFor' = [p \in Pages |-> IF placed'[p] = "absent" THEN 0 ELSE heldFor[p] + 1]
          /\ source' = [p \in Pages |-> IF placed'[p] = "absent" THEN NoArticle ELSE source[p]]
          /\ sinceFail' = [a \in Articles |-> IF sinceFail[a] = Long THEN Long ELSE sinceFail[a] + 1]
      BY <1>3 DEF MapTicks
    <2>2. LookupsOK'
      BY <2>1, MapFacts DEF PlaceInv, LookupsOK, Long
    <2>3. StagesKnow'
      BY <2>1 DEF StagesKnow
    <2>4. ASSUME NEW p \in Pages
          PROVE  /\ placed'[p] # "absent" =>
                       heldFor'[p] < CacheLife /\ source'[p] \in Articles /\ source'[p][1] = p
                 /\ placed'[p] = "nowhere" /\ ~ Silent(source'[p], Asked(source'[p])) =>
                       sinceFail'[source'[p]] <= heldFor'[p]
      <3>1. CASE placed'[p] = "absent"
        BY <3>1
      <3>2. CASE placed'[p] # "absent"
        <4>1. heldFor[p] \in Nat /\ heldFor[p] + 1 < CacheLife /\ placed'[p] = placed[p]
          BY <2>1, <3>2, MapFacts DEF PlaceInv, LookupsOK
        <4>2. heldFor'[p] = heldFor[p] + 1 /\ source'[p] = source[p]
          BY <2>1, <3>2
        <4>3. source[p] \in Articles /\ source[p][1] = p
          BY <3>2, <4>1 DEF PlaceInv, CachedSinceFailure
        <4>4. /\ sinceFail[source[p]] \in Nat
              /\ sinceFail'[source[p]] = IF sinceFail[source[p]] = Long THEN Long
                                                                     ELSE sinceFail[source[p]] + 1
          BY <2>1, <4>3 DEF PlaceInv, LookupsOK
        <4>5. placed[p] = "nowhere" /\ ~ Silent(source[p], Asked(source[p])) =>
                 sinceFail[source[p]] <= heldFor[p]
          BY DEF PlaceInv, CachedSinceFailure
        <4>6. sinceFail[source[p]] <= heldFor[p] => sinceFail'[source[p]] <= heldFor[p] + 1
          BY <4>1, <4>4, MapFacts DEF Long
        <4> QED  BY <4>1, <4>2, <4>3, <4>5, <4>6
      <3> QED  BY <3>1, <3>2
    <2>5. CachedSinceFailure'
      BY <2>4 DEF CachedSinceFailure, Silent, Asked
    <2> QED  BY <2>2, <2>3, <2>5 DEF PlaceInv
  <1> QED  BY <1>1, <1>2, <1>3

LEMMA PlacesShown == PlaceInv => LocationRecovers
  <1> SUFFICES ASSUME PlaceInv, NEW p \in Pages, placed[p] = "nowhere"
               PROVE  /\ source[p] \in Articles /\ source[p][1] = p
                      /\ ~ Silent(source[p], Asked(source[p])) => sinceFail[source[p]] <= CacheLife
    BY DEF LocationRecovers, Silent
  <1>1. /\ heldFor[p] < CacheLife /\ source[p] \in Articles /\ source[p][1] = p
        /\ ~ Silent(source[p], Asked(source[p])) => sinceFail[source[p]] <= heldFor[p]
    BY DEF PlaceInv, CachedSinceFailure
  <1>2. heldFor[p] \in Nat /\ sinceFail[source[p]] \in Nat
    BY <1>1 DEF PlaceInv, LookupsOK
  <1> QED  BY <1>1, <1>2, MapFacts

LEMMA PlacesSteady == PlaceInv /\ [GeoNext]_<<geoVars, faults>> => PlaceInv'
  BY CacheStep, ArticleStep, WikidataStep, EnglishStep, ResultStep, OtherMapStep DEF GeoNext

\* A title is without a place only after a lookup of it in an edition that has
\* none to tell, or with a call that failed no longer ago than a result is
\* cached, for all titles, editions and sources and any number of lookups.
THEOREM PlacesRecover == GeoSpec => []LocationRecovers
  BY PlacesShown, PlacesStart, PlacesSteady, PTL DEF GeoSpec

-----------------------------------------------------------------------------
(* Digests: the rows that are read, so that the users in hand are known.   *)

Rows == [id : Ids, email : Emails, freq : Frequencies, verified : BOOLEAN]

RowsOK ==
    /\ made \in 0..MaxAccounts
    /\ accounts \subseteq Rows
    /\ registering \in [Registrations -> {"idle", "checking", "creating", "verifying"}]
    /\ whose \in [Registrations -> Emails \cup {NoAccount}]
    /\ \A r \in Registrations : registering[r] # "idle" => whose[r] \in Emails

LEMMA RowsStart == AccountsInit => RowsOK
  BY AccountsAssumption DEF AccountsInit, RowsOK

LEMMA UpdatesKeepRows ==
    ASSUME accounts \subseteq Rows, NEW id
    PROVE  /\ Updated(id, "verified", TRUE) \subseteq Rows
           /\ \A freq \in Frequencies : Updated(id, "freq", freq) \subseteq Rows
  BY DEF Updated, Rows

LEMMA RowsStep == ASSUME RowsOK, AccountsNext PROVE RowsOK'
  <1> USE DEF RowsOK
  <1>1. ASSUME NEW r \in Registrations, NEW email \in Emails, RegisterComes(r, email) PROVE RowsOK'
    BY <1>1 DEF RegisterComes
  <1>2. ASSUME NEW r \in Registrations, AddressChecked(r) PROVE RowsOK'
    BY <1>2 DEF AddressChecked, Registered, RegisteringGoes
  <1>3. ASSUME NEW r \in Registrations, AccountCreated(r) PROVE RowsOK'
    <2>1. CASE UNCHANGED <<accounts, made>> /\ Registered(r)
      BY <2>1 DEF Registered
    <2>2. CASE /\ made' = made + 1 /\ RegisteringGoes(r, "verifying")
               /\ accounts' = accounts \cup {[id |-> made', email |-> whose[r], freq |-> "daily",
                                              verified |-> FALSE]}
      <3>1. made' \in 1..MaxAccounts /\ whose[r] \in Emails
        BY <1>3, <2>2, AccountsAssumption DEF AccountCreated
      <3>2. [id |-> made', email |-> whose[r], freq |-> "daily", verified |-> FALSE] \in Rows
        BY <3>1 DEF Rows, Ids, Frequencies
      <3>3. accounts' \subseteq Rows
        BY <2>2, <3>2
      <3> QED  BY <1>3, <2>2, <3>1, <3>3 DEF RegisteringGoes, AccountCreated
    <2> QED  BY <1>3, <2>1, <2>2 DEF AccountCreated
  <1>4. ASSUME NEW r \in Registrations, AccountVerified(r) PROVE RowsOK'
    <2>1. accounts' \subseteq Rows
      BY <1>4, UpdatesKeepRows DEF AccountVerified
    <2> QED  BY <1>4, <2>1 DEF AccountVerified, Registered
  <1>5. ASSUME NEW id, NEW freq \in Chosen \cup {"none"}, FrequencySet(id, freq) PROVE RowsOK'
    <2>1. freq \in Frequencies
      BY AccountsAssumption DEF Frequencies
    <2> QED  BY <1>5, <2>1, UpdatesKeepRows DEF FrequencySet
  <1>6. ASSUME NEW id, AccountDeleted(id) PROVE RowsOK'
    BY <1>6 DEF AccountDeleted
  <1> QED  BY <1>1, <1>2, <1>3, <1>4, <1>5, <1>6 DEF AccountsNext

-----------------------------------------------------------------------------
(* Digests: the runs.                                                      *)

RunsOK ==
    /\ sinceRun \in [Periods -> Nat]
    /\ runs \in [Periods -> {"off", "listing", "sending"}]
    /\ todo \in [Periods -> SUBSET Ids]
    /\ inHand \subseteq [period : Periods, id : Ids, step : {"sending", "marking"}]
    /\ mails \in [Periods -> [Ids -> Nat]]
    /\ boots \in Nat

\* Users wait and are in hand only while their run is on, which is while the
\* process has the stores; one that waits is not in hand.
RunsTidy ==
    /\ \A p \in Periods : runs[p] # "sending" => todo[p] = {}
    /\ \A h \in inHand : runs[h.period] = "sending"
    /\ \A p \in Periods : runs[p] # "off" => sinceRun[p] = 0
    /\ process \in {"closing", "down"} => \A p \in Periods : runs[p] = "off"
    /\ \A p \in Periods : \A id \in todo[p] : Hand(p, id, "sending") \notin inHand

\* A mail may yet come: the run may start, is on, or has the user to do.
Pending(p, id) ==
    \/ runs[p] = "listing"
    \/ id \in todo[p]
    \/ Hand(p, id, "sending") \in inHand
    \/ due /\ process # "down" /\ sinceRun[p] >= Every[p]

\* There is room for the mails sent, and for one more while one may come.
MailsCovered ==
    \A p \in Periods, id \in Ids :
       /\ mails[p][id] <= boots + 1
       /\ Pending(p, id) => mails[p][id] <= boots

DigestInv == RowsOK /\ RunsOK /\ RunsTidy /\ MailsCovered

\* The wait group counts the loop and the runs that are on; the loop, from
\* which alone a run can start, ends before the stores are closed.
RunsCounted ==
    /\ loop \in BOOLEAN
    /\ loop => wg = Cardinality(Running) + 1
    /\ ~ loop => wg = Cardinality(Running)
    /\ loop => process \in {"up", "draining", "stopping"}

LEMMA RunningFinite == IsFiniteSet(Running) /\ Cardinality(Running) \in Nat
  <1>1. Running \subseteq {"none", "daily", "weekly", "both"}
    BY DigestAssumption DEF Running, Frequencies
  <1>2. IsFiniteSet({"none", "daily", "weekly", "both"})
    <2>1. IsFiniteSet({"none"}) /\ IsFiniteSet({"none"} \cup {"daily"})
      BY FS_Singleton, FS_AddElement
    <2>2. IsFiniteSet(({"none"} \cup {"daily"}) \cup {"weekly"})
      BY <2>1, FS_AddElement
    <2>3. IsFiniteSet((({"none"} \cup {"daily"}) \cup {"weekly"}) \cup {"both"})
      BY <2>2, FS_AddElement
    <2>4. {"none", "daily", "weekly", "both"} = (({"none"} \cup {"daily"}) \cup {"weekly"}) \cup {"both"}
      OBVIOUS
    <2> QED  BY <2>3, <2>4
  <1> QED  BY <1>1, <1>2, FS_Subset, FS_CardinalityType

\* Once Wait returns there is neither a run nor a loop to start one.
LEMMA NoneWaitedFor ==
    ASSUME RunsCounted, wg = 0
    PROVE  ~ loop /\ Running = {}
  <1>1. ~ loop /\ Cardinality(Running) = 0
    BY RunningFinite DEF RunsCounted
  <1> QED  BY <1>1, RunningFinite, FS_EmptySet

LEMMA RunComes ==
    ASSUME RunsOK, NEW p \in Periods, runs[p] = "off", RunGoes(p, "listing")
    PROVE  Cardinality(Running') = Cardinality(Running) + 1
  <1>1. p \notin Running /\ Running' = Running \cup {p}
    BY DEF Running, RunGoes, RunsOK
  <1> QED  BY <1>1, RunningFinite, FS_AddElement

LEMMA RunLeaves ==
    ASSUME RunsOK, NEW p \in Periods, runs[p] # "off", RunGoes(p, "off")
    PROVE  Cardinality(Running') = Cardinality(Running) - 1
  <1>1. p \in Running /\ Running' = Running \ {p}
    BY DEF Running, RunGoes, RunsOK
  <1> QED  BY <1>1, RunningFinite, FS_RemoveElement

LEMMA Calendar == \A p \in Periods : Every[p] \in Nat /\ Every[p] > 0
  BY DigestAssumption

LEMMA DigestStarts == DigestInit => DigestInv
  <1> SUFFICES ASSUME DigestInit PROVE DigestInv
    OBVIOUS
  <1>1. RowsOK
    BY RowsStart DEF DigestInit
  <1>2. RunsOK
    BY DigestAssumption DEF DigestInit, RunsOK, NoMails
  <1>3. RunsTidy
    BY DEF DigestInit, RunsTidy
  <1>4. MailsCovered
    BY DEF DigestInit, MailsCovered, Pending, NoMails
  <1> QED  BY <1>1, <1>2, <1>3, <1>4 DEF DigestInv

LEMMA StartStep == ASSUME DigestInv, RunsCounted, NEW p \in Periods, RunStarts(p) PROVE DigestInv'
  <1>1. /\ UNCHANGED <<accountVars, due, process, todo, inHand, mails, boots>>
        /\ runs' = [runs EXCEPT ![p] = "listing"] /\ sinceRun' = [sinceRun EXCEPT ![p] = 0]
        /\ process \in {"up", "draining", "stopping"}
        /\ due /\ runs[p] = "off" /\ sinceRun[p] >= Every[p]
    BY DEF RunStarts, NotedDue, RunGoes, RunsCounted
  <1>2. RowsOK' /\ RunsOK'
    BY <1>1 DEF DigestInv, RowsOK, RunsOK, accountVars
  <1>3. RunsTidy'
    BY <1>1 DEF DigestInv, RunsOK, RunsTidy, Hand
  <1>4. \A q \in Periods, id \in Ids : Pending(q, id)' => Pending(q, id)
    BY <1>1, Calendar DEF DigestInv, RunsOK, RunsTidy, Pending, Hand
  <1>5. MailsCovered'
    BY <1>1, <1>4 DEF DigestInv, MailsCovered
  <1> QED  BY <1>2, <1>3, <1>5 DEF DigestInv

LEMMA ListStep == ASSUME DigestInv, NEW p \in Periods, UsersListed(p) PROVE DigestInv'
  <1>1. /\ UNCHANGED <<accountVars, due, process, sinceRun, inHand, mails, boots>>
        /\ runs[p] = "listing"
    BY DEF UsersListed
  <1>2. PICK ids \in SUBSET Ids, next \in {"sending", "off"} :
           /\ todo' = [todo EXCEPT ![p] = ids] /\ runs' = [runs EXCEPT ![p] = next]
           /\ next = "off" => ids = {}
    <2>1. {a.id : a \in Eligible(p)} \in SUBSET Ids
      BY DEF Eligible, DigestInv, RowsOK, Rows
    <2>2. CASE todo' = [todo EXCEPT ![p] = {a.id : a \in Eligible(p)}] /\ RunGoes(p, "sending")
      BY <2>1, <2>2 DEF RunGoes
    <2>3. CASE RunGoes(p, "off") /\ UNCHANGED todo
      <3>1. todo' = [todo EXCEPT ![p] = {}]
        BY <1>1, <2>3 DEF DigestInv, RunsOK, RunsTidy
      <3> QED  BY <2>3, <3>1 DEF RunGoes
    <2> QED  BY <2>2, <2>3 DEF UsersListed
  <1>3. RowsOK' /\ RunsOK'
    BY <1>1, <1>2 DEF DigestInv, RowsOK, RunsOK, accountVars
  <1>4. \A id \in Ids : Hand(p, id, "sending") \notin inHand
    BY <1>1 DEF DigestInv, RunsTidy, Hand
  <1>5. RunsTidy'
    BY <1>1, <1>2, <1>4 DEF DigestInv, RunsOK, RunsTidy, Hand
  <1>6. \A q \in Periods, id \in Ids : Pending(q, id)' => Pending(q, id)
    BY <1>1, <1>2 DEF DigestInv, RunsOK, Pending, Hand
  <1>7. MailsCovered'
    BY <1>1, <1>6 DEF DigestInv, MailsCovered
  <1> QED  BY <1>3, <1>5, <1>7 DEF DigestInv

LEMMA TakeStep == ASSUME DigestInv, NEW p \in Periods, NEW id \in todo[p], UserTaken(p, id) PROVE DigestInv'
  <1>1. /\ UNCHANGED <<accountVars, due, process, sinceRun, runs, mails, boots>>
        /\ runs[p] = "sending" /\ todo' = [todo EXCEPT ![p] = @ \ {id}]
        /\ inHand' \in {inHand, inHand \cup {Hand(p, id, "sending")}}
    BY DEF UserTaken
  <1>2. id \in Ids /\ Hand(p, id, "sending") \in [period : Periods, id : Ids, step : {"sending", "marking"}]
    BY DEF DigestInv, RunsOK, Hand
  <1>3. RowsOK' /\ RunsOK'
    BY <1>1, <1>2 DEF DigestInv, RowsOK, RunsOK, accountVars
  <1>4. \A q, i, step : Hand(q, i, step).period = q /\ (Hand(q, i, step) = Hand(p, id, "sending") => q = p /\ i = id)
    BY DEF Hand
  <1>5. RunsTidy'
    <2>1. \A h \in inHand' : runs[h.period] = "sending"
      BY <1>1, <1>4 DEF DigestInv, RunsTidy
    <2>2. \A q \in Periods : \A i \in todo'[q] : Hand(q, i, "sending") \notin inHand'
      <3> SUFFICES ASSUME NEW q \in Periods, NEW i \in todo'[q], Hand(q, i, "sending") \in inHand' PROVE FALSE
        OBVIOUS
      <3>1. i \in todo[q] /\ ~ (q = p /\ i = id)
        BY <1>1 DEF DigestInv, RunsOK
      <3>2. Hand(q, i, "sending") \in inHand
        BY <1>1, <1>4, <3>1
      <3> QED  BY <3>1, <3>2 DEF DigestInv, RunsTidy
    <2>3. \A q \in Periods : runs[q] # "sending" => todo'[q] = {}
      BY <1>1 DEF DigestInv, RunsOK, RunsTidy
    <2> QED  BY <1>1, <2>1, <2>2, <2>3 DEF DigestInv, RunsTidy, Hand
  <1>6. \A q \in Periods, i \in Ids : Pending(q, i)' => Pending(q, i)
    <2> SUFFICES ASSUME NEW q \in Periods, NEW i \in Ids,
                        \/ runs[q] = "listing" \/ i \in todo'[q] \/ Hand(q, i, "sending") \in inHand'
                        \/ due /\ process # "down" /\ sinceRun[q] >= Every[q]
                 PROVE  Pending(q, i)
      BY <1>1 DEF Pending, Hand
    <2>1. i \in todo'[q] => i \in todo[q]
      BY <1>1 DEF DigestInv, RunsOK
    <2>2. Hand(q, i, "sending") \in inHand' => Hand(q, i, "sending") \in inHand \/ i \in todo[q]
      BY <1>1, <1>4
    <2> QED  BY <2>1, <2>2 DEF Pending
  <1>7. MailsCovered'
    BY <1>1, <1>6 DEF DigestInv, MailsCovered
  <1> QED  BY <1>3, <1>5, <1>7 DEF DigestInv

\* The user leaves the worker's hand, with or without a mail.
LEMMA MailStep == ASSUME DigestInv, NEW h \in inHand, MailSent(h) PROVE DigestInv'
  <1> DEFINE p == h.period
             id == h.id
             marking == Hand(p, id, "marking")
  <1>1. /\ UNCHANGED <<accountVars, due, process, sinceRun, runs, todo, boots>>
        /\ p \in Periods /\ id \in Ids /\ h = Hand(p, id, "sending")
    BY DEF MailSent, DigestInv, RunsOK, Hand
  <1>2. /\ inHand' \in {inHand \ {h}, (inHand \ {h}) \cup {marking}}
        /\ UNCHANGED mails \/ mails' = [mails EXCEPT ![p][id] = @ + 1]
    BY DEF MailSent
  <1>3. marking \in [period : Periods, id : Ids, step : {"sending", "marking"}] /\ marking.period = p
    BY <1>1 DEF Hand
  <1>4. \A q, i : marking # Hand(q, i, "sending")
    BY DEF Hand
  <1>5. runs[p] = "sending" /\ sinceRun[p] = 0 /\ id \notin todo[p]
    BY <1>1 DEF DigestInv, RunsTidy
  <1> HIDE DEF p, id, marking
  <1>6. RowsOK' /\ RunsOK'
    <2>1. mails' \in [Periods -> [Ids -> Nat]]
      BY <1>1, <1>2 DEF DigestInv, RunsOK
    <2>2. inHand' \subseteq [period : Periods, id : Ids, step : {"sending", "marking"}]
      BY <1>2, <1>3 DEF DigestInv, RunsOK
    <2> QED  BY <1>1, <2>1, <2>2 DEF DigestInv, RowsOK, RunsOK, accountVars
  <1>7. RunsTidy'
    <2>1. \A g \in inHand' : runs[g.period] = "sending"
      BY <1>2, <1>3, <1>5 DEF DigestInv, RunsTidy
    <2>2. \A q \in Periods : \A i \in todo[q] : Hand(q, i, "sending") \notin inHand'
      BY <1>2, <1>4 DEF DigestInv, RunsTidy
    <2> QED  BY <1>1, <2>1, <2>2 DEF DigestInv, RunsTidy, Hand
  <1>8. MailsCovered'
    <2> SUFFICES ASSUME NEW q \in Periods, NEW i \in Ids
                 PROVE  /\ mails'[q][i] <= boots + 1
                        /\ \/ runs[q] = "listing" \/ i \in todo[q] \/ Hand(q, i, "sending") \in inHand'
                           \/ due /\ process # "down" /\ sinceRun[q] >= Every[q]
                           => mails'[q][i] <= boots
      BY <1>1 DEF MailsCovered, Pending, Hand
    <2>1. CASE q = p /\ i = id
      <3>1. mails[p][id] <= boots
        BY <1>1 DEF DigestInv, MailsCovered, Pending
      <3>2. mails'[p][id] \in {mails[p][id], mails[p][id] + 1} /\ mails[p][id] \in Nat /\ boots \in Nat
        BY <1>1, <1>2 DEF DigestInv, RunsOK
      <3>3. Hand(p, id, "sending") \notin inHand'
        BY <1>1, <1>2, <1>4
      <3>4. ~ (sinceRun[p] >= Every[p])
        BY <1>1, <1>5, Calendar
      <3> QED  BY <1>5, <2>1, <3>1, <3>2, <3>3, <3>4
    <2>2. CASE ~ (q = p /\ i = id)
      <3>1. mails'[q][i] = mails[q][i]
        BY <1>1, <1>2, <2>2 DEF DigestInv, RunsOK
      <3>2. Hand(q, i, "sending") \in inHand' => Hand(q, i, "sending") \in inHand
        BY <1>2, <1>4
      <3> QED  BY <3>1, <3>2 DEF DigestInv, MailsCovered, Pending
    <2> QED  BY <2>1, <2>2
  <1> QED  BY <1>6, <1>7, <1>8 DEF DigestInv

LEMMA MarkStep == ASSUME DigestInv, NEW h \in inHand, SendingMarked(h) PROVE DigestInv'
  <1>1. /\ UNCHANGED <<accountVars, due, process, sinceRun, runs, todo, mails, boots>>
        /\ inHand' = inHand \ {h}
    BY DEF SendingMarked
  <1>2. RowsOK' /\ RunsOK'
    BY <1>1 DEF DigestInv, RowsOK, RunsOK, accountVars
  <1>3. RunsTidy'
    BY <1>1 DEF DigestInv, RunsTidy, Hand
  <1>4. \A q \in Periods, id \in Ids : Pending(q, id)' => Pending(q, id)
    BY <1>1 DEF Pending, Hand
  <1>5. MailsCovered'
    BY <1>1, <1>4 DEF DigestInv, MailsCovered
  <1> QED  BY <1>2, <1>3, <1>5 DEF DigestInv

LEMMA EndStep == ASSUME DigestInv, NEW p \in Periods, RunEnds(p) PROVE DigestInv'
  <1>1. /\ UNCHANGED <<accountVars, due, process, sinceRun, todo, inHand, mails, boots>>
        /\ runs' = [runs EXCEPT ![p] = "off"] /\ todo[p] = {}
        /\ \A h \in inHand : h.period # p
    BY DEF RunEnds, RunGoes, InHand
  <1>2. RowsOK' /\ RunsOK'
    BY <1>1 DEF DigestInv, RowsOK, RunsOK, accountVars
  <1>3. RunsTidy'
    BY <1>1 DEF DigestInv, RunsOK, RunsTidy, Hand
  <1>4. \A q \in Periods, id \in Ids : Pending(q, id)' => Pending(q, id)
    BY <1>1 DEF DigestInv, RunsOK, Pending, Hand
  <1>5. MailsCovered'
    BY <1>1, <1>4 DEF DigestInv, MailsCovered
  <1> QED  BY <1>2, <1>3, <1>5 DEF DigestInv

\* When the stores are closed every run is over; the next process starts with
\* no run on, and if in the minute of the runs then with one more to come.
LEMMA ProcessStep ==
    ASSUME DigestInv, RunsCounted,
           ShutdownBegins \/ SchedulerStops \/ StoresClose \/ ProcessEnds \/ ProcessStarts
    PROVE  DigestInv'
  <1>1. RowsOK'
    BY AccountsAssumption DEF ShutdownBegins, SchedulerStops, StoresClose, ProcessEnds, ProcessStarts, accountVars,
        DigestInv, RowsOK
  <1>2. CASE ShutdownBegins \/ SchedulerStops \/ StoresClose
    <2>1. /\ UNCHANGED <<due, sinceRun, runs, todo, inHand, mails, boots>>
          /\ process # "down" /\ process' # "down"
          /\ process' = "closing" => \A p \in Periods : runs[p] = "off"
      BY <1>2, NoneWaitedFor DEF ShutdownBegins, SchedulerStops, StoresClose, SchedulerDone, Running
    <2>2. RunsOK' /\ RunsTidy'
      BY <2>1 DEF DigestInv, RunsOK, RunsTidy, Hand
    <2>3. \A q \in Periods, id \in Ids : Pending(q, id)' => Pending(q, id)
      BY <2>1 DEF Pending, Hand
    <2>4. MailsCovered'
      BY <2>1, <2>3 DEF DigestInv, MailsCovered
    <2> QED  BY <1>1, <2>2, <2>4 DEF DigestInv
  <1>3. CASE ProcessEnds
    <2>1. /\ UNCHANGED <<mails, boots>> /\ process' = "down" /\ sinceRun' = Every
          /\ runs' = [p \in Periods |-> "off"] /\ todo' = [p \in Periods |-> {}] /\ inHand' = {}
      BY <1>3 DEF ProcessEnds
    <2>2. RunsOK' /\ RunsTidy'
      BY <2>1, DigestAssumption DEF DigestInv, RunsOK, RunsTidy
    <2>3. MailsCovered'
      BY <2>1 DEF DigestInv, MailsCovered, Pending
    <2> QED  BY <1>1, <2>2, <2>3 DEF DigestInv
  <1>4. CASE ProcessStarts
    <2>1. /\ UNCHANGED <<due, sinceRun, runs, todo, inHand, mails>> /\ process = "down" /\ process' = "up"
          /\ boots' = IF due THEN boots + 1 ELSE boots
      BY <1>4 DEF ProcessStarts
    <2>2. RunsOK' /\ RunsTidy'
      BY <2>1 DEF DigestInv, RunsOK, RunsTidy, Hand
    <2>3. ASSUME NEW p \in Periods, NEW id \in Ids
          PROVE  runs[p] = "off" /\ id \notin todo[p] /\ Hand(p, id, "sending") \notin inHand
      BY <2>1 DEF DigestInv, RunsTidy, Hand
    <2>4. \A p \in Periods, id \in Ids : mails[p][id] \in Nat /\ boots \in Nat /\ mails[p][id] <= boots + 1
      BY DEF DigestInv, RunsOK, MailsCovered
    <2>5. MailsCovered'
      <3> SUFFICES ASSUME NEW p \in Periods, NEW id \in Ids
                   PROVE  mails'[p][id] <= boots' + 1 /\ (Pending(p, id)' => mails'[p][id] <= boots')
        BY DEF MailsCovered
      <3>1. Pending(p, id)' => due
        BY <2>1, <2>3 DEF Pending, Hand
      <3> QED  BY <2>1, <2>4, <3>1
    <2> QED  BY <1>1, <2>2, <2>5 DEF DigestInv
  <1> QED  BY <1>2, <1>3, <1>4

LEMMA OtherDigestStep ==
    ASSUME DigestInv,
           RequestServed \/ MinutePasses \/ LoopEnds \/ UNCHANGED <<accountVars, digestVars, faults>>
    PROVE  DigestInv'
  <1>1. CASE UNCHANGED digestVars
    <2>1. RowsOK'
      BY <1>1, RowsStep DEF RequestServed, MinutePasses, LoopEnds, accountVars, digestVars, DigestInv,
         RowsOK
    <2>2. RunsOK' /\ RunsTidy' /\ MailsCovered'
      BY <1>1 DEF digestVars, DigestInv, RunsOK, RunsTidy, MailsCovered, Pending, Hand
    <2> QED  BY <2>1, <2>2 DEF DigestInv
  <1>2. CASE MinutePasses
    <2>1. UNCHANGED <<accountVars, process, runs, todo, inHand>> /\ due' = ~ due
      BY <1>2 DEF MinutePasses
    <2>2. RowsOK'
      BY <2>1 DEF DigestInv, RowsOK, accountVars
    <2>3. CASE due
      <3>1. UNCHANGED <<sinceRun, mails, boots>> /\ ~ due'
        BY <1>2, <2>3 DEF MinutePasses
      <3>2. RunsOK' /\ RunsTidy'
        BY <2>1, <3>1 DEF DigestInv, RunsOK, RunsTidy, Hand
      <3>3. \A q \in Periods, id \in Ids : Pending(q, id)' => Pending(q, id)
        BY <2>1, <3>1 DEF Pending, Hand
      <3>4. MailsCovered'
        BY <3>1, <3>3 DEF DigestInv, MailsCovered
      <3> QED  BY <2>2, <3>2, <3>4 DEF DigestInv
    <2>4. CASE ~ due
      <3>1. /\ \A p \in Periods : runs[p] = "off"
            /\ sinceRun' = [p \in Periods |-> IF sinceRun[p] < Every[p] THEN sinceRun[p] + 1 ELSE Every[p]]
            /\ mails' = NoMails /\ boots' = 0
        BY <1>2, <2>4 DEF MinutePasses, Running
      <3>2. RunsOK' /\ RunsTidy'
        BY <2>1, <3>1, Calendar DEF DigestInv, RunsOK, RunsTidy, NoMails, Hand
      <3>3. MailsCovered'
        BY <3>1 DEF MailsCovered, NoMails
      <3> QED  BY <2>2, <3>2, <3>3 DEF DigestInv
    <2> QED  BY <2>3, <2>4
  <1>3. CASE LoopEnds
    <2>1. UNCHANGED <<accountVars, due, process, sinceRun, runs, todo, inHand, mails, boots>>
      BY <1>3 DEF LoopEnds
    <2> QED  BY <2>1 DEF accountVars, DigestInv, RowsOK, RunsOK, RunsTidy, MailsCovered, Pending, Hand
  <1> QED  BY <1>1, <1>2, <1>3 DEF RequestServed, digestVars

\* Whoever comes or leaves is counted, and while Stop waits the loop still is.
LEMMA CountedStep ==
    ASSUME RunsOK, RunsTidy, RunsCounted, [DigestNext]_<<accountVars, digestVars, faults>>
    PROVE  RunsCounted'
  <1> USE DEF RunsCounted
  <1>1. CASE UNCHANGED <<schedulerVars, process, runs>>
    BY <1>1 DEF schedulerVars, Running
  <1>2. ASSUME NEW p \in Periods, RunStarts(p) PROVE RunsCounted'
    <2>1. Cardinality(Running') = Cardinality(Running) + 1
      BY <1>2, RunComes DEF RunStarts
    <2>2. UNCHANGED <<loop, process>> /\ wg' = wg + 1
      BY <1>2 DEF RunStarts, StartsCounted
    <2> QED  BY <2>1, <2>2, RunningFinite
  <1>3. ASSUME NEW p \in Periods, runs[p] # "off", RunGoes(p, "off"), Leaves, UNCHANGED <<loop, process>>
        PROVE  RunsCounted'
    <2>1. Cardinality(Running') = Cardinality(Running) - 1
      BY <1>3, RunLeaves
    <2> QED  BY <1>3, <2>1, RunningFinite DEF Leaves
  <1>4. ASSUME NEW p \in Periods, UsersListed(p) PROVE RunsCounted'
    <2>1. UNCHANGED <<loop, process>> /\ runs[p] = "listing"
      BY <1>4 DEF UsersListed
    <2>2. CASE RunGoes(p, "sending") /\ UNCHANGED wg
      <3>1. Running' = Running
        BY <2>1, <2>2 DEF RunGoes, Running, RunsOK
      <3> QED  BY <2>1, <2>2, <3>1
    <2>3. CASE RunGoes(p, "off") /\ Leaves
      BY <1>3, <2>1, <2>3
    <2> QED  BY <1>4, <2>2, <2>3 DEF UsersListed
  <1>5. ASSUME NEW p \in Periods, RunEnds(p) PROVE RunsCounted'
    BY <1>3, <1>5 DEF RunEnds
  <1>6. CASE LoopEnds
    <2>1. loop /\ loop' = FALSE /\ wg' = wg - 1 /\ Running' = Running
      BY <1>6 DEF LoopEnds, Leaves, Running
    <2>2. wg' = Cardinality(Running')
      BY <2>1, RunningFinite
    <2> QED  BY <2>1, <2>2
  <1>7. CASE ShutdownBegins \/ SchedulerStops
    <2>1. UNCHANGED <<loop, wg>> /\ process' \in {"up", "draining", "stopping"} /\ Running' = Running
      BY <1>7 DEF ShutdownBegins, SchedulerStops, schedulerVars, Running
    <2> QED  BY <2>1
  <1>8. CASE StoresClose
    <2>1. ~ loop /\ UNCHANGED <<loop, wg, runs>>
      BY <1>8, NoneWaitedFor DEF StoresClose, SchedulerDone, schedulerVars
    <2> QED  BY <2>1 DEF Running
  <1>9. CASE ProcessEnds
    <2>1. ~ loop' /\ loop' \in BOOLEAN /\ wg' = 0 /\ Running' = {}
      BY <1>9 DEF ProcessEnds, Running
    <2> QED  BY <2>1, FS_EmptySet
  <1>10. CASE ProcessStarts
    <2>1. loop' = TRUE /\ wg' = 1 /\ process' = "up"
      BY <1>10 DEF ProcessStarts
    <2>2. Running' = {}
      BY <1>10 DEF ProcessStarts, Running, RunsTidy
    <2> QED  BY <2>1, <2>2, FS_EmptySet
  <1>11. CASE \/ RequestServed \/ MinutePasses \/ UNCHANGED <<accountVars, digestVars, faults>>
              \/ \E p \in Periods : \E id \in todo[p] : UserTaken(p, id)
              \/ \E h \in inHand : MailSent(h) \/ SendingMarked(h)
    <2>1. UNCHANGED <<schedulerVars, process, runs>>
      BY <1>11 DEF RequestServed, MinutePasses, UserTaken, MailSent, SendingMarked, digestVars
    <2> QED  BY <1>1, <2>1
  <1> QED  BY <1>2, <1>4, <1>5, <1>6, <1>7, <1>8, <1>9, <1>10, <1>11 DEF DigestNext

SchedulerInv == DigestInv /\ RunsCounted

LEMMA SchedulerStarts == DigestInit => SchedulerInv
  <1> SUFFICES ASSUME DigestInit PROVE RunsCounted
    BY DigestStarts DEF SchedulerInv
  <1>1. loop = TRUE /\ wg = 1 /\ process = "up" /\ Running = {}
    BY DEF DigestInit, Running
  <1> QED  BY <1>1, FS_EmptySet DEF RunsCounted

LEMMA SchedulerSteady == SchedulerInv /\ [DigestNext]_<<accountVars, digestVars, faults>> => SchedulerInv'
  <1> SUFFICES ASSUME SchedulerInv, [DigestNext]_<<accountVars, digestVars, faults>> PROVE SchedulerInv'
    OBVIOUS
  <1>1. RunsCounted'
    BY CountedStep DEF SchedulerInv, DigestInv
  <1>2. DigestInv'
    BY StartStep, ListStep, TakeStep, MailStep, MarkStep, EndStep, ProcessStep, OtherDigestStep
    DEF SchedulerInv, DigestNext
  <1> QED  BY <1>1, <1>2 DEF SchedulerInv

LEMMA MailsBounded == DigestInv => OneMailPerRun
  <1> SUFFICES ASSUME DigestInv, NEW p \in Periods, NEW id \in Ids PROVE mails[p][id] <= 1 + boots
    BY DEF OneMailPerRun
  <1> QED  BY DEF DigestInv, RunsOK, MailsCovered

LEMMA RunsOver == SchedulerInv => RunsEndBeforeStores
  BY DEF SchedulerInv, DigestInv, RunsOK, RunsTidy, RunsCounted, RunsEndBeforeStores, Running

\* An account gets one mail of a period in a day, and one more for each start
\* of the process in the minute of the runs, for any accounts, periods and
\* workers, whatever fails and whenever the process is stopped or killed.
THEOREM MailsOnce == DigestSpec => []OneMailPerRun
  <1>1. SchedulerInv => OneMailPerRun
    BY MailsBounded DEF SchedulerInv
  <1> QED  BY <1>1, SchedulerStarts, SchedulerSteady, PTL DEF DigestSpec

\* When the stores are closed no run and no worker is left, and no tick can
\* start one, though the loop may have taken one while Stop was waiting.
THEOREM StoresCloseLast == DigestSpec => []RunsEndBeforeStores
  BY RunsOver, SchedulerStarts, SchedulerSteady, PTL DEF DigestSpec

-----------------------------------------------------------------------------
(* The trending scores.                                                    *)

\* The scores, and what the aggregators are about to write.
ScoresOK ==
    /\ rawScore \in [Titles -> Nat]
    /\ decay \in [Titles -> Nat \ {0}]
    /\ exact \in [Titles -> Nat]
    /\ updating \in [Aggregators -> {"idle", "writing", "linking", "recording", "recordingPage"}]
    /\ newScore \in [Aggregators -> Nat]
    /\ \A w \in Aggregators : updating[w] # "idle" => title[w] \in Titles
    /\ DOMAIN title = Aggregators

\* What an aggregator will write is within the edits handled as well: no
\* half-life passes meanwhile.
WritesWithinEdits ==
    \A w \in Aggregators : updating[w] = "writing" => newScore[w] <= exact[title[w]]

ScoreInv == ScoresOK /\ WritesWithinEdits /\ ScoreWithinEdits

LEMMA Quotient ==
    ASSUME NEW x \in Nat, NEW k \in Nat \ {0}
    PROVE  /\ x \div k \in Nat
           /\ k * (x \div k) <= x /\ x < k * (x \div k) + k
  OBVIOUS

\* An older time only makes a score less.
LEMMA QuotientLess ==
    ASSUME NEW x \in Nat, NEW k \in Nat \ {0}
    PROVE  x \div k <= x
  <1> DEFINE q == x \div k
  <1>1. q \in Nat /\ k * q <= x
    BY Quotient
  <1> HIDE DEF q
  <1>2. (k - 1) * q >= 0 /\ k * q = (k - 1) * q + q
    BY <1>1
  <1>3. k * q \in Nat /\ (k - 1) * q \in Nat
    BY <1>1
  <1>4. q <= x
    BY <1>1, <1>2, <1>3
  <1> QED  BY <1>4 DEF q

\* A score that decays once more: half of what it was, or less.
LEMMA HalfOnceMore ==
    ASSUME NEW x \in Nat, NEW f \in Nat \ {0}, NEW y \in Nat, x \div f <= y
    PROVE  /\ 2 * f \in Nat \ {0}
           /\ x \div f \in Nat
           /\ x \div (2 * f) \in Nat
           /\ x \div (2 * f) <= y \div 2
  <1> DEFINE a == x \div (2 * f)
             b == x \div f
  <1>1. 2 * f \in Nat \ {0}
    OBVIOUS
  <1>2. a \in Nat /\ (2 * f) * a <= x
    BY <1>1, Quotient
  <1>3. b \in Nat /\ x < f * b + f
    BY Quotient
  <1> HIDE DEF a, b
  <1>4. f * (2 * a) < f * (b + 1)
    BY <1>2, <1>3
  <1>5. 2 * a < b + 1
    <2> SUFFICES ASSUME 2 * a >= b + 1 PROVE FALSE
      BY <1>2, <1>3
    <2>1. f * (2 * a) >= f * (b + 1)
      BY <1>2, <1>3
    <2> QED  BY <1>2, <1>3, <1>4, <2>1
  <1>6. b <= y
    BY DEF b
  <1>7. 2 * a <= y
    BY <1>2, <1>3, <1>5, <1>6
  <1>8. a <= y \div 2
    BY <1>2, <1>7
  <1> QED  BY <1>1, <1>2, <1>3, <1>8 DEF a, b

LEMMA ScoresStart == TrendingInit => ScoreInv
  <1> SUFFICES ASSUME TrendingInit PROVE ScoreInv
    OBVIOUS
  <1> USE DEF TrendingInit
  <1>1. ScoresOK
    BY DEF ScoresOK
  <1>2. WritesWithinEdits
    BY DEF WritesWithinEdits
  <1>3. ASSUME NEW p \in Titles PROVE Decayed(p) <= exact[p]
    BY DEF Decayed
  <1> QED  BY <1>1, <1>2, <1>3 DEF ScoreInv, ScoreWithinEdits

\* A step that leaves the scores and the edits alone.
LEMMA ScoresRest ==
    ASSUME UNCHANGED <<rawScore, decay, exact>>
    PROVE  ScoreWithinEdits => ScoreWithinEdits'
  BY DEF ScoreWithinEdits, Decayed

LEMMA ScoreReadStep ==
    ASSUME ScoreInv, NEW w \in Aggregators, NEW p \in Titles, NEW increment \in Increments,
           ScoreRead(w, p, increment)
    PROVE  ScoreInv'
  <1> USE DEF ScoreInv
  <1>1. /\ UNCHANGED <<rawScore, decay>> /\ exact' = [exact EXCEPT ![p] = @ + increment]
        /\ increment \in Nat /\ updating[w] = "idle"
    BY TrendingAssumption DEF ScoreRead, scoreVars
  <1>2. Decayed(p) \in Nat /\ Decayed(p) <= exact[p]
    BY Quotient DEF Decayed, ScoresOK, ScoreWithinEdits
  <1>3. \/ /\ updating' = [updating EXCEPT ![w] = "writing"]
           /\ title' = [title EXCEPT ![w] = p]
           /\ newScore' = [newScore EXCEPT ![w] = Decayed(p) + increment]
        \/ UNCHANGED <<updating, title, newScore>>
    BY DEF ScoreRead, Raised
  <1>4. ScoresOK'
    BY <1>1, <1>2, <1>3 DEF ScoresOK
  <1>5. \A q \in Titles : exact[q] \in Nat /\ exact'[q] \in Nat /\ exact[q] <= exact'[q]
    BY <1>1 DEF ScoresOK
  <1>6. WritesWithinEdits'
    <2> SUFFICES ASSUME NEW v \in Aggregators, updating'[v] = "writing"
                 PROVE  newScore'[v] <= exact'[title'[v]]
      BY DEF WritesWithinEdits
    <2>1. CASE v = w
      BY <1>1, <1>2, <1>3, <2>1 DEF ScoresOK
    <2>2. CASE v # w
      BY <1>1, <1>3, <1>5, <2>2 DEF ScoresOK, WritesWithinEdits
    <2> QED  BY <2>1, <2>2
  <1>7. ASSUME NEW q \in Titles PROVE Decayed(q)' <= exact'[q]
    BY <1>1, <1>5, Quotient DEF ScoresOK, ScoreWithinEdits, Decayed
  <1> QED  BY <1>4, <1>6, <1>7 DEF ScoreWithinEdits

LEMMA ScoreWrittenStep ==
    ASSUME ScoreInv, NEW w \in Aggregators, ScoreWritten(w)
    PROVE  ScoreInv'
  <1> USE DEF ScoreInv
  <1> DEFINE p == title[w]
  <1>1. /\ UNCHANGED exact /\ updating[w] = "writing" /\ p \in Titles
        /\ newScore[w] \in Nat /\ newScore[w] <= exact[p]
    BY DEF ScoreWritten, ScoresOK, WritesWithinEdits
  <1>2. \/ UNCHANGED <<rawScore, decay>>
        \/ rawScore' = [rawScore EXCEPT ![p] = newScore[w]] /\ UNCHANGED decay
        \/ rawScore' = [rawScore EXCEPT ![p] = newScore[w]] /\ decay' = [decay EXCEPT ![p] = 1]
    BY DEF ScoreWritten
  <1>3. \/ UpdateGoes(w, "linking")
        \/ UpdateEnds(w)
    BY DEF ScoreWritten
  <1> HIDE DEF p
  <1>4. ScoresOK' /\ WritesWithinEdits'
    BY <1>1, <1>2, <1>3 DEF ScoresOK, UpdateGoes, UpdateEnds, WritesWithinEdits
  <1>5. ASSUME NEW q \in Titles PROVE Decayed(q)' <= exact'[q]
    <2>1. CASE rawScore'[q] = rawScore[q] /\ decay'[q] = decay[q]
      BY <1>1, <2>1 DEF Decayed, ScoreWithinEdits
    <2>2. CASE q = p /\ rawScore'[q] = newScore[w] /\ decay'[q] = 1
      BY <1>1, <2>2 DEF Decayed, ScoresOK
    <2>3. CASE q = p /\ rawScore'[q] = newScore[w] /\ decay'[q] = decay[q]
      <3>1. decay[q] \in Nat \ {0} /\ exact[q] \in Nat
        BY DEF ScoresOK
      <3>2. newScore[w] \div decay[q] \in Nat /\ newScore[w] \div decay[q] <= newScore[w]
        BY <1>1, <3>1, Quotient, QuotientLess
      <3>3. Decayed(q)' = newScore[w] \div decay[q]
        BY <2>3 DEF Decayed
      <3> QED  BY <1>1, <2>3, <3>1, <3>2, <3>3
    <2> QED  BY <1>1, <1>2, <2>1, <2>2, <2>3 DEF ScoresOK
  <1> QED  BY <1>4, <1>5 DEF ScoreWithinEdits

\* What the pruner deletes has no score left.
LEMMA PruneStep ==
    ASSUME ScoreInv,
           PruneCounts \/ PruneCaps \/ (\E p \in Titles : PruneJudges(p))
           \/ PruneDeletes \/ PruneUnranks \/ PruneEnds
    PROVE  ScoreInv'
  <1> USE DEF ScoreInv
  <1>1. UNCHANGED <<updating, title, newScore, exact>>
    BY DEF PruneCounts, PruneCaps, PruneJudges, PruneDeletes, PruneUnranks, PruneEnds
  <1>2. \/ UNCHANGED <<rawScore, decay>>
        \/ \E p : rawScore' = [rawScore EXCEPT ![p] = 0] /\ decay' = [decay EXCEPT ![p] = 1]
    BY DEF PruneCounts, PruneCaps, PruneJudges, PruneDeletes, PruneUnranks, PruneEnds, scoreVars
  <1>3. ScoresOK' /\ WritesWithinEdits'
    BY <1>1, <1>2 DEF ScoresOK, WritesWithinEdits
  <1>4. ASSUME NEW q \in Titles PROVE Decayed(q)' <= exact'[q]
    <2>1. CASE rawScore'[q] = rawScore[q] /\ decay'[q] = decay[q]
      BY <1>1, <2>1 DEF Decayed, ScoreWithinEdits
    <2>2. CASE rawScore'[q] = 0 /\ decay'[q] = 1
      BY <1>1, <2>2 DEF Decayed, ScoresOK
    <2> QED  BY <1>1, <1>2, <2>1, <2>2 DEF ScoresOK
  <1> QED  BY <1>3, <1>4 DEF ScoreWithinEdits

LEMMA HalfLifeStep == ASSUME ScoreInv, HalfLifePasses PROVE ScoreInv'
  <1> USE DEF ScoreInv
  <1>1. /\ UNCHANGED <<rawScore, updating, title, newScore>>
        /\ \A w \in Aggregators : updating[w] = "idle"
        /\ decay' = [p \in Titles |-> IF p \in Decaying THEN 2 * decay[p] ELSE decay[p]]
        /\ exact' = [p \in Titles |-> IF p \in undated THEN exact[p] ELSE exact[p] \div 2]
    BY DEF HalfLifePasses
  <1>2. ASSUME NEW p \in Titles
        PROVE  /\ decay'[p] \in Nat \ {0} /\ exact'[p] \in Nat
               /\ Decayed(p)' <= exact'[p]
    <2>1. /\ rawScore[p] \in Nat /\ decay[p] \in Nat \ {0} /\ exact[p] \in Nat
          /\ rawScore[p] \div decay[p] <= exact[p]
      BY DEF ScoresOK, ScoreWithinEdits, Decayed
    <2>2. /\ exact'[p] = IF p \in undated THEN exact[p] ELSE exact[p] \div 2
          /\ exact'[p] \in Nat /\ rawScore'[p] = rawScore[p]
      BY <1>1, <2>1
    <2>3. CASE p \in Decaying
      <3>1. decay'[p] = 2 * decay[p]
        BY <1>1, <2>3
      <3>2. Decayed(p)' = rawScore[p] \div (2 * decay[p])
        BY <2>2, <3>1 DEF Decayed
      <3>3. /\ 2 * decay[p] \in Nat \ {0}
            /\ rawScore[p] \div (2 * decay[p]) <= exact[p] \div 2
        BY <2>1, HalfOnceMore
      <3>4. p \notin undated
        BY <2>3 DEF Decaying
      <3> QED  BY <2>2, <3>1, <3>2, <3>3, <3>4
    <2>4. CASE p \in undated
      <3>1. decay'[p] = decay[p]
        BY <1>1, <2>4 DEF Decaying
      <3> QED  BY <2>1, <2>2, <2>4, <3>1 DEF Decayed
    <2>5. CASE p \notin undated /\ p \notin Decaying
      <3>1. decay'[p] = decay[p]
        BY <1>1, <2>5
      <3>2. rawScore[p] \div decay[p] = 0
        BY <2>1, <2>5, Quotient DEF Decaying, Decayed
      <3> QED  BY <2>1, <2>2, <3>1, <3>2 DEF Decayed
    <2> QED  BY <2>3, <2>4, <2>5
  <1>3. ScoresOK' /\ WritesWithinEdits'
    BY <1>1, <1>2 DEF ScoresOK, WritesWithinEdits
  <1> QED  BY <1>2, <1>3 DEF ScoreWithinEdits

LEMMA OtherUpdateStep ==
    ASSUME ScoreInv, NEW w \in Aggregators,
           ServerLinked(w) \/ EditRecorded(w) \/ PageEditRecorded(w) \/ AggregatorRestarts(w)
    PROVE  ScoreInv'
  <1> USE DEF ScoreInv
  <1>1. UNCHANGED <<rawScore, decay, exact>>
    BY DEF ServerLinked, EditRecorded, PageEditRecorded, AggregatorRestarts, scoreVars
  <1>2. /\ updating[w] # "idle"
        /\ UpdateGoes(w, "recording") \/ UpdateGoes(w, "recordingPage") \/ UpdateEnds(w)
    BY DEF ServerLinked, EditRecorded, PageEditRecorded, AggregatorRestarts
  <1>3. ScoresOK' /\ WritesWithinEdits'
    BY <1>1, <1>2 DEF ScoresOK, WritesWithinEdits, UpdateGoes, UpdateEnds
  <1> QED  BY <1>1, <1>3, ScoresRest

LEMMA ScoreStep == ScoreInv /\ [TrendingNext]_<<trendingVars, faults>> => ScoreInv'
  <1> SUFFICES ASSUME ScoreInv, [TrendingNext]_<<trendingVars, faults>> PROVE ScoreInv'
    OBVIOUS
  <1>1. CASE UNCHANGED <<trendingVars, faults>>
    BY <1>1, ScoresRest DEF trendingVars, scoreVars, ScoreInv, ScoresOK, WritesWithinEdits
  <1>2. CASE TrendingNext
    BY <1>2, ScoreReadStep, ScoreWrittenStep, PruneStep, HalfLifeStep, OtherUpdateStep
    DEF TrendingNext
  <1> QED  BY <1>1, <1>2

\* A page's score stays within the decayed sum of the edits handled, for any
\* number of aggregators and edits, whatever they and the pruner do between
\* each other's calls, whatever fails and wherever a write breaks off.
THEOREM ScoresBoundedByEdits == TrendingSpec => []ScoreWithinEdits
  <1>1. ScoreInv => ScoreWithinEdits
    BY DEF ScoreInv
  <1> QED  BY <1>1, ScoresStart, ScoreStep, PTL DEF TrendingSpec

-----------------------------------------------------------------------------
(* The trending scores: their types, with the bounds on the statistics.    *)

LEMMA OneMore ==
    ASSUME NEW S, IsFiniteSet(S), NEW w, NEW T \in SUBSET (S \cup {w})
    PROVE  /\ Cardinality(S) \in Nat /\ Cardinality(T) \in Nat
           /\ Cardinality(T) <= Cardinality(S) + 1
  <1>0. Cardinality(S) \in Nat
    BY FS_CardinalityType
  <1>1. IsFiniteSet(S \cup {w}) /\ Cardinality(S \cup {w}) <= Cardinality(S) + 1
    BY <1>0, FS_AddElement
  <1>2. IsFiniteSet(T) /\ Cardinality(T) <= Cardinality(S \cup {w})
    BY <1>1, FS_Subset
  <1> QED  BY <1>0, <1>1, <1>2, FS_CardinalityType

LEMMA OneFewer ==
    ASSUME NEW S, IsFiniteSet(S), NEW w \in S, NEW T \in SUBSET (S \ {w})
    PROVE  /\ Cardinality(S) \in Nat /\ Cardinality(T) \in Nat
           /\ Cardinality(T) + 1 <= Cardinality(S)
  <1>1. IsFiniteSet(S \ {w}) /\ Cardinality(S \ {w}) = Cardinality(S) - 1
    BY FS_RemoveElement
  <1>2. IsFiniteSet(T) /\ Cardinality(T) <= Cardinality(S \ {w})
    BY <1>1, FS_Subset
  <1> QED  BY <1>1, <1>2, FS_CardinalityType

LEMMA NoMore ==
    ASSUME NEW S, IsFiniteSet(S), NEW T \in SUBSET S
    PROVE  /\ Cardinality(S) \in Nat /\ Cardinality(T) \in Nat
           /\ Cardinality(T) <= Cardinality(S)
  BY FS_Subset, FS_CardinalityType

\* The aggregators whose edit the total of a day has still to count, and
\* those whose edit that of its page has.
Uncounted == {w \in Aggregators : updating[w] \in {"writing", "linking", "recording"}}
About(p) == {w \in Aggregators : updating[w] # "idle" /\ title[w] = p}

\* An edit is counted once, or not at all.
CountedOnce ==
    /\ languages \in Nat /\ scored \in 0..MaxScored
    /\ pageEdits \in [Titles -> Nat]
    /\ languages + Cardinality(Uncounted) <= scored
    /\ \A p \in Titles : pageEdits[p] + Cardinality(About(p)) <= scored

PlacesOK ==
    /\ undated \subseteq Titles
    /\ serverURL \subseteq Titles
    /\ ranking \in [Titles -> Nat]
    /\ title \in [Aggregators -> Titles \cup {NoTitle}]
    /\ pruner \in {"resting", "capping", "scanning", "invalid", "decayed", "unranking"}
                    \X (Titles \cup {NoTitle})
    /\ excess \in Int

TrendingInv == ScoreInv /\ CountedOnce /\ PlacesOK

LEMMA Finite == /\ IsFiniteSet(Uncounted) /\ \A p : IsFiniteSet(About(p))
                /\ \A S \in SUBSET Titles : Cardinality(S) \in Nat
                /\ MaxScored \in Nat /\ MaxPages \in Nat
  <1>1. Uncounted \in SUBSET Aggregators /\ \A p : About(p) \in SUBSET Aggregators
    BY DEF Uncounted, About
  <1> QED  BY <1>1, TrendingAssumption, FS_Subset, FS_CardinalityType

LEMMA TrendingStarts == TrendingInit => TrendingInv
  <1> SUFFICES ASSUME TrendingInit PROVE TrendingInv
    OBVIOUS
  <1>1. Uncounted = {} /\ \A p : About(p) = {}
    BY DEF TrendingInit, Uncounted, About
  <1>2. CountedOnce
    BY <1>1, Finite, FS_EmptySet DEF TrendingInit, CountedOnce
  <1>3. PlacesOK
    BY DEF TrendingInit, PlacesOK, Resting
  <1> QED  BY <1>2, <1>3, ScoresStart DEF TrendingInv

\* The pages and the ranking.
LEMMA PlacesStep == ASSUME ScoresOK, PlacesOK, TrendingNext PROVE PlacesOK'
  <1> USE DEF PlacesOK
  <1>1. ASSUME NEW w \in Aggregators, NEW p \in Titles, NEW increment \in Increments,
               ScoreRead(w, p, increment)
        PROVE  PlacesOK'
    BY <1>1 DEF ScoreRead, scoreVars
  <1>2. ASSUME NEW w \in Aggregators,
               \/ ScoreWritten(w) \/ ServerLinked(w) \/ EditRecorded(w)
               \/ PageEditRecorded(w) \/ AggregatorRestarts(w)
        PROVE  PlacesOK'
    <2>1. UNCHANGED <<pruner, excess>>
      BY <1>2 DEF ScoreWritten, ServerLinked, EditRecorded, PageEditRecorded, AggregatorRestarts
    <2>2. UNCHANGED title \/ title' = [title EXCEPT ![w] = NoTitle]
      BY <1>2 DEF ScoreWritten, ServerLinked, EditRecorded, PageEditRecorded, AggregatorRestarts,
                  UpdateGoes, UpdateEnds
    <2>3. UNCHANGED ranking \/ ranking' = [ranking EXCEPT ![title[w]] = newScore[w]]
      BY <1>2 DEF ScoreWritten, ServerLinked, EditRecorded, PageEditRecorded, AggregatorRestarts,
                  scoreVars
    <2>4. UNCHANGED serverURL \/ (serverURL' = serverURL \cup {title[w]} /\ updating[w] # "idle")
      BY <1>2 DEF ScoreWritten, ServerLinked, EditRecorded, PageEditRecorded, AggregatorRestarts,
                  scoreVars
    <2>5. undated' \subseteq undated \/ (undated' = undated \cup {title[w]} /\ updating[w] # "idle")
      BY <1>2 DEF ScoreWritten, ServerLinked, EditRecorded, PageEditRecorded, AggregatorRestarts,
                  scoreVars
    <2> QED  BY <2>1, <2>2, <2>3, <2>4, <2>5 DEF ScoresOK
  <1>3. CASE PruneCounts
    <2>1. Cardinality({p \in Ranked : ranking[p] > 1}) \in Nat
      BY Finite DEF Ranked
    <2>2. excess' \in Int
      BY <1>3, <2>1, Finite DEF PruneCounts
    <2> QED  BY <1>3, <2>2 DEF PruneCounts
  <1>4. CASE PruneCaps
    <2>1. /\ UNCHANGED <<undated, serverURL, title>> /\ pruner' = <<"scanning", NoTitle>> /\ excess' = 0
          /\ \/ UNCHANGED ranking
             \/ \E out : ranking' = [p \in Titles |-> IF p \in out THEN 0 ELSE ranking[p]]
      BY <1>4 DEF PruneCaps
    <2>2. ranking' \in [Titles -> Nat]
      BY <2>1
    <2> QED  BY <2>1, <2>2
  <1>5. ASSUME NEW p \in Titles, PruneJudges(p) PROVE PlacesOK'
    BY <1>5 DEF PruneJudges, scoreVars
  <1>6. CASE PruneDeletes
    BY <1>6 DEF PruneDeletes
  <1>7. CASE PruneUnranks
    BY <1>7 DEF PruneUnranks
  <1>8. CASE PruneEnds
    BY <1>8 DEF PruneEnds, scoreVars, Resting
  <1>9. CASE HalfLifePasses
    BY <1>9 DEF HalfLifePasses
  <1> QED  BY <1>1, <1>2, <1>3, <1>4, <1>5, <1>6, <1>7, <1>8, <1>9 DEF TrendingNext

\* A step without an edit that leaves no aggregator with more to count.
LEMMA CountsRest ==
    ASSUME CountedOnce, UNCHANGED <<languages, pageEdits, scored>>,
           Uncounted' \subseteq Uncounted, \A p \in Titles : About(p)' \subseteq About(p)
    PROVE  CountedOnce'
  <1>1. Cardinality(Uncounted') <= Cardinality(Uncounted)
        /\ Cardinality(Uncounted') \in Nat /\ Cardinality(Uncounted) \in Nat
    BY Finite, NoMore
  <1>2. \A p \in Titles : /\ Cardinality(About(p)') <= Cardinality(About(p))
                          /\ Cardinality(About(p)') \in Nat /\ Cardinality(About(p)) \in Nat
    BY Finite, NoMore
  <1> QED  BY <1>1, <1>2, Finite DEF CountedOnce

LEMMA CountReadStep ==
    ASSUME ScoresOK, CountedOnce, NEW w \in Aggregators, NEW p \in Titles, NEW increment \in Increments,
           ScoreRead(w, p, increment)
    PROVE  CountedOnce'
  <1>1. /\ UNCHANGED <<languages, pageEdits>> /\ scored' = scored + 1 /\ scored < MaxScored
        /\ \/ updating' = [updating EXCEPT ![w] = "writing"] /\ title' = [title EXCEPT ![w] = p]
           \/ UNCHANGED <<updating, title>>
    BY DEF ScoreRead, statVars
  <1>2. Uncounted' \subseteq Uncounted \cup {w} /\ \A q : About(q)' \subseteq About(q) \cup {w}
    BY <1>1 DEF Uncounted, About, ScoresOK
  <1>3. /\ Cardinality(Uncounted') <= Cardinality(Uncounted) + 1
        /\ Cardinality(Uncounted') \in Nat /\ Cardinality(Uncounted) \in Nat
    BY <1>2, Finite, OneMore
  <1>4. ASSUME NEW q \in Titles
        PROVE  /\ Cardinality(About(q)') <= Cardinality(About(q)) + 1
               /\ Cardinality(About(q)') \in Nat /\ Cardinality(About(q)) \in Nat
    <2>1. IsFiniteSet(About(q)) /\ About(q)' \in SUBSET (About(q) \cup {w})
      BY <1>2, Finite
    <2> QED  BY <2>1, OneMore
  <1> QED  BY <1>1, <1>3, <1>4, Finite DEF CountedOnce

LEMMA CountStep ==
    ASSUME ScoresOK, CountedOnce, NEW w \in Aggregators,
           \/ ScoreWritten(w) \/ ServerLinked(w) \/ EditRecorded(w)
           \/ PageEditRecorded(w) \/ AggregatorRestarts(w)
    PROVE  CountedOnce'
  <1>1. CASE ScoreWritten(w) \/ ServerLinked(w) \/ AggregatorRestarts(w)
    <2>1. /\ UNCHANGED <<languages, pageEdits, scored>>
          /\ updating[w] # "idle"
          /\ \/ updating[w] \in {"writing", "linking"}
                /\ (UpdateGoes(w, "linking") \/ UpdateGoes(w, "recording"))
             \/ UpdateEnds(w)
      BY <1>1 DEF ScoreWritten, ServerLinked, AggregatorRestarts, statVars
    <2>2. Uncounted' \subseteq Uncounted /\ \A p \in Titles : About(p)' \subseteq About(p)
      BY <2>1, TrendingAssumption DEF Uncounted, About, UpdateGoes, UpdateEnds, ScoresOK
    <2> QED  BY <2>1, <2>2, CountsRest
  <1>2. CASE EditRecorded(w)
    <2>1. /\ UNCHANGED <<pageEdits, scored>> /\ updating[w] = "recording"
          /\ UpdateGoes(w, "recordingPage")
          /\ languages' = languages \/ languages' = languages + 1
      BY <1>2 DEF EditRecorded
    <2>2. w \in Uncounted /\ Uncounted' \subseteq Uncounted \ {w} /\ \A p : About(p)' = About(p)
      BY <2>1 DEF Uncounted, About, UpdateGoes, ScoresOK
    <2>3. /\ Cardinality(Uncounted') + 1 <= Cardinality(Uncounted)
          /\ Cardinality(Uncounted') \in Nat /\ Cardinality(Uncounted) \in Nat
      BY <2>2, Finite, OneFewer
    <2> QED  BY <2>1, <2>2, <2>3, Finite DEF CountedOnce
  <1>3. CASE PageEditRecorded(w)
    <2> DEFINE p == title[w]
    <2>1. /\ UNCHANGED <<languages, scored>> /\ updating[w] = "recordingPage" /\ p \in Titles
          /\ UpdateEnds(w)
          /\ pageEdits' = pageEdits \/ pageEdits' = [pageEdits EXCEPT ![p] = @ + 1]
      BY <1>3 DEF PageEditRecorded, ScoresOK
    <2> HIDE DEF p
    <2>2. w \in About(p)
      BY <2>1 DEF About, p
    <2>3. Uncounted' = Uncounted /\ \A q \in Titles : About(q)' = About(q) \ {w}
      BY <2>1, TrendingAssumption DEF Uncounted, About, UpdateEnds, ScoresOK
    <2>4. ASSUME NEW q \in Titles PROVE pageEdits'[q] + Cardinality(About(q)') <= scored /\ pageEdits'[q] \in Nat
      <3>1. pageEdits[q] \in Nat /\ scored \in Nat /\ pageEdits[q] + Cardinality(About(q)) <= scored
        BY Finite DEF CountedOnce
      <3>2. CASE q = p
        <4>1. /\ Cardinality(About(q)') + 1 <= Cardinality(About(q))
              /\ Cardinality(About(q)') \in Nat /\ Cardinality(About(q)) \in Nat
          BY <2>2, <2>3, <3>2, Finite, OneFewer
        <4>2. pageEdits'[q] \in {pageEdits[q], pageEdits[q] + 1}
          BY <2>1, <3>2 DEF CountedOnce
        <4> QED  BY <3>1, <4>1, <4>2
      <3>3. CASE q # p
        <4>1. /\ Cardinality(About(q)') <= Cardinality(About(q))
              /\ Cardinality(About(q)') \in Nat /\ Cardinality(About(q)) \in Nat
          BY <2>3, Finite, NoMore
        <4>2. pageEdits'[q] = pageEdits[q]
          BY <2>1, <3>3 DEF CountedOnce
        <4> QED  BY <3>1, <4>1, <4>2
      <3> QED  BY <3>2, <3>3
    <2>5. pageEdits' \in [Titles -> Nat]
      BY <2>1, <2>4 DEF CountedOnce
    <2> QED  BY <2>1, <2>3, <2>4, <2>5 DEF CountedOnce
  <1> QED  BY <1>1, <1>2, <1>3

LEMMA TrendingSteady == TrendingInv /\ [TrendingNext]_<<trendingVars, faults>> => TrendingInv'
  <1> SUFFICES ASSUME TrendingInv, [TrendingNext]_<<trendingVars, faults>> PROVE TrendingInv'
    OBVIOUS
  <1>1. ScoreInv'
    BY ScoreStep DEF TrendingInv
  <1>2. ScoresOK
    BY DEF TrendingInv, ScoreInv
  <1>3. PlacesOK'
    <2>1. CASE UNCHANGED <<trendingVars, faults>>
      BY <2>1 DEF trendingVars, scoreVars, TrendingInv, PlacesOK
    <2>2. CASE TrendingNext
      BY <1>2, <2>2, PlacesStep DEF TrendingInv
    <2> QED  BY <2>1, <2>2
  <1>4. CountedOnce'
    <2>1. CASE \/ UNCHANGED <<trendingVars, faults>>
               \/ PruneCounts \/ PruneCaps \/ (\E p \in Titles : PruneJudges(p))
               \/ PruneDeletes \/ PruneUnranks \/ PruneEnds \/ HalfLifePasses
      <3>1. UNCHANGED <<updating, title, languages, pageEdits, scored>>
        BY <2>1 DEF trendingVars, statVars, PruneCounts, PruneCaps, PruneJudges, PruneDeletes,
                    PruneUnranks, PruneEnds, HalfLifePasses
      <3>2. Uncounted' = Uncounted /\ \A p \in Titles : About(p)' = About(p)
        BY <3>1 DEF Uncounted, About
      <3> QED  BY <3>1, <3>2, CountsRest DEF TrendingInv
    <2>2. ASSUME NEW w \in Aggregators,
                 \/ \E p \in Titles, increment \in Increments : ScoreRead(w, p, increment)
                 \/ ScoreWritten(w) \/ ServerLinked(w) \/ EditRecorded(w)
                 \/ PageEditRecorded(w) \/ AggregatorRestarts(w)
          PROVE  CountedOnce'
      BY <1>2, <2>2, CountReadStep, CountStep DEF TrendingInv
    <2> QED  BY <2>1, <2>2 DEF TrendingNext
  <1> QED  BY <1>1, <1>3, <1>4 DEF TrendingInv

LEMMA TrendingTypes == TrendingInv => TrendingTypeOK
  <1> SUFFICES ASSUME TrendingInv PROVE TrendingTypeOK
    OBVIOUS
  <1>1. Cardinality(Uncounted) \in Nat /\ \A p \in Titles : Cardinality(About(p)) \in Nat
    BY Finite, FS_CardinalityType
  <1>2. languages \in 0..MaxScored /\ pageEdits \in [Titles -> 0..MaxScored]
    BY <1>1, Finite DEF TrendingInv, CountedOnce
  <1> QED  BY <1>2 DEF TrendingInv, ScoreInv, ScoresOK, CountedOnce, PlacesOK, TrendingTypeOK

-----------------------------------------------------------------------------
(* The requests: their types.  A request reads one call of its kind after  *)
(* the other and no call past the last.                                    *)

ReadingOK ==
    /\ query \in [Requests -> Queries \cup {NoQuery}]
    /\ DOMAIN position = Requests
    /\ gone \in [Requests -> BOOLEAN]
    /\ \A r \in Requests :
          /\ serving[r] = "out" => query[r] = NoQuery /\ position[r] = 1
          /\ serving[r] # "out" =>
                query[r] \in Queries /\ position[r] \in 1..(Len(ReadsOf[query[r]]) + 1)
          /\ serving[r] = "looking" => position[r] = 1
          /\ serving[r] = "reading" => position[r] <= Len(ReadsOf[query[r]])

\* What is cached is not older than a tick past its life, and fits.
CacheFits ==
    /\ \A q \in Cached : cache[q].held <= Life[q] + 1
    /\ Cardinality(Entries) <= MaxEntries

ApiInv == FreshInv /\ ReadingOK /\ CacheFits

LEMMA Joined ==
    ASSUME NEW S, NEW first \in Seq(S), NEW second \in Seq(S)
    PROVE  Len(first \o second) = Len(first) + Len(second)
  OBVIOUS

\* Every kind of request makes a call.
LEMMA SomeReads == \A q \in DOMAIN ReadsOf : Len(ReadsOf[q]) \in Nat \ {0}
  <1>1. /\ Len(TrendingReads) = 2 /\ Len(StatsReads) = 1 /\ Len(TimelineReads) = 1
        /\ Len(AlertsReads) = 1 /\ Len(ActiveWarsReads) = 2 /\ Len(WarHistoryReads) = 2
        /\ Len(AnalysisReads) = 1 /\ Len(WarTimelineReads) = 1 /\ Len(SearchReads) = 1
    BY DEF TrendingReads, StatsReads, TimelineReads, AlertsReads, ActiveWarsReads, WarHistoryReads,
           AnalysisReads, WarTimelineReads, SearchReads
  <1>2. /\ GeoRegionsAndWarsReads \in Seq({May, MayUnbound}) /\ Len(GeoRegionsAndWarsReads) = 1
        /\ GeoHotspotsReads \in Seq({May, MayUnbound}) /\ Len(GeoHotspotsReads) = 2
    BY DEF GeoRegionsAndWarsReads, GeoHotspotsReads
  <1>3. Len(GeoReads) = 3
    <2>1. PICK S : GeoRegionsAndWarsReads \in Seq(S) /\ GeoHotspotsReads \in Seq(S)
      BY <1>2
    <2>2. Len(GeoRegionsAndWarsReads \o GeoHotspotsReads) = 1 + 2
      BY <1>2, <2>1, Joined
    <2> QED  BY <2>2 DEF GeoReads
  <1> DEFINE one == {TrendingReads, StatsReads, TimelineReads, AlertsReads, ActiveWarsReads,
                     WarHistoryReads, AnalysisReads, WarTimelineReads, SearchReads, GeoReads}
  <1>4. \A reads \in one : Len(reads) \in Nat \ {0}
    BY <1>1, <1>3
  <1>5. \A q \in DOMAIN ReadsOf : ReadsOf[q] \in one
    BY DEF ReadsOf
  <1> QED  BY <1>4, <1>5

LEMMA EntriesFinite == IsFiniteSet(Entries) /\ Entries \subseteq Cached \ {"stats"} /\ MaxEntries \in Nat
  <1>1. IsFiniteSet({"alerts", "search", "geo"})
    <2>1. IsFiniteSet({} \cup {"alerts"})
      BY FS_EmptySet, FS_AddElement
    <2>2. IsFiniteSet(({} \cup {"alerts"}) \cup {"search"})
      BY <2>1, FS_AddElement
    <2>3. IsFiniteSet((({} \cup {"alerts"}) \cup {"search"}) \cup {"geo"})
      BY <2>2, FS_AddElement
    <2>4. (({} \cup {"alerts"}) \cup {"search"}) \cup {"geo"} = {"alerts", "search", "geo"}
      OBVIOUS
    <2> QED  BY <2>3, <2>4
  <1>2. Entries \subseteq {"alerts", "search", "geo"}
    BY DEF Entries, Cached, Life
  <1> QED  BY <1>1, <1>2, FS_Subset, ApiAssumption DEF Entries

LEMMA ApiStarts == ApiInit => ApiInv
  <1> SUFFICES ASSUME ApiInit PROVE ApiInv
    OBVIOUS
  <1>1. ReadingOK
    BY DEF ApiInit, ReadingOK
  <1>2. \A q \in Cached : cache[q].held <= Life[q] + 1
    BY Lives DEF ApiInit, NotStored, LivesOK
  <1>3. Entries = {}
    BY DEF ApiInit, Entries, NotStored
  <1> QED  BY <1>1, <1>2, <1>3, AnswersStart, EntriesFinite, FS_EmptySet DEF ApiInv, CacheFits

LEMMA ReadingStep == ASSUME AnswersOK, ReadingOK, [ApiNext]_<<apiVars, faults>> PROVE ReadingOK'
  <1> USE DEF ReadingOK
  <1>1. ASSUME NEW r \in Requests, NEW q \in Queries, RequestComes(r, q) PROVE ReadingOK'
    <2>1. Len(ReadsOf[q]) \in Nat \ {0}
      BY SomeReads, ApiAssumption
    <2> QED  BY <1>1, <2>1 DEF RequestComes, ServingGoes, AnswersOK
  <1>2. ASSUME NEW r \in Requests, RequestRefused(r) \/ Stores(r) PROVE ReadingOK'
    <2>1. /\ UNCHANGED <<query, position, gone>> /\ serving[r] # "out"
          /\ ServingGoes(r, "failed") \/ ServingGoes(r, "answered")
      BY <1>2 DEF RequestRefused, Stores
    <2> QED  BY <2>1 DEF ServingGoes, AnswersOK
  <1>3. ASSUME NEW r \in Requests, LooksInCache(r) PROVE ReadingOK'
    <2>1. /\ UNCHANGED <<query, position, gone>> /\ serving[r] = "looking"
          /\ ServingGoes(r, "reading") \/ ServingGoes(r, "answered")
      BY <1>3 DEF LooksInCache
    <2>2. Len(ReadsOf[query[r]]) \in Nat \ {0} /\ position[r] = 1
      BY <2>1, SomeReads, ApiAssumption
    <2> QED  BY <2>1, <2>2 DEF ServingGoes, AnswersOK
  <1>4. ASSUME NEW r \in Requests, Reads(r) PROVE ReadingOK'
    <2> DEFINE last == Len(ReadsOf[query[r]])
    <2>1. /\ UNCHANGED <<query, gone>> /\ serving[r] = "reading"
          /\ \/ ServingGoes(r, "failed") /\ UNCHANGED position
             \/ /\ position' = [position EXCEPT ![r] = @ + 1]
                /\ ServingGoes(r, IF position[r] = last THEN "storing" ELSE "reading")
      BY <1>4 DEF Reads
    <2>2. last \in Nat \ {0} /\ position[r] \in 1..last
      BY <2>1, SomeReads, ApiAssumption
    <2>3. CASE ServingGoes(r, "failed") /\ UNCHANGED position
      BY <2>1, <2>3 DEF ServingGoes, AnswersOK
    <2>4. CASE /\ position' = [position EXCEPT ![r] = @ + 1]
               /\ ServingGoes(r, IF position[r] = last THEN "storing" ELSE "reading")
      <3>1. /\ position'[r] = position[r] + 1 /\ DOMAIN position' = Requests
            /\ serving'[r] = IF position[r] = last THEN "storing" ELSE "reading"
            /\ \A s \in Requests \ {r} : position'[s] = position[s] /\ serving'[s] = serving[s]
        BY <2>4 DEF ServingGoes, AnswersOK
      <3>2. position'[r] \in 1..(last + 1) /\ (serving'[r] = "reading" => position'[r] <= last)
        BY <2>2, <3>1
      <3> QED  BY <2>1, <3>1, <3>2
    <2> QED  BY <2>1, <2>3, <2>4
  <1>5. ASSUME NEW r \in Requests, RequestLeaves(r) PROVE ReadingOK'
    BY <1>5 DEF RequestLeaves, ServingGoes, AnswersOK
  <1>6. ASSUME NEW r \in Requests, RequestEnds(r) PROVE ReadingOK'
    BY <1>6 DEF RequestEnds
  <1>7. CASE CacheCleaned \/ TimePasses \/ UNCHANGED <<apiVars, faults>>
    BY <1>7 DEF CacheCleaned, TimePasses, apiVars
  <1> QED  BY <1>1, <1>2, <1>3, <1>4, <1>5, <1>6, <1>7 DEF ApiNext

LEMMA CacheStands == ASSUME CacheFits, UNCHANGED cache PROVE CacheFits'
  BY DEF CacheFits, Entries

LEMMA FitsStep == ASSUME AnswersOK, CacheFits, [ApiNext]_<<apiVars, faults>> PROVE CacheFits'
  <1>1. CASE UNCHANGED cache
    BY <1>1, CacheStands
  <1>2. ASSUME NEW r \in Requests, Stores(r), ~ UNCHANGED cache PROVE CacheFits'
    <2> DEFINE q == query[r]
    <2>1. PICK row : /\ q \in Cached /\ row.held = 0 /\ cache' = [cache EXCEPT ![q] = row]
                     /\ q # "stats" => ~ (Cardinality(Entries) >= MaxEntries)
      BY <1>2 DEF Stores, Stored
    <2>2. \A k \in Cached : cache'[k].held \in {0, cache[k].held}
      BY <2>1 DEF AnswersOK
    <2>3. Entries' \subseteq Entries \cup (IF q = "stats" THEN {} ELSE {q})
      BY <2>1 DEF Entries, AnswersOK
    <2>4. Cardinality(Entries') <= MaxEntries
      <3>1. CASE q = "stats"
        <4>1. /\ Cardinality(Entries') <= Cardinality(Entries)
              /\ Cardinality(Entries') \in Nat /\ Cardinality(Entries) \in Nat
          BY <2>3, <3>1, EntriesFinite, NoMore
        <4> QED  BY <4>1, EntriesFinite DEF CacheFits
      <3>2. CASE q # "stats"
        <4>1. /\ Cardinality(Entries') <= Cardinality(Entries) + 1
              /\ Cardinality(Entries') \in Nat /\ Cardinality(Entries) \in Nat
          BY <2>3, <3>2, EntriesFinite, OneMore
        <4> QED  BY <2>1, <3>2, <4>1, EntriesFinite
      <3> QED  BY <3>1, <3>2
    <2>5. \A k \in Cached : cache[k].held \in Nat /\ Life[k] \in Nat
      BY Lives DEF AnswersOK, LivesOK
    <2> QED  BY <2>2, <2>4, <2>5 DEF CacheFits
  <1>3. CASE CacheCleaned \/ TimePasses
    <2>1. \A k \in Cached : cache[k].held \in Nat /\ Life[k] \in Nat
      BY Lives DEF AnswersOK, LivesOK
    <2>2. ASSUME NEW k \in Cached
          PROVE  cache'[k].held <= Life[k] + 1 /\ (cache'[k].stored => cache[k].stored)
      <3>1. \/ cache'[k] \in {cache[k], NotStored}
            \/ cache[k].held <= Life[k] /\ cache'[k] = [cache[k] EXCEPT !.held = @ + 1]
        BY <1>3 DEF CacheCleaned, TimePasses
      <3>2. cache[k] \in [age : 0..Longest, whole : BOOLEAN, held : Nat, stored : BOOLEAN]
        BY DEF AnswersOK
      <3>3. CASE cache'[k] = cache[k]
        BY <3>3 DEF CacheFits
      <3>4. CASE cache'[k] = NotStored
        BY <2>1, <3>4 DEF NotStored
      <3>5. CASE cache[k].held <= Life[k] /\ cache'[k] = [cache[k] EXCEPT !.held = @ + 1]
        BY <2>1, <3>2, <3>5
      <3> QED  BY <3>1, <3>3, <3>4, <3>5
    <2>3. Entries' \subseteq Entries
      BY <2>2 DEF Entries
    <2>4. /\ Cardinality(Entries') <= Cardinality(Entries)
          /\ Cardinality(Entries') \in Nat /\ Cardinality(Entries) \in Nat
      BY <2>3, EntriesFinite, NoMore
    <2> QED  BY <2>2, <2>4, EntriesFinite DEF CacheFits
  <1>4. CASE ~ (CacheCleaned \/ TimePasses \/ \E r \in Requests : Stores(r))
    BY <1>4, CacheStands DEF ApiNext, RequestComes, RequestRefused, LooksInCache, Reads, RequestLeaves,
       RequestEnds, apiVars
  <1> QED  BY <1>1, <1>2, <1>3, <1>4

LEMMA ApiSteady == ApiInv /\ [ApiNext]_<<apiVars, faults>> => ApiInv'
  <1> SUFFICES ASSUME ApiInv, [ApiNext]_<<apiVars, faults>> PROVE ApiInv'
    OBVIOUS
  <1>1. FreshInv'
    BY AnswersSteady DEF ApiInv
  <1>2. ReadingOK' /\ CacheFits'
    BY ReadingStep, FitsStep DEF ApiInv, FreshInv
  <1> QED  BY <1>1, <1>2 DEF ApiInv

LEMMA ApiTypes == ApiInv => ApiTypeOK
  <1> SUFFICES ASSUME ApiInv PROVE ApiTypeOK
    OBVIOUS
  <1>1. ASSUME NEW q \in Cached
        PROVE  cache[q] \in [age : 0..Longest, whole : BOOLEAN, held : 0..(Life[q] + 1), stored : BOOLEAN]
    <2>1. /\ cache[q] \in [age : 0..Longest, whole : BOOLEAN, held : Nat, stored : BOOLEAN]
          /\ cache[q].held <= Life[q] + 1 /\ Life[q] \in Nat
      BY Lives DEF ApiInv, FreshInv, AnswersOK, CacheFits, LivesOK
    <2>2. cache[q].held \in 0..(Life[q] + 1)
      BY <2>1
    <2> QED  BY <2>1, <2>2
  <1>2. DOMAIN cache = Cached
    BY DEF ApiInv, FreshInv, AnswersOK
  <1> QED  BY <1>1, <1>2 DEF ApiInv, FreshInv, AnswersOK, ReadingOK, CacheFits, ApiTypeOK

-----------------------------------------------------------------------------
(* The places, the accounts and the digest: their types.                   *)

PlaceBounds ==
    /\ read \in [Lookups -> SUBSET {"title", "extract", "description"}]
    /\ cut \in [Lookups -> BOOLEAN]
    /\ \A p \in Pages : heldFor[p] <= CacheLife
    /\ \A a \in Articles : sinceFail[a] <= Long

MapInv == PlaceInv /\ PlaceBounds

LEMMA MapStarts == GeoInit => MapInv
  BY PlacesStart, MapFacts DEF GeoInit, MapInv, PlaceBounds, Long

LEMMA BoundsStep == ASSUME LookupsOK, PlaceBounds, [GeoNext]_<<geoVars, faults>> PROVE PlaceBounds'
  <1> USE DEF PlaceBounds
  <1>1. ASSUME NEW l \in Lookups, (\E a \in Articles : LookupStarts(l, a)) \/ LookupCut(l)
        PROVE  PlaceBounds'
    BY <1>1 DEF LookupStarts, LookupCut
  <1>2. ASSUME NEW l \in Lookups,
               \/ CacheAsked(l) \/ ArticleAsked(l) \/ WikidataAsked(l) \/ EnglishAsked(l)
               \/ ResultCached(l)
        PROVE  PlaceBounds'
    <2>1. UNCHANGED sinceFail \/ sinceFail' = [sinceFail EXCEPT ![article[l]] = 0]
      BY <1>2 DEF CacheAsked, ArticleAsked, WikidataAsked, EnglishAsked, ResultCached, CallDone, CallLost
    <2>2. UNCHANGED heldFor \/ heldFor' = [heldFor EXCEPT ![Title(l)] = 0]
      BY <1>2 DEF CacheAsked, ArticleAsked, WikidataAsked, EnglishAsked, ResultCached
    <2>3. UNCHANGED cut \/ cut' = [cut EXCEPT ![l] = FALSE]
      BY <1>2 DEF CacheAsked, ArticleAsked, WikidataAsked, EnglishAsked, ResultCached, LookupEnds
    <2>4. \/ UNCHANGED read
          \/ \E known \in SUBSET {"title", "extract"} : read' = [read EXCEPT ![l] = known]
          \/ read' = [read EXCEPT ![l] = @ \cup {"description"}]
      BY <1>2 DEF CacheAsked, ArticleAsked, WikidataAsked, EnglishAsked, ResultCached, LookupEnds, ClaimsRead
    <2>5. read' \in [Lookups -> SUBSET {"title", "extract", "description"}]
      BY <2>4
    <2>6. /\ \A p \in Pages : heldFor'[p] \in {heldFor[p], 0}
          /\ \A a \in Articles : sinceFail'[a] \in {sinceFail[a], 0}
      BY <2>1, <2>2 DEF LookupsOK
    <2>7. (\A p \in Pages : heldFor'[p] <= CacheLife) /\ (\A a \in Articles : sinceFail'[a] <= Long)
      BY <2>6, MapFacts DEF Long
    <2>8. cut' \in [Lookups -> BOOLEAN]
      BY <2>3
    <2> QED  BY <2>5, <2>7, <2>8
  <1>3. CASE MapTicks
    <2>1. ASSUME NEW p \in Pages PROVE heldFor'[p] <= CacheLife
      <3>1. /\ placed'[p] = IF heldFor[p] + 1 >= CacheLife THEN "absent" ELSE placed[p]
            /\ heldFor'[p] = IF placed'[p] = "absent" THEN 0 ELSE heldFor[p] + 1
            /\ heldFor[p] \in Nat
        BY <1>3 DEF MapTicks, LookupsOK
      <3>2. CASE heldFor[p] + 1 >= CacheLife
        BY <3>1, <3>2, MapFacts
      <3>3. CASE ~ (heldFor[p] + 1 >= CacheLife)
        BY <3>1, <3>3, MapFacts
      <3> QED  BY <3>2, <3>3
    <2>2. ASSUME NEW a \in Articles PROVE sinceFail'[a] <= Long
      <3>1. /\ sinceFail'[a] = IF sinceFail[a] = Long THEN Long ELSE sinceFail[a] + 1
            /\ sinceFail[a] \in Nat /\ sinceFail[a] <= Long
        BY <1>3 DEF MapTicks, LookupsOK
      <3> QED  BY <3>1, MapFacts DEF Long
    <2> QED  BY <1>3, <2>1, <2>2 DEF MapTicks
  <1>4. CASE UNCHANGED <<geoVars, faults>>
    BY <1>4 DEF geoVars
  <1> QED  BY <1>1, <1>2, <1>3, <1>4 DEF GeoNext

LEMMA MapSteady == MapInv /\ [GeoNext]_<<geoVars, faults>> => MapInv'
  BY PlacesSteady, BoundsStep DEF MapInv, PlaceInv

LEMMA MapTypes == MapInv => GeoTypeOK
  <1> SUFFICES ASSUME MapInv PROVE GeoTypeOK
    OBVIOUS
  <1>1. /\ \A p \in Pages : heldFor[p] \in 0..CacheLife
        /\ \A a \in Articles : sinceFail[a] \in 0..Long
    BY MapFacts DEF MapInv, PlaceInv, LookupsOK, PlaceBounds, Long
  <1> QED  BY <1>1 DEF MapInv, PlaceInv, LookupsOK, PlaceBounds, GeoTypeOK

\* One account for an address, made by one of the registrations.
OneEach ==
    /\ \A a \in accounts : a.id \in 1..made
    /\ \A a, b \in accounts : a.email = b.email => a = b
    /\ dbOpen \in BOOLEAN
    /\ newAccount \in [Registrations -> Ids \cup {NoAccount}]

\* An UPDATE leaves each row its id and its address.
LEMMA UpdatesKeepApart ==
    ASSUME accounts \subseteq Rows, OneEach, NEW id, NEW column \in {"freq", "verified"}, NEW value,
           accounts' = Updated(id, column, value)
    PROVE  /\ \A a \in accounts' : a.id \in 1..made
           /\ \A a, b \in accounts' : a.email = b.email => a = b
  <1> DEFINE after(a) == IF a.id = id THEN [a EXCEPT ![column] = value] ELSE a
  <1>1. \A a \in accounts : after(a).id = a.id /\ after(a).email = a.email
    BY DEF Rows
  <1>2. accounts' = {after(a) : a \in accounts}
    BY DEF Updated
  <1> HIDE DEF after
  <1> QED  BY <1>1, <1>2 DEF OneEach

LEMMA OneEachStep == ASSUME RowsOK, OneEach, AccountsNext PROVE OneEach'
  <1> USE DEF OneEach
  <1>1. ASSUME NEW r \in Registrations,
               (\E email \in Emails : RegisterComes(r, email)) \/ AddressChecked(r)
        PROVE  OneEach'
    BY <1>1 DEF RegisterComes, AddressChecked, Registered
  <1>2. ASSUME NEW r \in Registrations, AccountCreated(r) PROVE OneEach'
    <2> DEFINE row == [id |-> made', email |-> whose[r], freq |-> "daily", verified |-> FALSE]
    <2>1. CASE UNCHANGED <<accounts, made>> /\ Registered(r)
      BY <1>2, <2>1 DEF Registered, AccountCreated
    <2>2. CASE /\ ~ Refuses(whose[r]) /\ made' = made + 1 /\ accounts' = accounts \cup {row}
               /\ newAccount' = [newAccount EXCEPT ![r] = made']
      <3>1. made \in Nat /\ made' \in Ids /\ made' = made + 1
        BY <1>2, <2>2, AccountsAssumption DEF AccountCreated, RowsOK, Ids
      <3>2. \A a \in accounts : a.email # row.email
        BY <2>2 DEF Refuses, Taken
      <3>3. row.id \in 1..made' /\ \A a \in accounts : a.id \in 1..made'
        BY <3>1
      <3> QED  BY <1>2, <2>2, <3>1, <3>2, <3>3 DEF AccountCreated
    <2> QED  BY <1>2, <2>1, <2>2 DEF AccountCreated
  <1>3. ASSUME NEW r \in Registrations, AccountVerified(r) PROVE OneEach'
    <2>1. /\ UNCHANGED <<made, dbOpen>> /\ newAccount' = [newAccount EXCEPT ![r] = NoAccount]
          /\ UNCHANGED accounts \/ accounts' = Updated(newAccount[r], "verified", TRUE)
      BY <1>3 DEF AccountVerified, Registered
    <2> QED  BY <2>1, UpdatesKeepApart DEF RowsOK
  <1>4. ASSUME NEW id, NEW freq, FrequencySet(id, freq) PROVE OneEach'
    BY <1>4, UpdatesKeepApart DEF FrequencySet, RowsOK
  <1>5. ASSUME NEW id, AccountDeleted(id) PROVE OneEach'
    BY <1>5 DEF AccountDeleted
  <1> QED  BY <1>1, <1>2, <1>3, <1>4, <1>5 DEF AccountsNext

\* The calendar, and the starts of the process.
CalendarOK ==
    /\ DOMAIN dueIn = Periods
    /\ \A p \in Periods : dueIn[p] \in 0..(Every[p] - 1) /\ sinceRun[p] <= Every[p]
    /\ due \in BOOLEAN
    /\ process \in {"up", "draining", "stopping", "closing", "down"}
    /\ restarts \in 0..MaxRestarts /\ boots <= restarts
    /\ process = "down" => restarts < MaxRestarts

MailInv == SchedulerInv /\ OneEach /\ CalendarOK

LEMMA MailStarts == DigestInit => MailInv
  <1> SUFFICES ASSUME DigestInit PROVE MailInv
    OBVIOUS
  <1>1. OneEach
    BY DEF DigestInit, AccountsInit, OneEach
  <1>2. MaxRestarts \in Nat /\ \A p \in Periods : Every[p] \in Nat /\ Every[p] > 0
    BY DigestAssumption
  <1>3. ASSUME NEW p \in Periods PROVE dueIn[p] \in 0..(Every[p] - 1) /\ sinceRun[p] <= Every[p]
    BY <1>2 DEF DigestInit
  <1>4. DOMAIN dueIn = Periods /\ due \in BOOLEAN /\ process = "up"
    BY DEF DigestInit
  <1>5. restarts = 0 /\ boots = 0
    BY DEF DigestInit
  <1>6. restarts \in 0..MaxRestarts /\ boots <= restarts
    BY <1>2, <1>5
  <1>7. CalendarOK
    BY <1>3, <1>4, <1>6 DEF CalendarOK
  <1> QED  BY <1>1, <1>7, SchedulerStarts DEF MailInv

LEMMA CalendarStep ==
    ASSUME RunsOK, CalendarOK, [DigestNext]_<<accountVars, digestVars, faults>>
    PROVE  CalendarOK'
  <1> USE DEF CalendarOK
  <1>0. MaxRestarts \in Nat /\ \A p \in Periods : sinceRun[p] \in Nat
    BY DigestAssumption DEF RunsOK
  <1>1. CASE \/ RequestServed \/ LoopEnds \/ UNCHANGED <<accountVars, digestVars, faults>>
             \/ \E p \in Periods : UsersListed(p) \/ RunEnds(p) \/ \E id \in todo[p] : UserTaken(p, id)
             \/ \E h \in inHand : MailSent(h) \/ SendingMarked(h)
    <2>1. UNCHANGED <<dueIn, due, process, sinceRun, restarts, boots>>
      BY <1>1 DEF RequestServed, LoopEnds, digestVars, UsersListed, RunEnds, UserTaken, MailSent,
         SendingMarked
    <2> QED  BY <2>1
  <1>2. ASSUME NEW p \in Periods, RunStarts(p) PROVE CalendarOK'
    <2>1. UNCHANGED <<dueIn, due, process, restarts, boots>> /\ sinceRun' = [sinceRun EXCEPT ![p] = 0]
      BY <1>2 DEF RunStarts, NotedDue
    <2> QED  BY <2>1, Calendar DEF RunsOK
  <1>3. CASE ShutdownBegins \/ SchedulerStops \/ StoresClose
    BY <1>3 DEF ShutdownBegins, SchedulerStops, StoresClose
  <1>4. CASE ProcessEnds
    <2>1. /\ UNCHANGED <<dueIn, due, restarts, boots>> /\ sinceRun' = Every /\ process' = "down"
          /\ restarts < MaxRestarts
      BY <1>4 DEF ProcessEnds
    <2> QED  BY <2>1, Calendar
  <1>5. CASE ProcessStarts
    <2>1. /\ UNCHANGED <<dueIn, due, sinceRun>> /\ process' = "up" /\ restarts' = restarts + 1
          /\ restarts < MaxRestarts /\ boots' \in {boots, boots + 1}
      BY <1>5 DEF ProcessStarts
    <2> QED  BY <1>0, <2>1 DEF RunsOK
  <1>6. CASE MinutePasses
    <2>1. UNCHANGED <<process, restarts>> /\ due' = ~ due
      BY <1>6 DEF MinutePasses
    <2>2. CASE due
      BY <1>6, <2>1, <2>2 DEF MinutePasses
    <2>3. CASE ~ due
      <3>1. /\ dueIn' = [p \in Periods |-> (IF dueIn[p] = 0 THEN Every[p] ELSE dueIn[p]) - 1]
            /\ sinceRun' = [p \in Periods |-> IF sinceRun[p] < Every[p] THEN sinceRun[p] + 1 ELSE Every[p]]
            /\ boots' = 0
        BY <1>6, <2>3 DEF MinutePasses
      <3>2. ASSUME NEW p \in Periods PROVE dueIn'[p] \in 0..(Every[p] - 1) /\ sinceRun'[p] <= Every[p]
        BY <1>0, <3>1, Calendar
      <3> QED  BY <1>0, <2>1, <3>1, <3>2
    <2> QED  BY <2>2, <2>3
  <1> QED  BY <1>1, <1>2, <1>3, <1>4, <1>5, <1>6 DEF DigestNext

LEMMA MailSteady == MailInv /\ [DigestNext]_<<accountVars, digestVars, faults>> => MailInv'
  <1> SUFFICES ASSUME MailInv, [DigestNext]_<<accountVars, digestVars, faults>> PROVE MailInv'
    OBVIOUS
  <1>1. SchedulerInv'
    BY SchedulerSteady DEF MailInv
  <1>2. CalendarOK'
    BY CalendarStep DEF MailInv, SchedulerInv, DigestInv
  <1>3. OneEach'
    <2>1. CASE RequestServed
      BY <2>1, OneEachStep DEF RequestServed, MailInv, SchedulerInv, DigestInv
    <2>2. CASE ~ RequestServed
      <3>1. /\ UNCHANGED <<accounts, made>> /\ dbOpen' \in {dbOpen, TRUE, FALSE}
            /\ UNCHANGED newAccount \/ newAccount' = [r \in Registrations |-> NoAccount]
        BY <2>2 DEF DigestNext, accountVars, RunStarts, LoopEnds, UsersListed, RunEnds, UserTaken, MailSent,
           SendingMarked, ShutdownBegins, SchedulerStops, StoresClose, ProcessEnds, ProcessStarts, MinutePasses
      <3> QED  BY <3>1 DEF MailInv, OneEach
    <2> QED  BY <2>1, <2>2
  <1> QED  BY <1>1, <1>2, <1>3 DEF MailInv

LEMMA MailTypes == MailInv => DigestTypeOK
  <1> SUFFICES ASSUME MailInv PROVE DigestTypeOK
    OBVIOUS
  <1>1. accounts \subseteq [id : 1..made, email : Emails, freq : Frequencies, verified : BOOLEAN]
    BY DEF MailInv, SchedulerInv, DigestInv, RowsOK, Rows, OneEach
  <1>2. AccountsTypeOK
    BY <1>1 DEF MailInv, SchedulerInv, DigestInv, RowsOK, OneEach, AccountsTypeOK
  <1>3. \A p \in Periods : sinceRun[p] \in 0..Every[p]
    BY Calendar DEF MailInv, SchedulerInv, DigestInv, RunsOK, CalendarOK
  <1>4. boots \in 0..MaxRestarts
    BY DigestAssumption DEF MailInv, SchedulerInv, DigestInv, RunsOK, CalendarOK
  <1>5. loop \in BOOLEAN /\ wg \in Nat
    BY RunningFinite DEF MailInv, SchedulerInv, RunsCounted
  <1> QED  BY <1>2, <1>3, <1>4, <1>5
           DEF MailInv, SchedulerInv, DigestInv, RunsOK, CalendarOK, DigestTypeOK

-----------------------------------------------------------------------------
(* All of them side by side.                                               *)

ServicesInv ==
    /\ subject \in Subjects /\ faults \in 0..MaxFaults
    /\ LimiterInv /\ ApiInv /\ MapInv /\ MailInv
    /\ TrendingInv /\ BreakerInv /\ DegradationInv

LEMMA ServicesStart == ServicesInit => ServicesInv
  <1> SUFFICES ASSUME ServicesInit PROVE ServicesInv
    OBVIOUS
  <1>1. faults \in 0..MaxFaults
    BY FaultsAssumption DEF ServicesInit
  <1> QED  BY <1>1, LimiterStarts, ApiStarts, MapStarts, MailStarts, TrendingStarts, BreakerStarts,
              DegradationStarts DEF ServicesInit, ServicesInv

\* One call fails at a time, and no more than MaxFaults in all.
LEMMA FaultsKept == ASSUME faults \in 0..MaxFaults, Works \/ Fails PROVE faults' \in 0..MaxFaults
  BY FaultsAssumption DEF Works, Fails

LEMMA LimiterFaults == LimiterNext => Works \/ Fails
  BY DEF LimiterNext, Arrives, Counts, Adds, Departs, WindowSlides, Works

LEMMA ApiFaults == ApiNext => Works \/ Fails
  BY DEF ApiNext, RequestComes, RequestRefused, LooksInCache, Reads, Stores, RequestLeaves,
         RequestEnds, CacheCleaned, TimePasses, Works

LEMMA MapFaults == GeoNext => Works \/ Fails
  BY DEF GeoNext, LookupStarts, LookupCut, CacheAsked, ArticleAsked, WikidataAsked, EnglishAsked,
         ResultCached, MapTicks, CallDone, CallLost, Works

LEMMA AccountFaults == AccountsNext => Works \/ Fails
  BY DEF AccountsNext, RegisterComes, AddressChecked, AccountCreated, AccountVerified, FrequencySet,
         AccountDeleted, StatementWorks, StatementFails, Works

LEMMA MailFaults == DigestNext => Works \/ Fails
  <1> SUFFICES ASSUME DigestNext PROVE Works \/ Fails
    OBVIOUS
  <1>1. CASE RequestServed
    BY <1>1, AccountFaults DEF RequestServed
  <1>2. CASE ~ RequestServed
    BY <1>2 DEF DigestNext, RunStarts, LoopEnds, UsersListed, RunEnds, UserTaken, MailSent, SendingMarked,
       ShutdownBegins, SchedulerStops, StoresClose, ProcessEnds, ProcessStarts, MinutePasses,
       StatementWorks, StatementFails, Works
  <1> QED  BY <1>1, <1>2

LEMMA TrendingFaults == TrendingNext => Works \/ Fails
  BY DEF TrendingNext, ScoreRead, ScoreWritten, ServerLinked, EditRecorded, PageEditRecorded,
         AggregatorRestarts, PruneCounts, PruneCaps, PruneJudges, PruneDeletes, PruneUnranks,
         PruneEnds, HalfLifePasses, Works

\* A component that rests keeps its invariant, whatever fails elsewhere.
LEMMA LimiterRests == LimiterInv /\ UNCHANGED limiterVars => LimiterInv'
  BY DEF limiterVars, LimiterInv, LimiterTypeOK, CountedInv, OvershootBounded, Adding

LEMMA ApiRests == ApiInv /\ UNCHANGED apiVars => ApiInv'
  BY DEF apiVars, ApiInv, FreshInv, AnswersOK, ServedFresh, ReadingOK, CacheFits, Entries

LEMMA MapRests == MapInv /\ UNCHANGED geoVars => MapInv'
  BY DEF geoVars, MapInv, PlaceInv, LookupsOK, StagesKnow, CachedSinceFailure, PlaceBounds, Failing,
         Silent, Asked

LEMMA MailRests == MailInv /\ UNCHANGED <<accountVars, digestVars>> => MailInv'
  <1> SUFFICES ASSUME MailInv, UNCHANGED <<accountVars, digestVars>> PROVE MailInv'
    OBVIOUS
  <1> USE DEF accountVars, digestVars, schedulerVars, MailInv, SchedulerInv, DigestInv
  <1>1. RowsOK'
    BY DEF RowsOK
  <1>2. RunsOK' /\ RunsTidy' /\ MailsCovered'
    BY DEF RunsOK, RunsTidy, MailsCovered, Pending, Hand
  <1>3. OneEach' /\ CalendarOK'
    BY DEF OneEach, CalendarOK
  <1>4. RunsCounted'
    BY DEF RunsCounted, Running
  <1> QED  BY <1>1, <1>2, <1>3, <1>4

LEMMA TrendingRests == TrendingInv /\ UNCHANGED trendingVars => TrendingInv'
  <1> SUFFICES ASSUME TrendingInv, UNCHANGED trendingVars PROVE TrendingInv'
    OBVIOUS
  <1> USE DEF trendingVars, scoreVars, statVars, TrendingInv
  <1>1. ScoreInv'
    BY ScoresRest DEF ScoreInv, ScoresOK, WritesWithinEdits
  <1>2. CountedOnce'
    BY DEF CountedOnce, Uncounted, About
  <1>3. PlacesOK'
    BY DEF PlacesOK
  <1> QED  BY <1>1, <1>2, <1>3

LEMMA ServicesStep == ServicesInv /\ [ServicesNext]_servicesVars => ServicesInv'
  <1> SUFFICES ASSUME ServicesInv, [ServicesNext]_servicesVars PROVE ServicesInv'
    OBVIOUS
  <1> USE DEF ServicesInv
  <1>1. UNCHANGED limiterVars => LimiterInv'
    BY LimiterRests
  <1>2. UNCHANGED apiVars => ApiInv'
    BY ApiRests
  <1>3. UNCHANGED geoVars => MapInv'
    BY MapRests
  <1>4. UNCHANGED <<accountVars, digestVars>> => MailInv'
    BY MailRests
  <1>5. UNCHANGED trendingVars => TrendingInv'
    BY TrendingRests
  <1>6. UNCHANGED breakerVars => BreakerInv'
    BY BreakerSteady
  <1>7. UNCHANGED degradationVars => DegradationInv'
    BY DegradationStep
  <1>8. (Works \/ Fails) => faults' \in 0..MaxFaults
    BY FaultsKept
  <1>9. CASE LimiterSteps
    BY <1>2, <1>3, <1>4, <1>5, <1>6, <1>7, <1>8, <1>9, LimiterStep, LimiterFaults DEF LimiterSteps
  <1>10. CASE ApiSteps
    BY <1>1, <1>3, <1>4, <1>5, <1>6, <1>7, <1>8, <1>10, ApiSteady, ApiFaults DEF ApiSteps
  <1>11. CASE GeoSteps
    BY <1>1, <1>2, <1>4, <1>5, <1>6, <1>7, <1>8, <1>11, MapSteady, MapFaults DEF GeoSteps
  <1>12. CASE DigestSteps
    BY <1>1, <1>2, <1>3, <1>5, <1>6, <1>7, <1>8, <1>12, MailSteady, MailFaults DEF DigestSteps
  <1>13. CASE TrendingSteps
    BY <1>1, <1>2, <1>3, <1>4, <1>6, <1>7, <1>8, <1>13, TrendingSteady, TrendingFaults DEF TrendingSteps
  <1>14. CASE BreakerSteps
    BY <1>1, <1>2, <1>3, <1>4, <1>5, <1>7, <1>14, BreakerSteady DEF BreakerSteps
  <1>15. CASE DegradationSteps
    BY <1>1, <1>2, <1>3, <1>4, <1>5, <1>6, <1>15, DegradationStep DEF DegradationSteps
  <1>16. CASE UNCHANGED servicesVars
    BY <1>1, <1>2, <1>3, <1>4, <1>5, <1>6, <1>7, <1>16 DEF servicesVars
  <1> QED  BY <1>9, <1>10, <1>11, <1>12, <1>13, <1>14, <1>15, <1>16 DEF ServicesNext

\* Every variable of the services keeps its type, which bounds what is held:
\* the entries of the response cache, the calls a request makes, the days of
\* the calendar, the edits the statistics count, the attempts of an operation.
THEOREM ServicesTyped == ServicesSpec => []ServicesTypeOK
  <1>1. ServicesInv => ServicesTypeOK
    BY ApiTypes, MapTypes, MailTypes, TrendingTypes
    DEF ServicesInv, LimiterInv, BreakerInv, DegradationInv, ServicesTypeOK
  <1> QED  BY <1>1, ServicesStart, ServicesStep, PTL DEF ServicesSpec

\* What each component promises on its own it keeps beside the others.
THEOREM ServicesSafe ==
    ServicesSpec => [](/\ OvershootBounded /\ ServedFresh /\ LocationRecovers
                       /\ OneMailPerRun /\ RunsEndBeforeStores /\ ScoreWithinEdits
                       /\ ClosedWhileFewFailures /\ NothingOutlastsItsCause)
  <1>1. LimiterInv /\ ApiInv => OvershootBounded /\ ServedFresh
    BY DEF LimiterInv, ApiInv, FreshInv
  <1>2. MapInv /\ MailInv => LocationRecovers /\ OneMailPerRun /\ RunsEndBeforeStores
    BY PlacesShown, MailsBounded, RunsOver DEF MapInv, MailInv, SchedulerInv
  <1>3. TrendingInv /\ BreakerInv /\ DegradationInv =>
           ScoreWithinEdits /\ ClosedWhileFewFailures /\ NothingOutlastsItsCause
    BY DEF TrendingInv, ScoreInv, BreakerInv, DegradationInv, CauseInv
  <1>4. ServicesInv =>
           /\ OvershootBounded /\ ServedFresh /\ LocationRecovers
           /\ OneMailPerRun /\ RunsEndBeforeStores /\ ScoreWithinEdits
           /\ ClosedWhileFewFailures /\ NothingOutlastsItsCause
    BY <1>1, <1>2, <1>3 DEF ServicesInv
  <1> QED  BY <1>4, ServicesStart, ServicesStep, PTL DEF ServicesSpec

=============================================================================
