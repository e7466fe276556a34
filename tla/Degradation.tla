----------------------------- MODULE Degradation -----------------------------
(***************************************************************************)
(* The degradation manager (src/internal/resilience/degradation.go) with   *)
(* the feature flags and the limit on hot pages that it changes            *)
(* (src/internal/config/features.go), and the resource monitor that calls  *)
(* it (src/internal/monitoring/resource_monitor.go).  No command starts    *)
(* them; monitor and manager are wired here as the feature guide says.     *)
(* Each handler holds the manager's lock from beginning to end.            *)
(*                                                                         *)
(* The recorded actions and alerts, kept for display, are left out.        *)
(***************************************************************************)
EXTENDS Integers, FiniteSets

CONSTANTS Configured,    \* the features the configuration enables
          NormalLimit,   \* max_tracked of the hot pages
          ReducedLimit

Indexing == "elasticsearch_indexing"
TrendingTracking == "trending_tracking"
Managed == {Indexing, TrendingTracking}
Infrastructure == {"elasticsearch", "redis", "kafka"}

ASSUME DegradationAssumption ==
    /\ Configured \subseteq Managed
    /\ {NormalLimit, ReducedLimit} \subseteq Nat

VARIABLES
    health,     \* components: "unknown" before its first report
    level,      \* the degradation level
    enabled,    \* the flags that are set
    maxTracked, \* cfg.Redis.HotPages.MaxTracked
    monitor,    \* the monitor: "new", "running", "stopped"
    wasHigh,    \* the last lag monitorKafka saw was high; "first" before one
    troubled    \* history: components reported in trouble, and not recovered since

degradationVars == <<health, level, enabled, maxTracked, monitor, wasHigh, troubled>>

DegradationInit ==
    /\ health = [c \in Infrastructure |-> "unknown"]
    /\ level = "none"
    /\ enabled = Configured
    /\ maxTracked = NormalLimit
    /\ monitor = "new"
    /\ wasHigh = "first"
    /\ troubled = {}

-----------------------------------------------------------------------------
(* Handlers of the manager *)

Unhealthy(state) == {c \in Infrastructure : state[c] = "unhealthy"}

\* recalcLevel.
LevelOf(state) ==
    CASE Cardinality(Unhealthy(state)) = 0 -> "none"
      [] Cardinality(Unhealthy(state)) = 1 -> "partial"
      [] OTHER -> "severe"

Reported(component, state) ==
    /\ health' = [health EXCEPT ![component] = state]
    /\ level' = LevelOf(health')
    /\ troubled' = IF state = "healthy" THEN troubled \ {component} ELSE troubled \cup {component}

\* EnableFeature and DisableFeature; a feature may be so already.
EnableFeature(feature) == enabled' = enabled \cup {feature}
DisableFeature(feature) == enabled' = enabled \ {feature}

HandleElasticsearchUnavailable ==
    /\ Reported("elasticsearch", "unhealthy")
    /\ DisableFeature(Indexing)
    /\ UNCHANGED maxTracked

HandleElasticsearchRecovered ==
    /\ Reported("elasticsearch", "healthy")
    /\ EnableFeature(Indexing)
    /\ UNCHANGED maxTracked

HandleRedisMemoryLimit ==
    /\ Reported("redis", "unhealthy")
    /\ maxTracked' = ReducedLimit
    /\ UNCHANGED enabled

\* The second stage of memory pressure.  It may be reported without the first,
\* and leaves what is known of Redis as it was.
HandleRedisMemoryCritical ==
    /\ DisableFeature(TrendingTracking)
    /\ level' = LevelOf(health)
    /\ troubled' = troubled \cup {"redis"}
    /\ UNCHANGED <<health, maxTracked>>

\* Mutant: only the first stage is undone.
HandleRedisRecoveredPartly ==
    /\ Reported("redis", "healthy")
    /\ maxTracked' = NormalLimit
    /\ UNCHANGED enabled

HandleRedisRecovered ==
    /\ Reported("redis", "healthy")
    /\ maxTracked' = NormalLimit
    /\ EnableFeature(TrendingTracking)

HandleHighKafkaLag ==
    /\ Reported("kafka", "unhealthy")
    /\ DisableFeature(Indexing)
    /\ UNCHANGED maxTracked

\* Enables indexing also while Elasticsearch is down, as the recovery of
\* Elasticsearch does while the lag is high.
HandleKafkaLagRecovered ==
    /\ Reported("kafka", "healthy")
    /\ EnableFeature(Indexing)
    /\ UNCHANGED maxTracked

\* Called where a client of the component sees it fail or work again.
ComponentReported ==
    /\ \/ HandleElasticsearchUnavailable \/ HandleElasticsearchRecovered
       \/ HandleRedisMemoryLimit \/ HandleRedisMemoryCritical \/ HandleRedisRecovered
       \/ HandleHighKafkaLag \/ HandleKafkaLagRecovered
    /\ UNCHANGED <<monitor, wasHigh>>

-----------------------------------------------------------------------------
(* The resource monitor *)

MonitorStarts ==
    /\ monitor = "new"
    /\ monitor' = "running"
    /\ UNCHANGED <<health, level, enabled, maxTracked, wasHigh, troubled>>

\* checkRedis and checkES: above the threshold the callback runs, on every
\* check; nothing tells that the value has fallen again.
MemoryHigh ==
    /\ monitor = "running"
    /\ HandleRedisMemoryLimit
    /\ UNCHANGED <<monitor, wasHigh>>

DiskHigh ==
    /\ monitor = "running"
    /\ HandleElasticsearchUnavailable
    /\ UNCHANGED <<monitor, wasHigh>>

\* monitorKafka: the first check, whose result is not used.
FirstLagChecked ==
    /\ monitor = "running"
    /\ wasHigh = "first"
    /\ wasHigh' = "no"
    /\ UNCHANGED <<health, level, enabled, maxTracked, monitor, troubled>>

LagRose ==
    /\ monitor = "running"
    /\ wasHigh = "no"
    /\ wasHigh' = "yes"
    /\ HandleHighKafkaLag
    /\ UNCHANGED monitor

\* The lag has fallen, or could not be read, which gives 0.
LagFell ==
    /\ monitor = "running"
    /\ wasHigh = "yes"
    /\ wasHigh' = "no"
    /\ HandleKafkaLagRecovered
    /\ UNCHANGED monitor

\* Stop waits for a check that runs.
MonitorStops ==
    /\ monitor = "running"
    /\ monitor' = "stopped"
    /\ UNCHANGED <<health, level, enabled, maxTracked, wasHigh, troubled>>

DegradationNext ==
    \/ ComponentReported
    \/ MonitorStarts \/ MonitorStops
    \/ MemoryHigh \/ DiskHigh \/ FirstLagChecked \/ LagRose \/ LagFell

DegradationSpec == DegradationInit /\ [][DegradationNext]_degradationVars

-----------------------------------------------------------------------------

DegradationTypeOK ==
    /\ health \in [Infrastructure -> {"unknown", "healthy", "unhealthy"}]
    /\ level \in {"none", "partial", "severe"}
    /\ enabled \subseteq Managed
    /\ maxTracked \in {NormalLimit, ReducedLimit}
    /\ monitor \in {"new", "running", "stopped"}
    /\ wasHigh \in {"first", "no", "yes"}
    /\ troubled \subseteq Infrastructure

\* However reports of several components overlap, what is switched off or
\* reduced has a cause that was reported and has not been reported to be over;
\* the level is none while nobody is unhealthy.  Once every component in
\* trouble has recovered, what the configuration enables is on and the limit on
\* hot pages is the normal one.
NothingOutlastsItsCause ==
    /\ Indexing \in Configured \ enabled => {"elasticsearch", "kafka"} \cap troubled # {}
    /\ TrendingTracking \in Configured \ enabled => "redis" \in troubled
    /\ maxTracked # NormalLimit => "redis" \in troubled
    /\ troubled = {} => level = "none"

=============================================================================
