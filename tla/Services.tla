------------------------------- MODULE Services -------------------------------
(***************************************************************************)
(* The components around the pipelines, side by side: the API's rate       *)
(* limiter, its requests and caches, the places on the map, the accounts   *)
(* and the digest, the trending scores, and the circuit breaker and        *)
(* degradation manager.  They share no state that their modules model,     *)
(* only the failures of what they call.  A behaviour is one of one of      *)
(* them, the others rest: their interleavings would show nothing that each *)
(* alone does not.                                                         *)
(***************************************************************************)
EXTENDS RateLimiter, ApiRequests, GeoLookup, Digest, Trending, CircuitBreaker, Degradation

VARIABLE subject   \* the component a behaviour is about

Subjects == {"limiter", "requests", "map", "digest", "trending", "breaker", "degradation"}

ServicesInit ==
    /\ subject \in Subjects
    /\ faults = MaxFaults
    /\ LimiterInit /\ ApiInit /\ GeoInit /\ DigestInit
    /\ TrendingInit /\ BreakerInit /\ DegradationInit

LimiterSteps ==
    /\ subject = "limiter" /\ LimiterNext
    /\ UNCHANGED <<subject, apiVars, geoVars, accountVars, digestVars, trendingVars, breakerVars,
                   degradationVars>>

ApiSteps ==
    /\ subject = "requests" /\ ApiNext
    /\ UNCHANGED <<subject, limiterVars, geoVars, accountVars, digestVars, trendingVars, breakerVars,
                   degradationVars>>

GeoSteps ==
    /\ subject = "map" /\ GeoNext
    /\ UNCHANGED <<subject, limiterVars, apiVars, accountVars, digestVars, trendingVars, breakerVars,
                   degradationVars>>

DigestSteps ==
    /\ subject = "digest" /\ DigestNext
    /\ UNCHANGED <<subject, limiterVars, apiVars, geoVars, trendingVars, breakerVars, degradationVars>>

TrendingSteps ==
    /\ subject = "trending" /\ TrendingNext
    /\ UNCHANGED <<subject, limiterVars, apiVars, geoVars, accountVars, digestVars, breakerVars,
                   degradationVars>>

BreakerSteps ==
    /\ subject = "breaker" /\ BreakerNext
    /\ UNCHANGED <<subject, faults, limiterVars, apiVars, geoVars, accountVars, digestVars,
                   trendingVars, degradationVars>>

DegradationSteps ==
    /\ subject = "degradation" /\ DegradationNext
    /\ UNCHANGED <<subject, faults, limiterVars, apiVars, geoVars, accountVars, digestVars,
                   trendingVars, breakerVars>>

ServicesNext ==
    \/ LimiterSteps \/ ApiSteps \/ GeoSteps \/ DigestSteps
    \/ TrendingSteps \/ BreakerSteps \/ DegradationSteps

servicesVars == <<subject, faults, limiterVars, apiVars, geoVars, accountVars, digestVars,
                  trendingVars, breakerVars, degradationVars>>

ServicesSpec == ServicesInit /\ [][ServicesNext]_servicesVars

-----------------------------------------------------------------------------

\* Each component's variables have their types, whatever its callers do.
ServicesTypeOK ==
    /\ subject \in Subjects
    /\ faults \in 0..MaxFaults
    /\ LimiterTypeOK /\ ApiTypeOK /\ GeoTypeOK /\ DigestTypeOK
    /\ TrendingTypeOK /\ BreakerTypeOK /\ DegradationTypeOK

=============================================================================
