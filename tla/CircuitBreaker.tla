---------------------------- MODULE CircuitBreaker ----------------------------
(***************************************************************************)
(* A circuit breaker (src/internal/resilience/circuit_breaker.go) and the  *)
(* goroutines that call through it with RetryWithBackoff                   *)
(* (src/internal/resilience/retry.go).  No command uses the two yet; they  *)
(* are composed here the way their comments describe them.                 *)
(*                                                                         *)
(* The breaker's lock is free while a call runs, so that its outcome is    *)
(* recorded in whatever state the breaker is by then.                      *)
(***************************************************************************)
EXTENDS Integers

CONSTANTS Operations,        \* goroutines that call through the breaker
          FailureThreshold,  \* 5
          HalfOpenMaxCalls,  \* 1
          MaxAttempts,       \* 3
          MaxFailures        \* bound on the failures counted

ASSUME BreakerAssumption ==
    /\ {FailureThreshold, HalfOpenMaxCalls, MaxAttempts} \subseteq Nat \ {0}
    /\ MaxFailures \in Nat

VARIABLES
    breaker,    \* state
    failures,   \* failureCount
    successes,  \* successCount
    timedOut,   \* resetTimeout has passed since lastFailureTime
    call,       \* where each operation is
    attempt     \* which attempt it is at

breakerVars == <<breaker, failures, successes, timedOut, call, attempt>>

BreakerInit ==
    /\ breaker = "closed"
    /\ failures = 0
    /\ successes = 0
    /\ timedOut = TRUE
    /\ call = [o \in Operations |-> "idle"]
    /\ attempt = [o \in Operations |-> 0]

-----------------------------------------------------------------------------
(* RetryWithBackoff *)

CallGoes(o, next) == call' = [call EXCEPT ![o] = next]

\* An attempt is over; the loop ends after a success, an error that says so,
\* or the last attempt, and waits before the next one.
AttemptEnds(o, outcome) ==
    IF outcome = "retry" /\ attempt[o] < MaxAttempts
    THEN CallGoes(o, "waiting") /\ UNCHANGED attempt
    ELSE CallGoes(o, "idle") /\ attempt' = [attempt EXCEPT ![o] = 0]

OperationStarts(o) ==
    /\ call[o] = "idle"
    /\ attempt' = [attempt EXCEPT ![o] = 1]
    /\ CallGoes(o, "calling")
    /\ UNCHANGED <<breaker, failures, successes, timedOut>>

\* The delay has passed.
Retried(o) ==
    /\ call[o] = "waiting"
    /\ attempt' = [attempt EXCEPT ![o] = @ + 1]
    /\ CallGoes(o, "calling")
    /\ UNCHANGED <<breaker, failures, successes, timedOut>>

\* The operation's context is cancelled before an attempt or in the delay.
OperationCancelled(o) ==
    /\ call[o] \in {"waiting", "calling"}
    /\ CallGoes(o, "idle")
    /\ attempt' = [attempt EXCEPT ![o] = 0]
    /\ UNCHANGED <<breaker, failures, successes, timedOut>>

-----------------------------------------------------------------------------
(* Call *)

\* After resetTimeout a call finds the breaker open and makes it half-open.
Reopens == breaker = "open" /\ timedOut

Rejects ==
    \/ breaker = "open" /\ ~ timedOut
    \/ breaker = "half-open" /\ successes >= HalfOpenMaxCalls

\* ErrCircuitOpen, which IsRetryable takes for an error worth a retry.
CallRejected(o) ==
    /\ call[o] = "calling"
    /\ Rejects
    /\ AttemptEnds(o, "retry")
    /\ UNCHANGED <<breaker, failures, successes, timedOut>>

CallAdmitted(o) ==
    /\ call[o] = "calling"
    /\ ~ Rejects
    /\ breaker' = IF Reopens THEN "half-open" ELSE breaker
    /\ successes' = IF Reopens THEN 0 ELSE successes
    /\ CallGoes(o, "running")
    /\ UNCHANGED <<failures, timedOut, attempt>>

\* recordFailure.
CallFails(o) ==
    /\ call[o] = "running"
    /\ failures < MaxFailures
    /\ failures' = failures + 1
    /\ timedOut' = FALSE
    /\ breaker' = IF failures' >= FailureThreshold THEN "open" ELSE breaker
    /\ \E outcome \in {"retry", "give up"} : AttemptEnds(o, outcome)
    /\ UNCHANGED successes

\* Mutant: closing leaves the count of failures.
ClosedUncleared(isLast) ==
    /\ breaker' = IF isLast THEN "closed" ELSE breaker
    /\ successes' = IF isLast THEN 0 ELSE successes + 1
    /\ UNCHANGED failures

\* A success in half-open; the one that makes HalfOpenMaxCalls closes it.
Probed(isLast) ==
    /\ breaker' = IF isLast THEN "closed" ELSE breaker
    /\ successes' = IF isLast THEN 0 ELSE successes + 1
    /\ failures' = IF isLast THEN 0 ELSE failures

\* recordSuccess: late, of a call that began while the breaker was closed, it
\* counts as a probe; when it is open it counts for nothing.
CallSucceeds(o) ==
    /\ call[o] = "running"
    /\ \/ breaker = "half-open" /\ Probed(successes + 1 >= HalfOpenMaxCalls)
       \/ breaker = "closed" /\ failures' = 0 /\ UNCHANGED <<breaker, successes>>
       \/ breaker = "open" /\ UNCHANGED <<breaker, failures, successes>>
    /\ AttemptEnds(o, "ok")
    /\ UNCHANGED timedOut

-----------------------------------------------------------------------------

\* GetState, also from Snapshot: reading makes an open breaker half-open, and
\* leaves the successes it had counted.
StateRead ==
    /\ Reopens
    /\ breaker' = "half-open"
    /\ UNCHANGED <<failures, successes, timedOut, call, attempt>>

\* Reset, also from ResetAll.
BreakerReset ==
    /\ breaker' = "closed"
    /\ failures' = 0
    /\ successes' = 0
    /\ UNCHANGED <<timedOut, call, attempt>>

\* resetTimeout passes.
ResetTimeoutPasses ==
    /\ ~ timedOut
    /\ timedOut' = TRUE
    /\ UNCHANGED <<breaker, failures, successes, call, attempt>>

BreakerNext ==
    \/ \E o \in Operations :
          \/ OperationStarts(o) \/ Retried(o) \/ OperationCancelled(o)
          \/ CallRejected(o) \/ CallAdmitted(o) \/ CallFails(o) \/ CallSucceeds(o)
    \/ StateRead \/ BreakerReset \/ ResetTimeoutPasses

BreakerSpec == BreakerInit /\ [][BreakerNext]_breakerVars

-----------------------------------------------------------------------------

BreakerTypeOK ==
    /\ breaker \in {"closed", "open", "half-open"}
    /\ failures \in Nat
    /\ successes \in Nat
    /\ timedOut \in BOOLEAN
    /\ call \in [Operations -> {"idle", "calling", "running", "waiting"}]
    /\ attempt \in [Operations -> 0..MaxAttempts]

\* Whenever outcomes are recorded, calls that began in another state of the
\* breaker included, it is closed exactly while fewer than FailureThreshold
\* failures are counted: no failure of a probe leaves it half-open, and having
\* closed it tolerates as many failures as at first.  And since successes
\* never reach HalfOpenMaxCalls, half-open does not limit the calls that run.
ClosedWhileFewFailures ==
    /\ (breaker = "closed") <=> (failures < FailureThreshold)
    /\ successes < HalfOpenMaxCalls

=============================================================================
