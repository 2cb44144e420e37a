--------------------------- MODULE CircuitBreaker ---------------------------
(***************************************************************************)
(* The circuit breaker of main.go: the two fields that bc.mu protects, the *)
(* two operations that change them, and the goroutine that probes the      *)
(* widget of the primary captcha provider.  Module Challenge runs it       *)
(* together with the request handlers, which record failures too.          *)
(***************************************************************************)
EXTENDS Integers

CONSTANTS
    HasFallback,  \* hasFallbackProvider: is the breaker configured?
    Threshold,    \* config.FailureThreshold
    MaxFailures   \* bound: the failure count is not followed above it

ASSUME BreakerAssumption ==
    /\ HasFallback \in BOOLEAN
    /\ Threshold \in Nat /\ MaxFailures \in Nat
    /\ HasFallback => Threshold > 0
    /\ MaxFailures >= Threshold

VARIABLES
    circuitState,  \* "closed": primary provider, "open": fallback
    failureCount,  \* healthCheckFailureCount
    probe,         \* the HEAD request of the loop: none, sent, good or bad
    loop,          \* healthCheckLoop: running or exited
    cancelled,     \* the context of the middleware instance is cancelled
    widgetUp       \* environment: would a probe be answered with 2xx to 4xx, but 404?

breakerVars == <<circuitState, failureCount>>
probeVars == <<probe, loop, cancelled, widgetUp>>

BreakerTypeOK ==
    /\ circuitState \in {"closed", "open"}
    /\ failureCount \in 0 .. MaxFailures
    /\ probe \in {"none", "sent", "good", "bad"}
    /\ loop \in {"running", "exited"}
    /\ cancelled \in BOOLEAN
    /\ widgetUp \in BOOLEAN

BreakerInit ==
    /\ circuitState = "closed"
    /\ failureCount = 0
    /\ probe = "none"
    /\ loop = IF HasFallback THEN "running" ELSE "exited"
    /\ cancelled = FALSE
    /\ widgetUp \in BOOLEAN

-----------------------------------------------------------------------------
\* Mutant: the failures are forgotten and the circuit stays as it is.
RecordSuccessStayingOpen ==
    /\ failureCount' = 0
    /\ UNCHANGED circuitState

\* recordHealthCheckSuccess.
RecordSuccess ==
    /\ failureCount' = 0
    /\ circuitState' = "closed"

\* Mutant: "exceeds the threshold", as the comment of the loop has it, where
\* the count stops at the threshold.
RecordFailureExceeding ==
    /\ failureCount' = IF failureCount < Threshold THEN failureCount + 1 ELSE failureCount
    /\ circuitState' = IF failureCount' > Threshold THEN "open" ELSE circuitState

\* recordHealthCheckFailure.
RecordFailure ==
    /\ failureCount' = IF failureCount < MaxFailures THEN failureCount + 1 ELSE failureCount
    /\ circuitState' = IF failureCount' >= Threshold THEN "open" ELSE circuitState

-----------------------------------------------------------------------------
\* The ticker of the loop fires.  After the cancellation select may still
\* prefer the ticker.
SendProbe ==
    /\ loop = "running"
    /\ probe = "none"
    /\ probe' = "sent"
    /\ UNCHANGED <<loop, cancelled, widgetUp, breakerVars>>

\* Mutant: a provider that cannot be reached at all is not a failure.
AnswerProbeOptimistic ==
    /\ probe = "sent"
    /\ probe' = "good"
    /\ UNCHANGED <<loop, cancelled, widgetUp, breakerVars>>

\* The HEAD request ends: with a status, or with an error because nobody
\* answers within ten seconds or because the context is cancelled.
AnswerProbe ==
    /\ probe = "sent"
    /\ probe' = IF widgetUp /\ ~cancelled THEN "good" ELSE "bad"
    /\ UNCHANGED <<loop, cancelled, widgetUp, breakerVars>>

\* The end of performHealthCheckContext.
RecordProbe ==
    /\ \/ probe = "good" /\ RecordSuccess
       \/ probe = "bad" /\ RecordFailure
    /\ probe' = "none"
    /\ UNCHANGED <<loop, cancelled, widgetUp>>

\* Traefik drops the instance, for instance to load a new configuration.
Cancel ==
    /\ ~cancelled
    /\ cancelled' = TRUE
    /\ UNCHANGED <<probe, loop, widgetUp, breakerVars>>

ExitLoop ==
    /\ loop = "running" /\ cancelled /\ probe = "none"
    /\ loop' = "exited"
    /\ UNCHANGED <<probe, cancelled, widgetUp, breakerVars>>

\* Environment: the asset that is probed goes down or comes back.
WidgetChanges ==
    /\ widgetUp' = ~widgetUp
    /\ UNCHANGED <<probe, loop, cancelled, breakerVars>>

BreakerNext ==
    \/ SendProbe \/ AnswerProbe \/ RecordProbe
    \/ Cancel \/ ExitLoop \/ WidgetChanges

\* The ticker fires for ever and the HTTP client has a timeout.
BreakerFairness ==
    WF_<<breakerVars, probeVars>>(SendProbe \/ AnswerProbe \/ RecordProbe)

-----------------------------------------------------------------------------
\* The circuit is open exactly when the failures recorded since the last good
\* probe have reached the threshold, whoever recorded them in which order.
CircuitMatchesCount ==
    HasFallback => (circuitState = "open" <=> failureCount >= Threshold)

\* A provider whose widget stays reachable gets its traffic back: the circuit
\* does not stay open.
CircuitRecovers ==
    <>[](widgetUp /\ ~cancelled) => []<>(~HasFallback \/ circuitState = "closed")

\* A provider whose widget stays unreachable is given up for good.
CircuitTrips ==
    <>[](~widgetUp /\ ~cancelled) => <>[](~HasFallback \/ circuitState = "open")
=============================================================================
