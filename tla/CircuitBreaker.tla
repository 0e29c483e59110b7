--------------------------- MODULE CircuitBreaker ----------------------------
(***************************************************************************)
(* The circuit breaker of an LLM provider (llm/circuit-breaker.ts), with   *)
(* callers whose requests are answered in any order, also after the        *)
(* breaker has changed its state. No module of the backend uses it yet.    *)
(***************************************************************************)
EXTENDS Naturals

CONSTANTS
    Callers,
    Threshold, Cooldown, Window,    \* 5, 30 s and 60 s in the code
    MaxClock, MaxFailures           \* bounds

ASSUME BreakerAssumption ==
    /\ Threshold \in Nat \ {0} /\ Cooldown \in Nat /\ Window \in Nat
    /\ MaxClock \in Nat /\ MaxFailures \in Nat

VARIABLES
    clock,
    circuit,            \* CLOSED, OPEN or HALF_OPEN
    failureCount,
    lastFailureTime, openTime,
    flying,             \* callers whose request was let through and not answered
    failures,
    \* an observation:
    streak              \* failures reported since the last success or reset

breakerVars == <<clock, circuit, failureCount, lastFailureTime, openTime, flying, failures, streak>>

BreakerTypeOK ==
    /\ clock \in 0..MaxClock
    /\ circuit \in {"CLOSED", "OPEN", "HALF_OPEN"}
    /\ failureCount \in 0..MaxFailures /\ streak \in 0..MaxFailures
    /\ failures \in 0..MaxFailures
    /\ lastFailureTime \in 0..MaxClock /\ openTime \in 0..MaxClock
    /\ flying \subseteq Callers

BreakerInit ==
    /\ clock = 0 /\ circuit = "CLOSED"
    /\ failureCount = 0 /\ lastFailureTime = 0 /\ openTime = 0
    /\ flying = {} /\ failures = 0 /\ streak = 0

BreakerTick ==
    /\ clock < MaxClock
    /\ clock' = clock + 1
    /\ UNCHANGED <<circuit, failureCount, lastFailureTime, openTime, flying, failures, streak>>

Cooled == clock - openTime >= Cooldown

\* allowRequest: a quiet window forgets the failures; an open circuit lets a
\* request through once it has cooled, a half-open one every request.
AllowRequest(c) ==
    /\ c \notin flying
    /\ failureCount' = IF clock - lastFailureTime > Window THEN 0 ELSE failureCount
    /\ circuit' = IF circuit = "OPEN" /\ Cooled THEN "HALF_OPEN" ELSE circuit
    /\ flying' = IF circuit = "OPEN" /\ ~Cooled THEN flying ELSE flying \cup {c}
    /\ UNCHANGED <<clock, lastFailureTime, openTime, failures, streak>>

RecordSuccess(c) ==
    /\ c \in flying
    /\ flying' = flying \ {c}
    /\ circuit' = IF circuit = "HALF_OPEN" THEN "CLOSED" ELSE circuit
    /\ failureCount' = IF circuit = "OPEN" THEN failureCount ELSE 0
    /\ streak' = 0
    /\ UNCHANGED <<clock, lastFailureTime, openTime, failures>>

\* recordFailure compares the window with the time it has just stored: the
\* count is never reset here.
RecordFailure(c) ==
    /\ c \in flying /\ failures < MaxFailures
    /\ flying' = flying \ {c}
    /\ failures' = failures + 1 /\ streak' = streak + 1
    /\ failureCount' = failureCount + 1
    /\ lastFailureTime' = clock
    /\ LET opens == \/ circuit = "HALF_OPEN"
                    \/ circuit = "CLOSED" /\ failureCount + 1 >= Threshold
       IN /\ circuit' = IF opens THEN "OPEN" ELSE circuit
          /\ openTime' = IF opens THEN clock ELSE openTime
    /\ UNCHANGED clock

ForceReset ==
    /\ circuit' = "CLOSED"
    /\ failureCount' = 0 /\ lastFailureTime' = 0 /\ openTime' = 0
    /\ streak' = 0
    /\ UNCHANGED <<clock, flying, failures>>

BreakerNext ==
    \/ BreakerTick \/ ForceReset
    \/ \E c \in Callers : AllowRequest(c) \/ RecordSuccess(c) \/ RecordFailure(c)

BreakerSpec == BreakerInit /\ [][BreakerNext]_breakerVars

-----------------------------------------------------------------------------
\* "Consecutive failures before opening the circuit": answers that come late,
\* in any state of the breaker, never make it open on fewer than Threshold
\* failures with no success among them.
OpensOnStreak == [][circuit = "CLOSED" /\ circuit' = "OPEN" => streak' >= Threshold]_breakerVars
=============================================================================
