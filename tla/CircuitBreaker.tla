--------------------------- MODULE CircuitBreaker ---------------------------
(***************************************************************************)
(* The circuit breaker of sonnet-rpc-v2 (internal/breaker/breaker.go).     *)
(*                                                                         *)
(* Every method runs under one mutex, so each is one action; this module   *)
(* lets its callers invoke them in any order.  RpcInvoke composes it with  *)
(* the client's InvokeAsync, which decides who calls what and when.        *)
(* Time is counted in ticks since lastStateChange and saturates one tick   *)
(* past openTimeout, beyond which the code cannot tell values apart.       *)
(***************************************************************************)
EXTENDS Naturals

CONSTANTS
  WindowSize,                     \* windowSize: results in a window
  ThresholdNum, ThresholdDen,     \* failureThreshold as a fraction
  OpenTimeout,                    \* openTimeout in ticks
  MaxSuccesses                    \* bound on successCount, which nothing else limits

ASSUME BreakerAssumption ==
  /\ WindowSize \in Nat \ {0}
  /\ ThresholdNum \in Nat /\ ThresholdDen \in Nat \ {0} /\ ThresholdNum <= ThresholdDen
  /\ OpenTimeout \in Nat /\ MaxSuccesses \in Nat

VARIABLES
  state, failureCount, successCount, halfOpenProbe,
  age,      \* time.Since(lastStateChange)
  streak,   \* history: failures recorded since the last success or state change
  probes    \* history: requests admitted since the breaker became half-open

breakerVars == <<state, failureCount, successCount, halfOpenProbe, age, streak, probes>>

\* NewCircuitBreaker
BreakerInit ==
  /\ state = "Closed" /\ failureCount = 0 /\ successCount = 0
  /\ halfOpenProbe = FALSE /\ age = 0 /\ streak = 0 /\ probes = 0

\* Allow returns true.
Admit ==
  /\ \/ state = "Closed" /\ UNCHANGED <<state, halfOpenProbe, probes>>
     \/ /\ state = "Open" /\ age > OpenTimeout
        /\ state' = "HalfOpen" /\ halfOpenProbe' = FALSE /\ probes' = 1
     \/ /\ state = "HalfOpen" /\ ~halfOpenProbe
        /\ halfOpenProbe' = TRUE /\ probes' = probes + 1 /\ UNCHANGED state
  /\ UNCHANGED <<failureCount, successCount, age, streak>>

\* toOpen and toClosed differ in the state only.
EnterState(s) ==
  /\ state' = s /\ age' = 0 /\ failureCount' = 0 /\ successCount' = 0
  /\ halfOpenProbe' = FALSE /\ streak' = 0 /\ probes' = 0

RecordSuccess ==
  \/ /\ state = "Closed" /\ successCount < MaxSuccesses
     /\ successCount' = successCount + 1 /\ streak' = 0
     /\ UNCHANGED <<state, failureCount, halfOpenProbe, age, probes>>
  \/ state = "HalfOpen" /\ EnterState("Closed")
  \/ state = "Open" /\ UNCHANGED breakerVars

\* Faulty variant: the comparison is the wrong way round.
TooFewFailures(failures, total) == failures * ThresholdDen <= ThresholdNum * total

\* rate >= failureThreshold, without the division.
TooManyFailures(failures, total) == failures * ThresholdDen >= ThresholdNum * total

\* Faulty variant: failures count in the closed state only.
RecordFailureClosedOnly ==
  \/ /\ state = "Closed" /\ failureCount + 1 + successCount < WindowSize
     /\ failureCount' = failureCount + 1 /\ streak' = streak + 1
     /\ UNCHANGED <<state, successCount, halfOpenProbe, age, probes>>
  \/ state = "Closed" /\ failureCount + 1 + successCount >= WindowSize /\ EnterState("Open")
  \/ state # "Closed" /\ UNCHANGED breakerVars

RecordFailure ==
  \/ /\ state = "Closed"
     /\ LET failures == failureCount + 1
            total    == failures + successCount
        IN  \/ /\ total < WindowSize
               /\ failureCount' = failures /\ streak' = streak + 1
               /\ UNCHANGED <<state, successCount, halfOpenProbe, age, probes>>
            \/ /\ total >= WindowSize /\ TooManyFailures(failures, total)
               /\ EnterState("Open")
            \/ /\ total >= WindowSize /\ ~TooManyFailures(failures, total)
               /\ failureCount' = 0 /\ successCount' = 0 /\ streak' = streak + 1
               /\ UNCHANGED <<state, halfOpenProbe, age, probes>>
  \/ state = "HalfOpen" /\ EnterState("Open")
  \/ state = "Open" /\ UNCHANGED breakerVars

Tick ==
  /\ age <= OpenTimeout /\ age' = age + 1
  /\ UNCHANGED <<state, failureCount, successCount, halfOpenProbe, streak, probes>>

BreakerNext == Admit \/ RecordSuccess \/ RecordFailure \/ Tick

BreakerSpec == BreakerInit /\ [][BreakerNext]_breakerVars

-----------------------------------------------------------------------------
BreakerTypeOK ==
  /\ state \in {"Closed", "Open", "HalfOpen"}
  /\ failureCount \in Nat /\ successCount \in Nat /\ halfOpenProbe \in BOOLEAN
  /\ age \in 0 .. OpenTimeout + 1 /\ streak \in Nat /\ probes \in Nat

\* However results are interleaved, a service that only fails is cut off: a
\* closed breaker has never recorded two windows' worth of failures in a row.
\* (RecordSuccess never evaluates the window and a failure may find it already
\* overfull with successes, so one window's worth would be too strong.)
OpensInTime == state = "Closed" => streak < 2 * WindowSize

\* A half-open breaker lets one or two requests through, never more, and the
\* flag halfOpenProbe says which: the request that turns Open into HalfOpen is
\* not counted by it.  The comment at breaker.go:64 promises one: see OneProbe in
\* RpcInvoke.
AtMostTwoProbes ==
  /\ state = "HalfOpen" => (halfOpenProbe /\ probes = 2) \/ (~halfOpenProbe /\ probes = 1)
  /\ state # "HalfOpen" => ~halfOpenProbe

\* Why OpensInTime is inductive: a window that holds a success is younger than
\* the streak's start or contains it; after a reset within a streak the window
\* holds failures only, and those cannot be reset again.
Window ==
  state = "Closed" =>
    /\ failureCount < WindowSize
    /\ successCount > 0 /\ streak > 0 => failureCount + successCount < WindowSize
    /\ successCount > 0 => streak <= failureCount
    /\ successCount = 0 => streak <= failureCount + WindowSize

\* The inductive invariant of the breaker.
BreakerInv == BreakerTypeOK /\ AtMostTwoProbes /\ Window
=============================================================================
