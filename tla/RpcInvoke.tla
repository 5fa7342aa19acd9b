----------------------------- MODULE RpcInvoke -----------------------------
(***************************************************************************)
(* InvokeAsync of sonnet-rpc-v2 (internal/client/client.go) against the    *)
(* breaker of one service address: goroutines are admitted by Allow, send  *)
(* their request, register the completion callback after the request is    *)
(* out, and report the result to whatever state the breaker is in by then. *)
(* The limiter and the registry act before Allow and leave no trace here.  *)
(***************************************************************************)
EXTENDS CircuitBreaker, FiniteSets

CONSTANT Requests    \* concurrent invocations of the same service address

VARIABLES
  phase,       \* where each invocation is
  probing,     \* history: those admitted since the breaker became half-open
  lost         \* history: one of them has ended without a report

invokeVars == <<breakerVars, phase, probing, lost>>

InvokeInit == BreakerInit /\ phase = [r \in Requests |-> "idle"] /\ probing = {} /\ lost = FALSE

Move(r, from, to) == phase[r] = from /\ phase' = [phase EXCEPT ![r] = to]

\* br.Allow() returns true; when it returns false InvokeAsync returns at once.
InvokeAllow(r) ==
  /\ Move(r, "idle", "admitted")
  /\ Admit
  /\ probing' = IF state' = "HalfOpen" THEN probing \cup {r} ELSE probing
  /\ UNCHANGED lost

\* pool.Acquire or codec.Marshal fails: the error is returned, nothing recorded.
InvokeGiveUp(r) ==
  /\ Move(r, "admitted", "idle")
  /\ probing' = probing \ {r} /\ lost' = (lost \/ r \in probing)
  /\ UNCHANGED breakerVars

\* The result of r reaches the breaker and ends the half-open period, if any.
Report(r, record) ==
  /\ record
  /\ probing' = IF state' = "HalfOpen" THEN probing \ {r} ELSE {}
  /\ lost' = (lost /\ state' = "HalfOpen")

\* conn.SendAsync fails.
InvokeSendErr(r) == Move(r, "admitted", "idle") /\ Report(r, RecordFailure)

\* conn.SendAsync succeeds: the request is out, the callback not yet set.
InvokeSend(r) == Move(r, "admitted", "sent") /\ UNCHANGED <<breakerVars, probing, lost>>

\* future.OnComplete(...)
InvokeOnComplete(r) == Move(r, "sent", "waiting") /\ UNCHANGED <<breakerVars, probing, lost>>

\* Future.Done runs the callback.
InvokeSucceeded(r) == Move(r, "waiting", "idle") /\ Report(r, RecordSuccess)
InvokeFailed(r)    == Move(r, "waiting", "idle") /\ Report(r, RecordFailure)

\* Future.Done runs before the callback is set, or the future never completes.
InvokeUnheard(r) ==
  /\ Move(r, "sent", "idle") \/ Move(r, "waiting", "idle")
  /\ probing' = probing \ {r} /\ lost' = (lost \/ r \in probing)
  /\ UNCHANGED breakerVars

TimePasses == Tick /\ UNCHANGED <<phase, probing, lost>>

Proceed(r) ==
  InvokeSendErr(r) \/ InvokeSend(r) \/ InvokeOnComplete(r) \/ InvokeSucceeded(r) \/ InvokeFailed(r)

InvokeNext ==
  \/ \E r \in Requests : InvokeAllow(r) \/ Proceed(r) \/ InvokeGiveUp(r) \/ InvokeUnheard(r)
  \/ TimePasses

InvokeSpec == InvokeInit /\ [][InvokeNext]_invokeVars

\* Time passes and goroutines run on; a future that is served completes.
InvokeFairness == WF_invokeVars(TimePasses) /\ \A r \in Requests : WF_invokeVars(Proceed(r))

-----------------------------------------------------------------------------
Admitting ==
  \/ state = "Closed"
  \/ state = "Open" /\ age > OpenTimeout
  \/ state = "HalfOpen" /\ ~halfOpenProbe

\* The breaker never rejects for good, unless a probe was lost: it keeps coming
\* back to a state in which Allow returns true, although results of requests
\* admitted in earlier periods reach it in any state.
KeepsAdmitting == []<>(Admitting \/ lost)

\* breaker.go:64 says of the half-open state "Only one probe request allowed": at
\* most one request admitted since it began is under way.  The code does not
\* guarantee it: the request whose Allow turns Open into HalfOpen is a probe that
\* halfOpenProbe does not count (breaker.go:57-59).
OneProbe == Cardinality(probing) <= 1
=============================================================================
