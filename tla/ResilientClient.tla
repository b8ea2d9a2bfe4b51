--------------------------- MODULE ResilientClient ---------------------------
(***************************************************************************)
(* ResilientClient of pkg/middleware/resilience/resilience.go: calls and   *)
(* streams that retry transient failures through the circuit breaker.      *)
(*                                                                         *)
(* Composed with the CircuitBreaker module, whose requests are the calls   *)
(* of this one: a call acquires a permit for each attempt, and settles it  *)
(* before it backs off.  The provider's answer is chosen freely: success,  *)
(* or an error that the breaker's classifier takes as provider ill-health  *)
(* or not, and that the configured ShouldRetry takes as retryable or not   *)
(* (the two agree in the default configuration; callers may override one). *)
(***************************************************************************)
EXTENDS Integers, FiniteSets, Sequences

CONSTANTS
    Requests,           \* the calls and streams made on the client
    Streams,            \* those that are Stream calls
    MaxAttempts,        \* attempts of one call, the first included
    MaxFailures, HalfOpenMax, ResetTimeout, HalfOpenTimeout, NoPermit

MaxResets == 0
PublicApi == FALSE

ASSUME ClientAssumption ==
    /\ Streams \subseteq Requests /\ IsFiniteSet(Requests)
    /\ MaxAttempts \in Nat \ {0}
    /\ MaxFailures \in Nat \ {0} /\ HalfOpenMax \in Nat \ {0}
    /\ ResetTimeout \in Nat \ {0} /\ HalfOpenTimeout \in Nat \ {0}
    /\ NoPermit \notin [halfOpen : BOOLEAN, generation : 0..MaxResets]

VARIABLES
    state, failures, successes, halfOpenCount, inflightClosed, generation,
    sinceFailure, sinceChange, publicPermits, permit,
    pc,             \* where each call is
    attempt,        \* attempts begun
    lastErr,        \* whether an earlier attempt failed
    reports,        \* history: health reports the call made
    result          \* what the call returned

Breaker == INSTANCE CircuitBreaker

breaker == <<state, failures, successes, halfOpenCount, inflightClosed,
             generation, sinceFailure, sinceChange, publicPermits, permit>>
call == <<pc, attempt, lastErr, reports, result>>
vars == <<breaker, call>>

Errors == [unhealthy : BOOLEAN, retryable : BOOLEAN]

Init ==
    /\ Breaker!Init
    /\ pc = [r \in Requests |-> "acquire"]
    /\ attempt = [r \in Requests |-> 0]
    /\ lastErr = [r \in Requests |-> FALSE]
    /\ reports = [r \in Requests |-> 0]
    /\ result = [r \in Requests |-> "none"]

Goto(r, to) == pc' = [pc EXCEPT ![r] = to]
Return(r, value) ==
    /\ Goto(r, "done")
    /\ result' = [result EXCEPT ![r] = value]
Reported(r) == reports' = [reports EXCEPT ![r] = @ + 1]

\* The breaker admits the attempt and the provider is called.
Attempt(r) ==
    /\ pc[r] = "acquire"
    /\ Breaker!Acquire(r)
    /\ attempt' = [attempt EXCEPT ![r] = @ + 1]
    /\ Goto(r, "provider")
    /\ UNCHANGED <<lastErr, reports, result>>

\* The breaker refuses: ErrCircuitOpen, with the error of the attempt before.
\* A refusal changes the breaker only where it puts a stalled trial back.
Refused(r) ==
    /\ pc[r] = "acquire"
    /\ \/ Breaker!RefuseStalledTrial
       \/ /\ \/ /\ state = "open"
                /\ \/ sinceFailure < ResetTimeout
                   \/ Breaker!HasInflightClosed
             \/ /\ state = "halfOpen"
                /\ sinceChange < HalfOpenTimeout
                /\ halfOpenCount >= HalfOpenMax
          /\ UNCHANGED breaker
    /\ Return(r, IF lastErr[r] THEN "circuitOpenAfterError" ELSE "circuitOpen")
    /\ UNCHANGED <<attempt, lastErr, reports>>

\* The provider answered a call: the success is reported and returned.
Succeed(r) ==
    /\ pc[r] = "provider" /\ r \notin Streams
    /\ Breaker!RecordSuccess(r)
    /\ Reported(r)
    /\ Return(r, "ok")
    /\ UNCHANGED <<attempt, lastErr>>

\* The stream is open.  It keeps its permit until its finalizer runs.
OpenStream(r) ==
    /\ pc[r] = "provider" /\ r \in Streams
    /\ Goto(r, "streaming")
    /\ UNCHANGED <<breaker, attempt, lastErr, reports, result>>

LastAttempt(r) == attempt[r] >= MaxAttempts

\* Settle reports provider ill-health, or gives the permit back unreported.
SettleError(r, unhealthy) ==
    IF unhealthy
    THEN Breaker!RecordFailure(r) /\ Reported(r)
    ELSE Breaker!ReleasePermit(r) /\ UNCHANGED reports

\* A slip: the failure of every attempt is reported.
BackOffReporting(r, err) ==
    /\ pc[r] = "provider"
    /\ err.retryable /\ ~LastAttempt(r)
    /\ SettleError(r, err.unhealthy)
    /\ lastErr' = [lastErr EXCEPT ![r] = TRUE]
    /\ Goto(r, "backoff")
    /\ UNCHANGED <<attempt, result>>

\* A slip: the permit is kept over the wait.
BackOffHolding(r, err) ==
    /\ pc[r] = "provider"
    /\ err.retryable /\ ~LastAttempt(r)
    /\ lastErr' = [lastErr EXCEPT ![r] = TRUE]
    /\ Goto(r, "backoff")
    /\ UNCHANGED <<breaker, attempt, result, reports>>

\* A retryable error with attempts left: the permit is released, unreported,
\* and the call waits.
BackOff(r, err) ==
    /\ pc[r] = "provider"
    /\ err.retryable /\ ~LastAttempt(r)
    /\ Breaker!ReleasePermit(r)
    /\ lastErr' = [lastErr EXCEPT ![r] = TRUE]
    /\ Goto(r, "backoff")
    /\ UNCHANGED <<attempt, reports, result>>

\* An error that ends the call.
GiveUp(r, err) ==
    /\ pc[r] = "provider"
    /\ ~err.retryable \/ LastAttempt(r)
    /\ SettleError(r, err.unhealthy)
    /\ lastErr' = [lastErr EXCEPT ![r] = TRUE]
    /\ Return(r, "error")
    /\ UNCHANGED attempt

\* A slip: the count starts over with each attempt.
RetryForgetsAttempts(r) ==
    /\ pc[r] = "backoff"
    /\ attempt' = [attempt EXCEPT ![r] = 0]
    /\ Goto(r, "acquire")
    /\ UNCHANGED <<breaker, lastErr, reports, result>>

\* The timer fires and the next attempt begins.
Retry(r) ==
    /\ pc[r] = "backoff"
    /\ Goto(r, "acquire")
    /\ UNCHANGED <<breaker, attempt, lastErr, reports, result>>

\* The caller's context ends during the wait.
CancelBackOff(r) ==
    /\ pc[r] = "backoff"
    /\ Return(r, "canceled")
    /\ UNCHANGED <<breaker, attempt, lastErr, reports>>

\* The finalizer of an open stream: its terminal error, if any, is the
\* outcome.  A canceled consumer's error is not ill-health.
FinalizeStream(r) ==
    /\ pc[r] = "streaming"
    /\ \/ Breaker!RecordSuccess(r) /\ Reported(r) /\ Return(r, "ok")
       \/ \E unhealthy \in BOOLEAN :
            SettleError(r, unhealthy) /\ Return(r, "error")
    /\ UNCHANGED <<attempt, lastErr>>

Work(r) ==
    \/ Attempt(r) \/ Refused(r) \/ Succeed(r) \/ OpenStream(r)
    \/ \E err \in Errors : BackOff(r, err) \/ GiveUp(r, err)
    \/ Retry(r) \/ FinalizeStream(r)

Tick == Breaker!Tick /\ UNCHANGED call

Next == Tick \/ \E r \in Requests : Work(r) \/ CancelBackOff(r)

SafeSpec == Init /\ [][Next]_vars

\* A call is a goroutine of its own: it is scheduled, the provider answers
\* (the SDK's clients bound every request with a timeout), the stream ends.
\* No caller need ever cancel.
Spec == SafeSpec /\ \A r \in Requests : WF_vars(Work(r))

(***************************************************************************)
(* Properties                                                              *)
(***************************************************************************)
\* A call holds a permit exactly while the provider works for it: nothing is
\* leaked on any way out, and no probe slot is held over a backoff.
PermitHeldWhileWorking ==
    \A r \in Requests :
        permit[r] # NoPermit <=> pc[r] \in {"provider", "streaming"}

\* A call gives the breaker at most one piece of evidence, whatever the number
\* of attempts; a refused or canceled call gives none; a call that returned
\* normally gave exactly one.
OneReportPerCall ==
    \A r \in Requests :
        /\ reports[r] <= 1
        /\ result[r] = "ok" => reports[r] = 1
        /\ result[r] \in {"none", "canceled", "circuitOpen", "circuitOpenAfterError"}
              => reports[r] = 0

\* Whichever of its eight ways an attempt ends, the call owes the breaker nothing
\* afterwards, and has told it one thing at most.
CallsSettleOnce == PermitHeldWhileWorking /\ OneReportPerCall

\* The breaker opens only on evidence: on the report of a failure that ends a
\* call, or by putting a stalled trial back.  Never by the error of an attempt
\* that is to be retried.
OpensOnFinalEvidence ==
    [][state # "open" /\ state' = "open"
         => \/ \E r \in Requests : reports'[r] > reports[r] /\ result'[r] = "error"
            \/ state = "halfOpen" /\ sinceChange >= HalfOpenTimeout]_vars

\* Every call returns.
CallsReturn == <>(\A r \in Requests : pc[r] = "done")
=============================================================================
