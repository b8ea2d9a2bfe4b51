--------------------------- MODULE CircuitBreaker ---------------------------
(***************************************************************************)
(* The circuit breaker of pkg/middleware/resilience                        *)
(* (resilience_circuit_breaker.go).  Every operation of the breaker runs   *)
(* under cb.mu, so one operation is one atomic action; what interleaves is *)
(* the admission of a request and, any time later, its settlement.         *)
(*                                                                         *)
(* A caller holds the permit it was granted until it reports the outcome.  *)
(* The middleware hands its own permit back; the public Allow and Record   *)
(* pair has no permit parameter, and the breaker keeps those grants in the *)
(* queue publicPermits.  A grant is named by the request it was made for.  *)
(*                                                                         *)
(* Time: the code compares time.Since(lastFailureTime) with resetTimeout   *)
(* and time.Since(lastStateChange) with halfOpenTimeout.  The model keeps  *)
(* these two ages, saturated at the longer of the two timeouts.            *)
(***************************************************************************)
EXTENDS Integers, FiniteSets, Sequences, TLC

CONSTANTS
    Requests,           \* callers; each has at most one request in flight
    MaxFailures,        \* failures that open the breaker
    HalfOpenMax,        \* probes allowed, and successes needed, in half-open
    ResetTimeout,       \* ticks the breaker stays open
    HalfOpenTimeout,    \* ticks it may stay half-open without a success
    MaxResets,          \* bound: how often Reset is called
    PublicApi,          \* whether the public Allow/Record pair is used too
    NoPermit            \* what a caller holds that has no request in flight

Generations == 0..MaxResets
Permits == [halfOpen : BOOLEAN, generation : Generations]

ASSUME BreakerAssumption ==
    /\ MaxFailures \in Nat \ {0}
    /\ HalfOpenMax \in Nat \ {0}
    /\ ResetTimeout \in Nat \ {0}
    /\ HalfOpenTimeout \in Nat \ {0}
    /\ MaxResets \in Nat
    /\ PublicApi \in BOOLEAN
    /\ NoPermit \notin Permits
    /\ IsFiniteSet(Requests)

VARIABLES
    state,              \* "closed", "open" or "halfOpen"
    failures,           \* failures since the last success while closed
    successes,          \* successes of the half-open trial
    halfOpenCount,      \* probe slots taken
    inflightClosed,     \* per generation, marks of requests admitted closed
    generation,         \* advanced by Reset
    sinceFailure,       \* age of lastFailureTime
    sinceChange,        \* age of lastStateChange
    publicPermits,      \* the grants made through Allow, oldest first
    permit              \* the permit each caller holds

counters == <<failures, successes, halfOpenCount>>
ages == <<sinceFailure, sinceChange>>
breaker == <<state, counters, inflightClosed, generation, ages>>
vars == <<breaker, publicPermits, permit>>

(***************************************************************************)
(* Definitions                                                             *)
(***************************************************************************)
Horizon == IF ResetTimeout > HalfOpenTimeout THEN ResetTimeout
                                             ELSE HalfOpenTimeout
Older(age) == IF age < Horizon THEN age + 1 ELSE Horizon

Waiting(r) == permit[r] = NoPermit
Public(r) == \E i \in DOMAIN publicPermits : publicPermits[i] = r
\* The callers whose outstanding permit is p.
Holders(p) == {r \in Requests : permit[r] = p}
ClosedPermit(g) == [halfOpen |-> FALSE, generation |-> g]
ProbePermit(g) == [halfOpen |-> TRUE, generation |-> g]

HasInflightClosed == \E g \in Generations : inflightClosed[g] > 0

\* retireInflightClosedLocked: a generation without a bucket is left alone.
RetireInflightClosed(g) ==
    inflightClosed' = [inflightClosed EXCEPT ![g] = IF @ > 0 THEN @ - 1 ELSE 0]

\* transitionTo, to a state other than the present one.  The slots taken are
\* zero but for the first probe of a half-open window.
TransitionTo(new, slots) ==
    /\ state' = new
    /\ sinceChange' = 0
    /\ failures' = IF new = "closed" THEN 0 ELSE failures
    /\ successes' = 0
    /\ halfOpenCount' = slots

(***************************************************************************)
(* Admission                                                               *)
(***************************************************************************)
Init ==
    /\ state = "closed"
    /\ failures = 0 /\ successes = 0 /\ halfOpenCount = 0
    /\ inflightClosed = [g \in Generations |-> 0]
    /\ generation = 0
    /\ sinceFailure = Horizon        \* the zero time is long ago
    /\ sinceChange = 0
    /\ publicPermits = << >>
    /\ permit = [r \in Requests |-> NoPermit]

Tick ==
    /\ sinceFailure' = Older(sinceFailure)
    /\ sinceChange' = Older(sinceChange)
    /\ UNCHANGED <<state, counters, inflightClosed, generation,
                   publicPermits, permit>>

AdmitClosed(r) ==
    /\ state = "closed"
    /\ inflightClosed' = [inflightClosed EXCEPT ![generation] = @ + 1]
    /\ permit' = [permit EXCEPT ![r] = ClosedPermit(generation)]
    /\ UNCHANGED <<state, counters, generation, ages>>

\* The breaker has been open long enough and no closed-state mark is left.
AdmitFirstProbe(r) ==
    /\ state = "open"
    /\ sinceFailure >= ResetTimeout
    /\ ~HasInflightClosed
    /\ TransitionTo("halfOpen", 1)
    /\ permit' = [permit EXCEPT ![r] = ProbePermit(generation)]
    /\ UNCHANGED <<inflightClosed, generation, sinceFailure>>

\* A slip: a window that every probe extends.
AdmitProbeExtendsWindow(r) ==
    /\ state = "halfOpen"
    /\ sinceChange < HalfOpenTimeout
    /\ halfOpenCount < HalfOpenMax
    /\ halfOpenCount' = halfOpenCount + 1
    /\ sinceChange' = 0
    /\ permit' = [permit EXCEPT ![r] = ProbePermit(generation)]
    /\ UNCHANGED <<state, failures, successes, inflightClosed, generation,
                   sinceFailure>>

AdmitProbe(r) ==
    /\ state = "halfOpen"
    /\ sinceChange < HalfOpenTimeout
    /\ halfOpenCount < HalfOpenMax
    /\ halfOpenCount' = halfOpenCount + 1
    /\ permit' = [permit EXCEPT ![r] = ProbePermit(generation)]
    /\ UNCHANGED <<state, failures, successes, inflightClosed, generation,
                   ages>>

AcquireLocked(r) ==
    /\ Waiting(r)
    /\ AdmitClosed(r) \/ AdmitFirstProbe(r) \/ AdmitProbe(r)

Acquire(r) == AcquireLocked(r) /\ UNCHANGED publicPermits

Allow(r) ==
    /\ PublicApi
    /\ AcquireLocked(r)
    /\ publicPermits' = Append(publicPermits, r)

\* A slip: the stalled trial keeps the time of the failure before it.
RefuseStalledTrialKeepsFailureTime ==
    /\ state = "halfOpen"
    /\ sinceChange >= HalfOpenTimeout
    /\ TransitionTo("open", 0)
    /\ UNCHANGED <<sinceFailure, inflightClosed, generation, publicPermits,
                   permit>>

\* The one refusal that changes state: a half-open window that stalled is
\* put back to open by the next admission attempt, whoever makes it.
RefuseStalledTrial ==
    /\ state = "halfOpen"
    /\ sinceChange >= HalfOpenTimeout
    /\ TransitionTo("open", 0)
    /\ sinceFailure' = 0
    /\ UNCHANGED <<inflightClosed, generation, publicPermits, permit>>

(***************************************************************************)
(* Settlement.  The operators say what a report with permit p does to the  *)
(* breaker; the actions say whose permit it is.                            *)
(***************************************************************************)
LateAfterReset(p) == p.generation # generation

SucceedClosed(p) ==
    /\ state = "closed"
    /\ failures' = 0
    /\ RetireInflightClosed(p.generation)
    /\ UNCHANGED <<state, successes, halfOpenCount, ages>>

\* The last success needed closes the breaker; any other extends the window.
SucceedProbe(p) ==
    /\ state = "halfOpen" /\ p.halfOpen /\ halfOpenCount > 0
    /\ IF successes + 1 >= HalfOpenMax
       THEN TransitionTo("closed", 0)
       ELSE /\ halfOpenCount' = halfOpenCount - 1
            /\ successes' = successes + 1
            /\ sinceChange' = 0
            /\ UNCHANGED <<state, failures>>
    /\ UNCHANGED <<inflightClosed, sinceFailure>>

\* A slip: the mark is retired in the closed state only.
RetireOnlyForgotten(p) == UNCHANGED <<state, counters, inflightClosed, ages>>

\* A report that can only retire a mark: a closed permit that settles in
\* half-open, or any permit that settles while the breaker is open.
RetireOnly(p) ==
    /\ RetireInflightClosed(p.generation)
    /\ UNCHANGED <<state, counters, ages>>

\* A probe that finds no slot taken.
NoSlotLeft(p) == state = "halfOpen" /\ p.halfOpen /\ halfOpenCount = 0

RecordSuccessLocked(p) ==
    /\ \/ /\ LateAfterReset(p) \/ NoSlotLeft(p)
          /\ UNCHANGED <<state, counters, inflightClosed, ages>>
       \/ /\ ~LateAfterReset(p)
          /\ \/ SucceedClosed(p)
             \/ SucceedProbe(p)
             \/ state = "halfOpen" /\ ~p.halfOpen /\ RetireOnly(p)
             \/ state = "open" /\ RetireOnly(p)
    /\ UNCHANGED generation

\* A slip: the breaker opens one failure late.
FailClosedOneLate(p) ==
    /\ state = "closed"
    /\ RetireInflightClosed(p.generation)
    /\ IF failures + 1 > MaxFailures
       THEN TransitionTo("open", 0)
       ELSE /\ failures' = failures + 1
            /\ UNCHANGED <<state, successes, halfOpenCount, sinceChange>>

FailClosed(p) ==
    /\ state = "closed"
    /\ RetireInflightClosed(p.generation)
    /\ IF failures + 1 >= MaxFailures
       THEN /\ state' = "open"
            /\ sinceChange' = 0
            /\ failures' = failures + 1
            /\ successes' = 0
            /\ halfOpenCount' = 0
       ELSE /\ failures' = failures + 1
            /\ UNCHANGED <<state, successes, halfOpenCount, sinceChange>>

FailProbe(p) ==
    /\ state = "halfOpen" /\ p.halfOpen /\ halfOpenCount > 0
    /\ TransitionTo("open", 0)
    /\ UNCHANGED inflightClosed

\* A request admitted closed that fails in half-open is evidence all the same.
FailStaleClosed(p) ==
    /\ state = "halfOpen" /\ ~p.halfOpen
    /\ RetireInflightClosed(p.generation)
    /\ TransitionTo("open", 0)

FailOpen(p) ==
    /\ state = "open"
    /\ RetireInflightClosed(p.generation)
    /\ UNCHANGED <<state, counters, sinceChange>>

\* A slip: Reset does not make a probe stale.
StalePermitNever(p) == FALSE

StalePermit(p) == p.halfOpen /\ LateAfterReset(p)

\* Every failure but a stale probe's refreshes lastFailureTime, also the one
\* that then finds no slot.
RecordFailureLocked(p) ==
    /\ \/ /\ StalePermit(p)
          /\ UNCHANGED <<state, counters, inflightClosed, ages>>
       \/ /\ ~StalePermit(p)
          /\ sinceFailure' = 0
          /\ \/ FailClosed(p) \/ FailProbe(p) \/ FailStaleClosed(p)
             \/ FailOpen(p)
             \/ /\ NoSlotLeft(p)
                /\ UNCHANGED <<state, counters, inflightClosed, sinceChange>>
    /\ UNCHANGED generation

\* A slip: an abandoned probe keeps its slot.
ReleaseLockedKeepsSlot(p) ==
    /\ IF p.halfOpen THEN UNCHANGED inflightClosed
                     ELSE RetireInflightClosed(p.generation)
    /\ UNCHANGED <<state, counters, generation, ages>>

ReleaseLocked(p) ==
    /\ IF p.halfOpen
       THEN /\ halfOpenCount' =
                 IF /\ state = "halfOpen"
                    /\ ~LateAfterReset(p)
                    /\ halfOpenCount > 0
                 THEN halfOpenCount - 1 ELSE halfOpenCount
            /\ UNCHANGED inflightClosed
       ELSE RetireInflightClosed(p.generation) /\ UNCHANGED halfOpenCount
    /\ UNCHANGED <<state, failures, successes, generation, ages>>

GiveUp(r) == permit' = [permit EXCEPT ![r] = NoPermit]

\* The middleware path: execute and Stream report with the permit they hold.
RecordSuccess(r) ==
    /\ ~Waiting(r) /\ ~Public(r)
    /\ RecordSuccessLocked(permit[r])
    /\ GiveUp(r)
    /\ UNCHANGED publicPermits

RecordFailure(r) ==
    /\ ~Waiting(r) /\ ~Public(r)
    /\ RecordFailureLocked(permit[r])
    /\ GiveUp(r)
    /\ UNCHANGED publicPermits

ReleasePermit(r) ==
    /\ ~Waiting(r) /\ ~Public(r)
    /\ ReleaseLocked(permit[r])
    /\ GiveUp(r)
    /\ UNCHANGED publicPermits

\* The public path: the oldest grant made through Allow is the one settled.
TakePublicPermit ==
    /\ publicPermits' = Tail(publicPermits)
    /\ GiveUp(Head(publicPermits))

PublicRecordSuccess ==
    /\ PublicApi
    /\ publicPermits # << >>
    /\ RecordSuccessLocked(permit[Head(publicPermits)])
    /\ TakePublicPermit

PublicRecordFailure ==
    /\ PublicApi
    /\ publicPermits # << >>
    /\ RecordFailureLocked(permit[Head(publicPermits)])
    /\ TakePublicPermit

\* A report without a grant: an externally observed health result.
SyntheticPermit ==
    [halfOpen |-> ~HasInflightClosed, generation |-> generation]

NoGrantToMatch ==
    /\ PublicApi
    /\ publicPermits = << >>
    /\ UNCHANGED <<publicPermits, permit>>

ExternalSuccess ==
    /\ RecordSuccessLocked(SyntheticPermit)
    /\ NoGrantToMatch

ExternalFailure ==
    /\ RecordFailureLocked(SyntheticPermit)
    /\ NoGrantToMatch

\* Reset leaves the public grants queued and drops every closed mark.
Reset ==
    /\ generation < MaxResets
    /\ generation' = generation + 1
    /\ inflightClosed' = [g \in Generations |-> 0]
    /\ state' = "closed"
    /\ sinceChange' = IF state = "closed" THEN sinceChange ELSE 0
    /\ failures' = 0 /\ successes' = 0 /\ halfOpenCount' = 0
    /\ UNCHANGED <<sinceFailure, publicPermits, permit>>

Settle(r) == RecordSuccess(r) \/ RecordFailure(r) \/ ReleasePermit(r)
Admit(r) == Acquire(r) \/ Allow(r)
PublicReport ==
    \/ PublicRecordSuccess \/ PublicRecordFailure
    \/ ExternalSuccess \/ ExternalFailure

Next ==
    \/ Tick
    \/ \E r \in Requests : Admit(r) \/ Settle(r)
    \/ RefuseStalledTrial
    \/ PublicReport
    \/ Reset

Spec == Init /\ [][Next]_vars

(***************************************************************************)
(* Fairness for the liveness properties: time passes, somebody keeps       *)
(* calling the breaker, and (only where a property needs it) a request     *)
(* admitted while closed reports its outcome: the middleware's execute     *)
(* settles every permit it acquires, and whoever uses the public pair      *)
(* reports what it was allowed.  A middleware's probe need never settle.   *)
(***************************************************************************)
CallersKeepTrying ==
    /\ WF_vars(Tick)
    /\ WF_vars(RefuseStalledTrial)
    /\ WF_vars(\E r \in Requests : Acquire(r))

ClosedRequestsSettle ==
    /\ \A r \in Requests :
           WF_vars((~Waiting(r) /\ ~permit[r].halfOpen) /\ Settle(r))
    /\ WF_vars(PublicRecordSuccess \/ PublicRecordFailure)

FairSpec == Spec /\ CallersKeepTrying /\ ClosedRequestsSettle

(***************************************************************************)
(* Properties                                                              *)
(***************************************************************************)

\* The types, with the counters inside the limits their state allows: closed
\* is below the failure threshold, the other states were reached by crossing
\* it, and only half-open has slots and successes.
TypeOK ==
    /\ state \in {"closed", "open", "halfOpen"}
    /\ failures \in 0..MaxFailures
    /\ successes \in 0..(HalfOpenMax - 1)
    /\ halfOpenCount \in 0..HalfOpenMax
    /\ inflightClosed \in [Generations -> Nat]
    /\ generation \in Generations
    /\ sinceFailure \in 0..Horizon
    /\ sinceChange \in 0..Horizon
    /\ publicPermits \in Seq(Requests)
    /\ permit \in [Requests -> Permits \cup {NoPermit}]

\* The threshold and the state agree: the breaker is closed exactly while its
\* failure count is below the maximum, and the half-open counters are zero
\* outside half-open, so that no trial starts with a predecessor's progress.
CountersMatchState ==
    /\ state = "closed" <=> failures < MaxFailures
    /\ state # "halfOpen" => successes = 0 /\ halfOpenCount = 0

\* Every closed-state mark belongs to a request of its own that is still in
\* flight, and none belongs to a generation that Reset dropped.  A mark without
\* a request would hold off the open to half-open transition for ever.
MarksBelongToRequests ==
    \A g \in Generations :
        /\ inflightClosed[g] <= Cardinality(Holders(ClosedPermit(g)))
        /\ g # generation => inflightClosed[g] = 0

\* Every probe slot taken belongs to a probe of its own, of this generation,
\* still in flight: a slot is not leaked by any order of settlements.
SlotsBelongToProbes ==
    halfOpenCount <= Cardinality(Holders(ProbePermit(generation)))

\* What the breaker counts is in flight: whatever holds off a trial, or a probe within
\* one, is a request that will still report, or release its permit.
NothingOutlivesItsRequest == MarksBelongToRequests /\ SlotsBelongToProbes

\* Once open the breaker refuses everybody for resetTimeout at least, counted
\* from the change to open, whichever way it was opened (a failure at the
\* threshold, a failed probe, a stalled trial).
OpenLastsResetTimeout ==
    [][state = "open" /\ state' = "halfOpen"
          => sinceChange >= ResetTimeout]_vars

\* What a request admitted before a Reset reports after it never takes from
\* the fresh breaker: no mark or slot of a newer request, no failure counted
\* so far, and it never closes the breaker.  If it reopens one it is as the
\* failure of a request that was admitted closed.
PreResetRequestTakesNothing ==
    [][\A r \in Requests :
         /\ permit[r] # NoPermit
         /\ permit'[r] = NoPermit
         /\ permit[r].generation < generation
         => /\ inflightClosed' = inflightClosed
            /\ failures' >= failures
            /\ state' = "closed" => state = "closed"
            /\ state' = "halfOpen" => halfOpenCount' = halfOpenCount
            /\ state' # state => ~permit[r].halfOpen]_vars

\* A trial ends, also when none of its probes ever reports.
HalfOpenEnds == state = "halfOpen" ~> state # "halfOpen"

\* An open breaker starts a trial, as long as a caller is left to make it and
\* no more failures are reported from outside.
OpenEnds ==
    []<>(state # "open" \/ sinceFailure = 0 \/ \A r \in Requests : ~Waiting(r))

\* The breaker goes on: neither a trial, whose probes may never report, nor an open
\* state, whose admitted requests may never settle in time, lasts for ever.
NeitherStateIsForEver == HalfOpenEnds /\ OpenEnds

\* The callers are interchangeable; not used with the liveness properties.
Symmetry == Permutations(Requests)

(***************************************************************************)
(* What the documentation says and the code does not do.                   *)
(***************************************************************************)

\* The comment in acquireLocked: wait for a request admitted closed to settle
\* before entering half-open.
TrialWaitsForClosedRequests ==
    [][state = "open" /\ state' = "halfOpen"
          => Holders(ClosedPermit(generation)) = {}]_vars
=============================================================================
