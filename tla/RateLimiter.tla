----------------------------- MODULE RateLimiter -----------------------------
(***************************************************************************)
(* RateLimiter of pkg/middleware/resilience/ratelimit.go, with the client  *)
(* that uses it: a call is charged an estimate before it starts, and the   *)
(* difference to what it really used after it.                             *)
(*                                                                         *)
(* The buckets are those of golang.org/x/time/rate: a reservation lowers a *)
(* bucket at once, below zero if need be, and is due when the bucket has   *)
(* come up again.  Beside the token bucket the limiter keeps credit (what  *)
(* was refunded, which the library cannot put back) and debt (what was too *)
(* large for one reservation).  Each locked section, and each call of the  *)
(* library, is an action.  Buckets fill by one a tick.                     *)
(***************************************************************************)
EXTENDS Integers, FiniteSets, Functions

CONSTANTS
    Requests,           \* the calls made on the client
    Estimate,           \* WithTokenEstimate
    Actuals,            \* what calls may really use; 0 is not reported
    RequestBurst, TokenBurst,
    MaxInstallments,    \* maxTokenInstallments
    MaxInt,             \* the largest debt an int can hold
    MaxResets           \* bound: calls of Reset

ASSUME LimiterAssumption ==
    /\ IsFiniteSet(Requests) /\ Estimate \in Nat \ {0} /\ Actuals \subseteq Nat
    /\ RequestBurst \in Nat \ {0} /\ TokenBurst \in Nat \ {0}
    /\ MaxInstallments \in Nat \ {0} /\ MaxInt \in Nat /\ MaxResets \in Nat

VARIABLES
    blocking,                   \* WithBlocking: wait, or fail at once; never changed
    requestLevel, tokenLevel,   \* the buckets of the current generation
    tokenCredit, tokenDebt, generation,
    pc,                         \* where each call is
    gen,                        \* the generation it works for
    installments,               \* installments of debt it has charged in this pass
    due,                        \* ticks until its reservations are due
    reserved,                   \* tokens it has reserved for itself
    reservedRequest,            \* whether it has reserved a request
    consumedCredit, deferred,
    actual,                     \* what the provider says it used
    recordGen,                  \* the generation its report is recorded under
    charged,                    \* history: tokens taken from the current bucket
    used,                       \* history: tokens the limiter should have charged for
    lost,                       \* history: charges nobody got back
    lateReport                  \* history: usage was reported over a Reset

limiter == <<blocking, requestLevel, tokenLevel, tokenCredit, tokenDebt, generation>>
call == <<pc, gen, installments, due, reserved, reservedRequest, consumedCredit,
          deferred, actual, recordGen>>
ledger == <<charged, used, lost, lateReport>>
vars == <<limiter, call, ledger>>

Least(a, b) == IF a < b THEN a ELSE b
Most(a, b) == IF a > b THEN a ELSE b

Init ==
    /\ blocking \in BOOLEAN
    /\ requestLevel = RequestBurst /\ tokenLevel = TokenBurst
    /\ tokenCredit = 0 /\ tokenDebt = 0 /\ generation = 0
    /\ pc = [r \in Requests |-> "enter"]
    /\ gen = [r \in Requests |-> 0]
    /\ installments = [r \in Requests |-> 0]
    /\ due = [r \in Requests |-> 0]
    /\ reserved = [r \in Requests |-> 0]
    /\ reservedRequest = [r \in Requests |-> FALSE]
    /\ consumedCredit = [r \in Requests |-> 0]
    /\ deferred = [r \in Requests |-> 0]
    /\ actual = [r \in Requests |-> 0]
    /\ recordGen = [r \in Requests |-> 0]
    /\ charged = 0 /\ used = 0 /\ lost = 0 /\ lateReport = FALSE

Goto(r, to) == pc' = [pc EXCEPT ![r] = to]
Stale(r) == gen[r] # generation
SaturatingAdd(a, b) == IF a > MaxInt - b THEN MaxInt ELSE a + b

\* Ticks until a bucket at this level is no longer overdrawn.
Delay(level) == Most(0, -level)

-----------------------------------------------------------------------------
(* WaitN and tryAcquire.                                                   *)

Enter(r) ==
    /\ pc[r] = "enter"
    /\ gen' = [gen EXCEPT ![r] = generation]
    /\ Goto(r, "settle")
    /\ UNCHANGED <<limiter, installments, due, reserved, reservedRequest,
                   consumedCredit, deferred, actual, recordGen, ledger>>

\* A slip: the debt is charged, and the credit that offset it kept.
SettleKeepingCredit(r) ==
    /\ pc[r] = "settle" /\ ~Stale(r)
    /\ tokenDebt > 0 /\ installments[r] < MaxInstallments
    /\ LET c == Least(tokenDebt, tokenCredit)
           n == Least(tokenDebt - c, TokenBurst)
       IN  /\ tokenDebt' = tokenDebt - c - n
           /\ tokenLevel' = tokenLevel - n
           /\ charged' = charged + n
           /\ due' = [due EXCEPT ![r] = IF n = 0 THEN @ ELSE Most(@, Delay(tokenLevel - n))]
    /\ installments' = [installments EXCEPT ![r] = @ + 1]
    /\ UNCHANGED <<blocking, requestLevel, tokenCredit, generation, pc, gen,
                   reserved, reservedRequest, consumedCredit, deferred, actual,
                   recordGen, used, lost, lateReport>>

\* settleTokenDebt: credit pays first, the rest is reserved in installments.
SettleInstallment(r) ==
    /\ pc[r] = "settle" /\ ~Stale(r)
    /\ tokenDebt > 0 /\ installments[r] < MaxInstallments
    /\ LET c == Least(tokenDebt, tokenCredit)
           n == Least(tokenDebt - c, TokenBurst)
       IN  /\ tokenCredit' = tokenCredit - c
           /\ tokenDebt' = tokenDebt - c - n
           /\ tokenLevel' = tokenLevel - n
           /\ charged' = charged + n
           /\ due' = [due EXCEPT ![r] = IF n = 0 THEN @ ELSE Most(@, Delay(tokenLevel - n))]
    /\ installments' = [installments EXCEPT ![r] = @ + 1]
    /\ UNCHANGED <<blocking, requestLevel, generation, pc, gen, reserved,
                   reservedRequest, consumedCredit, deferred, actual, recordGen,
                   used, lost, lateReport>>

\* A slip: the count of installments is not started over.
SettleEndsExhausted(r) ==
    /\ pc[r] = "settle"
    /\ Stale(r) \/ tokenDebt = 0 \/ installments[r] = MaxInstallments
    /\ Goto(r, IF tokenDebt = 0 /\ due[r] = 0
               THEN IF blocking THEN "request" ELSE "credit"
               ELSE IF ~blocking THEN "refused"
               ELSE IF due[r] > 0 THEN "settleWait" ELSE "settle")
    /\ UNCHANGED <<limiter, gen, installments, due, reserved, reservedRequest,
                   consumedCredit, deferred, actual, recordGen, ledger>>

\* A pass is over.  Only a limiter without debt, and with nothing to wait for,
\* lets the call on; one that does not block refuses it.
SettleEnds(r) ==
    /\ pc[r] = "settle"
    /\ Stale(r) \/ tokenDebt = 0 \/ installments[r] = MaxInstallments
    /\ Goto(r, IF tokenDebt = 0 /\ due[r] = 0
               THEN IF blocking THEN "request" ELSE "credit"
               ELSE IF ~blocking THEN "refused"
               ELSE IF due[r] > 0 THEN "settleWait" ELSE "settle")
    /\ installments' = [installments EXCEPT ![r] = 0]
    /\ UNCHANGED <<limiter, gen, due, reserved, reservedRequest, consumedCredit,
                   deferred, actual, recordGen, ledger>>

SettleAgain(r) ==
    /\ pc[r] = "settleWait" /\ due[r] = 0
    /\ Goto(r, "settle")
    /\ UNCHANGED <<limiter, gen, installments, due, reserved, reservedRequest,
                   consumedCredit, deferred, actual, recordGen, ledger>>

\* A reservation on the bucket of a generation that is gone changes nothing
\* here, and is due whenever that bucket says.
ReserveRequest(r) ==
    /\ pc[r] = "request"
    /\ reservedRequest' = [reservedRequest EXCEPT ![r] = TRUE]
    /\ IF Stale(r)
       THEN UNCHANGED <<requestLevel, due>>
       ELSE /\ requestLevel' = requestLevel - 1
            /\ due' = [due EXCEPT ![r] = Most(@, Delay(requestLevel - 1))]
    /\ Goto(r, IF blocking THEN "credit" ELSE IF due'[r] > 0 THEN "release" ELSE "tokens")
    /\ UNCHANGED <<blocking, tokenLevel, tokenCredit, tokenDebt, generation, gen,
                   installments, reserved, consumedCredit, deferred, actual,
                   recordGen, ledger>>

ConsumeCredit(r) ==
    /\ pc[r] = "credit"
    /\ LET c == Least(Estimate, tokenCredit) IN
         /\ tokenCredit' = tokenCredit - c
         /\ consumedCredit' = [consumedCredit EXCEPT ![r] = c]
    /\ Goto(r, IF blocking THEN "tokens" ELSE "request")
    /\ UNCHANGED <<blocking, requestLevel, tokenLevel, tokenDebt, generation, gen,
                   installments, due, reserved, reservedRequest, deferred, actual,
                   recordGen, ledger>>

\* What is left after the credit: up to the burst now, the rest as debt later.
ReserveTokens(r) ==
    /\ pc[r] = "tokens"
    /\ LET left == Estimate - consumedCredit[r]
           n == Least(left, TokenBurst)
       IN  /\ reserved' = [reserved EXCEPT ![r] = n]
           /\ deferred' = [deferred EXCEPT ![r] = left - n]
           /\ IF Stale(r)
              THEN UNCHANGED <<tokenLevel, due, charged>>
              ELSE /\ tokenLevel' = tokenLevel - n
                   /\ charged' = charged + n
                   /\ due' = [due EXCEPT ![r] = IF n = 0 THEN @ ELSE Most(@, Delay(tokenLevel - n))]
    /\ Goto(r, IF blocking THEN "wait" ELSE IF due'[r] > 0 THEN "release" ELSE "wait")
    /\ UNCHANGED <<blocking, requestLevel, tokenCredit, tokenDebt, generation, gen,
                   installments, reservedRequest, consumedCredit, actual,
                   recordGen, used, lost, lateReport>>

\* The context or the wait timeout ends.
GiveUp(r) ==
    /\ \/ pc[r] \in {"enter", "settle", "settleWait"} /\ Goto(r, "refused")
       \/ pc[r] = "wait" /\ blocking /\ Goto(r, "release")
    /\ UNCHANGED <<limiter, gen, installments, due, reserved, reservedRequest,
                   consumedCredit, deferred, actual, recordGen, ledger>>

\* Every reservation is canceled and the credit given back.  The library gives
\* back less, or nothing, when others have reserved since or the time has come.
Release(r) ==
    /\ pc[r] = "release"
    /\ IF Stale(r)
       THEN UNCHANGED <<requestLevel, tokenLevel, tokenCredit, charged, lost>>
       ELSE /\ \E back \in 0..reserved[r] :
                 /\ tokenLevel' = Least(TokenBurst, tokenLevel + back)
                 /\ charged' = charged - back /\ lost' = lost + reserved[r] - back
            /\ \E back \in {0, 1} : requestLevel' = Least(RequestBurst, requestLevel + back)
            /\ tokenCredit' = tokenCredit + consumedCredit[r]
    /\ reserved' = [reserved EXCEPT ![r] = 0]
    /\ reservedRequest' = [reservedRequest EXCEPT ![r] = FALSE]
    /\ consumedCredit' = [consumedCredit EXCEPT ![r] = 0]
    /\ Goto(r, "refused")
    /\ UNCHANGED <<blocking, tokenDebt, generation, gen, installments, due,
                   deferred, actual, recordGen, used, lateReport>>

\* Admitted.  What was deferred is now owed.
Admit(r) ==
    /\ pc[r] = "wait" /\ due[r] = 0
    /\ IF Stale(r)
       THEN UNCHANGED <<tokenDebt, used>>
       ELSE /\ tokenDebt' = SaturatingAdd(tokenDebt, deferred[r])
            /\ used' = used + Estimate
    /\ reserved' = [reserved EXCEPT ![r] = 0]
    /\ consumedCredit' = [consumedCredit EXCEPT ![r] = 0]
    /\ Goto(r, "provider")
    /\ UNCHANGED <<blocking, requestLevel, tokenLevel, tokenCredit, generation,
                   gen, installments, due, reservedRequest, deferred, actual,
                   recordGen, charged, lost, lateReport>>

-----------------------------------------------------------------------------
(* The call, and RecordTokens.                                             *)

\* The provider has answered, with a usage or without.  RecordTokens works for
\* the generation of now, not for that of the admission.
Answer(r) ==
    /\ pc[r] = "provider"
    /\ \E n \in Actuals :
         /\ actual' = [actual EXCEPT ![r] = n]
         /\ Goto(r, IF n = 0 THEN "done" ELSE "report")
         /\ used' = IF Stale(r) \/ n = 0 THEN used ELSE used + n - Estimate
    /\ recordGen' = [recordGen EXCEPT ![r] = generation]
    /\ lateReport' = (lateReport \/ (Stale(r) /\ actual'[r] > 0))
    /\ UNCHANGED <<limiter, gen, installments, due, reserved, reservedRequest,
                   consumedCredit, deferred, charged, lost>>

\* A slip: the report is settled against whatever limiter there is now.
RecordedElsewhere(r) == FALSE

\* A Reset came between the answer and the settlement.
RecordedBefore(r) == recordGen[r] # generation

\* An underestimate: more is charged, in installments, and what is beyond them
\* becomes debt.
RecordMore(r) ==
    /\ pc[r] = "report" /\ actual[r] > Estimate
    /\ LET extra == actual[r] - Estimate
           now == Least(extra, MaxInstallments * TokenBurst)
       IN  IF RecordedBefore(r)
           THEN UNCHANGED <<tokenLevel, charged, tokenDebt>>
           ELSE /\ tokenLevel' = tokenLevel - now
                /\ charged' = charged + now
                /\ tokenDebt' = SaturatingAdd(tokenDebt, extra - now)
    /\ Goto(r, "done")
    /\ UNCHANGED <<blocking, requestLevel, tokenCredit, generation, gen,
                   installments, due, reserved, reservedRequest, consumedCredit,
                   deferred, actual, recordGen, used, lost, lateReport>>

\* An overestimate: debt is canceled first, the rest becomes credit as far as
\* the bucket has been drawn down.
Refund(r) ==
    /\ pc[r] = "report" /\ actual[r] <= Estimate
    /\ IF RecordedBefore(r)
       THEN UNCHANGED <<tokenDebt, tokenCredit, lost>>
       ELSE LET refund == Estimate - actual[r]
                canceled == Least(refund, tokenDebt)
                available == Most(0, TokenBurst - tokenLevel - tokenCredit)
                credited == Least(refund - canceled, available)
            IN  /\ tokenDebt' = tokenDebt - canceled
                /\ tokenCredit' = tokenCredit + credited
                /\ lost' = lost + refund - canceled - credited
    /\ Goto(r, "done")
    /\ UNCHANGED <<blocking, requestLevel, tokenLevel, generation, gen,
                   installments, due, reserved, reservedRequest, consumedCredit,
                   deferred, actual, recordGen, charged, used, lateReport>>

Reset ==
    /\ generation < MaxResets
    /\ generation' = generation + 1
    /\ requestLevel' = RequestBurst /\ tokenLevel' = TokenBurst
    /\ tokenCredit' = 0 /\ tokenDebt' = 0
    /\ charged' = 0 /\ used' = 0 /\ lost' = 0
    /\ UNCHANGED <<blocking, call, lateReport>>

Tick ==
    /\ tokenLevel < TokenBurst \/ requestLevel < RequestBurst \/ \E r \in Requests : due[r] > 0
    /\ tokenLevel' = Least(TokenBurst, tokenLevel + 1)
    /\ requestLevel' = Least(RequestBurst, requestLevel + 1)
    /\ due' = [r \in Requests |-> Most(0, due[r] - 1)]
    /\ UNCHANGED <<blocking, tokenCredit, tokenDebt, generation, pc, gen,
                   installments, reserved, reservedRequest, consumedCredit,
                   deferred, actual, recordGen, ledger>>

Work(r) ==
    \/ Enter(r) \/ SettleInstallment(r) \/ SettleEnds(r) \/ SettleAgain(r)
    \/ ReserveRequest(r) \/ ConsumeCredit(r) \/ ReserveTokens(r) \/ Release(r) \/ Admit(r)
    \/ Answer(r) \/ RecordMore(r) \/ Refund(r)

Next == Tick \/ Reset \/ \E r \in Requests : Work(r) \/ GiveUp(r)

SafeSpec == Init /\ [][Next]_vars

\* Callers run, providers answer and time passes.  Nobody need ever give up.
Spec == SafeSpec /\ WF_vars(Tick) /\ \A r \in Requests : WF_vars(Work(r))

-----------------------------------------------------------------------------
(* Properties                                                              *)

\* What a call on its way holds of the current bucket and of the credit.
Held == [r \in Requests |-> IF Stale(r) THEN 0 ELSE reserved[r] + consumedCredit[r]]
Pending == SumFunction(Held)

\* What a report still has to settle.
Owed == [r \in Requests |-> IF pc[r] = "report" /\ ~Stale(r) THEN Estimate - actual[r] ELSE 0]
Unsettled == SumFunction(Owed)

Books == charged + tokenDebt - tokenCredit

\* Nothing is charged twice and nothing is free: what has been taken from the
\* bucket, with what is owed and less what was refunded, is what the admitted
\* calls used, what the waiting ones hold, and what canceled reservations lost.
LedgerBalances == generation = 0 => Books = used + Pending + Unsettled + lost

\* A Reset, between any two steps of a wait or of a settlement, never lets more
\* through than is charged for.
NeverUndercharged == ~lateReport => Books >= used + Pending + Unsettled

\* The comment of RecordTokens: a report from a request admitted before a Reset
\* must not settle against the new state.  It does: see Answer.
LateReportsSettleNothing == Books >= used + Pending + Unsettled

\* Every call is admitted, gives up or, if it does not block, is refused, whatever
\* was owed before it.  A wait that a Reset has overtaken need not: it takes the
\* debt of the new limiter for its own, cannot settle it, and spins.
CallsReturn == <>(\A r \in Requests : pc[r] \in {"done", "refused"} \/ Stale(r))
=============================================================================
