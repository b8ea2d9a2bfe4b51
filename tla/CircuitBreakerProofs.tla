------------------------ MODULE CircuitBreakerProofs ------------------------
(***************************************************************************)
(* The safety of the circuit breaker, for every set of callers, every      *)
(* threshold and timeout and every number of Resets.                       *)
(*                                                                         *)
(* The argument has two halves.  What a report does to the breaker does    *)
(* not depend on who reports: ReportShape says, for any permit, what the   *)
(* report does to the counters, marks, slots and ages.  What a report does *)
(* to the permits held is one cardinality step: GrantHolders and           *)
(* GiveUpHolders.  The inductive step puts the two together.               *)
(***************************************************************************)
EXTENDS CircuitBreaker, FiniteSetTheorems, TLAPS

\* The grants queued for the public pair are outstanding, each once: without
\* this a public report could settle a permit a second time.
PublicGrantsHeld ==
    /\ \A i \in DOMAIN publicPermits : permit[publicPermits[i]] # NoPermit
    /\ \A i, j \in DOMAIN publicPermits :
           publicPermits[i] = publicPermits[j] => i = j

\* While open, the last failure is never older than the change to open.
FailureNotBeforeOpening == state = "open" => sinceFailure <= sinceChange

IInv ==
    /\ TypeOK
    /\ CountersMatchState
    /\ PublicGrantsHeld
    /\ FailureNotBeforeOpening
    /\ MarksBelongToRequests
    /\ SlotsBelongToProbes

BreakerTypeOK ==
    /\ state \in {"closed", "open", "halfOpen"}
    /\ failures \in 0..MaxFailures
    /\ successes \in 0..(HalfOpenMax - 1)
    /\ halfOpenCount \in 0..HalfOpenMax
    /\ inflightClosed \in [Generations -> Nat]
    /\ generation \in Generations
    /\ sinceFailure \in 0..Horizon
    /\ sinceChange \in 0..Horizon

Report(p) == RecordSuccessLocked(p) \/ RecordFailureLocked(p) \/ ReleaseLocked(p)

\* A report retires a mark, unless its permit can have none.
MarkSettled(p) ==
    \/ RetireInflightClosed(p.generation)
    \/ inflightClosed' = inflightClosed /\ (p.halfOpen \/ p.generation # generation)

\* A report returns a slot if one is taken, and never takes one.
SlotSettled(p) ==
    /\ halfOpenCount' <= halfOpenCount
    /\ p = ProbePermit(generation)
         => halfOpenCount' = 0 \/ halfOpenCount' = halfOpenCount - 1

LEMMA HorizonNat == Horizon \in Nat /\ 0 \in 0..Horizon
  BY BreakerAssumption DEF Horizon

(***************************************************************************)
(* The permits held                                                        *)
(***************************************************************************)
\* Granting p to a waiting caller adds one holder of p and no other holder.
LEMMA GrantHolders ==
  ASSUME permit \in [Requests -> Permits \cup {NoPermit}],
         NEW r \in Requests, permit[r] = NoPermit,
         NEW p \in Permits, permit' = [permit EXCEPT ![r] = p]
  PROVE  /\ Cardinality(Holders(p)) \in Nat
         /\ Cardinality(Holders(p)') = Cardinality(Holders(p)) + 1
         /\ \A q \in Permits : q # p => Holders(q)' = Holders(q)
  <1>1. IsFiniteSet(Holders(p))
    BY BreakerAssumption, FS_Subset DEF Holders
  <1>2. r \notin Holders(p) /\ Holders(p)' = Holders(p) \cup {r}
    BY BreakerAssumption DEF Holders
  <1>3. \A q \in Permits : q # p => Holders(q)' = Holders(q)
    BY BreakerAssumption DEF Holders
  <1> QED
    BY <1>1, <1>2, <1>3, FS_AddElement, FS_CardinalityType

\* Giving a permit up removes one of its holders and no other holder.
LEMMA GiveUpHolders ==
  ASSUME permit \in [Requests -> Permits \cup {NoPermit}],
         NEW r \in Requests, NEW p \in Permits, permit[r] = p,
         permit' = [permit EXCEPT ![r] = NoPermit]
  PROVE  /\ Cardinality(Holders(p)) \in Nat \ {0}
         /\ Cardinality(Holders(p)') = Cardinality(Holders(p)) - 1
         /\ \A q \in Permits : q # p => Holders(q)' = Holders(q)
  <1>1. IsFiniteSet(Holders(p))
    BY BreakerAssumption, FS_Subset DEF Holders
  <1>2. r \in Holders(p) /\ Holders(p)' = Holders(p) \ {r}
    BY BreakerAssumption DEF Holders
  <1>3. \A q \in Permits : q # p => Holders(q)' = Holders(q)
    BY BreakerAssumption DEF Holders
  <1>4. Cardinality(Holders(p)) # 0
    BY <1>1, <1>2, FS_EmptySet
  <1> QED
    BY <1>1, <1>2, <1>3, <1>4, FS_RemoveElement, FS_CardinalityType

(***************************************************************************)
(* What a report does to the breaker, whoever makes it                     *)
(***************************************************************************)
LEMMA ReportShape ==
  ASSUME BreakerTypeOK, CountersMatchState, FailureNotBeforeOpening,
         \A g \in Generations : g # generation => inflightClosed[g] = 0,
         NEW p \in Permits, Report(p)
  PROVE  /\ BreakerTypeOK' /\ CountersMatchState' /\ FailureNotBeforeOpening'
         /\ MarkSettled(p) /\ SlotSettled(p) /\ generation' = generation
  <1> USE BreakerAssumption, HorizonNat
      DEF BreakerTypeOK, CountersMatchState, FailureNotBeforeOpening,
          MarkSettled, SlotSettled, ProbePermit, LateAfterReset, counters, ages
  <1>0. p.halfOpen \in BOOLEAN /\ p.generation \in Generations
        /\ p = [halfOpen |-> p.halfOpen, generation |-> p.generation]
    BY DEF Permits
  <1>1. RetireInflightClosed(p.generation)
          => inflightClosed' \in [Generations -> Nat]
    BY <1>0 DEF RetireInflightClosed
  <1>2. CASE RecordSuccessLocked(p)
    <2>1. CASE LateAfterReset(p) \/ NoSlotLeft(p)
      BY <1>0, <1>2, <2>1 DEF RecordSuccessLocked, NoSlotLeft, SucceedClosed,
                              SucceedProbe, RetireOnly
    <2>2. CASE SucceedClosed(p) /\ ~LateAfterReset(p) /\ UNCHANGED generation
      BY <1>0, <1>1, <2>2 DEF SucceedClosed
    <2>3. CASE SucceedProbe(p) /\ ~LateAfterReset(p) /\ UNCHANGED generation
      BY <1>0, <2>3 DEF SucceedProbe, TransitionTo
    <2>4. CASE /\ (state = "halfOpen" /\ ~p.halfOpen) \/ state = "open"
               /\ RetireOnly(p) /\ UNCHANGED generation
      BY <1>0, <1>1, <2>4 DEF RetireOnly
    <2> QED
      BY <1>2, <2>1, <2>2, <2>3, <2>4 DEF RecordSuccessLocked
  <1>3. CASE RecordFailureLocked(p)
    <2>1. CASE StalePermit(p)
      BY <1>0, <1>3, <2>1 DEF RecordFailureLocked, StalePermit
    <2>2. CASE FailClosed(p) /\ sinceFailure' = 0 /\ UNCHANGED generation
      BY <1>0, <1>1, <2>2 DEF FailClosed
    <2>3. CASE FailProbe(p) /\ sinceFailure' = 0 /\ UNCHANGED generation
      BY <1>0, <2>3 DEF FailProbe, TransitionTo
    <2>4. CASE FailStaleClosed(p) /\ sinceFailure' = 0 /\ UNCHANGED generation
      BY <1>0, <1>1, <2>4 DEF FailStaleClosed, TransitionTo
    <2>5. CASE FailOpen(p) /\ sinceFailure' = 0 /\ UNCHANGED generation
      BY <1>0, <1>1, <2>5 DEF FailOpen
    <2>6. CASE /\ NoSlotLeft(p) /\ sinceFailure' = 0
               /\ UNCHANGED <<state, counters, inflightClosed, sinceChange>>
               /\ UNCHANGED generation
      BY <1>0, <2>6 DEF NoSlotLeft
    <2> QED
      BY <1>3, <2>1, <2>2, <2>3, <2>4, <2>5, <2>6 DEF RecordFailureLocked
  <1>4. CASE ReleaseLocked(p)
    BY <1>0, <1>1, <1>4 DEF ReleaseLocked
  <1> QED
    BY <1>2, <1>3, <1>4 DEF Report

(***************************************************************************)
(* One lemma per kind of step: a grant, a report, and the rest             *)
(***************************************************************************)
\* Granting, on either path.
LEMMA AdmitStep ==
  ASSUME IInv, NEW r \in Requests, AcquireLocked(r),
         \/ publicPermits' = publicPermits
         \/ publicPermits' = Append(publicPermits, r)
  PROVE  IInv'
  <1> USE BreakerAssumption, HorizonNat DEF IInv
  <1>1. PICK p \in Permits :
          /\ permit' = [permit EXCEPT ![r] = p]
          /\ generation' = generation
          /\ \/ /\ p = ClosedPermit(generation)
                /\ inflightClosed' = [inflightClosed EXCEPT ![generation] = @ + 1]
                /\ halfOpenCount' = halfOpenCount
             \/ /\ p = ProbePermit(generation)
                /\ inflightClosed' = inflightClosed
                /\ halfOpenCount' = halfOpenCount + 1
    <2>1. ClosedPermit(generation) \in Permits /\ ProbePermit(generation) \in Permits
      BY DEF TypeOK, Permits, ClosedPermit, ProbePermit
    <2>2. CASE AdmitClosed(r)
      BY <2>1, <2>2 DEF AdmitClosed, counters
    <2>3. CASE AdmitFirstProbe(r)
      <3>1. halfOpenCount' = halfOpenCount + 1
        BY <2>3 DEF AdmitFirstProbe, TransitionTo, CountersMatchState
      <3> QED
        BY <2>1, <2>3, <3>1 DEF AdmitFirstProbe
    <2>4. CASE AdmitProbe(r)
      BY <2>1, <2>4 DEF AdmitProbe
    <2> QED
      BY <2>2, <2>3, <2>4 DEF AcquireLocked
  <1>2. /\ Cardinality(Holders(p)) \in Nat
        /\ Cardinality(Holders(p)') = Cardinality(Holders(p)) + 1
        /\ \A q \in Permits : q # p => Holders(q)' = Holders(q)
    BY <1>1, GrantHolders DEF TypeOK, AcquireLocked, Waiting
  <1>3. TypeOK' /\ CountersMatchState' /\ FailureNotBeforeOpening'
    <2>1. permit' \in [Requests -> Permits \cup {NoPermit}]
      BY <1>1 DEF TypeOK
    <2>2. publicPermits' \in Seq(Requests)
      BY DEF TypeOK
    <2>3. CASE AdmitClosed(r)
      BY <2>1, <2>2, <2>3 DEF AdmitClosed, TypeOK, CountersMatchState,
         FailureNotBeforeOpening, counters, ages
    <2>4. CASE AdmitFirstProbe(r)
      BY <2>1, <2>2, <2>4 DEF AdmitFirstProbe, TransitionTo, TypeOK,
         CountersMatchState, FailureNotBeforeOpening
    <2>5. CASE AdmitProbe(r)
      BY <2>1, <2>2, <2>5 DEF AdmitProbe, TypeOK, CountersMatchState,
         FailureNotBeforeOpening, ages
    <2> QED
      BY <2>3, <2>4, <2>5 DEF AcquireLocked
  <1>4. PublicGrantsHeld'
    <2>1. permit[r] = NoPermit /\ \A s \in Requests : permit[s] # NoPermit
                                     => permit'[s] # NoPermit
      BY <1>1 DEF TypeOK, AcquireLocked, Waiting
    <2>2. CASE publicPermits' = publicPermits
      BY <2>1, <2>2 DEF PublicGrantsHeld, TypeOK
    <2>3. CASE publicPermits' = Append(publicPermits, r)
      <3> DEFINE n == Len(publicPermits)
      <3>1. n \in Nat /\ DOMAIN publicPermits = 1..n /\ DOMAIN publicPermits' = 1..(n + 1)
            /\ \A i \in 1..n : publicPermits[i] \in Requests /\ publicPermits'[i] = publicPermits[i]
            /\ publicPermits'[n + 1] = r
        BY <2>3 DEF TypeOK
      <3>2. permit'[r] # NoPermit /\ \A i \in 1..n : publicPermits[i] # r
        BY <1>1, <2>1, <3>1 DEF PublicGrantsHeld, TypeOK
      <3>3. \A i \in 1..(n + 1) : i \in 1..n \/ i = n + 1
        BY <3>1
      <3> HIDE DEF n
      <3> QED
        BY <2>1, <3>1, <3>2, <3>3 DEF PublicGrantsHeld
    <2> QED
      BY <2>2, <2>3
  <1>5. MarksBelongToRequests'
    <2> SUFFICES ASSUME NEW g \in Generations
                 PROVE  /\ inflightClosed'[g] <= Cardinality(Holders(ClosedPermit(g))')
                        /\ g # generation' => inflightClosed'[g] = 0
      BY DEF MarksBelongToRequests, ClosedPermit
    <2>1. ClosedPermit(g) \in Permits /\ ClosedPermit(g) # ProbePermit(generation)
          /\ (ClosedPermit(g) = ClosedPermit(generation) => g = generation)
      BY DEF TypeOK, Permits, ClosedPermit, ProbePermit
    <2>2. inflightClosed[g] <= Cardinality(Holders(ClosedPermit(g)))
          /\ (g # generation => inflightClosed[g] = 0)
      BY DEF MarksBelongToRequests
    <2> QED
      BY <1>1, <1>2, <2>1, <2>2 DEF TypeOK
  <1>6. SlotsBelongToProbes'
    <2>1. ProbePermit(generation) \in Permits
          /\ ProbePermit(generation) # ClosedPermit(generation)
      BY DEF TypeOK, Permits, ClosedPermit, ProbePermit
    <2>2. halfOpenCount' <= Cardinality({s \in Requests : permit'[s] = ProbePermit(generation)})
      <3>1. CASE p = ProbePermit(generation)
        BY <1>1, <1>2, <2>1, <3>1 DEF SlotsBelongToProbes, TypeOK, Holders
      <3>2. CASE p = ClosedPermit(generation)
        BY <1>1, <1>2, <2>1, <3>2 DEF SlotsBelongToProbes, TypeOK, Holders
      <3> QED
        BY <1>1, <3>1, <3>2
    <2>3. {s \in Requests : permit'[s] = ProbePermit(generation')}
            = {s \in Requests : permit'[s] = ProbePermit(generation)}
      BY <1>1
    <2> QED
      BY <2>2, <2>3 DEF SlotsBelongToProbes, Holders, ProbePermit
  <1> QED
    BY <1>3, <1>4, <1>5, <1>6

\* Settling, on either path.
LEMMA SettleStep ==
  ASSUME IInv, NEW r \in Requests, ~Waiting(r), Report(permit[r]), GiveUp(r),
         \/ ~Public(r) /\ publicPermits' = publicPermits
         \/ /\ publicPermits # << >> /\ r = Head(publicPermits)
            /\ publicPermits' = Tail(publicPermits)
  PROVE  IInv'
  <1> USE BreakerAssumption, HorizonNat DEF IInv
  <1>1. PICK p \in Permits : permit[r] = p
    BY DEF TypeOK, Waiting
  <1>2. /\ BreakerTypeOK' /\ CountersMatchState' /\ FailureNotBeforeOpening'
        /\ MarkSettled(p) /\ SlotSettled(p) /\ generation' = generation
    BY <1>1, ReportShape DEF TypeOK, BreakerTypeOK, MarksBelongToRequests
  <1>3. permit' = [permit EXCEPT ![r] = NoPermit]
    BY DEF GiveUp
  <1>4. /\ Cardinality(Holders(p)) \in Nat \ {0}
        /\ Cardinality(Holders(p)') = Cardinality(Holders(p)) - 1
        /\ \A q \in Permits : q # p => Holders(q)' = Holders(q)
    BY <1>1, <1>3, GiveUpHolders DEF TypeOK
  <1>5. TypeOK'
    <2>1. publicPermits' \in Seq(Requests)
      BY DEF TypeOK
    <2> QED
      BY <1>2, <1>3, <2>1 DEF TypeOK, BreakerTypeOK
  <1>6. PublicGrantsHeld'
    <2>1. CASE ~Public(r) /\ publicPermits' = publicPermits
      BY <1>3, <2>1 DEF PublicGrantsHeld, Public, TypeOK
    <2>2. CASE /\ publicPermits # << >> /\ r = Head(publicPermits)
               /\ publicPermits' = Tail(publicPermits)
      <3> DEFINE n == Len(publicPermits)
      <3>1. n \in Nat \ {0} /\ DOMAIN publicPermits = 1..n /\ DOMAIN publicPermits' = 1..(n - 1)
            /\ publicPermits[1] = r
            /\ \A i \in 1..(n - 1) : /\ publicPermits[i + 1] \in Requests
                                     /\ publicPermits'[i] = publicPermits[i + 1]
        BY <2>2 DEF TypeOK
      <3>2. \A i \in 1..(n - 1) : /\ permit[publicPermits[i + 1]] # NoPermit
                                 /\ publicPermits[i + 1] # r
        BY <3>1 DEF PublicGrantsHeld
      <3>3. \A i, j \in 1..(n - 1) : publicPermits[i + 1] = publicPermits[j + 1] => i = j
        BY <3>1 DEF PublicGrantsHeld
      <3> HIDE DEF n
      <3>4. \A s \in Requests : s # r => permit'[s] = permit[s]
        BY <1>3 DEF TypeOK
      <3> QED
        BY <3>1, <3>2, <3>3, <3>4 DEF PublicGrantsHeld
    <2> QED
      BY <2>1, <2>2
  <1>7. MarksBelongToRequests'
    <2> SUFFICES ASSUME NEW g \in Generations
                 PROVE  /\ inflightClosed'[g] <= Cardinality(Holders(ClosedPermit(g))')
                        /\ g # generation' => inflightClosed'[g] = 0
      BY DEF MarksBelongToRequests, ClosedPermit
    <2>1. ClosedPermit(g) \in Permits
      BY DEF Permits, ClosedPermit
    <2>2. inflightClosed[g] <= Cardinality(Holders(ClosedPermit(g)))
          /\ (g # generation => inflightClosed[g] = 0)
          /\ inflightClosed[g] \in Nat
      BY DEF MarksBelongToRequests, TypeOK
    <2>3. p = ClosedPermit(g) <=> ~p.halfOpen /\ p.generation = g
      BY DEF Permits, ClosedPermit
    <2>4. p.generation \in Generations
      BY DEF Permits
    <2>5. CASE RetireInflightClosed(p.generation)
      <3>1. /\ p.generation = g => inflightClosed'[g] =
                   IF inflightClosed[g] > 0 THEN inflightClosed[g] - 1 ELSE 0
            /\ p.generation # g => inflightClosed'[g] = inflightClosed[g]
        BY <2>4, <2>5 DEF RetireInflightClosed, TypeOK
      <3>2. CASE p = ClosedPermit(g)
        BY <1>2, <1>4, <2>2, <2>3, <3>1, <3>2
      <3>3. CASE p # ClosedPermit(g)
        <4>1. Holders(ClosedPermit(g))' = Holders(ClosedPermit(g))
          BY <1>4, <2>1, <3>3
        <4>2. inflightClosed'[g] \in Nat /\ inflightClosed'[g] <= inflightClosed[g]
          BY <2>2, <3>1
        <4>3. Cardinality(Holders(ClosedPermit(g))) \in Nat
          <5>1. IsFiniteSet(Holders(ClosedPermit(g)))
            BY FS_Subset DEF Holders
          <5> QED
            BY <5>1, FS_CardinalityType
        <4> QED
          BY <1>2, <2>2, <4>1, <4>2, <4>3
      <3> QED
        BY <3>2, <3>3
    <2>6. CASE inflightClosed' = inflightClosed /\ (p.halfOpen \/ p.generation # generation)
      BY <1>2, <1>4, <2>1, <2>2, <2>3, <2>6
    <2> QED
      BY <1>2, <2>5, <2>6 DEF MarkSettled
  <1>8. SlotsBelongToProbes'
    <2>1. ProbePermit(generation) \in Permits /\ halfOpenCount \in Nat /\ halfOpenCount' \in Nat
      BY <1>5 DEF TypeOK, Permits, ProbePermit
    <2>2. halfOpenCount' <= Cardinality({s \in Requests : permit'[s] = ProbePermit(generation)})
      <3>1. CASE p = ProbePermit(generation)
        <4>1. IsFiniteSet({s \in Requests : permit'[s] = p})
          BY FS_Subset
        <4>2. Cardinality({s \in Requests : permit'[s] = p}) \in Nat
          BY <4>1, FS_CardinalityType
        <4>3. Cardinality({s \in Requests : permit'[s] = p})
                = Cardinality({s \in Requests : permit[s] = p}) - 1
          BY <1>4 DEF Holders
        <4>4. halfOpenCount <= Cardinality({s \in Requests : permit[s] = p})
          BY <3>1 DEF SlotsBelongToProbes, Holders
        <4> QED
          BY <1>2, <1>4, <2>1, <3>1, <4>2, <4>3, <4>4 DEF SlotSettled, Holders
      <3>2. CASE p # ProbePermit(generation)
        <4>1. Holders(ProbePermit(generation)) = {s \in Requests : permit'[s] = ProbePermit(generation)}
          BY <1>4, <2>1, <3>2 DEF Holders
        <4>2. halfOpenCount <= Cardinality(Holders(ProbePermit(generation)))
              /\ Cardinality(Holders(ProbePermit(generation))) \in Nat
          <5>1. IsFiniteSet(Holders(ProbePermit(generation)))
            BY FS_Subset DEF Holders
          <5> QED
            BY <5>1, FS_CardinalityType DEF SlotsBelongToProbes
        <4> QED
          BY <1>2, <2>1, <4>1, <4>2 DEF SlotSettled
      <3> QED
        BY <3>1, <3>2
    <2>3. {s \in Requests : permit'[s] = ProbePermit(generation')}
            = {s \in Requests : permit'[s] = ProbePermit(generation)}
      BY <1>2
    <2> QED
      BY <2>2, <2>3 DEF SlotsBelongToProbes, Holders, ProbePermit
  <1> QED
    BY <1>2, <1>5, <1>6, <1>7, <1>8

\* The steps that leave every permit as it is: time, the refusal of a stalled
\* trial, an external report and Reset.
LEMMA PermitFreeStep ==
  ASSUME IInv, permit' = permit, publicPermits' = publicPermits,
         Tick \/ RefuseStalledTrial \/ Reset \/ Report(SyntheticPermit)
  PROVE  IInv'
  <1> USE BreakerAssumption, HorizonNat DEF IInv
  <1>1. PublicGrantsHeld'
    BY DEF PublicGrantsHeld
  <1>2. /\ BreakerTypeOK' /\ CountersMatchState' /\ FailureNotBeforeOpening'
        /\ halfOpenCount' = 0 \/ (halfOpenCount' <= halfOpenCount /\ generation' = generation)
        /\ \A g \in Generations :
              /\ inflightClosed'[g] = 0 \/ inflightClosed'[g] <= inflightClosed[g]
              /\ inflightClosed[g] = 0 => inflightClosed'[g] = 0
        /\ generation' = generation \/ \A g \in Generations : inflightClosed'[g] = 0
    <2>1. CASE Tick
      BY <2>1 DEF Tick, Older, TypeOK, BreakerTypeOK, CountersMatchState,
         FailureNotBeforeOpening, counters
    <2>2. CASE RefuseStalledTrial
      BY <2>2 DEF RefuseStalledTrial, TransitionTo, TypeOK, BreakerTypeOK,
         CountersMatchState, FailureNotBeforeOpening
    <2>3. CASE Reset
      BY <2>3 DEF Reset, TypeOK, BreakerTypeOK, CountersMatchState,
         FailureNotBeforeOpening, Generations
    <2>4. CASE Report(SyntheticPermit)
      <3>1. SyntheticPermit \in Permits
        BY DEF SyntheticPermit, Permits, TypeOK
      <3>2. PICK p \in Permits : p = SyntheticPermit
        BY <3>1
      <3>3. /\ BreakerTypeOK' /\ CountersMatchState' /\ FailureNotBeforeOpening'
            /\ MarkSettled(p) /\ SlotSettled(p) /\ generation' = generation
        BY <2>4, <3>2, ReportShape DEF TypeOK, BreakerTypeOK, MarksBelongToRequests
      <3>4. p.generation \in Generations
        BY DEF Permits
      <3>5. \A g \in Generations :
              /\ inflightClosed'[g] <= inflightClosed[g]
              /\ inflightClosed[g] = 0 => inflightClosed'[g] = 0
        BY <3>3, <3>4 DEF MarkSettled, RetireInflightClosed, TypeOK
      <3> QED
        BY <3>3, <3>5 DEF SlotSettled
    <2> QED
      BY <2>1, <2>2, <2>3, <2>4
  <1>3. \A q \in Permits : Holders(q)' = Holders(q) /\ Cardinality(Holders(q)) \in Nat
    <2> TAKE q \in Permits
    <2>1. IsFiniteSet(Holders(q))
      BY FS_Subset DEF Holders
    <2> QED
      BY <2>1, FS_CardinalityType DEF Holders
  <1>4. MarksBelongToRequests'
    <2> SUFFICES ASSUME NEW g \in Generations
                 PROVE  /\ inflightClosed'[g] <= Cardinality(Holders(ClosedPermit(g))')
                        /\ g # generation' => inflightClosed'[g] = 0
      BY DEF MarksBelongToRequests, ClosedPermit
    <2>1. ClosedPermit(g) \in Permits
      BY DEF Permits, ClosedPermit
    <2>2. inflightClosed[g] \in Nat /\ inflightClosed'[g] \in Nat
      BY <1>2 DEF TypeOK, BreakerTypeOK
    <2> QED
      BY <1>2, <1>3, <2>1, <2>2 DEF MarksBelongToRequests
  <1>5. SlotsBelongToProbes'
    <2>1. /\ ProbePermit(generation) \in Permits /\ ProbePermit(generation') \in Permits
          /\ halfOpenCount \in Nat /\ halfOpenCount' \in Nat
      BY <1>2 DEF TypeOK, BreakerTypeOK, Permits, ProbePermit
    <2>2. halfOpenCount' <= Cardinality(Holders(ProbePermit(generation')))
      BY <1>2, <1>3, <2>1 DEF SlotsBelongToProbes
    <2>3. Holders(ProbePermit(generation')) = {s \in Requests : permit'[s] = ProbePermit(generation')}
      BY DEF Holders
    <2> QED
      BY <2>2, <2>3 DEF SlotsBelongToProbes, Holders, ProbePermit
  <1> QED
    BY <1>1, <1>2, <1>4, <1>5 DEF TypeOK, BreakerTypeOK

(***************************************************************************)
(* The theorems                                                            *)
(***************************************************************************)
LEMMA InitIInv == Init => IInv
  <1> SUFFICES ASSUME Init PROVE IInv
    OBVIOUS
  <1> USE BreakerAssumption, HorizonNat
  <1>1. TypeOK /\ CountersMatchState /\ PublicGrantsHeld /\ FailureNotBeforeOpening
    BY DEF Init, TypeOK, CountersMatchState, PublicGrantsHeld,
           FailureNotBeforeOpening, Generations
  <1>2. \A q \in Permits : Holders(q) = {}
    BY DEF Init, Holders
  <1>3. Cardinality({}) = 0
    BY FS_EmptySet
  <1>4. MarksBelongToRequests /\ SlotsBelongToProbes
    <2>1. /\ \A g \in Generations : Cardinality(Holders(ClosedPermit(g))) = 0
          /\ Cardinality(Holders(ProbePermit(generation))) = 0
      BY <1>1, <1>2, <1>3 DEF TypeOK, Permits, ClosedPermit, ProbePermit
    <2> QED
      BY <2>1 DEF MarksBelongToRequests, SlotsBelongToProbes, Init
  <1> QED
    BY <1>1, <1>4 DEF IInv

\* Every step of the breaker is of one of the three kinds above.
LEMMA NextIInv == IInv /\ [Next]_vars => IInv'
  <1> SUFFICES ASSUME IInv, [Next]_vars PROVE IInv'
    OBVIOUS
  <1>1. ASSUME NEW r \in Requests, Admit(r) PROVE IInv'
    BY <1>1, AdmitStep DEF Admit, Acquire, Allow
  <1>2. ASSUME NEW r \in Requests, Settle(r) PROVE IInv'
    BY <1>2, SettleStep DEF Settle, RecordSuccess, RecordFailure, ReleasePermit, Report
  <1>3. CASE Tick \/ RefuseStalledTrial \/ Reset
    BY <1>3, PermitFreeStep DEF Tick, RefuseStalledTrial, Reset
  <1>4. CASE PublicRecordSuccess \/ PublicRecordFailure
    <2> DEFINE r == Head(publicPermits)
    <2>1. r \in Requests /\ ~Waiting(r) /\ publicPermits # << >>
      <3>1. publicPermits # << >>
        BY <1>4 DEF PublicRecordSuccess, PublicRecordFailure, TakePublicPermit
      <3> QED
        BY <3>1 DEF IInv, TypeOK, PublicGrantsHeld, Waiting
    <2>2. Report(permit[r]) /\ GiveUp(r) /\ publicPermits' = Tail(publicPermits)
      BY <1>4 DEF PublicRecordSuccess, PublicRecordFailure, TakePublicPermit, Report
    <2>3. PICK s \in Requests : s = r
      BY <2>1
    <2> HIDE DEF r
    <2> QED
      BY <2>1, <2>2, <2>3, SettleStep DEF r
  <1>5. CASE ExternalSuccess \/ ExternalFailure
    <2>1. Report(SyntheticPermit) /\ UNCHANGED <<publicPermits, permit>>
      BY <1>5 DEF ExternalSuccess, ExternalFailure, NoGrantToMatch, Report
    <2> QED
      BY <2>1, PermitFreeStep DEF IInv, TypeOK
  <1>6. CASE UNCHANGED vars
    <2>1. \A p : Holders(p)' = Holders(p)
      BY <1>6 DEF Holders, vars
    <2> QED
      BY <1>6 DEF vars, breaker, counters, ages, IInv, TypeOK, CountersMatchState,
         PublicGrantsHeld, FailureNotBeforeOpening, MarksBelongToRequests,
         SlotsBelongToProbes, Holders, ClosedPermit, ProbePermit
  <1> QED
    BY <1>1, <1>2, <1>3, <1>4, <1>5, <1>6 DEF Next, PublicReport

LEMMA Invariance == Spec => []IInv
  BY InitIInv, NextIInv, PTL DEF Spec

\* The counters keep their types and limits, and match the state.
THEOREM Typing == Spec => [](TypeOK /\ CountersMatchState)
  <1>1. IInv => TypeOK /\ CountersMatchState
    BY DEF IInv
  <1> QED
    BY <1>1, Invariance, PTL

\* No closed-state mark outlives its request or its generation: hence what
\* holds off a trial (acquireLocked) is always a request still in flight.
LEMMA MarksSafe == Spec => []MarksBelongToRequests
  <1>1. IInv => MarksBelongToRequests
    BY DEF IInv
  <1> QED
    BY <1>1, Invariance, PTL

\* No probe slot outlives its probe: hence what exhausts a trial is always a
\* probe still in flight.
LEMMA SlotsSafe == Spec => []SlotsBelongToProbes
  <1>1. IInv => SlotsBelongToProbes
    BY DEF IInv
  <1> QED
    BY <1>1, Invariance, PTL

\* What acquireLocked waits for is in flight, be it a mark that holds off the trial or a
\* slot that the trial has given out.
THEOREM NothingIsLeaked == Spec => []NothingOutlivesItsRequest
  BY MarksSafe, SlotsSafe, PTL DEF NothingOutlivesItsRequest

\* However the breaker came to be open, it admits nobody before resetTimeout:
\* a failure reported while open only postpones the trial (recordFailureLocked),
\* and a stalled trial counts from the moment it is put back.
THEOREM OpenLasts == Spec => OpenLastsResetTimeout
  <1>1. IInv /\ [Next]_vars
          => [state = "open" /\ state' = "halfOpen" => sinceChange >= ResetTimeout]_vars
    <2> SUFFICES ASSUME IInv, Next, state = "open", state' = "halfOpen"
                 PROVE  sinceChange >= ResetTimeout
      OBVIOUS
    <2> USE DEF IInv
    <2>1. ASSUME NEW r \in Requests, Admit(r) PROVE sinceChange >= ResetTimeout
      <3>1. sinceFailure >= ResetTimeout
        BY <2>1 DEF Admit, Acquire, Allow, AcquireLocked, AdmitClosed,
           AdmitFirstProbe, AdmitProbe
      <3> QED
        BY <3>1, BreakerAssumption, HorizonNat DEF FailureNotBeforeOpening, TypeOK
    <2>2. \A p : Report(p) => state' # "halfOpen"
      BY DEF Report, RecordSuccessLocked, RecordFailureLocked, ReleaseLocked,
         SucceedClosed, SucceedProbe, RetireOnly, NoSlotLeft, StalePermit,
         FailClosed, FailProbe, FailStaleClosed, FailOpen, TransitionTo
    <2>3. \A r \in Requests : ~Settle(r)
      BY <2>2 DEF Settle, RecordSuccess, RecordFailure, ReleasePermit, Report
    <2>4. ~PublicReport
      BY <2>2 DEF PublicReport, PublicRecordSuccess, PublicRecordFailure,
         ExternalSuccess, ExternalFailure, TakePublicPermit, NoGrantToMatch, Report
    <2>5. ~Tick /\ ~RefuseStalledTrial /\ ~Reset
      BY DEF Tick, RefuseStalledTrial, TransitionTo, Reset
    <2> QED
      BY <2>1, <2>3, <2>4, <2>5 DEF Next
  <1> QED
    BY <1>1, Invariance, PTL DEF Spec, OpenLastsResetTimeout

\* What a report with a permit from before a Reset leaves of the breaker.
LEMMA LateReport ==
  ASSUME IInv, NEW p \in Permits, p.generation < generation, Report(p)
  PROVE  /\ inflightClosed' = inflightClosed
         /\ failures' >= failures
         /\ state' = "closed" => state = "closed"
         /\ state' = "halfOpen" => halfOpenCount' = halfOpenCount
         /\ state' # state => ~p.halfOpen
  <1> USE BreakerAssumption DEF IInv
  <1>1. p.halfOpen \in BOOLEAN /\ p.generation \in Generations /\ LateAfterReset(p)
    BY DEF Permits, Generations, TypeOK, LateAfterReset
  <1>2. RetireInflightClosed(p.generation) => inflightClosed' = inflightClosed
    <2>1. inflightClosed[p.generation] = 0
      BY <1>1 DEF MarksBelongToRequests, LateAfterReset
    <2> QED
      BY <1>1, <2>1 DEF RetireInflightClosed, TypeOK
  <1>3. CASE RecordSuccessLocked(p)
    BY <1>1, <1>3 DEF RecordSuccessLocked, TypeOK, counters
  <1>4. CASE RecordFailureLocked(p)
    BY <1>1, <1>2, <1>4 DEF RecordFailureLocked, StalePermit, FailClosed, FailProbe,
       FailStaleClosed, FailOpen, NoSlotLeft, TransitionTo, TypeOK, counters
  <1>5. CASE ReleaseLocked(p)
    BY <1>1, <1>2, <1>5 DEF ReleaseLocked, TypeOK
  <1> QED
    BY <1>3, <1>4, <1>5 DEF Report

\* A request admitted before a Reset takes nothing from the fresh breaker
\* (recordSuccessLocked, stalePermitLocked, releasePermit and Reset together).
THEOREM ResetIsolates == Spec => PreResetRequestTakesNothing
  <1>1. IInv /\ [Next]_vars
          => [\A r \in Requests :
                /\ permit[r] # NoPermit
                /\ permit'[r] = NoPermit
                /\ permit[r].generation < generation
                => /\ inflightClosed' = inflightClosed
                   /\ failures' >= failures
                   /\ state' = "closed" => state = "closed"
                   /\ state' = "halfOpen" => halfOpenCount' = halfOpenCount
                   /\ state' # state => ~permit[r].halfOpen]_vars
    <2> SUFFICES ASSUME IInv, Next, NEW r \in Requests, permit[r] # NoPermit,
                        permit'[r] = NoPermit, permit[r].generation < generation
                 PROVE  /\ inflightClosed' = inflightClosed
                        /\ failures' >= failures
                        /\ state' = "closed" => state = "closed"
                        /\ state' = "halfOpen" => halfOpenCount' = halfOpenCount
                        /\ state' # state => ~permit[r].halfOpen
      BY DEF vars
    <2>1. PICK p \in Permits : p = permit[r]
      BY DEF IInv, TypeOK
    <2>2. Report(p)
      <3> USE DEF IInv, TypeOK
      <3>1. ASSUME NEW s \in Requests, Settle(s) PROVE s = r
        BY <3>1 DEF Settle, RecordSuccess, RecordFailure, ReleasePermit, GiveUp
      <3>2. ASSUME NEW s \in Requests PROVE ~Admit(s)
        BY BreakerAssumption DEF Admit, Acquire, Allow, AcquireLocked, Waiting, AdmitClosed,
           AdmitFirstProbe, AdmitProbe, Permits, ClosedPermit, ProbePermit
      <3>3. ~Tick /\ ~RefuseStalledTrial /\ ~Reset /\ ~ExternalSuccess /\ ~ExternalFailure
        BY DEF Tick, RefuseStalledTrial, Reset, ExternalSuccess, ExternalFailure, NoGrantToMatch
      <3>4. CASE PublicRecordSuccess \/ PublicRecordFailure
        <4>1. Head(publicPermits) \in Requests
          BY <3>4 DEF PublicRecordSuccess, PublicRecordFailure, TakePublicPermit
        <4>2. Head(publicPermits) = r
          BY <3>4, <4>1 DEF PublicRecordSuccess, PublicRecordFailure, TakePublicPermit, GiveUp
        <4> QED
          BY <2>1, <3>4, <4>2 DEF PublicRecordSuccess, PublicRecordFailure, TakePublicPermit, Report
      <3>5. CASE Settle(r)
        BY <2>1, <3>5 DEF Settle, RecordSuccess, RecordFailure, ReleasePermit, Report
      <3> QED
        BY <3>1, <3>2, <3>3, <3>4, <3>5 DEF Next, PublicReport
    <2> QED
      BY <2>1, <2>2, LateReport
  <1> QED
    BY <1>1, Invariance, PTL DEF Spec, PreResetRequestTakesNothing
=============================================================================
