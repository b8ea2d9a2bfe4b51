------------------------ MODULE ResilientClientProofs ------------------------
(***************************************************************************)
(* The retry loops of ResilientClient settle every permit, for any number  *)
(* of calls and streams, of attempts and every configuration of the        *)
(* breaker; and what they do to the breaker is what its module says, so    *)
(* that the theorems about the breaker hold of the composition.  Then the  *)
(* other loop that asks until there is an answer: waiting for a video.     *)
(***************************************************************************)
EXTENDS ResilientClient, VideoJobs, TLAPS

TypeOK ==
    /\ permit \in [Requests -> Breaker!Permits \cup {NoPermit}]
    /\ generation = 0
    /\ publicPermits = <<>>
    /\ pc \in [Requests -> {"acquire", "provider", "streaming", "backoff", "done"}]
    /\ attempt \in [Requests -> 0..MaxAttempts]
    /\ reports \in [Requests -> Nat]
    /\ result \in [Requests -> {"none", "ok", "error", "canceled", "circuitOpen",
                                "circuitOpenAfterError"}]

\* A call that has not returned has reported nothing and may try again.
RetriesAreEarned ==
    \A r \in Requests :
        /\ pc[r] # "done" <=> result[r] = "none"
        /\ pc[r] # "done" => reports[r] = 0
        /\ pc[r] \in {"acquire", "backoff"} => attempt[r] < MaxAttempts

IInv == TypeOK /\ RetriesAreEarned /\ PermitHeldWhileWorking /\ OneReportPerCall

-----------------------------------------------------------------------------
(* What a call does to the breaker.                                        *)

\* A granted permit.
LEMMA AcquireShape ==
    ASSUME TypeOK, NEW r \in Requests, Breaker!Acquire(r)
    PROVE  /\ \E p \in Breaker!Permits : permit' = [permit EXCEPT ![r] = p]
           /\ generation' = 0 /\ publicPermits' = <<>>
           /\ state' = state \/ state' = "halfOpen"
  <1>1. Breaker!ClosedPermit(generation) \in Breaker!Permits /\ Breaker!ProbePermit(generation) \in Breaker!Permits
    BY DEF TypeOK, Breaker!ClosedPermit, Breaker!ProbePermit, Breaker!Permits, Breaker!Generations, MaxResets
  <1> QED
    BY <1>1 DEF TypeOK, Breaker!Acquire, Breaker!AcquireLocked, Breaker!AdmitClosed, Breaker!AdmitFirstProbe,
       Breaker!AdmitProbe, Breaker!TransitionTo, Breaker!breaker, Breaker!counters

\* A settled permit.  Only the report of a failure opens the breaker.
LEMMA SettleShape ==
    ASSUME TypeOK, NEW r \in Requests,
           Breaker!RecordSuccess(r) \/ Breaker!RecordFailure(r) \/ Breaker!ReleasePermit(r)
    PROVE  /\ permit' = [permit EXCEPT ![r] = NoPermit]
           /\ generation' = 0 /\ publicPermits' = <<>>
           /\ Breaker!RecordSuccess(r) \/ Breaker!ReleasePermit(r) =>
                state' # "open" \/ state = "open"
  BY DEF TypeOK, Breaker!RecordSuccess, Breaker!RecordFailure, Breaker!ReleasePermit, Breaker!GiveUp,
     Breaker!RecordSuccessLocked, Breaker!RecordFailureLocked, Breaker!ReleaseLocked, Breaker!SucceedClosed,
     Breaker!SucceedProbe, Breaker!RetireOnly, Breaker!TransitionTo

LEMMA InitIInv == Init => IInv
  <1> SUFFICES ASSUME Init PROVE IInv
    OBVIOUS
  <1>1. TypeOK
    BY ClientAssumption DEF Init, TypeOK, Breaker!Init
  <1>2. PermitHeldWhileWorking
    BY DEF Init, PermitHeldWhileWorking, Breaker!Init
  <1>3. RetriesAreEarned /\ OneReportPerCall
    BY ClientAssumption DEF Init, RetriesAreEarned, OneReportPerCall
  <1> QED
    BY <1>1, <1>2, <1>3 DEF IInv

LEMMA NextIInv == IInv /\ [Next]_vars => IInv'
  <1> SUFFICES ASSUME IInv, [Next]_vars PROVE IInv'
    OBVIOUS
  <1> USE DEF IInv
  <1>1. ASSUME NEW r \in Requests, Attempt(r) PROVE IInv'
    <2>1. PICK p \in Breaker!Permits : permit' = [permit EXCEPT ![r] = p]
      BY <1>1, AcquireShape DEF Attempt
    <2>2. p # NoPermit
      BY ClientAssumption DEF Breaker!Permits, Breaker!Generations
    <2>3. /\ generation' = 0 /\ publicPermits' = <<>>
          /\ pc[r] = "acquire" /\ pc' = [pc EXCEPT ![r] = "provider"]
          /\ attempt' = [attempt EXCEPT ![r] = @ + 1]
          /\ UNCHANGED <<reports, result>>
      BY <1>1, AcquireShape DEF Attempt, Goto
    <2>4. TypeOK'
      BY <2>1, <2>3, ClientAssumption DEF TypeOK, RetriesAreEarned
    <2>5. PermitHeldWhileWorking'
      BY <2>1, <2>2, <2>3 DEF TypeOK, PermitHeldWhileWorking
    <2>6. RetriesAreEarned' /\ OneReportPerCall'
      BY <2>3 DEF TypeOK, RetriesAreEarned, OneReportPerCall
    <2> QED
      BY <2>4, <2>5, <2>6
  <1>2. ASSUME NEW r \in Requests, NEW v \in {"canceled", "circuitOpen", "circuitOpenAfterError"},
               pc[r] \in {"acquire", "backoff"}, Return(r, v),
               UNCHANGED <<permit, generation, publicPermits, attempt, reports>>
        PROVE  IInv'
    BY <1>2 DEF TypeOK, RetriesAreEarned, PermitHeldWhileWorking, OneReportPerCall, Return, Goto
  <1>3. ASSUME NEW r \in Requests, Refused(r) PROVE IInv'
    <2>1. UNCHANGED <<permit, generation, publicPermits>>
      BY <1>3 DEF Refused, breaker, Breaker!RefuseStalledTrial
    <2> QED
      BY <1>2, <1>3, <2>1 DEF Refused
  <1>4. ASSUME NEW r \in Requests, CancelBackOff(r) PROVE IInv'
    BY <1>2, <1>4 DEF CancelBackOff, breaker
  <1>5. ASSUME NEW r \in Requests, pc[r] \in {"provider", "streaming"},
               permit' = [permit EXCEPT ![r] = NoPermit], generation' = 0, publicPermits' = <<>>,
               UNCHANGED attempt,
               \/ Return(r, "ok") /\ Reported(r)
               \/ Return(r, "error") /\ (Reported(r) \/ UNCHANGED reports)
               \/ pc[r] = "provider" /\ ~LastAttempt(r) /\ Goto(r, "backoff") /\ UNCHANGED <<reports, result>>
        PROVE  IInv'
    <2>1. TypeOK'
      <3>1. permit' \in [Requests -> Breaker!Permits \cup {NoPermit}]
        BY <1>5 DEF TypeOK
      <3>2. pc' \in [Requests -> {"acquire", "provider", "streaming", "backoff", "done"}]
        BY <1>5 DEF TypeOK, Return, Goto
      <3>3. reports' \in [Requests -> Nat]
        BY <1>5 DEF TypeOK, Reported
      <3>4. result' \in [Requests -> {"none", "ok", "error", "canceled", "circuitOpen",
                                      "circuitOpenAfterError"}]
        BY <1>5 DEF TypeOK, Return
      <3> QED
        BY <1>5, <3>1, <3>2, <3>3, <3>4 DEF TypeOK
    <2>2. PermitHeldWhileWorking'
      BY <1>5 DEF TypeOK, PermitHeldWhileWorking, Return, Goto
    <2>3. RetriesAreEarned'
      BY <1>5, ClientAssumption DEF TypeOK, RetriesAreEarned, Return, Reported, Goto, LastAttempt
    <2>4. OneReportPerCall'
      BY <1>5 DEF TypeOK, RetriesAreEarned, OneReportPerCall, Return, Reported, Goto
    <2> QED
      BY <2>1, <2>2, <2>3, <2>4
  <1>6. ASSUME NEW r \in Requests, Succeed(r) PROVE IInv'
    BY <1>5, <1>6, SettleShape DEF Succeed
  <1>7. ASSUME NEW r \in Requests, NEW err \in Errors, BackOff(r, err) PROVE IInv'
    BY <1>5, <1>7, SettleShape DEF BackOff
  <1>8. ASSUME NEW r \in Requests, NEW err \in Errors, GiveUp(r, err) PROVE IInv'
    BY <1>5, <1>8, SettleShape DEF GiveUp, SettleError
  <1>9. ASSUME NEW r \in Requests, FinalizeStream(r) PROVE IInv'
    BY <1>5, <1>9, SettleShape DEF FinalizeStream, SettleError
  <1>10. ASSUME NEW r \in Requests, OpenStream(r) PROVE IInv'
    BY <1>10 DEF OpenStream, Goto, breaker, TypeOK, RetriesAreEarned, PermitHeldWhileWorking, OneReportPerCall
  <1>11. ASSUME NEW r \in Requests, Retry(r) PROVE IInv'
    BY <1>11 DEF Retry, Goto, breaker, TypeOK, RetriesAreEarned, PermitHeldWhileWorking, OneReportPerCall
  <1>12. CASE Tick \/ UNCHANGED vars
    BY <1>12 DEF Tick, Breaker!Tick, vars, call, breaker, TypeOK, RetriesAreEarned, PermitHeldWhileWorking,
       OneReportPerCall
  <1> QED
    BY <1>1, <1>3, <1>4, <1>6, <1>7, <1>8, <1>9, <1>10, <1>11, <1>12 DEF Next, Work

LEMMA Invariance == SafeSpec => []IInv
  BY InitIInv, NextIInv, PTL DEF SafeSpec

-----------------------------------------------------------------------------
(* The theorems.                                                           *)

\* CallsSettleOnce: every way out of an attempt settles its permit, and no permit or probe
\* slot is held over a backoff; a call is one piece of evidence to the breaker, however often
\* it was tried, and none if it was refused or canceled (execute and Stream of resilience.go).
THEOREM CallsAlwaysSettleOnce == SafeSpec => []CallsSettleOnce
  <1>1. IInv => CallsSettleOnce
    BY DEF IInv, CallsSettleOnce
  <1> QED
    BY <1>1, Invariance, PTL

\* OpensOnFinalEvidence: the error of an attempt that is retried never opens the breaker.
THEOREM FinalEvidence == SafeSpec => OpensOnFinalEvidence
  <1>1. IInv /\ [Next]_vars =>
          [state # "open" /\ state' = "open"
             => \/ \E r \in Requests : reports'[r] > reports[r] /\ result'[r] = "error"
                \/ state = "halfOpen" /\ sinceChange >= HalfOpenTimeout]_vars
    <2> SUFFICES ASSUME IInv, Next, state # "open", state' = "open",
                        ~(state = "halfOpen" /\ sinceChange >= HalfOpenTimeout)
                 PROVE  \E r \in Requests : reports'[r] > reports[r] /\ result'[r] = "error"
      OBVIOUS
    <2> USE DEF IInv
    <2>1. ASSUME NEW r \in Requests, Reported(r), Return(r, "error")
          PROVE  reports'[r] > reports[r] /\ result'[r] = "error"
      BY <2>1 DEF Reported, Return, TypeOK
    <2>2. ASSUME NEW r \in Requests, NEW unhealthy \in BOOLEAN, SettleError(r, unhealthy)
          PROVE  Reported(r)
      BY <2>2, SettleShape DEF SettleError
    <2>3. ASSUME NEW r \in Requests, Work(r) \/ CancelBackOff(r)
          PROVE  Reported(r) /\ Return(r, "error")
      <3>1. ~Attempt(r)
        BY AcquireShape DEF Attempt
      <3>2. ~Refused(r)
        BY DEF Refused, Breaker!RefuseStalledTrial, breaker
      <3>3. ~Succeed(r)
        BY SettleShape DEF Succeed
      <3>4. ASSUME NEW err \in Errors PROVE ~BackOff(r, err)
        BY SettleShape DEF BackOff
      <3>5. ~OpenStream(r) /\ ~Retry(r) /\ ~CancelBackOff(r)
        BY DEF OpenStream, Retry, CancelBackOff, breaker
      <3>6. ASSUME NEW err \in Errors, GiveUp(r, err) PROVE Reported(r) /\ Return(r, "error")
        BY <2>2, <3>6 DEF GiveUp, Errors
      <3>7. CASE FinalizeStream(r)
        BY <2>2, <3>7, SettleShape DEF FinalizeStream
      <3> QED
        BY <2>3, <3>1, <3>2, <3>3, <3>4, <3>5, <3>6, <3>7 DEF Work
    <2>4. ~Tick
      BY DEF Tick, Breaker!Tick
    <2> QED
      BY <2>1, <2>3, <2>4 DEF Next
  <1> QED
    BY <1>1, Invariance, PTL DEF SafeSpec, OpensOnFinalEvidence

\* The composition drives the breaker only through its operations: each step of a call
\* is a step of CircuitBreaker or leaves it alone.  What that module's theorems say of
\* marks, slots and resets holds of the resilient client too.
THEOREM DrivesTheBreaker == SafeSpec => Breaker!Spec
  <1>1. Init => Breaker!Init
    BY DEF Init
  <1>2. [Next]_vars => [Breaker!Next]_Breaker!vars
    <2> SUFFICES ASSUME [Next]_vars PROVE [Breaker!Next]_Breaker!vars
      OBVIOUS
    <2>0. breaker' = breaker => UNCHANGED Breaker!vars
      BY DEF breaker, Breaker!vars, Breaker!breaker, Breaker!counters, Breaker!ages
    <2>1. ASSUME NEW r \in Requests,
                 \/ Breaker!Acquire(r) \/ Breaker!RefuseStalledTrial
                 \/ Breaker!RecordSuccess(r) \/ Breaker!RecordFailure(r) \/ Breaker!ReleasePermit(r)
          PROVE  Breaker!Next
      BY <2>1 DEF Breaker!Next, Breaker!Admit, Breaker!Settle
    <2>2. ASSUME NEW r \in Requests, Work(r) \/ CancelBackOff(r)
          PROVE  Breaker!Next \/ breaker' = breaker
      BY <2>1, <2>2 DEF Work, CancelBackOff, Attempt, Refused, Succeed, OpenStream, BackOff, GiveUp, Retry,
         FinalizeStream, SettleError
    <2>3. CASE Tick
      BY <2>3 DEF Tick, Breaker!Next
    <2>4. CASE UNCHANGED vars
      BY <2>0, <2>4 DEF vars
    <2> QED
      BY <2>0, <2>2, <2>3, <2>4 DEF Next
  <1> QED
    BY <1>1, <1>2, PTL DEF SafeSpec, Breaker!Spec

-----------------------------------------------------------------------------
(* The breaker's own theorems, for the breaker of the composition.  Proved *)
(* is a second instance of the same module, with its proofs; that the two  *)
(* have the same steps is seen by expanding both.                          *)

Proved == INSTANCE CircuitBreakerProofs

LEMMA BreakerConstants == Proved!BreakerAssumption
  <1>1. MaxResets \in Nat /\ NoPermit \notin Proved!Permits
    BY ClientAssumption DEF Proved!Permits, Proved!Generations, MaxResets
  <1>2. PublicApi \in BOOLEAN
    BY Zenon DEF PublicApi
  <1> QED
    BY <1>1, <1>2, ClientAssumption, Zenon
       DEF Proved!BreakerAssumption, Proved!IsFiniteSet, IsFiniteSet

LEMMA SameBreaker == Breaker!Spec => Proved!Spec
  <1>1. Breaker!Init => Proved!Init
    BY Zenon DEF Breaker!Init, Proved!Init, Breaker!Generations, Proved!Generations,
       Breaker!Horizon, Proved!Horizon
  <1>2. [Breaker!Next]_Breaker!vars => [Proved!Next]_Proved!vars
    BY Zenon DEF Breaker!Next, Proved!Next, Breaker!Tick, Proved!Tick, Breaker!Older,
       Proved!Older, Breaker!Horizon, Proved!Horizon, Breaker!counters, Proved!counters,
       Breaker!Admit, Proved!Admit, Breaker!Acquire, Proved!Acquire, Breaker!AcquireLocked,
       Proved!AcquireLocked, Breaker!Waiting, Proved!Waiting, Breaker!AdmitClosed,
       Proved!AdmitClosed, Breaker!ClosedPermit, Proved!ClosedPermit, Breaker!ages, Proved!ages,
       Breaker!AdmitFirstProbe, Proved!AdmitFirstProbe, Breaker!HasInflightClosed,
       Proved!HasInflightClosed, Breaker!Generations, Proved!Generations, Breaker!TransitionTo,
       Proved!TransitionTo, Breaker!ProbePermit, Proved!ProbePermit, Breaker!AdmitProbe,
       Proved!AdmitProbe, Breaker!Allow, Proved!Allow, Breaker!Settle, Proved!Settle,
       Breaker!RecordSuccess, Proved!RecordSuccess, Breaker!Public, Proved!Public,
       Breaker!RecordSuccessLocked, Proved!RecordSuccessLocked, Breaker!LateAfterReset,
       Proved!LateAfterReset, Breaker!NoSlotLeft, Proved!NoSlotLeft, Breaker!SucceedClosed,
       Proved!SucceedClosed, Breaker!RetireInflightClosed, Proved!RetireInflightClosed,
       Breaker!SucceedProbe, Proved!SucceedProbe, Breaker!RetireOnly, Proved!RetireOnly,
       Breaker!GiveUp, Proved!GiveUp, Breaker!RecordFailure, Proved!RecordFailure,
       Breaker!RecordFailureLocked, Proved!RecordFailureLocked, Breaker!StalePermit,
       Proved!StalePermit, Breaker!FailClosed, Proved!FailClosed, Breaker!FailProbe,
       Proved!FailProbe, Breaker!FailStaleClosed, Proved!FailStaleClosed, Breaker!FailOpen,
       Proved!FailOpen, Breaker!ReleasePermit, Proved!ReleasePermit, Breaker!ReleaseLocked,
       Proved!ReleaseLocked, Breaker!RefuseStalledTrial, Proved!RefuseStalledTrial,
       Breaker!PublicReport, Proved!PublicReport, Breaker!PublicRecordSuccess,
       Proved!PublicRecordSuccess, Breaker!TakePublicPermit, Proved!TakePublicPermit,
       Breaker!PublicRecordFailure, Proved!PublicRecordFailure, Breaker!ExternalSuccess,
       Proved!ExternalSuccess, Breaker!SyntheticPermit, Proved!SyntheticPermit,
       Breaker!NoGrantToMatch, Proved!NoGrantToMatch, Breaker!ExternalFailure,
       Proved!ExternalFailure, Breaker!Reset, Proved!Reset, Breaker!vars, Proved!vars,
       Breaker!breaker, Proved!breaker
  <1> QED
    BY <1>1, <1>2, PTL DEF Breaker!Spec, Proved!Spec

\* Whatever calls, streams and attempts there are, the retry loops leave the breaker's
\* counters, marks and probe slots as the breaker's invariants have them: no mark and no
\* slot is left without a call that holds it (execute and Stream of resilience.go).
THEOREM BreakerStaysSound ==
    SafeSpec => [](/\ Breaker!CountersMatchState
                   /\ Breaker!MarksBelongToRequests
                   /\ Breaker!SlotsBelongToProbes)
  <1>1. Proved!Spec => [](/\ Proved!CountersMatchState
                         /\ Proved!MarksBelongToRequests
                         /\ Proved!SlotsBelongToProbes)
    BY BreakerConstants, Proved!Typing, Proved!MarksSafe, Proved!SlotsSafe, PTL
  <1>2. /\ Proved!CountersMatchState => Breaker!CountersMatchState
        /\ Proved!MarksBelongToRequests => Breaker!MarksBelongToRequests
        /\ Proved!SlotsBelongToProbes => Breaker!SlotsBelongToProbes
    BY Zenon DEF Breaker!MarksBelongToRequests, Proved!MarksBelongToRequests,
       Breaker!Generations, Proved!Generations, Breaker!Holders, Proved!Holders,
       Breaker!ClosedPermit, Proved!ClosedPermit, Breaker!SlotsBelongToProbes,
       Proved!SlotsBelongToProbes, Breaker!ProbePermit, Proved!ProbePermit,
       Breaker!CountersMatchState, Proved!CountersMatchState, Breaker!Cardinality,
       Proved!Cardinality
  <1> QED
    BY <1>1, <1>2, DrivesTheBreaker, SameBreaker, PTL

-----------------------------------------------------------------------------
(* Video jobs.                                                             *)

FilmStates == {"none", "pending", "in_progress", "completed", "failed", "cancelled", "strange", "expired"}
Films == [state : FilmStates, moderated : BOOLEAN, assets : BOOLEAN, paid : BOOLEAN, ran : BOOLEAN]
WaitStates == {"idle", "start", "locking", "asking", "heard", "result", "fetching", "done"}
Answers == {"", "video", "failed", "cancelled", "moderated", "left", "timeout", "error"}
StageNames == {"", "input", "output"}
WaitRecords == [at : WaitStates, heard : Films, answer : Answers, seconds : Int, stage : StageNames, charged : BOOLEAN]

\* What a job of service s can be.
FilmOK(f, s) ==
    /\ f \in Films
    /\ f.state = "none" => f = NoFilm
    /\ f.paid => f.moderated
    /\ f.moderated => f.state = "failed" /\ s \notin {"togetherai", "zai"}
    /\ f.assets => f.state \in {"completed", "expired"}
    /\ f.state = "in_progress" => f.ran
    /\ f.state = "cancelled" => s \in {"openrouter", "togetherai"}
    /\ f.state = "strange" => s # "gemini"
    /\ f.state = "pending" => s \notin {"zai", "gemini"}

\* What was heard as f may be g by now.
Earlier(f, g) ==
    \/ f.state = "none"
    \/ f.state \in {"pending", "in_progress"} /\ g.state # "none" /\ (f.ran => g.ran)
    \/ f.state = "completed" /\ g.state \in {"completed", "expired"} /\ (f.assets <=> g.assets)
    \/ g = f

\* Gemini's first terminal operation decides every wait.
KeptAnswer(k) ==
    IF k.state = "completed" /\ k.assets THEN "video"
    ELSE IF k.state = "failed" /\ k.moderated THEN "moderated" ELSE "failed"

DoneOK(a, w, f, k, l, t, s) ==
    /\ a.answer = "video" => f.assets /\ a.heard.state = "completed"
    /\ a.answer = "moderated" => f.moderated /\ (a.stage = "output" => f.ran \/ s \in {"openai", "gemini"})
    /\ a.charged => f.paid
    /\ a.answer = "cancelled" => f.state = "cancelled"
    /\ a.answer = "failed" => f.state \notin {"pending", "in_progress"} /\ ~f.moderated
    /\ a.answer = "left" => w \in l
    /\ a.answer = "timeout" => w \in t \ l
    /\ s = "gemini" /\ a.answer \in {"video", "failed", "moderated"} => k.state # "none" /\ a.answer = KeptAnswer(k)

WaitOK(a, w, f, k, h, l, t, s) ==
    /\ FilmOK(a.heard, s) /\ Earlier(a.heard, f)
    /\ a.at # "idle" => f.state # "none"
    /\ a.at \in {"heard", "result", "fetching"} => a.heard.state # "none"
    /\ a.at # "done" => a.answer = "" /\ ~a.charged
    /\ a.at \in {"result", "fetching"} => a.heard.state = "completed" /\ (s = "gemini" => a.heard.assets)
    /\ s = "gemini" /\ a.at = "asking" => h = w /\ k.state = "none"
    /\ s = "gemini" /\ a.heard.state \notin {"none", "in_progress"} => a.heard = k
    /\ a.at = "done" => DoneOK(a, w, f, k, l, t, s)

OrderOK ==
    /\ film.state # "none" => order \in Orders /\ Accepts(order[1], order[2])
    /\ order \in Orders \cup {<<>>}

VideoInv ==
    /\ service \in Services /\ OrderOK
    /\ FilmOK(film, service) /\ FilmOK(kept, service) /\ Earlier(kept, film)
    /\ watched \in BOOLEAN /\ (watched => film.ran)
    /\ waits \in [Waiters -> WaitRecords]
    /\ \A w \in Waiters : WaitOK(waits[w], w, film, kept, holder, left, late, service)
    /\ \A w \in Waiters : waits[w].answer = "video" => waits[w].seconds \in {0, Rendered}

LEMMA SameRendered ==
  ASSUME UNCHANGED <<service, order>>
  PROVE  Rendered' = Rendered /\ (OrderOK /\ UNCHANGED film => OrderOK')
  BY DEF Rendered, Wire, WireSeconds, OpenAISeconds, GeminiSeconds, EffectiveSeconds, FlowSeconds, OrderOK,
         Accepts, OpenAIAccepts, OpenRouterAccepts, TogetherAccepts, ZaiAccepts, GeminiAccepts, FlowAccepts,
         ImageAccepts, DefaultSeconds

\* What the SDK's words for a job say of it.
LEMMA StatusFacts ==
  ASSUME service \in Services, NEW f, FilmOK(f, service), f.state # "none"
  PROVE  /\ Status(f) \in {"queued", "running", "succeeded", "failed", "cancelled", "moderated"}
         /\ Status(f) = "succeeded" => f.state = "completed" /\ (service = "gemini" => f.assets)
         /\ Status(f) = "moderated" => f.moderated /\ f.state = "failed"
         /\ Status(f) = "cancelled" => f.state = "cancelled"
         /\ Status(f) = "failed" => f.state \notin {"pending", "in_progress"} /\ ~f.moderated
         /\ service = "gemini" =>
              /\ Status(f) \in TerminalStates <=> f.state # "in_progress"
              /\ Status(f) \in {"failed", "moderated"} => Status(f) = KeptAnswer(f)
              /\ Status(f) # "cancelled"
  <1> USE DEF FilmOK, Films, FilmStates, Failure
  <1>1. CASE service = "openai"
    BY <1>1 DEF Status, OpenAIStatus
  <1>2. CASE service = "openrouter"
    BY <1>2 DEF Status, OpenRouterStatus, OpenAIStatus
  <1>3. CASE service = "togetherai"
    BY <1>3 DEF Status, TogetherStatus
  <1>4. CASE service = "zai"
    BY <1>4 DEF Status, ZaiStatus
  <1>5. CASE service = "gemini"
    BY <1>5 DEF Status, OperationStatus, KeptAnswer, TerminalStates
  <1>6. CASE service \in Flows
    BY <1>6 DEF Status, FlowStatus, OpenAIStatus, Flows
  <1> QED
    BY <1>1, <1>2, <1>3, <1>4, <1>5, <1>6 DEF Services, Flows

LEMMA NothingFilmed ==
  ASSUME NEW s
  PROVE  FilmOK(NoFilm, s) /\ NoFilm \in Films /\ NoFilm.state = "none"
  BY DEF FilmOK, NoFilm, Films, FilmStates

\* The service goes on: what was true of the job stays true.
LEMMA GoFacts ==
  ASSUME service \in Services, FilmOK(film, service), Go
  PROVE  /\ FilmOK(film', service) /\ film.state # "none" /\ film'.state # "none"
         /\ (film.ran => film'.ran) /\ (film.assets => film'.assets)
         /\ (film.moderated => film'.moderated) /\ (film.paid => film'.paid)
         /\ film.state # "cancelled"
         /\ film.state \notin {"pending", "in_progress"} =>
              film'.state \notin {"pending", "in_progress"} /\ (~film.moderated => ~film'.moderated)
         /\ \A f : FilmOK(f, service) /\ Earlier(f, film) => Earlier(f, film')
  <1>0. film \in Films /\ (film.paid => film.moderated) /\ (film.moderated => film.state = "failed")
        /\ (film.assets => film.state \in {"completed", "expired"})
    BY DEF FilmOK
  <1>1. CASE film.state = "pending" /\ film' = [film EXCEPT !.state = "in_progress", !.ran = TRUE]
    BY <1>0, <1>1 DEF FilmOK, Films, FilmStates, Earlier, Services
  <1>2. ASSUME film.state = "in_progress", NEW a \in BOOLEAN, film' = [film EXCEPT !.state = "completed", !.assets = a]
        PROVE  /\ FilmOK(film', service) /\ film.ran /\ film'.ran /\ film'.state = "completed"
               /\ \A f : FilmOK(f, service) /\ Earlier(f, film) => Earlier(f, film')
    BY <1>0, <1>2 DEF FilmOK, Films, FilmStates, Earlier
  <1>3. ASSUME film.state \in {"pending", "in_progress"}, NEW m \in BOOLEAN, NEW p \in BOOLEAN,
               m => service \notin {"togetherai", "zai"}, p => m,
               film' = [film EXCEPT !.state = "failed", !.moderated = m, !.paid = p]
        PROVE  /\ FilmOK(film', service) /\ film'.state = "failed" /\ (film.ran => film'.ran)
               /\ \A f : FilmOK(f, service) /\ Earlier(f, film) => Earlier(f, film')
    BY <1>0, <1>3 DEF FilmOK, Films, FilmStates, Earlier
  <1>4. CASE /\ film.state \in {"pending", "in_progress"} /\ service \in {"openrouter", "togetherai"}
             /\ film' = [film EXCEPT !.state = "cancelled"]
    BY <1>0, <1>4 DEF FilmOK, Films, FilmStates, Earlier
  <1>5. CASE film.state = "in_progress" /\ service # "gemini" /\ film' = [film EXCEPT !.state = "strange"]
    BY <1>0, <1>5 DEF FilmOK, Films, FilmStates, Earlier
  <1>6. CASE /\ film.state = "completed" /\ service \in {"openrouter", "gemini"}
             /\ film' = [film EXCEPT !.state = "expired"]
    BY <1>0, <1>6 DEF FilmOK, Films, FilmStates, Earlier
  <1>7. CASE film.state = "in_progress" /\ \E a \in BOOLEAN : film' = [film EXCEPT !.state = "completed", !.assets = a]
    BY <1>0, <1>2, <1>7
  <1>8. CASE /\ film.state \in {"pending", "in_progress"}
             /\ \E m, p \in BOOLEAN :
                /\ m => service \notin {"togetherai", "zai"}
                /\ p => m /\ service = "openrouter"
                /\ film' = [film EXCEPT !.state = "failed", !.moderated = m, !.paid = p]
    BY <1>0, <1>3, <1>8
  <1> QED
    BY <1>1, <1>4, <1>5, <1>6, <1>7, <1>8 DEF Go

LEMMA GoKeepsJobs ==
  ASSUME VideoInv, Go
  PROVE  VideoInv'
  <1>1. /\ UNCHANGED <<service, order, watched, kept, holder, waits, left, late>>
        /\ service \in Services /\ FilmOK(film, service)
    BY DEF Go, VideoInv
  <1>2. /\ FilmOK(film', service) /\ film.state # "none" /\ film'.state # "none"
        /\ (film.ran => film'.ran) /\ (film.assets => film'.assets)
        /\ (film.moderated => film'.moderated) /\ (film.paid => film'.paid)
        /\ film.state # "cancelled"
        /\ film.state \notin {"pending", "in_progress"} =>
             film'.state \notin {"pending", "in_progress"} /\ (~film.moderated => ~film'.moderated)
        /\ \A f : FilmOK(f, service) /\ Earlier(f, film) => Earlier(f, film')
    BY <1>1, GoFacts
  <1>3. ASSUME NEW w \in Waiters
        PROVE  WaitOK(waits[w], w, film', kept, holder, left, late, service)
    <2>1. WaitOK(waits[w], w, film, kept, holder, left, late, service)
      BY DEF VideoInv
    <2>2. Earlier(waits[w].heard, film')
      BY <1>2, <2>1 DEF WaitOK
    <2>3. waits[w].at = "done" => DoneOK(waits[w], w, film', kept, left, late, service)
      BY <1>2, <2>1 DEF WaitOK, DoneOK
    <2> QED
      BY <1>2, <2>1, <2>2, <2>3 DEF WaitOK
  <1>4. OrderOK' /\ Rendered' = Rendered
    <2>1. OrderOK /\ Rendered' = Rendered
      BY <1>1, SameRendered DEF VideoInv
    <2> QED
      BY <1>1, <1>2, <2>1 DEF OrderOK, Accepts, OpenAIAccepts, OpenRouterAccepts, TogetherAccepts, ZaiAccepts,
         GeminiAccepts, FlowAccepts, ImageAccepts, EffectiveSeconds, GeminiSeconds, FlowSeconds
  <1> QED
    BY <1>1, <1>2, <1>3, <1>4 DEF VideoInv

\* A step of one wait.
LEMMA OneWait ==
  ASSUME VideoInv, NEW w \in Waiters, NEW new \in WaitRecords, waits' = [waits EXCEPT ![w] = new],
         UNCHANGED <<service, order, film, kept, left, late>>,
         watched' \in BOOLEAN, watched' => film.ran,
         WaitOK(new, w, film, kept, holder', left, late, service),
         \A v \in Waiters \ {w} : service = "gemini" /\ waits[v].at = "asking" => holder' = v,
         new.answer = "video" => new.seconds \in {0, Rendered}
  PROVE  VideoInv'
  <1>1. waits' \in [Waiters -> WaitRecords] /\ waits'[w] = new /\ \A v \in Waiters \ {w} : waits'[v] = waits[v]
    BY DEF VideoInv
  <1>2. ASSUME NEW v \in Waiters PROVE WaitOK(waits'[v], v, film, kept, holder', left, late, service)
    <2>1. CASE v = w
      BY <1>1, <2>1
    <2>2. CASE v # w
      BY <1>1, <2>2 DEF VideoInv, WaitOK
    <2> QED
      BY <2>1, <2>2
  <1>3. Rendered' = Rendered /\ OrderOK'
    BY SameRendered DEF VideoInv
  <1>4. ASSUME NEW v \in Waiters PROVE waits'[v].answer = "video" => waits'[v].seconds \in {0, Rendered}
    BY <1>1 DEF VideoInv
  <1> QED
    BY <1>1, <1>2, <1>3, <1>4 DEF VideoInv

\* A wait that moves on, and one that ends without news of the job.
LEMMA MoveKeepsJobs ==
  ASSUME VideoInv, NEW w \in Waiters, NEW at \in {"start", "locking"}, Moves(w, at),
         waits[w].at \in {"idle", "start", "heard"}, film.state # "none",
         UNCHANGED <<service, order, film, kept, left, late, holder>>,
         watched' \in BOOLEAN, watched' => film.ran
  PROVE  VideoInv'
  <1> DEFINE new == [waits[w] EXCEPT !.at = at]
  <1>1. waits[w] \in WaitRecords /\ WaitOK(waits[w], w, film, kept, holder, left, late, service)
        /\ (waits[w].answer = "video" => waits[w].seconds \in {0, Rendered})
        /\ \A v \in Waiters : service = "gemini" /\ waits[v].at = "asking" => holder = v
    BY DEF VideoInv, WaitOK
  <1>2. /\ new \in WaitRecords /\ new.at = at /\ new.heard = waits[w].heard /\ new.answer = waits[w].answer
        /\ (new.charged <=> waits[w].charged) /\ new.seconds = waits[w].seconds
    BY <1>1 DEF WaitRecords, WaitStates, Answers
  <1>3. waits' = [waits EXCEPT ![w] = new]
    BY <1>1 DEF Moves, VideoInv
  <1> HIDE DEF new
  <1>4. WaitOK(new, w, film, kept, holder', left, late, service)
    BY <1>1, <1>2 DEF WaitOK
  <1> QED
    BY <1>1, <1>2, <1>3, <1>4, OneWait

LEMMA EndKeepsJobs ==
  ASSUME VideoInv, NEW w \in Waiters, NEW answer \in {"left", "timeout", "error"}, AnsweredWait(w, answer),
         waits[w].at \in {"start", "asking", "heard", "result", "fetching"},
         answer = "left" => w \in left, answer = "timeout" => w \in late \ left,
         UNCHANGED <<service, order, film, kept, left, late>>,
         \A v \in Waiters \ {w} : service = "gemini" /\ waits[v].at = "asking" => holder' = v,
         watched' \in BOOLEAN, watched' => film.ran
  PROVE  VideoInv'
  <1> DEFINE new == [waits[w] EXCEPT !.at = "done", !.answer = answer]
  <1>1. waits[w] \in WaitRecords /\ WaitOK(waits[w], w, film, kept, holder, left, late, service)
    BY DEF VideoInv
  <1>2. /\ new \in WaitRecords /\ new.at = "done" /\ new.heard = waits[w].heard /\ new.answer = answer
        /\ (new.charged <=> waits[w].charged)
    BY <1>1 DEF WaitRecords, WaitStates, Answers
  <1>3. waits' = [waits EXCEPT ![w] = new]
    BY <1>1 DEF AnsweredWait, VideoInv
  <1> HIDE DEF new
  <1>4. DoneOK(new, w, film, kept, left, late, service)
    BY <1>1, <1>2 DEF WaitOK, DoneOK
  <1>5. WaitOK(new, w, film, kept, holder', left, late, service)
    BY <1>1, <1>2, <1>4 DEF WaitOK
  <1> QED
    BY <1>2, <1>3, <1>5, OneWait

LEMMA GivesUpKeepsJobs ==
  ASSUME VideoInv, NEW w \in Waiters, w \in left \cup late, GivesUp(w),
         waits[w].at \in {"start", "asking", "heard"},
         UNCHANGED <<service, order, film, kept, left, late>>,
         \A v \in Waiters \ {w} : service = "gemini" /\ waits[v].at = "asking" => holder' = v,
         watched' \in BOOLEAN, watched' => film.ran
  PROVE  VideoInv'
  <1>1. CASE w \in left
    <2>1. AnsweredWait(w, "left")
      BY <1>1 DEF GivesUp
    <2> QED
      BY <1>1, <2>1, EndKeepsJobs
  <1>2. CASE w \notin left
    <2>1. AnsweredWait(w, "timeout")
      BY <1>2 DEF GivesUp
    <2> QED
      BY <1>2, <2>1, EndKeepsJobs
  <1> QED
    BY <1>1, <1>2

LEMMA Asking ==
  ASSUME VideoInv
  PROVE  /\ \A v \in Waiters : service = "gemini" /\ waits[v].at = "asking" => holder = v
         /\ watched \in BOOLEAN /\ (watched => film.ran)
         /\ \A w \in Waiters : /\ waits[w].at # "idle" => film.state # "none"
                               /\ waits[w] \in WaitRecords /\ WaitOK(waits[w], w, film, kept, holder, left, late, service)
         /\ service \in Services /\ FilmOK(film, service) /\ FilmOK(kept, service)
         /\ (kept = NoFilm <=> kept.state = "none") /\ (film = NoFilm <=> film.state = "none")
  BY NothingFilmed DEF VideoInv, WaitOK, FilmOK

LEMMA WaitKeepsJobs ==
  ASSUME VideoInv, NEW w \in Waiters, Wait(w) \/ Ask(w)
  PROVE  VideoInv'
  <1>1. CASE Wait(w)
    BY <1>1, Asking, MoveKeepsJobs DEF Wait
  <1>2. CASE Ask(w) /\ w \in left \cup late
    BY <1>2, Asking, GivesUpKeepsJobs DEF Ask
  <1>3. CASE Ask(w) /\ w \notin left \cup late /\ service = "gemini"
    BY <1>3, Asking, MoveKeepsJobs DEF Ask
  <1>4. CASE Ask(w) /\ w \notin left \cup late /\ service # "gemini"
    <2> DEFINE new == [waits[w] EXCEPT !.at = "asking"]
    <2>1. waits[w] \in WaitRecords /\ WaitOK(waits[w], w, film, kept, holder, left, late, service)
          /\ waits[w].at = "start" /\ holder' = holder /\ watched' = watched
      BY <1>4, Asking DEF Ask
    <2>2. /\ new \in WaitRecords /\ new.at = "asking" /\ new.heard = waits[w].heard /\ new.answer = waits[w].answer
          /\ (new.charged <=> waits[w].charged)
      BY <2>1 DEF WaitRecords, WaitStates, Answers
    <2>3. waits' = [waits EXCEPT ![w] = new]
      BY <1>4 DEF Ask, Moves, VideoInv
    <2> HIDE DEF new
    <2>4. WaitOK(new, w, film, kept, holder', left, late, service) /\ new.answer # "video"
      BY <1>4, <2>1, <2>2 DEF WaitOK
    <2>5. UNCHANGED <<service, order, film, kept, left, late>>
      BY <1>4 DEF Ask
    <2> QED
      BY <1>4, <2>1, <2>2, <2>3, <2>4, <2>5, Asking, OneWait
  <1> QED
    BY <1>1, <1>2, <1>3, <1>4

LEMMA LockKeepsJobs ==
  ASSUME VideoInv, NEW w \in Waiters, Lock(w)
  PROVE  VideoInv'
  <1>1. waits[w] \in WaitRecords /\ WaitOK(waits[w], w, film, kept, holder, left, late, service)
        /\ waits[w].at = "locking" /\ holder = 0 /\ watched' = watched
        /\ UNCHANGED <<service, order, film, kept, left, late>> /\ FilmOK(kept, service) /\ Earlier(kept, film)
    BY Asking DEF Lock, VideoInv
  <1>2. \A v \in Waiters : ~(service = "gemini" /\ waits[v].at = "asking")
    BY <1>1, Asking, VideoAssumption
  <1>3. CASE kept # NoFilm
    <2> DEFINE new == [waits[w] EXCEPT !.at = "heard", !.heard = kept]
    <2>1. kept \in Films /\ kept.state # "none"
      BY <1>1, <1>3, Asking DEF FilmOK
    <2>2. /\ new \in WaitRecords /\ new.at = "heard" /\ new.heard = kept /\ new.answer = waits[w].answer
          /\ (new.charged <=> waits[w].charged)
      BY <1>1, <2>1 DEF WaitRecords, WaitStates, Answers
    <2>3. waits' = [waits EXCEPT ![w] = new]
      BY <1>3 DEF Lock, VideoInv
    <2> HIDE DEF new
    <2>4. WaitOK(new, w, film, kept, holder', left, late, service) /\ new.answer # "video"
      BY <1>1, <2>1, <2>2 DEF WaitOK
    <2> QED
      BY <1>1, <1>2, <2>2, <2>3, <2>4, Asking, OneWait
  <1>4. CASE kept = NoFilm
    <2> DEFINE new == [waits[w] EXCEPT !.at = "asking"]
    <2>2. /\ new \in WaitRecords /\ new.at = "asking" /\ new.heard = waits[w].heard /\ new.answer = waits[w].answer
          /\ (new.charged <=> waits[w].charged)
      BY <1>1 DEF WaitRecords, WaitStates, Answers
    <2>3. waits' = [waits EXCEPT ![w] = new] /\ holder' = w
      BY <1>4 DEF Lock, Moves, VideoInv
    <2> HIDE DEF new
    <2>4. WaitOK(new, w, film, kept, holder', left, late, service) /\ new.answer # "video"
      BY <1>1, <1>4, <2>2, <2>3, NothingFilmed DEF WaitOK
    <2> QED
      BY <1>1, <1>2, <2>2, <2>3, <2>4, Asking, OneWait
  <1> QED
    BY <1>3, <1>4

LEMMA ServeKeepsJobs ==
  ASSUME VideoInv, NEW w \in Waiters, Serve(w)
  PROVE  VideoInv'
  <1> DEFINE new == [waits[w] EXCEPT !.at = "heard", !.heard = film]
  <1>1. waits[w] \in WaitRecords /\ WaitOK(waits[w], w, film, kept, holder, left, late, service)
        /\ waits[w].at = "asking" /\ watched' = watched /\ film.state # "none" /\ film \in Films
        /\ UNCHANGED <<service, order, film, left, late>> /\ FilmOK(kept, service) /\ FilmOK(film, service)
        /\ service \in Services /\ holder' = (IF holder = w THEN 0 ELSE holder)
    BY Asking DEF Serve, Unlock, FilmOK
  <1>2. /\ new \in WaitRecords /\ new.at = "heard" /\ new.heard = film /\ new.answer = waits[w].answer
        /\ (new.charged <=> waits[w].charged)
    BY <1>1 DEF WaitRecords, WaitStates
  <1>3. waits' = [waits EXCEPT ![w] = new] /\ waits \in [Waiters -> WaitRecords]
    BY DEF Serve, VideoInv
  <1> HIDE DEF new
  <1>4. waits' \in [Waiters -> WaitRecords] /\ waits'[w] = new /\ \A v \in Waiters \ {w} : waits'[v] = waits[v]
    BY <1>2, <1>3
  <1>5. FilmOK(kept', service) /\ Earlier(kept', film)
    BY <1>1 DEF Serve, VideoInv, Earlier
  <1>6. service = "gemini" =>
          /\ kept.state = "none" /\ holder = w
          /\ film.state # "in_progress" => kept' = film
          /\ film.state = "in_progress" => kept' = kept
    BY <1>1, StatusFacts DEF Serve, WaitOK
  <1>7. service # "gemini" => kept' = kept
    BY <1>1 DEF Serve
  <1>8. ASSUME NEW v \in Waiters PROVE WaitOK(waits'[v], v, film, kept', holder', left, late, service)
    <2>1. CASE v = w
      <3>1. WaitOK(new, w, film, kept', holder', left, late, service)
        BY <1>1, <1>2, <1>6 DEF WaitOK, Earlier
      <3> QED
        BY <3>1, <1>4, <2>1
    <2>2. CASE v # w /\ service # "gemini"
      BY <1>4, <1>7, <2>2 DEF VideoInv, WaitOK, DoneOK
    <2>3. CASE v # w /\ service = "gemini"
      <3>1. WaitOK(waits[v], v, film, kept, holder, left, late, service) /\ kept.state = "none" /\ holder = w
        BY <1>6, <2>3 DEF VideoInv
      <3>2. waits[v].at # "asking" /\ waits[v].heard.state \in {"none", "in_progress"}
        BY <3>1, <2>3 DEF WaitOK
      <3>3. waits[v].at = "done" => DoneOK(waits[v], v, film, kept', left, late, service)
        BY <3>1, <2>3 DEF WaitOK, DoneOK
      <3> QED
        BY <3>1, <3>2, <3>3, <1>4, <2>3 DEF WaitOK
    <2> QED
      BY <2>1, <2>2, <2>3
  <1>9. Rendered' = Rendered /\ OrderOK'
    BY <1>1, SameRendered DEF VideoInv
  <1>10. ASSUME NEW v \in Waiters PROVE waits'[v].answer = "video" => waits'[v].seconds \in {0, Rendered}
    BY <1>1, <1>2, <1>4 DEF VideoInv, WaitOK
  <1> QED
    BY <1>1, <1>4, <1>5, <1>8, <1>9, <1>10 DEF VideoInv

LEMMA AskFailsKeepsJobs ==
  ASSUME VideoInv, NEW w \in Waiters, AskFails(w)
  PROVE  VideoInv'
  <1>1. /\ waits[w].at = "asking" /\ watched' = watched /\ UNCHANGED <<service, order, film, kept, left, late>>
        /\ holder' = (IF holder = w THEN 0 ELSE holder)
    BY DEF AskFails, Unlock
  <1>2. \A v \in Waiters \ {w} : service = "gemini" /\ waits[v].at = "asking" => holder' = v
    BY <1>1, Asking
  <1>3. CASE w \in left \cup late
    BY <1>1, <1>2, <1>3, Asking, GivesUpKeepsJobs DEF AskFails
  <1>4. CASE w \notin left \cup late
    BY <1>1, <1>2, <1>4, Asking, EndKeepsJobs DEF AskFails
  <1> QED
    BY <1>3, <1>4

\* What is told of a job is what was heard of it.
LEMMA ToldKeepsJobs ==
  ASSUME VideoInv, NEW w \in Waiters, waits[w].at = "heard", NEW stage \in StageNames, NEW charged \in BOOLEAN,
         Status(waits[w].heard) \in TerminalStates \ {"succeeded"},
         charged => Status(waits[w].heard) = "moderated" /\ waits[w].heard.paid,
         stage = "output" => film.ran \/ service \in {"openai", "gemini"},
         waits' = [waits EXCEPT ![w] = [waits[w] EXCEPT !.at = "done", !.answer = Status(waits[w].heard),
                                                        !.stage = stage, !.charged = charged]],
         UNCHANGED <<service, order, film, kept, holder, left, late>>,
         watched' \in BOOLEAN, watched' => film.ran
  PROVE  VideoInv'
  <1> DEFINE f == waits[w].heard
             status == Status(f)
             new == [waits[w] EXCEPT !.at = "done", !.answer = status, !.stage = stage, !.charged = charged]
  <1>1. /\ waits[w] \in WaitRecords /\ WaitOK(waits[w], w, film, kept, holder, left, late, service)
        /\ service \in Services /\ FilmOK(film, service)
    BY Asking
  <1>2. FilmOK(f, service) /\ f.state # "none" /\ Earlier(f, film) /\ f \in Films
        /\ (service = "gemini" /\ f.state # "in_progress" => f = kept)
    BY <1>1 DEF WaitOK, FilmOK
  <1>3. /\ status \in {"failed", "cancelled", "moderated"}
        /\ status = "moderated" => f.moderated /\ f.state = "failed"
        /\ status = "cancelled" => f.state = "cancelled"
        /\ status = "failed" => f.state \notin {"pending", "in_progress"} /\ ~f.moderated
        /\ service = "gemini" => f.state # "in_progress" /\ (status \in {"failed", "moderated"} => status = KeptAnswer(f))
    BY <1>1, <1>2, StatusFacts DEF TerminalStates
  <1> HIDE DEF status
  <1>4. /\ new \in WaitRecords /\ new.at = "done" /\ new.heard = f /\ new.answer = status
        /\ new.stage = stage /\ (new.charged <=> charged)
    <2>1. status \in Answers
      BY <1>3 DEF Answers
    <2> QED
      BY <1>1, <2>1 DEF WaitRecords, WaitStates
  <1>5. waits' = [waits EXCEPT ![w] = new]
    BY DEF status
  <1>5a. charged => f.paid /\ f.moderated /\ f.state = "failed"
    BY <1>2, <1>3 DEF FilmOK, status
  <1> HIDE DEF new, f
  <1>6. /\ status = "moderated" => film.moderated
        /\ charged => film.paid
        /\ status = "cancelled" => film.state = "cancelled"
        /\ status = "failed" => film.state \notin {"pending", "in_progress"} /\ ~film.moderated
    BY <1>1, <1>2, <1>3, <1>5a DEF Earlier, FilmOK, Films, FilmStates
  <1>7. DoneOK(new, w, film, kept, left, late, service)
    BY <1>2, <1>3, <1>4, <1>6 DEF DoneOK
  <1>8. WaitOK(new, w, film, kept, holder', left, late, service) /\ new.answer # "video"
    BY <1>1, <1>2, <1>3, <1>4, <1>7 DEF WaitOK
  <1> QED
    <2>1. \A v \in Waiters \ {w} : service = "gemini" /\ waits[v].at = "asking" => holder' = v
      BY Asking
    <2> QED
      BY <2>1, <1>4, <1>5, <1>8, OneWait

LEMMA HearKeepsJobs ==
  ASSUME VideoInv, NEW w \in Waiters, HearPoll(w)
  PROVE  VideoInv'
  <1> DEFINE f == waits[w].heard
             seen == watched \/ f.state = "in_progress"
             status == Status(f)
             stage == IF status = "moderated" THEN Stage(seen) ELSE ""
             charged == status = "moderated" /\ f.paid
  <1>1. /\ waits[w] \in WaitRecords /\ WaitOK(waits[w], w, film, kept, holder, left, late, service)
        /\ service \in Services /\ FilmOK(film, service) /\ waits[w].at = "heard"
        /\ UNCHANGED <<service, order, film, kept, holder, left, late>> /\ (watched' <=> seen)
        /\ (watched => film.ran) /\ watched' \in BOOLEAN
    BY Asking DEF HearPoll
  <1>2. FilmOK(f, service) /\ f.state # "none" /\ Earlier(f, film) /\ f \in Films
    BY <1>1 DEF WaitOK, FilmOK
  <1>3. watched' => film.ran
    BY <1>1, <1>2 DEF FilmOK, Earlier
  <1>4. status = "succeeded" => f.state = "completed" /\ (service = "gemini" => f.assets)
    BY <1>1, <1>2, StatusFacts
  <1>5. CASE status = "succeeded" /\ Moves(w, "result")
    <2> DEFINE new == [waits[w] EXCEPT !.at = "result"]
    <2>2. /\ new \in WaitRecords /\ new.at = "result" /\ new.heard = waits[w].heard /\ new.answer = waits[w].answer
          /\ (new.charged <=> waits[w].charged)
      BY <1>1 DEF WaitRecords, WaitStates
    <2>3. waits' = [waits EXCEPT ![w] = new]
      BY <1>5 DEF Moves, VideoInv
    <2> HIDE DEF new, status
    <2>4. WaitOK(new, w, film, kept, holder', left, late, service) /\ new.answer # "video"
      BY <1>1, <1>4, <1>5, <2>2 DEF WaitOK
    <2> QED
      BY <1>1, <1>3, <2>2, <2>3, <2>4, Asking, OneWait
  <1>6. CASE /\ status \in TerminalStates /\ status # "succeeded"
             /\ waits' = [waits EXCEPT ![w] = [waits[w] EXCEPT !.at = "done", !.answer = status,
                                                               !.stage = stage, !.charged = charged]]
    <2>1. stage \in StageNames /\ charged \in BOOLEAN /\ (charged => status = "moderated" /\ f.paid)
      BY DEF Stage, StageNames
    <2>2. stage = "output" => film.ran \/ service \in {"openai", "gemini"}
      BY <1>1, <1>3 DEF Stage
    <2> HIDE DEF stage, charged
    <2> QED
      BY <1>1, <1>3, <1>6, <2>1, <2>2, ToldKeepsJobs
  <1>7. CASE AnsweredWait(w, "error")
    BY <1>1, <1>3, <1>7, Asking, EndKeepsJobs
  <1>8. CASE w \in left \cup late /\ GivesUp(w)
    BY <1>1, <1>3, <1>8, Asking, GivesUpKeepsJobs
  <1>9. CASE Moves(w, "start")
    BY <1>1, <1>3, <1>9, Asking, MoveKeepsJobs
  <1> QED
    BY <1>5, <1>6, <1>7, <1>8, <1>9 DEF HearPoll

LEMMA ResultKeepsJobs ==
  ASSUME VideoInv, NEW w \in Waiters, Result(w)
  PROVE  VideoInv'
  <1>1. /\ waits[w].at = "result" /\ watched' = watched /\ UNCHANGED <<service, order, film, kept, holder, left, late>>
        /\ waits[w] \in WaitRecords /\ WaitOK(waits[w], w, film, kept, holder, left, late, service)
    BY Asking DEF Result
  <1>2. CASE w \in left
    BY <1>1, <1>2, Asking, EndKeepsJobs DEF Result
  <1>3. CASE w \notin left
    <2> DEFINE new == [waits[w] EXCEPT !.at = "fetching"]
    <2>2. /\ new \in WaitRecords /\ new.at = "fetching" /\ new.heard = waits[w].heard /\ new.answer = waits[w].answer
          /\ (new.charged <=> waits[w].charged)
      BY <1>1 DEF WaitRecords, WaitStates
    <2>3. waits' = [waits EXCEPT ![w] = new]
      BY <1>3 DEF Result, Moves, VideoInv
    <2> HIDE DEF new
    <2>4. WaitOK(new, w, film, kept, holder', left, late, service) /\ new.answer # "video"
      BY <1>1, <2>2 DEF WaitOK
    <2> QED
      BY <1>1, <2>2, <2>3, <2>4, Asking, OneWait
  <1> QED
    BY <1>2, <1>3

\* The seconds are integers, and those on the wire are unknown or the ones rendered.
LEMMA SecondsFacts ==
  ASSUME VideoInv, film.state # "none"
  PROVE  Wire \in Int /\ Rendered \in Int /\ Wire \in {0, Rendered} /\ DefaultSeconds \in Int
         /\ (Wire = 0 => Rendered = DefaultSeconds)
  <1>1. order[1] \in Int /\ order[2] \in Int
    BY VideoAssumption DEF VideoInv, OrderOK
  <1>2. Wire \in Int
    BY <1>1 DEF Wire, WireSeconds, OpenAISeconds, GeminiSeconds, EffectiveSeconds, FlowSeconds
  <1> QED
    BY <1>2 DEF Rendered, DefaultSeconds

LEMMA FetchedFacts ==
  ASSUME VideoInv, NEW w \in Waiters, waits[w].at = "fetching", NEW reported \in BOOLEAN
  PROVE  /\ Fetched(w, reported).answer \in {"video", "failed", "error"}
         /\ Fetched(w, reported).seconds \in Int
         /\ Fetched(w, reported).answer = "video" => /\ film.assets
                                                     /\ Fetched(w, reported).seconds \in {0, Rendered}
         /\ service = "gemini" => Fetched(w, reported).answer = "video"
  <1>1. /\ WaitOK(waits[w], w, film, kept, holder, left, late, service) /\ service \in Services
        /\ FilmOK(film, service) /\ FilmOK(kept, service) /\ film.state # "none"
    BY Asking
  <1>2. /\ waits[w].heard.state = "completed" /\ (service = "gemini" => waits[w].heard.assets)
        /\ (service = "gemini" => waits[w].heard = kept) /\ (waits[w].heard.assets => film.assets)
    BY <1>1 DEF WaitOK, Earlier
  <1>3. Wire \in Int /\ Rendered \in Int /\ Wire \in {0, Rendered} /\ DefaultSeconds \in Int
        /\ (Wire = 0 => Rendered = DefaultSeconds)
    BY <1>1, SecondsFacts
  <1> USE DEF IfThere, Video, NoVideo, Fetched
  <1>4. CASE service = "openai"
    BY <1>3, <1>4 DEF OpenAIResult
  <1>5. CASE service = "openrouter"
    BY <1>3, <1>5 DEF OpenRouterResult
  <1>6. CASE service = "togetherai"
    BY <1>3, <1>6 DEF TogetherResult
  <1>7. CASE service = "zai"
    BY <1>3, <1>7 DEF ZaiResult
  <1>8. CASE service = "gemini"
    <2>1. OperationStatus(kept) = "succeeded"
      BY <1>2, <1>8 DEF OperationStatus
    <2> QED
      BY <1>2, <1>3, <1>8, <2>1 DEF GeminiResult
  <1>9. CASE service = "elevenlabs"
    BY <1>3, <1>9 DEF FlowResult
  <1>10. CASE service = "flow"
    BY <1>2, <1>3, <1>10 DEF ImageResult
  <1> QED
    BY <1>1, <1>4, <1>5, <1>6, <1>7, <1>8, <1>9, <1>10 DEF Services

LEMMA FetchKeepsJobs ==
  ASSUME VideoInv, NEW w \in Waiters, Fetch(w)
  PROVE  VideoInv'
  <1>1. /\ waits[w].at = "fetching" /\ watched' = watched /\ UNCHANGED <<service, order, film, kept, holder, left, late>>
        /\ waits[w] \in WaitRecords /\ WaitOK(waits[w], w, film, kept, holder, left, late, service)
        /\ FilmOK(film, service)
    BY Asking DEF Fetch
  <1>2. CASE AnsweredWait(w, IF w \in left THEN "left" ELSE "error")
    <2>1. CASE w \in left
      BY <1>1, <1>2, <2>1, Asking, EndKeepsJobs
    <2>2. CASE w \notin left
      BY <1>1, <1>2, <2>2, Asking, EndKeepsJobs
    <2> QED
      BY <2>1, <2>2
  <1>3. ASSUME NEW reported \in BOOLEAN,
               waits' = [waits EXCEPT ![w].at = "done", ![w].answer = Fetched(w, reported).answer,
                                      ![w].seconds = Fetched(w, reported).seconds]
        PROVE  VideoInv'
    <2> DEFINE r == Fetched(w, reported)
               new == [waits[w] EXCEPT !.at = "done", !.answer = r.answer, !.seconds = r.seconds]
    <2>1. /\ r.answer \in {"video", "failed", "error"} /\ r.seconds \in Int
          /\ r.answer = "video" => film.assets /\ r.seconds \in {0, Rendered}
          /\ service = "gemini" => r.answer = "video"
      BY <1>1, FetchedFacts
    <2>2. waits' = [waits EXCEPT ![w] = new]
      BY <1>1, <1>3 DEF VideoInv
    <2> HIDE DEF r
    <2>3. /\ new \in WaitRecords /\ new.at = "done" /\ new.heard = waits[w].heard /\ new.answer = r.answer
          /\ (new.charged <=> waits[w].charged) /\ new.seconds = r.seconds
      BY <1>1, <2>1 DEF WaitRecords, WaitStates, Answers
    <2> HIDE DEF new
    <2>4. /\ waits[w].heard.state = "completed" /\ film.state \in {"completed", "expired"} /\ ~film.moderated
          /\ service = "gemini" => kept = waits[w].heard /\ kept.assets
      BY <1>1 DEF WaitOK, Earlier, FilmOK
    <2>5. DoneOK(new, w, film, kept, left, late, service)
      BY <1>1, <2>1, <2>3, <2>4 DEF DoneOK, WaitOK, KeptAnswer
    <2>6. WaitOK(new, w, film, kept, holder', left, late, service)
      BY <1>1, <2>1, <2>3, <2>5 DEF WaitOK
    <2> QED
      BY <1>1, <2>1, <2>2, <2>3, <2>6, Asking, OneWait
  <1> QED
    BY <1>2, <1>3 DEF Fetch

LEMMA LeavingKeepsJobs ==
  ASSUME VideoInv, NEW w \in Waiters, CallerLeaves(w) \/ PolicyExpires(w)
  PROVE  VideoInv'
  <1>1. /\ UNCHANGED <<service, order, film, watched, kept, holder, waits>> /\ waits[w].at # "done"
        /\ left' \in {left, left \cup {w}} /\ late' \in {late, late \cup {w}}
    BY DEF CallerLeaves, PolicyExpires
  <1>2. ASSUME NEW v \in Waiters PROVE WaitOK(waits[v], v, film, kept, holder, left', late', service)
    <2>1. WaitOK(waits[v], v, film, kept, holder, left, late, service)
      BY DEF VideoInv
    <2>2. CASE waits[v].at # "done"
      BY <2>1, <2>2 DEF WaitOK
    <2>3. CASE waits[v].at = "done"
      <3>1. (v \in left' <=> v \in left) /\ (v \in late' <=> v \in late)
        BY <1>1, <2>3
      <3> QED
        BY <2>1, <2>3, <3>1 DEF WaitOK, DoneOK
    <2> QED
      BY <2>2, <2>3
  <1>3. OrderOK' /\ Rendered' = Rendered
    BY <1>1, SameRendered DEF VideoInv
  <1> QED
    BY <1>1, <1>2, <1>3 DEF VideoInv

LEMMA SubmitKeepsJobs ==
  ASSUME VideoInv, SubmitVideo
  PROVE  VideoInv'
  <1>1. /\ film = NoFilm /\ film.state = "none" /\ order \in Orders
        /\ UNCHANGED <<service, kept, holder, waits, left, late>>
        /\ service \in Services /\ FilmOK(kept, service) /\ Earlier(kept, film)
    BY NothingFilmed DEF SubmitVideo, VideoInv, OrderOK
  <1>2. kept.state = "none"
    BY <1>1 DEF Earlier, FilmOK
  <1>3. ASSUME NEW w \in Waiters
        PROVE  /\ waits[w].at = "idle" /\ waits[w].answer = "" /\ waits[w].heard.state = "none"
               /\ WaitOK(waits[w], w, film, kept, holder, left, late, service)
    BY <1>1, NothingFilmed DEF VideoInv, WaitOK, Earlier, FilmOK
  <1>4. CASE Accepts(order[1], order[2])
    <2>1. PICK s \in {"pending", "in_progress"} :
                /\ service \in {"zai", "gemini"} => s = "in_progress"
                /\ film' = [NoFilm EXCEPT !.state = s, !.ran = (s = "in_progress")]
                /\ watched' = (s = "in_progress") /\ UNCHANGED order
      BY <1>4 DEF SubmitVideo
    <2>2. /\ film' \in Films /\ film'.state = s /\ ~film'.moderated /\ ~film'.assets /\ ~film'.paid
          /\ (film'.ran <=> s = "in_progress")
      BY <2>1 DEF NoFilm, Films, FilmStates
    <2>3. FilmOK(film', service) /\ film'.state # "none" /\ watched' \in BOOLEAN /\ (watched' => film'.ran)
      BY <2>1, <2>2 DEF FilmOK
    <2>4. ASSUME NEW w \in Waiters PROVE WaitOK(waits[w], w, film', kept, holder, left, late, service)
      BY <1>3, <2>3 DEF WaitOK, Earlier
    <2>5. OrderOK'
      BY <1>1, <1>4, <2>1 DEF OrderOK, Accepts, OpenAIAccepts, OpenRouterAccepts, TogetherAccepts, ZaiAccepts,
         GeminiAccepts, FlowAccepts, ImageAccepts, EffectiveSeconds, GeminiSeconds, FlowSeconds
    <2>6. Earlier(kept, film')
      BY <1>2 DEF Earlier
    <2> QED
      BY <1>1, <1>3, <2>3, <2>4, <2>5, <2>6 DEF VideoInv
  <1>5. CASE ~Accepts(order[1], order[2])
    <2>1. order' = <<>> /\ UNCHANGED <<film, watched>>
      BY <1>5 DEF SubmitVideo
    <2>2. OrderOK'
      BY <1>1, <2>1 DEF OrderOK
    <2> QED
      BY <1>1, <1>3, <2>1, <2>2 DEF VideoInv
  <1> QED
    BY <1>4, <1>5

LEMMA InitJobs == VideoInit => VideoInv
  <1> SUFFICES ASSUME VideoInit PROVE VideoInv
    OBVIOUS
  <1> DEFINE idle == [at |-> "idle", heard |-> NoFilm, answer |-> "", seconds |-> 0, stage |-> "", charged |-> FALSE]
  <1>1. /\ service \in Services /\ order \in Orders /\ film = NoFilm /\ watched = FALSE /\ kept = NoFilm
        /\ waits = [w \in Waiters |-> idle]
    BY DEF VideoInit
  <1>2. idle \in WaitRecords
    BY NothingFilmed DEF WaitRecords, WaitStates, Answers, StageNames
  <1>3. \A w : WaitOK(idle, w, film, kept, holder, left, late, service)
    BY <1>1, NothingFilmed DEF WaitOK, Earlier
  <1>4. FilmOK(film, service) /\ FilmOK(kept, service) /\ Earlier(kept, film) /\ film.state = "none"
    BY <1>1, NothingFilmed DEF Earlier
  <1> QED
    BY <1>1, <1>2, <1>3, <1>4 DEF VideoInv, OrderOK

LEMMA NextKeepsJobs == VideoInv /\ [VideoNext]_filmVars => VideoInv'
  <1> SUFFICES ASSUME VideoInv, [VideoNext]_filmVars PROVE VideoInv'
    OBVIOUS
  <1>1. CASE UNCHANGED filmVars
    <2>1. UNCHANGED <<service, order, film, watched, kept, holder, waits, left, late>>
      BY <1>1 DEF filmVars
    <2>2. OrderOK' /\ Rendered' = Rendered
      BY <2>1, SameRendered DEF VideoInv
    <2> QED
      BY <2>1, <2>2 DEF VideoInv
  <1> QED
    BY <1>1, SubmitKeepsJobs, GoKeepsJobs, LeavingKeepsJobs, WaitKeepsJobs, LockKeepsJobs, ServeKeepsJobs,
       AskFailsKeepsJobs, HearKeepsJobs, ResultKeepsJobs, FetchKeepsJobs DEF VideoNext

\* Whatever the service, its job and the order, and however many callers wait for it beside
\* each other and leave (one for an image flow): every wait tells what became of the job, Gemini's waits agree, and the service
\* was sent seconds that it takes.
THEOREM JobsAreAlwaysAnswered == VideoSpec => []JobsAreAnswered
  <1>1. VideoInv => JobsAreAnswered
    <2> SUFFICES ASSUME VideoInv PROVE JobsAreAnswered
      OBVIOUS
    <2>1. AnswersFollowTheJob
      <3> SUFFICES ASSUME NEW w \in Waiters, waits[w].at = "done"
                   PROVE  LET a == waits[w] IN
                     /\ a.answer = "video" => film.assets /\ a.seconds \in {0, Rendered}
                     /\ a.answer = "moderated" =>
                         film.moderated /\ (a.stage = "output" => film.ran \/ service \in {"openai", "gemini"})
                     /\ a.charged => film.paid
                     /\ a.answer = "cancelled" => film.state = "cancelled"
                     /\ a.answer = "failed" => film.state \notin {"pending", "in_progress"} /\ ~film.moderated
                     /\ a.answer = "left" => w \in left
                     /\ a.answer = "timeout" => w \in late \ left
                     /\ (w \in left /\ a.heard.state \notin {"completed", "expired"}) => a.answer # "video"
        BY DEF AnswersFollowTheJob
      <3>1. DoneOK(waits[w], w, film, kept, left, late, service)
            /\ (waits[w].answer = "video" => waits[w].seconds \in {0, Rendered})
        BY DEF VideoInv, WaitOK
      <3> QED
        BY <3>1 DEF DoneOK
    <2>2. WaitsAgree
      <3> SUFFICES ASSUME service = "gemini", NEW w \in Waiters, NEW v \in Waiters,
                          {waits[w].answer, waits[v].answer} \subseteq {"video", "failed", "moderated"}
                   PROVE  waits[w].answer = waits[v].answer
        BY DEF WaitsAgree
      <3>1. ASSUME NEW u \in {w, v} PROVE waits[u].answer = KeptAnswer(kept)
        <4>1. WaitOK(waits[u], u, film, kept, holder, left, late, service)
              /\ waits[u].answer \in {"video", "failed", "moderated"}
          BY <3>1 DEF VideoInv
        <4> QED
          BY <4>1 DEF WaitOK, DoneOK
      <3> QED
        BY <3>1
    <2>3. SecondsAreTaken
      <3> SUFFICES ASSUME film # NoFilm
                   PROVE  LET s == WireSeconds(order[1], order[2]) IN
                     CASE service = "openai" -> s \in {0, 4, 8, 12} [] service = "gemini" -> s \in {4, 6, 8}
                       [] service = "zai" -> s \in {0, 5, 10} [] service = "elevenlabs" -> s \in 0 .. 15
                       [] service = "flow" -> TRUE [] OTHER -> s >= 0
        BY DEF SecondsAreTaken
      <3>1. Accepts(order[1], order[2]) /\ service \in Services
        BY Asking DEF VideoInv, OrderOK
      <3> QED
        BY <3>1 DEF Services, WireSeconds, OpenAISeconds, GeminiSeconds, EffectiveSeconds, FlowSeconds, Accepts,
           OpenAIAccepts, OpenRouterAccepts, TogetherAccepts, ZaiAccepts, GeminiAccepts, FlowAccepts
    <2> QED
      BY <2>1, <2>2, <2>3 DEF JobsAreAnswered
  <1> QED
    BY <1>1, InitJobs, NextKeepsJobs, PTL DEF VideoSpec
=============================================================================
