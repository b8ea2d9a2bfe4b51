---------------------------- MODULE WorkersProofs ----------------------------
(***************************************************************************)
(* The small components whose goroutines come and go: the callback queue   *)
(* implements the safety part of OrderedCallbacks, for any number of       *)
(* transitions and of drain goroutines; what ProcessBatch returns is       *)
(* exact, for every batch and every pool of workers; and RunTools answers  *)
(* every call it was asked to make before it asks the model again.         *)
(***************************************************************************)
EXTENDS CallbackQueue, ConcurrentBatcher, RunTools, FiniteSetTheorems, TLAPS

-----------------------------------------------------------------------------
(* The callback queue.                                                     *)

QueueTypeOK ==
    /\ made \in 0..MaxTransitions
    /\ pending \in Seq(Nat)
    /\ running \in BOOLEAN
    /\ drain \in [Drainers -> {"none", "round", "callback"}]
    /\ started \in Seq(Nat)

\* What is queued follows, in order and without a gap, what was called back.
QueueFollowsCalls ==
    /\ Len(started) + Len(pending) = made
    /\ \A i \in DOMAIN pending : pending[i] = Len(started) + i

QueueIInv == QueueTypeOK /\ OneDrainer /\ QueueFollowsCalls

LEMMA InitQueueIInv == Init => QueueIInv
  <1> SUFFICES ASSUME Init PROVE QueueIInv
    OBVIOUS
  <1>1. QueueTypeOK
    <2>1. running \in BOOLEAN
      BY Zenon DEF Init
    <2> QED
      BY <2>1, QueueAssumption DEF Init, QueueTypeOK
  <1>3. QueueFollowsCalls
    <2>1. made = 0 /\ pending = << >> /\ started = << >>
      BY DEF Init
    <2> QED
      BY <2>1 DEF QueueFollowsCalls
  <1>2. OneDrainer
    BY Zenon DEF Init, OneDrainer
  <1> QED
    BY <1>1, <1>2, <1>3 DEF QueueIInv

\* Each step of a drain goroutine or of the breaker keeps the invariant.
LEMMA NextQueueIInv == QueueIInv /\ [Next]_vars => QueueIInv'
  <1> SUFFICES ASSUME QueueIInv, [Next]_vars PROVE QueueIInv'
    OBVIOUS
  <1> USE QueueAssumption DEF QueueIInv
  <1>1. ASSUME NEW d \in Drainers, Enqueue(d) PROVE QueueIInv'
    <2>0. QueueTypeOK'
      <3>1. running' \in BOOLEAN
        BY <1>1, Zenon DEF Enqueue
      <3>2. /\ made' \in 0..MaxTransitions /\ pending' \in Seq(Nat)
            /\ started' \in Seq(Nat)
        BY <1>1 DEF Enqueue, QueueTypeOK
      <3>3. drain' \in [Drainers -> {"none", "round", "callback"}]
        <4>1. drain' = drain \/ drain' = [drain EXCEPT ![d] = "round"]
          BY <1>1, Zenon DEF Enqueue
        <4> QED
          BY <4>1 DEF QueueTypeOK
      <3> QED
        BY <3>1, <3>2, <3>3 DEF QueueTypeOK
    <2>1. OneDrainer'
      <3>1. CASE running
        BY <1>1, <3>1 DEF Enqueue, OneDrainer
      <3>2. CASE ~running
        <4>1. drain' = [drain EXCEPT ![d] = "round"] /\ running'
          BY <1>1, <3>2 DEF Enqueue
        <4>2. \A e \in Drainers : drain[e] = "none"
          BY <3>2 DEF OneDrainer
        <4>3. \A e \in Drainers : drain'[e] # "none" <=> e = d
          BY <4>1, <4>2 DEF QueueTypeOK
        <4> QED
          BY <4>1, <4>3 DEF OneDrainer
      <3> QED
        BY <3>1, <3>2
    <2>2. QueueFollowsCalls'
      <3>1. pending' = Append(pending, made + 1) /\ made' = made + 1 /\ started' = started
        BY <1>1 DEF Enqueue
      <3>2. /\ Len(pending') = Len(pending) + 1 /\ Len(pending) \in Nat
            /\ \A i \in 1..Len(pending) : pending'[i] = pending[i]
            /\ pending'[Len(pending) + 1] = made + 1
        BY <3>1 DEF QueueTypeOK
      <3> QED
        BY <3>1, <3>2 DEF QueueFollowsCalls, QueueTypeOK
    <2> QED
      BY <2>0, <2>1, <2>2
  <1>2. ASSUME NEW d \in Drainers, Take(d) PROVE QueueIInv'
    <2>1. Head(pending) \in Nat /\ Tail(pending) \in Seq(Nat)
          /\ Len(Tail(pending)) = Len(pending) - 1 /\ Len(pending) \in Nat \ {0}
          /\ \A i \in 1..(Len(pending) - 1) : Tail(pending)[i] = pending[i + 1]
      BY <1>2 DEF Take, QueueTypeOK
    <2>2. QueueTypeOK'
      BY <1>2, <2>1 DEF Take, QueueTypeOK
    <2>3. OneDrainer'
      <3>1. \A e \in Drainers : drain'[e] # "none" <=> drain[e] # "none"
        BY <1>2 DEF Take, QueueTypeOK
      <3>2. running' = running /\ running
        BY <1>2 DEF Take, OneDrainer
      <3> QED
        BY <3>1, <3>2 DEF OneDrainer
    <2>4. QueueFollowsCalls'
      <3>1. /\ pending' = Tail(pending) /\ made' = made
            /\ Len(started') = Len(started) + 1 /\ Len(started) \in Nat
        BY <1>2, <2>1 DEF Take, QueueTypeOK
      <3>2. DOMAIN pending' = 1..(Len(pending) - 1) /\ Len(pending') = Len(pending) - 1
        BY <2>1, <3>1
      <3>3. \A i \in 1..(Len(pending) - 1) : pending'[i] = Len(started) + (i + 1)
        BY <2>1, <3>1 DEF QueueFollowsCalls
      <3>4. Len(started) + Len(pending) = made
        BY DEF QueueFollowsCalls
      <3>5. \A i \in DOMAIN pending' : pending'[i] = Len(started') + i
        BY <2>1, <3>1, <3>2, <3>3
      <3>6. Len(started') + Len(pending') = made'
        BY <2>1, <3>1, <3>2, <3>4
      <3> QED
        BY <3>5, <3>6 DEF QueueFollowsCalls
    <2> QED
      BY <2>2, <2>3, <2>4
  <1>3. ASSUME NEW d \in Drainers, Exit(d) PROVE QueueIInv'
    BY <1>3 DEF Exit, QueueTypeOK, OneDrainer, QueueFollowsCalls
  <1>4. ASSUME NEW d \in Drainers, Return(d) PROVE QueueIInv'
    BY <1>4 DEF Return, QueueTypeOK, OneDrainer, QueueFollowsCalls
  <1>5. CASE UNCHANGED vars
    BY <1>5 DEF vars, QueueTypeOK, OneDrainer, QueueFollowsCalls
  <1> QED
    BY <1>1, <1>2, <1>3, <1>4, <1>5 DEF Next

LEMMA QueueInvariance == SafeSpec => []QueueIInv
  BY InitQueueIInv, NextQueueIInv, PTL DEF SafeSpec

\* There is never a second drain goroutine, nor a queued transition without one
\* (enqueue tests q.running under the lock under which drain gives up).
THEOREM OneDrainerSafe == SafeSpec => []OneDrainer
  <1>1. QueueIInv => OneDrainer
    BY DEF QueueIInv
  <1> QED
    BY <1>1, QueueInvariance, PTL

\* Callbacks are called once per transition, in transition order, one at a time.
THEOREM QueueKeepsOrder == SafeSpec => Ordered!Init /\ [][Ordered!Next]_(Ordered!vars)
  <1>1. Init => Ordered!Init
    BY DEF Init, Ordered!Init, active
  <1>2. QueueIInv /\ [Next]_vars => [Ordered!Next]_(Ordered!vars)
    <2> SUFFICES ASSUME QueueIInv, [Next]_vars PROVE [Ordered!Next]_(Ordered!vars)
      OBVIOUS
    <2> USE QueueAssumption DEF QueueIInv, QueueTypeOK, Ordered!vars
    <2>1. ASSUME NEW d \in Drainers, Enqueue(d) PROVE Ordered!Transition
      BY <2>1 DEF Enqueue, Ordered!Transition, active
    <2>2. ASSUME NEW d \in Drainers, Take(d) PROVE Ordered!Call
      <3>1. Head(pending) = Len(started) + 1 /\ Len(started) < made
        BY <2>2 DEF Take, QueueFollowsCalls
      <3>2. ~active /\ active'
        BY <2>2 DEF Take, OneDrainer, active
      <3> QED
        BY <2>2, <3>1, <3>2 DEF Take, Ordered!Call
    <2>3. ASSUME NEW d \in Drainers, Exit(d) PROVE UNCHANGED Ordered!vars
      BY <2>3 DEF Exit, active
    <2>4. ASSUME NEW d \in Drainers, Return(d) PROVE Ordered!Return
      BY <2>4 DEF Return, OneDrainer, Ordered!Return, active
    <2>5. CASE UNCHANGED vars
      BY <2>5 DEF vars, active
    <2> QED
      BY <2>1, <2>2, <2>3, <2>4, <2>5 DEF Next, Ordered!Next
  <1> QED
    BY <1>1, <1>2, QueueInvariance, PTL DEF SafeSpec

-----------------------------------------------------------------------------
(* The concurrent batcher.  The invariant says where each request is: not  *)
(* handed over, with one worker, dropped by a batch that was stopped, or in *)
(* the table; and where each result is: entered, counted, called back.     *)

\* The variables have their types.
BatchTypeOK ==
    /\ continueOnError \in BOOLEAN /\ parentDone \in BOOLEAN /\ canceled \in BOOLEAN
    /\ next \in 1..(BatchSize + 1) /\ caller \in {"feeding", "waiting", "returned"}
    /\ job \in [Workers -> Nat]
    /\ step \in [Workers -> {"idle", "taken", "provider", "cancel", "progress", "callback", "exited"}]
    /\ begun \subseteq Batch
    /\ results \in [Batch -> {"none", "ok", "costed", "failed"}]
    /\ successCount \in Nat /\ failureCount \in Nat /\ totalCost \in Nat
    /\ allCostsReported \in BOOLEAN /\ completed \in Nat /\ progress \in Seq(Nat)

Holding(w) == step[w] \in {"taken", "provider"}

\* A request is with one worker at most, was handed over, and is begun when the
\* provider is asked.
JobsApart ==
    \A w \in Workers : Holding(w) =>
        /\ job[w] \in 1..(next - 1)
        /\ step[w] = "taken" <=> job[w] \notin begun
        /\ \A v \in Workers : Holding(v) /\ job[v] = job[w] => v = w

\* What was begun and has no result yet is with the provider.
ResultsFollowBegun ==
    /\ begun \subseteq 1..(next - 1)
    /\ \A r \in Batch : results[r] # "none" => r \in begun
    /\ \A r \in begun : results[r] = "none" => \E w \in Workers : step[w] = "provider" /\ job[w] = r
    /\ \A w \in Workers : step[w] = "provider" => results[job[w]] = "none"

With(value) == {r \in Batch : results[r] = value}

\* The counts are those of the table.
CountsAreExact ==
    /\ failureCount = Cardinality(With("failed"))
    /\ totalCost = Cardinality(With("costed"))
    /\ successCount = Cardinality(With("ok")) + Cardinality(With("costed"))
    /\ allCostsReported => With("ok") = {}

Uncounted == {w \in Workers : step[w] \in {"cancel", "progress"}}
Calling == {w \in Workers : step[w] = "callback"}

\* Each result is counted by the worker that entered it, a little later, and each
\* count is called back by the worker that took it.
ProgressFollows ==
    /\ completed + Cardinality(Uncounted) = Cardinality(Recorded)
    /\ Len(progress) + Cardinality(Calling) = completed
    /\ {progress[i] : i \in DOMAIN progress} \cup {job[w] : w \in Calling} = 1..completed

\* Nothing is left out for another reason than the two that may stop a batch.
StoppedForAReason ==
    /\ canceled => ~continueOnError /\ With("failed") # {}
    /\ \A w \in Workers : step[w] = "cancel" => ~continueOnError /\ With("failed") # {}
    /\ caller # "feeding" /\ next <= BatchSize => Stopped
    /\ \A r \in 1..(next - 1) : r \in begun \/ Stopped \/ \E w \in Workers : step[w] = "taken" /\ job[w] = r
    /\ caller = "returned" => \A w \in Workers : step[w] = "exited"

BatchIInv ==
    /\ BatchTypeOK /\ JobsApart /\ ResultsFollowBegun /\ CountsAreExact /\ ProgressFollows
    /\ StoppedForAReason

LEMMA BatchFacts ==
    /\ BatchSize \in Nat \ {0} /\ Batch = 1..BatchSize
    /\ IsFiniteSet(Workers) /\ IsFiniteSet(Batch)
  <1>1. IsFiniteSet(1..BatchSize)
    BY BatcherAssumption, FS_Interval
  <1> QED
    BY <1>1, BatcherAssumption DEF Batch

LEMMA InitBatchIInv == ASSUME BatchInit PROVE BatchIInv
  <1>1. BatchTypeOK
    <2>1. continueOnError \in BOOLEAN /\ parentDone \in BOOLEAN /\ canceled \in BOOLEAN
          /\ allCostsReported \in BOOLEAN
      BY Zenon DEF BatchInit
    <2> QED
      BY <2>1, BatchFacts DEF BatchInit, BatchTypeOK
  <1>2. With("ok") = {} /\ With("costed") = {} /\ With("failed") = {} /\ Recorded = {}
    BY DEF BatchInit, With, Recorded
  <1>3. Uncounted = {} /\ Calling = {}
    BY DEF BatchInit, Uncounted, Calling
  <1>4. Cardinality({}) = 0
    BY FS_EmptySet
  <1>5. CountsAreExact
    <2>1. /\ Cardinality(With("ok")) = 0 /\ Cardinality(With("costed")) = 0
          /\ Cardinality(With("failed")) = 0
      BY <1>2, <1>4
    <2>2. failureCount = 0 /\ totalCost = 0 /\ successCount = 0
      BY DEF BatchInit
    <2> QED
      BY <1>2, <2>1, <2>2 DEF CountsAreExact
  <1>6. ProgressFollows
    <2>1. {progress[i] : i \in DOMAIN progress} = {} /\ {job[w] : w \in Calling} = {}
      BY <1>3 DEF BatchInit
    <2>2. completed = 0 /\ Len(progress) = 0
      BY DEF BatchInit
    <2> QED
      BY <1>2, <1>3, <1>4, <2>1, <2>2 DEF ProgressFollows
  <1>7. JobsApart /\ ResultsFollowBegun
    BY DEF BatchInit, JobsApart, ResultsFollowBegun, Holding
  <1>8. StoppedForAReason
    <2>1. canceled = FALSE
      BY Zenon DEF BatchInit
    <2> QED
      BY <2>1 DEF BatchInit, StoppedForAReason
  <1> QED
    BY <1>1, <1>5, <1>6, <1>7, <1>8 DEF BatchIInv

LEMMA SetsAreFinite ==
    /\ IsFiniteSet(Uncounted) /\ IsFiniteSet(Calling) /\ IsFiniteSet(Recorded)
    /\ \A value : IsFiniteSet(With(value))
    /\ Cardinality(Uncounted) \in Nat /\ Cardinality(Calling) \in Nat
    /\ Cardinality(Recorded) \in Nat /\ \A value : Cardinality(With(value)) \in Nat
  <1>1. IsFiniteSet(Workers) /\ IsFiniteSet(Batch)
    BY BatchFacts
  <1>2. IsFiniteSet(Uncounted) /\ IsFiniteSet(Calling)
    BY <1>1, FS_Subset DEF Uncounted, Calling
  <1>3. IsFiniteSet(Recorded)
    BY <1>1, FS_Subset DEF Recorded
  <1>4. ASSUME NEW value PROVE IsFiniteSet(With(value))
    BY <1>1, FS_Subset DEF With
  <1> QED
    BY <1>2, <1>3, <1>4, FS_CardinalityType

\* The table is as it was.
LEMMA TableKept ==
    ASSUME results' = results
    PROVE  Recorded' = Recorded /\ \A value : With(value)' = With(value)
  BY DEF Recorded, With

\* One worker moves; nobody is to be counted or called back but as before.
LEMMA WorkersKept ==
    ASSUME BatchTypeOK, NEW w \in Workers, NEW to, step' = [step EXCEPT ![w] = to],
           to \notin {"cancel", "progress", "callback"},
           step[w] \notin {"cancel", "progress", "callback"},
           \A v \in Workers : v # w => job'[v] = job[v]
    PROVE  /\ Uncounted' = Uncounted /\ Calling' = Calling
           /\ {job'[v] : v \in Calling'} = {job[v] : v \in Calling}
  <1>1. \A v \in Workers : v # w => step'[v] = step[v]
    BY DEF BatchTypeOK
  <1>2. step'[w] = to
    BY DEF BatchTypeOK
  <1>3. Uncounted' = Uncounted
    BY <1>1, <1>2 DEF Uncounted
  <1>4. Calling' = Calling /\ w \notin Calling
    BY <1>1, <1>2 DEF Calling
  <1>5. \A v \in Calling : job'[v] = job[v]
    BY <1>4 DEF Calling
  <1> QED
    BY <1>3, <1>4, <1>5

LEMMA FeedKeeps ==
    ASSUME BatchIInv, NEW w \in Workers, Feed(w)
    PROVE  BatchIInv'
  <1>0. /\ BatchTypeOK /\ JobsApart /\ ResultsFollowBegun /\ CountsAreExact /\ ProgressFollows
        /\ StoppedForAReason
    BY DEF BatchIInv
  <1>1. /\ caller = "feeding" /\ next <= BatchSize /\ step[w] = "idle"
        /\ job' = [job EXCEPT ![w] = next] /\ step' = [step EXCEPT ![w] = "taken"]
        /\ next' = next + 1 /\ next \in Nat
        /\ UNCHANGED <<continueOnError, parentDone, canceled, caller, begun, results,
                       successCount, failureCount, totalCost, allCostsReported, completed, progress>>
    BY <1>0 DEF Feed, Goto, options, table, BatchTypeOK
  <1>2. /\ job'[w] = next /\ step'[w] = "taken"
        /\ \A v \in Workers : v # w => job'[v] = job[v] /\ step'[v] = step[v]
    BY <1>0, <1>1 DEF BatchTypeOK
  <1>3. Recorded' = Recorded /\ \A value : With(value)' = With(value)
    BY <1>1, TableKept
  <1>4. /\ Uncounted' = Uncounted /\ Calling' = Calling
        /\ {job'[v] : v \in Calling'} = {job[v] : v \in Calling}
    BY <1>0, <1>1, <1>2, WorkersKept
  <1>5. BatchTypeOK'
    BY <1>0, <1>1, BatchFacts DEF BatchTypeOK
  <1>6. JobsApart'
    BY <1>0, <1>1, <1>2 DEF JobsApart, Holding, BatchTypeOK, ResultsFollowBegun
  <1>7. ResultsFollowBegun'
    BY <1>0, <1>1, <1>2 DEF ResultsFollowBegun, BatchTypeOK
  <1>8. CountsAreExact' /\ ProgressFollows'
    BY <1>0, <1>1, <1>3, <1>4 DEF CountsAreExact, ProgressFollows
  <1>9. StoppedForAReason'
    BY <1>0, <1>1, <1>2, <1>3 DEF StoppedForAReason, Stopped, BatchTypeOK
  <1> QED
    BY <1>5, <1>6, <1>7, <1>8, <1>9 DEF BatchIInv

\* Nothing of the table, of the progress and of the workers changes.
LEMMA CallerKeeps ==
    ASSUME BatchIInv,
           StopFeeding \/ ReturnResult \/ CancelParent \/ UNCHANGED batchVars
    PROVE  BatchIInv'
  <1>0. /\ BatchTypeOK /\ JobsApart /\ ResultsFollowBegun /\ CountsAreExact /\ ProgressFollows
        /\ StoppedForAReason
    BY DEF BatchIInv
  <1>1. /\ UNCHANGED <<continueOnError, canceled, next, job, step, begun, results,
                       successCount, failureCount, totalCost, allCostsReported, completed, progress>>
    BY DEF StopFeeding, ReturnResult, CancelParent, batchVars, options, table
  <1>2. /\ caller' \in {"feeding", "waiting", "returned"}
        /\ caller' = "returned" => caller = "returned" \/ \A w \in Workers : step[w] = "exited"
        /\ caller' # "feeding" => caller # "feeding" \/ next > BatchSize \/ Stopped
    BY <1>0 DEF StopFeeding, ReturnResult, CancelParent, batchVars, BatchTypeOK
  <1>3. parentDone' \in BOOLEAN
    BY <1>0, Zenon DEF StopFeeding, ReturnResult, CancelParent, batchVars, BatchTypeOK
  <1>4. Stopped => Stopped'
    BY <1>1 DEF StopFeeding, ReturnResult, CancelParent, batchVars, Stopped
  <1>5. Recorded' = Recorded /\ \A value : With(value)' = With(value)
    BY <1>1, TableKept
  <1>6. Uncounted' = Uncounted /\ Calling' = Calling
    BY <1>1 DEF Uncounted, Calling
  <1>7. BatchTypeOK'
    BY <1>0, <1>1, <1>2, <1>3 DEF BatchTypeOK
  <1>8. JobsApart' /\ ResultsFollowBegun'
    BY <1>0, <1>1 DEF JobsApart, Holding, ResultsFollowBegun
  <1>9. CountsAreExact' /\ ProgressFollows'
    BY <1>0, <1>1, <1>5, <1>6 DEF CountsAreExact, ProgressFollows
  <1>10. StoppedForAReason'
    BY <1>0, <1>1, <1>2, <1>4, <1>5, BatchFacts DEF StoppedForAReason, BatchTypeOK
  <1> QED
    BY <1>7, <1>8, <1>9, <1>10 DEF BatchIInv

\* A worker leaves, or takes up its request or drops it.
LEMMA BeginKeeps ==
    ASSUME BatchIInv, NEW w \in Workers, Leave(w) \/ Begin(w)
    PROVE  BatchIInv'
  <1>0. /\ BatchTypeOK /\ JobsApart /\ ResultsFollowBegun /\ CountsAreExact /\ ProgressFollows
        /\ StoppedForAReason
    BY DEF BatchIInv
  <1>1. /\ UNCHANGED <<continueOnError, parentDone, canceled, next, caller, job, results,
                       successCount, failureCount, totalCost, allCostsReported, completed, progress>>
    BY DEF Leave, Begin, options, table
  <1>2. PICK to \in {"exited", "idle", "provider"} : step' = [step EXCEPT ![w] = to]
    BY DEF Leave, Begin, Goto
  <1>3. step'[w] = to /\ \A v \in Workers : v # w => step'[v] = step[v]
    BY <1>0, <1>2 DEF BatchTypeOK
  <1>4. \/ to = "exited" /\ step[w] = "idle" /\ begun' = begun
        \/ to = "idle" /\ step[w] = "taken" /\ begun' = begun /\ Stopped
        \/ to = "provider" /\ step[w] = "taken" /\ begun' = begun \cup {job[w]}
    <2>1. CASE Leave(w)
      BY <1>0, <1>3, <2>1 DEF Leave, Goto, BatchTypeOK
    <2>2. CASE Begin(w)
      BY <1>0, <1>3, <2>2 DEF Begin, Goto, BatchTypeOK
    <2> QED
      BY <2>1, <2>2
  <1>5. Recorded' = Recorded /\ \A value : With(value)' = With(value)
    BY <1>1, TableKept
  <1>6. /\ Uncounted' = Uncounted /\ Calling' = Calling
        /\ {job'[v] : v \in Calling'} = {job[v] : v \in Calling}
    BY <1>0, <1>1, <1>2, <1>4, WorkersKept
  <1>7. BatchTypeOK'
    <2>1. step[w] = "taken" => job[w] \in Batch
      BY <1>0, BatchFacts DEF JobsApart, Holding, BatchTypeOK
    <2> QED
      BY <1>0, <1>1, <1>2, <1>4, <2>1 DEF BatchTypeOK
  <1>8. JobsApart'
    BY <1>0, <1>1, <1>3, <1>4 DEF JobsApart, Holding
  <1>9. ResultsFollowBegun'
    <2>1. step[w] = "taken" => job[w] \in 1..(next - 1) /\ job[w] \notin begun /\ job[w] \in Batch
      BY <1>0, BatchFacts DEF JobsApart, Holding, BatchTypeOK
    <2>2. step[w] = "taken" => results[job[w]] = "none"
      BY <1>0, <2>1 DEF ResultsFollowBegun, BatchTypeOK
    <2>3. begun \subseteq begun' /\ begun' \subseteq begun \cup {job[w]}
      BY <1>4
    <2>4. begun' \subseteq 1..(next' - 1) /\ \A r \in Batch : results'[r] # "none" => r \in begun'
      BY <1>0, <1>1, <1>4, <2>1, <2>3 DEF ResultsFollowBegun
    <2>5. ASSUME NEW r \in begun', results'[r] = "none"
          PROVE  \E v \in Workers : step'[v] = "provider" /\ job'[v] = r
      <3>1. CASE r \in begun
        <4>1. PICK v \in Workers : step[v] = "provider" /\ job[v] = r
          BY <1>0, <1>1, <2>5, <3>1 DEF ResultsFollowBegun
        <4> QED
          BY <1>1, <1>3, <1>4, <4>1
      <3>2. CASE r \notin begun
        <4>1. step'[w] = "provider" /\ job'[w] = r
          BY <1>1, <1>3, <1>4, <2>5, <3>2
        <4> QED
          BY <4>1
      <3> QED
        BY <3>1, <3>2
    <2>6. \A v \in Workers : step'[v] = "provider" => results'[job'[v]] = "none"
      BY <1>0, <1>1, <1>3, <1>4, <2>2 DEF ResultsFollowBegun
    <2> QED
      BY <2>4, <2>5, <2>6 DEF ResultsFollowBegun
  <1>10. CountsAreExact' /\ ProgressFollows'
    BY <1>0, <1>1, <1>5, <1>6 DEF CountsAreExact, ProgressFollows
  <1>11. StoppedForAReason'
    <2>1. Stopped' = Stopped
      BY <1>1 DEF Stopped
    <2> QED
      BY <1>0, <1>1, <1>3, <1>4, <1>5, <2>1 DEF StoppedForAReason
  <1> QED
    BY <1>7, <1>8, <1>9, <1>10, <1>11 DEF BatchIInv

\* A worker enters a result: the table, the counts and the workers that are yet
\* to be counted grow by one.
LEMMA EntryKeeps ==
    ASSUME BatchIInv, NEW w \in Workers, NEW value \in {"ok", "costed", "failed"},
           NEW to \in {"progress", "cancel"},
           step[w] = "provider",
           results' = [results EXCEPT ![job[w]] = value],
           step' = [step EXCEPT ![w] = to],
           to = "cancel" => ~continueOnError /\ value = "failed",
           failureCount' = failureCount + (IF value = "failed" THEN 1 ELSE 0),
           successCount' = successCount + (IF value = "failed" THEN 0 ELSE 1),
           totalCost' = totalCost + (IF value = "costed" THEN 1 ELSE 0),
           allCostsReported' \in BOOLEAN,
           allCostsReported' => allCostsReported /\ value # "ok",
           UNCHANGED <<continueOnError, parentDone, canceled, next, caller, job, begun,
                       completed, progress>>
    PROVE  BatchIInv'
  <1> DEFINE r == job[w]
  <1>0. /\ BatchTypeOK /\ JobsApart /\ ResultsFollowBegun /\ CountsAreExact /\ ProgressFollows
        /\ StoppedForAReason
    BY DEF BatchIInv
  <1>1. r \in begun /\ r \in Batch /\ results[r] = "none"
    BY <1>0 DEF BatchTypeOK, JobsApart, Holding, ResultsFollowBegun
  <1>2. results'[r] = value /\ \A q \in Batch : q # r => results'[q] = results[q]
    BY <1>0, <1>1 DEF BatchTypeOK
  <1>3. step'[w] = to /\ \A v \in Workers : v # w => step'[v] = step[v]
    BY <1>0 DEF BatchTypeOK
  <1>4. Recorded' = Recorded \cup {r} /\ r \notin Recorded
    BY <1>1, <1>2 DEF Recorded
  <1>5. With(value)' = With(value) \cup {r} /\ r \notin With(value)
    BY <1>1, <1>2 DEF With
  <1>6. \A other \in {"ok", "costed", "failed"} : other # value => With(other)' = With(other)
    BY <1>1, <1>2 DEF With
  <1>7. Uncounted' = Uncounted \cup {w} /\ w \notin Uncounted
    BY <1>3 DEF Uncounted
  <1>8. Calling' = Calling /\ {job'[v] : v \in Calling'} = {job[v] : v \in Calling}
    <2>1. Calling' = Calling
      BY <1>3 DEF Calling
    <2> QED
      BY <2>1
  <1>9. /\ Cardinality(Recorded)' = Cardinality(Recorded) + 1
        /\ Cardinality(With(value))' = Cardinality(With(value)) + 1
        /\ Cardinality(Uncounted)' = Cardinality(Uncounted) + 1
    BY <1>4, <1>5, <1>7, SetsAreFinite, FS_AddElement
  <1>10. BatchTypeOK'
    BY <1>0, <1>1 DEF BatchTypeOK
  <1>11. JobsApart'
    BY <1>0, <1>3 DEF JobsApart, Holding
  <1>12. ResultsFollowBegun'
    <2>1. \A q \in Batch : results'[q] # "none" => q \in begun
      BY <1>0, <1>1, <1>2 DEF ResultsFollowBegun
    <2>2. ASSUME NEW q \in begun, results'[q] = "none"
          PROVE  \E v \in Workers : step'[v] = "provider" /\ job[v] = q
      <3>1. q # r /\ results[q] = "none"
        BY <1>0, <1>2, <2>2 DEF BatchTypeOK
      <3>2. PICK v \in Workers : step[v] = "provider" /\ job[v] = q
        BY <1>0, <3>1 DEF ResultsFollowBegun
      <3> QED
        BY <1>3, <3>1, <3>2
    <2>3. ASSUME NEW v \in Workers, step'[v] = "provider"
          PROVE  results'[job[v]] = "none"
      <3>1. v # w /\ step[v] = "provider"
        BY <1>3, <2>3
      <3>2. job[v] # r /\ job[v] \in Batch
        BY <1>0, <3>1 DEF JobsApart, Holding, BatchTypeOK
      <3> QED
        BY <1>0, <1>2, <3>1, <3>2 DEF ResultsFollowBegun
    <2> QED
      BY <1>0, <2>1, <2>2, <2>3 DEF ResultsFollowBegun
  <1>13. CountsAreExact'
    <2>1. /\ Cardinality(With("failed"))' = Cardinality(With("failed")) + (IF value = "failed" THEN 1 ELSE 0)
          /\ Cardinality(With("costed"))' = Cardinality(With("costed")) + (IF value = "costed" THEN 1 ELSE 0)
          /\ Cardinality(With("ok"))' = Cardinality(With("ok")) + (IF value = "ok" THEN 1 ELSE 0)
      <3>1. CASE value = "failed"
        BY <1>6, <1>9, <3>1, SetsAreFinite
      <3>2. CASE value = "costed"
        BY <1>6, <1>9, <3>2, SetsAreFinite
      <3>3. CASE value = "ok"
        BY <1>6, <1>9, <3>3, SetsAreFinite
      <3> QED
        BY <3>1, <3>2, <3>3
    <2>2. allCostsReported' => With("ok")' = {}
      BY <1>0, <1>6 DEF CountsAreExact
    <2>3. \A name \in {"failed", "costed", "ok"} : Cardinality(With(name)) \in Nat
      BY SetsAreFinite
    <2> QED
      BY <1>0, <2>1, <2>2, <2>3 DEF CountsAreExact, BatchTypeOK
  <1>14. ProgressFollows'
    <2>1. completed' + Cardinality(Uncounted)' = Cardinality(Recorded)'
      BY <1>0, <1>9, SetsAreFinite DEF ProgressFollows, BatchTypeOK
    <2>2. Cardinality(Calling)' = Cardinality(Calling)
      BY <1>8
    <2> QED
      BY <1>0, <1>8, <2>1, <2>2 DEF ProgressFollows
  <1>15. StoppedForAReason'
    <2>1. With("failed") # {} \/ value = "failed" => With("failed")' # {}
      BY <1>5, <1>6
    <2>2. Stopped' = Stopped
      BY DEF Stopped
    <2> QED
      BY <1>0, <1>3, <2>1, <2>2 DEF StoppedForAReason
  <1> QED
    BY <1>10, <1>11, <1>12, <1>13, <1>14, <1>15 DEF BatchIInv

LEMMA ProviderKeeps ==
    ASSUME BatchIInv, NEW w \in Workers, Succeed(w) \/ Fail(w)
    PROVE  BatchIInv'
  <1>1. BatchTypeOK
    BY DEF BatchIInv
  <1>2. /\ step[w] = "provider"
        /\ UNCHANGED <<continueOnError, parentDone, canceled, next, caller, job, begun,
                       completed, progress>>
        /\ failureCount \in Nat /\ successCount \in Nat /\ totalCost \in Nat
    BY <1>1 DEF Succeed, Fail, options, BatchTypeOK
  <1>3. CASE Fail(w)
    <2>1. PICK to \in {"progress", "cancel"} :
            step' = [step EXCEPT ![w] = to] /\ (to = "cancel" => ~continueOnError)
      BY <1>3 DEF Fail, Goto
    <2>2. allCostsReported' \in BOOLEAN /\ (allCostsReported' => allCostsReported)
      BY <1>1, <1>3, Zenon DEF Fail, BatchTypeOK
    <2>3. /\ results' = [results EXCEPT ![job[w]] = "failed"]
          /\ failureCount' = failureCount + 1 /\ successCount' = successCount /\ totalCost' = totalCost
      BY <1>3 DEF Fail
    <2>4. /\ failureCount' = failureCount + (IF "failed" = "failed" THEN 1 ELSE 0)
          /\ successCount' = successCount + (IF "failed" = "failed" THEN 0 ELSE 1)
          /\ totalCost' = totalCost + (IF "failed" = "costed" THEN 1 ELSE 0)
          /\ allCostsReported' => allCostsReported /\ "failed" # "ok"
          /\ to = "cancel" => ~continueOnError /\ "failed" = "failed"
      BY <1>2, <2>1, <2>2, <2>3
    <2> QED
      BY <1>2, <2>1, <2>2, <2>3, <2>4, EntryKeeps, Zenon
  <1>4. CASE Succeed(w)
    <2>1. PICK costed \in BOOLEAN :
            /\ results' = [results EXCEPT ![job[w]] = IF costed THEN "costed" ELSE "ok"]
            /\ totalCost' = IF costed THEN totalCost + 1 ELSE totalCost
            /\ allCostsReported' = (allCostsReported /\ costed)
      BY <1>4 DEF Succeed
    <2> DEFINE value == IF costed THEN "costed" ELSE "ok"
    <2>2. value \in {"ok", "costed", "failed"} /\ value # "failed" /\ (value = "costed" <=> costed)
          /\ (value # "ok" <=> costed)
      OBVIOUS
    <2>3. allCostsReported' \in BOOLEAN /\ (allCostsReported' => allCostsReported /\ costed)
      BY <2>1, Zenon
    <2>4. /\ step' = [step EXCEPT ![w] = "progress"]
          /\ failureCount' = failureCount /\ successCount' = successCount + 1
          /\ results' = [results EXCEPT ![job[w]] = value]
      BY <1>4, <2>1 DEF Succeed, Goto
    <2>5. totalCost' = totalCost + (IF value = "costed" THEN 1 ELSE 0)
      BY <1>2, <2>1, <2>2
    <2> HIDE DEF value
    <2>6. /\ failureCount' = failureCount + (IF value = "failed" THEN 1 ELSE 0)
          /\ successCount' = successCount + (IF value = "failed" THEN 0 ELSE 1)
          /\ allCostsReported' => allCostsReported /\ value # "ok"
      BY <1>2, <2>2, <2>3, <2>4
    <2>7. "progress" = "cancel" => ~continueOnError /\ value = "failed"
      OBVIOUS
    <2> QED
      BY <1>2, <2>2, <2>3, <2>4, <2>5, <2>6, <2>7, EntryKeeps, Zenon
  <1> QED
    BY <1>3, <1>4
LEMMA CancelKeeps ==
    ASSUME BatchIInv, NEW w \in Workers, CancelBatch(w)
    PROVE  BatchIInv'
  <1>0. /\ BatchTypeOK /\ JobsApart /\ ResultsFollowBegun /\ CountsAreExact /\ ProgressFollows
        /\ StoppedForAReason
    BY DEF BatchIInv
  <1>1. /\ step[w] = "cancel" /\ step' = [step EXCEPT ![w] = "progress"]
        /\ UNCHANGED <<continueOnError, parentDone, next, caller, job, begun, results,
                       successCount, failureCount, totalCost, allCostsReported, completed, progress>>
    BY DEF CancelBatch, Goto, options, table
  <1>2. canceled' = TRUE
    BY Zenon DEF CancelBatch
  <1>3. step'[w] = "progress" /\ \A v \in Workers : v # w => step'[v] = step[v]
    BY <1>0, <1>1 DEF BatchTypeOK
  <1>4. Recorded' = Recorded /\ \A value : With(value)' = With(value)
    BY <1>1, TableKept
  <1>5. Uncounted' = Uncounted /\ Calling' = Calling
    BY <1>1, <1>3 DEF Uncounted, Calling
  <1>6. {job'[v] : v \in Calling'} = {job[v] : v \in Calling}
    BY <1>1, <1>5
  <1>7. BatchTypeOK'
    BY <1>0, <1>1, <1>2 DEF BatchTypeOK
  <1>8. JobsApart' /\ ResultsFollowBegun'
    BY <1>0, <1>1, <1>3 DEF JobsApart, Holding, ResultsFollowBegun
  <1>9. CountsAreExact' /\ ProgressFollows'
    BY <1>0, <1>1, <1>4, <1>5, <1>6 DEF CountsAreExact, ProgressFollows
  <1>10. StoppedForAReason'
    BY <1>0, <1>1, <1>2, <1>3, <1>4 DEF StoppedForAReason, Stopped
  <1> QED
    BY <1>7, <1>8, <1>9, <1>10 DEF BatchIInv

LEMMA CountKeeps ==
    ASSUME BatchIInv, NEW w \in Workers, Count(w)
    PROVE  BatchIInv'
  <1>0. /\ BatchTypeOK /\ JobsApart /\ ResultsFollowBegun /\ CountsAreExact /\ ProgressFollows
        /\ StoppedForAReason
    BY DEF BatchIInv
  <1>1. /\ step[w] = "progress" /\ step' = [step EXCEPT ![w] = "callback"]
        /\ completed' = completed + 1 /\ job' = [job EXCEPT ![w] = completed + 1]
        /\ completed \in Nat
        /\ UNCHANGED <<continueOnError, parentDone, canceled, next, caller, begun, results,
                       successCount, failureCount, totalCost, allCostsReported, progress>>
    BY <1>0 DEF Count, Goto, options, table, BatchTypeOK
  <1>2. /\ step'[w] = "callback" /\ job'[w] = completed + 1
        /\ \A v \in Workers : v # w => step'[v] = step[v] /\ job'[v] = job[v]
    BY <1>0, <1>1 DEF BatchTypeOK
  <1>3. Recorded' = Recorded /\ \A value : With(value)' = With(value)
    BY <1>1, TableKept
  <1>4. Uncounted' = Uncounted \ {w} /\ w \in Uncounted
    BY <1>1, <1>2 DEF Uncounted
  <1>5. Calling' = Calling \cup {w} /\ w \notin Calling
    BY <1>1, <1>2 DEF Calling
  <1>6. /\ Cardinality(Uncounted)' = Cardinality(Uncounted) - 1
        /\ Cardinality(Calling)' = Cardinality(Calling) + 1
    BY <1>4, <1>5, SetsAreFinite, FS_AddElement, FS_RemoveElement
  <1>7. {job'[v] : v \in Calling'} = {job[v] : v \in Calling} \cup {completed + 1}
    <2>1. \A v \in Calling : v \in Workers /\ v # w
      BY <1>5 DEF Calling
    <2> QED
      BY <1>2, <1>5, <2>1
  <1>8. BatchTypeOK'
    BY <1>0, <1>1 DEF BatchTypeOK
  <1>9. JobsApart' /\ ResultsFollowBegun'
    <2>1. JobsApart'
      BY <1>0, <1>1, <1>2 DEF JobsApart, Holding
    <2>2. \A q \in begun : results[q] = "none" =>
            \E v \in Workers : step'[v] = "provider" /\ job'[v] = q
      <3> SUFFICES ASSUME NEW q \in begun, results[q] = "none"
                   PROVE  \E v \in Workers : step'[v] = "provider" /\ job'[v] = q
        OBVIOUS
      <3>1. PICK v \in Workers : step[v] = "provider" /\ job[v] = q
        BY <1>0 DEF ResultsFollowBegun
      <3> QED
        BY <1>1, <1>2, <3>1
    <2>3. ResultsFollowBegun'
      BY <1>0, <1>1, <1>2, <2>2 DEF ResultsFollowBegun
    <2> QED
      BY <2>1, <2>3
  <1>10. CountsAreExact'
    BY <1>0, <1>1, <1>3 DEF CountsAreExact
  <1>11. ProgressFollows'
    <2>1. /\ completed' + Cardinality(Uncounted)' = Cardinality(Recorded)'
          /\ Len(progress') + Cardinality(Calling)' = completed'
      BY <1>0, <1>1, <1>3, <1>6, SetsAreFinite DEF ProgressFollows, BatchTypeOK
    <2>2. 1..completed' = 1..completed \cup {completed + 1}
      BY <1>1
    <2>3. {progress'[i] : i \in DOMAIN progress'} = {progress[i] : i \in DOMAIN progress}
      BY <1>1
    <2>4. {progress'[i] : i \in DOMAIN progress'} \cup {job'[v] : v \in Calling'} = 1..completed'
      BY <1>0, <1>7, <2>2, <2>3, Zenon DEF ProgressFollows
    <2> QED
      BY <2>1, <2>4 DEF ProgressFollows
  <1>12. StoppedForAReason'
    <2>1. Stopped' = Stopped
      BY <1>1 DEF Stopped
    <2> QED
      BY <1>0, <1>1, <1>2, <1>3, <2>1 DEF StoppedForAReason
  <1> QED
    BY <1>8, <1>9, <1>10, <1>11, <1>12 DEF BatchIInv

LEMMA CallbackKeeps ==
    ASSUME BatchIInv, NEW w \in Workers, ProgressCallback(w)
    PROVE  BatchIInv'
  <1>0. /\ BatchTypeOK /\ JobsApart /\ ResultsFollowBegun /\ CountsAreExact /\ ProgressFollows
        /\ StoppedForAReason
    BY DEF BatchIInv
  <1>1. /\ step[w] = "callback" /\ step' = [step EXCEPT ![w] = "idle"]
        /\ progress' = Append(progress, job[w])
        /\ UNCHANGED <<continueOnError, parentDone, canceled, next, caller, job, begun, results,
                       successCount, failureCount, totalCost, allCostsReported, completed>>
    BY DEF ProgressCallback, Goto, options, table
  <1>2. step'[w] = "idle" /\ \A v \in Workers : v # w => step'[v] = step[v]
    BY <1>0, <1>1 DEF BatchTypeOK
  <1>3. Recorded' = Recorded /\ \A value : With(value)' = With(value)
    BY <1>1, TableKept
  <1>4. Uncounted' = Uncounted
    BY <1>1, <1>2 DEF Uncounted
  <1>5. Calling' = Calling \ {w} /\ w \in Calling
    BY <1>1, <1>2 DEF Calling
  <1>6. Cardinality(Calling)' = Cardinality(Calling) - 1
    BY <1>5, SetsAreFinite, FS_RemoveElement
  <1>7. BatchTypeOK'
    BY <1>0, <1>1 DEF BatchTypeOK
  <1>8. JobsApart' /\ ResultsFollowBegun' /\ CountsAreExact'
    <2>1. JobsApart' /\ ResultsFollowBegun'
      BY <1>0, <1>1, <1>2 DEF JobsApart, Holding, ResultsFollowBegun
    <2>2. CountsAreExact'
      BY <1>0, <1>1, <1>3 DEF CountsAreExact
    <2> QED
      BY <2>1, <2>2
  <1>9. ProgressFollows'
    <2>1. /\ Len(progress') = Len(progress) + 1 /\ progress'[Len(progress) + 1] = job[w]
          /\ \A i \in DOMAIN progress : progress'[i] = progress[i]
          /\ DOMAIN progress' = DOMAIN progress \cup {Len(progress) + 1}
      BY <1>0, <1>1 DEF BatchTypeOK
    <2>2. {progress'[i] : i \in DOMAIN progress'} = {progress[i] : i \in DOMAIN progress} \cup {job[w]}
      BY <2>1
    <2>3. {job'[v] : v \in Calling'} \cup {job[w]} = {job[v] : v \in Calling}
      BY <1>1, <1>5
    <2>4. {progress'[i] : i \in DOMAIN progress'} \cup {job'[v] : v \in Calling'} = 1..completed'
      BY <1>0, <1>1, <2>2, <2>3 DEF ProgressFollows
    <2>5. Len(progress') + Cardinality(Calling)' = completed'
      BY <1>0, <1>1, <1>6, <2>1, SetsAreFinite DEF ProgressFollows, BatchTypeOK
    <2>6. completed' + Cardinality(Uncounted)' = Cardinality(Recorded)'
      BY <1>0, <1>1, <1>3, <1>4 DEF ProgressFollows
    <2> QED
      BY <2>4, <2>5, <2>6 DEF ProgressFollows
  <1>10. StoppedForAReason'
    <2>1. Stopped' = Stopped
      BY <1>1 DEF Stopped
    <2> QED
      BY <1>0, <1>1, <1>2, <1>3, <2>1 DEF StoppedForAReason
  <1> QED
    BY <1>7, <1>8, <1>9, <1>10 DEF BatchIInv

LEMMA NextBatchIInv == ASSUME BatchIInv, [BatchNext]_batchVars PROVE BatchIInv'
  <1>1. CASE StopFeeding \/ ReturnResult \/ CancelParent \/ UNCHANGED batchVars
    BY <1>1, CallerKeeps
  <1>2. ASSUME NEW w \in Workers, Work(w) PROVE BatchIInv'
    BY <1>2, FeedKeeps, BeginKeeps, ProviderKeeps, CancelKeeps, CountKeeps, CallbackKeeps
       DEF Work
  <1> QED
    BY <1>1, <1>2 DEF BatchNext

\* At the end nobody is on the way: the table holds what was begun, all of it
\* is counted and called back, and the rest was left out by a stop.
LEMMA InvariantIsExact == ASSUME BatchIInv PROVE BatchIsExact
  <1>0. /\ BatchTypeOK /\ JobsApart /\ ResultsFollowBegun /\ CountsAreExact /\ ProgressFollows
        /\ StoppedForAReason
    BY DEF BatchIInv
  <1>1. completed <= Cardinality(Recorded)
    BY <1>0, SetsAreFinite DEF ProgressFollows, BatchTypeOK
  <1>2. ASSUME caller = "returned"
        PROVE  /\ Recorded = begun
               /\ failureCount = Cardinality({r \in Batch : results[r] = "failed"})
               /\ successCount = Cardinality(Recorded) - failureCount
               /\ allCostsReported => totalCost = successCount
               /\ Len(progress) = Cardinality(Recorded)
               /\ {progress[i] : i \in DOMAIN progress} = 1..Len(progress)
               /\ Recorded # Batch => parentDone \/ (~continueOnError /\ failureCount > 0)
    <2>1. \A w \in Workers : step[w] = "exited"
      BY <1>0, <1>2 DEF StoppedForAReason
    <2>2. Recorded = begun
      BY <1>0, <2>1 DEF Recorded, ResultsFollowBegun, BatchTypeOK
    <2>3. failureCount = Cardinality({r \in Batch : results[r] = "failed"})
      BY <1>0 DEF CountsAreExact, With
    <2>4. successCount = Cardinality(Recorded) - failureCount
      <3>1. With("ok") \cup With("costed") \cup With("failed") = Recorded
        BY <1>0 DEF With, Recorded, BatchTypeOK
      <3>2. /\ With("ok") \cap With("costed") = {}
            /\ (With("ok") \cup With("costed")) \cap With("failed") = {}
        BY DEF With
      <3>3. /\ IsFiniteSet(With("ok") \cup With("costed"))
            /\ Cardinality(With("ok") \cup With("costed")) =
                 Cardinality(With("ok")) + Cardinality(With("costed")) - Cardinality({})
        BY <3>2, SetsAreFinite, FS_Union
      <3>4. Cardinality(Recorded) = Cardinality(With("ok") \cup With("costed"))
                                      + Cardinality(With("failed")) - Cardinality({})
        BY <3>1, <3>2, <3>3, SetsAreFinite, FS_Union
      <3>5. /\ Cardinality({}) = 0 /\ Cardinality(With("ok")) \in Nat
            /\ Cardinality(With("costed")) \in Nat /\ Cardinality(With("failed")) \in Nat
        BY SetsAreFinite, FS_EmptySet
      <3> QED
        BY <1>0, <3>3, <3>4, <3>5 DEF CountsAreExact, BatchTypeOK
    <2>5. allCostsReported => totalCost = successCount
      <3>1. Cardinality({}) = 0 /\ Cardinality(With("costed")) \in Nat
        BY SetsAreFinite, FS_EmptySet
      <3>2. allCostsReported => Cardinality(With("ok")) = 0
        BY <1>0, <3>1 DEF CountsAreExact
      <3> QED
        BY <1>0, <3>1, <3>2 DEF CountsAreExact
    <2>6. Uncounted = {} /\ Calling = {}
      BY <2>1 DEF Uncounted, Calling
    <2>7. Len(progress) = completed /\ completed = Cardinality(Recorded)
      BY <1>0, <2>6, FS_EmptySet, SetsAreFinite DEF ProgressFollows, BatchTypeOK
    <2>8. {progress[i] : i \in DOMAIN progress} = 1..Len(progress)
      <3>1. {job[w] : w \in Calling} = {}
        BY <2>6
      <3> QED
        BY <1>0, <2>7, <3>1 DEF ProgressFollows
    <2>9. ASSUME Recorded # Batch PROVE parentDone \/ (~continueOnError /\ failureCount > 0)
      <3>1. PICK r \in Batch : r \notin begun
        BY <2>2, <2>9 DEF Recorded
      <3>2. Stopped
        <4>1. CASE r < next
          <5>1. r \in 1..(next - 1)
            BY <1>0, <3>1, <4>1, BatchFacts DEF BatchTypeOK
          <5> QED
            BY <1>0, <2>1, <3>1, <5>1 DEF StoppedForAReason
        <4>2. CASE r >= next
          <5>1. next <= BatchSize
            BY <1>0, <3>1, <4>2, BatchFacts DEF BatchTypeOK
          <5> QED
            BY <1>0, <1>2, <5>1 DEF StoppedForAReason
        <4> QED
          BY <1>0, <3>1, <4>1, <4>2, BatchFacts DEF BatchTypeOK
      <3>3. With("failed") # {} => failureCount > 0
        <4>1. With("failed") # {} => Cardinality(With("failed")) # 0
          BY SetsAreFinite, FS_EmptySet
        <4> QED
          BY <1>0, <4>1 DEF CountsAreExact, BatchTypeOK
      <3> QED
        BY <1>0, <3>2, <3>3 DEF StoppedForAReason, Stopped
    <2> QED
      BY <2>2, <2>3, <2>4, <2>5, <2>7, <2>8, <2>9
  <1> QED
    BY <1>1, <1>2 DEF BatchIsExact

\* ProcessBatch returns exact counts, one result for every request it started, and
\* progress that is neither lost nor repeated nor ahead of the results, for a batch of
\* any size and any pool of workers.
THEOREM BatchExact == BatchSpec => []BatchIsExact
  <1>1. BatchInit => BatchIInv
    BY InitBatchIInv
  <1>2. BatchIInv /\ [BatchNext]_batchVars => BatchIInv'
    BY NextBatchIInv
  <1>3. BatchIInv => BatchIsExact
    BY InvariantIsExact
  <1> QED
    BY <1>1, <1>2, <1>3, PTL DEF BatchSpec
-----------------------------------------------------------------------------
(* The tool loop.                                                          *)

Messages == [role : {"assistant", "tool"}, n : Nat]

\* The variables have their types.
ToolsTypeOK ==
    /\ loop \in {"turn", "model", "scheduling", "collecting", "returned"}
    /\ calls \in 0..MaxCalls
    /\ transcript \in Seq(Messages)
    /\ outcome \in {"none", "answer", "maxIterations", "canceled", "error"}
    /\ outcome = "none" <=> loop # "returned"

\* The results of a turn follow its assistant message, in the order of the calls.
ResultsFollowTheirTurn ==
    \A i \in DOMAIN transcript :
        LET turn == i - transcript[i].n IN
        transcript[i].role = "tool" =>
            /\ turn \in 1..(i - 1) /\ transcript[turn].role = "assistant"
            /\ \A k \in (turn + 1)..i : transcript[k].role = "tool"

\* Only the turn under way, or one that was canceled, is without its answers.
TurnsAreAnswered ==
    /\ \A i \in DOMAIN transcript : transcript[i].role = "assistant" =>
          Answered(i) \/ (i = Len(transcript) /\ ~AtRest)
    /\ loop \in {"scheduling", "collecting"} =>
          /\ calls > 0 /\ transcript # <<>>
          /\ transcript[Len(transcript)] = Assistant(calls)

ToolsIInv == ToolsTypeOK /\ ResultsFollowTheirTurn /\ TurnsAreAnswered

\* A transcript is a sequence of messages.
LEMMA MessagesOf ==
    ASSUME NEW t \in Seq(Messages)
    PROVE  /\ Len(t) \in Nat /\ DOMAIN t = 1..Len(t)
           /\ \A i \in 1..Len(t) : t[i].role \in {"assistant", "tool"} /\ t[i].n \in Nat
  <1>1. \A i \in 1..Len(t) : t[i] \in Messages
    OBVIOUS
  <1>2. \A m \in Messages : m.role \in {"assistant", "tool"} /\ m.n \in Nat
    BY DEF Messages
  <1> QED
    BY <1>1, <1>2

LEMMA InitToolsIInv == ToolsInit => ToolsIInv
  <1> SUFFICES ASSUME ToolsInit PROVE ToolsIInv
    OBVIOUS
  <1>1. transcript = <<>> /\ loop = "turn" /\ calls = 0 /\ outcome = "none"
    BY DEF ToolsInit
  <1>2. transcript \in Seq(Messages) /\ DOMAIN transcript = {}
    BY <1>1
  <1>3. ToolsTypeOK
    BY <1>1, <1>2, RunToolsAssumption DEF ToolsTypeOK
  <1> QED
    BY <1>1, <1>2, <1>3 DEF ToolsIInv, ResultsFollowTheirTurn, TurnsAreAnswered

\* A step of the loop that says nothing: at rest it stays, and the calls of a turn
\* under way are those of its message.
LEMMA SilenceKeeps ==
    ASSUME ToolsIInv, ToolsTypeOK', transcript' = transcript, AtRest' => AtRest,
           loop' \in {"scheduling", "collecting"} =>
               calls' = calls /\ loop \in {"scheduling", "collecting"}
    PROVE  ToolsIInv'
  <1>1. ResultsFollowTheirTurn'
    BY DEF ToolsIInv, ResultsFollowTheirTurn
  <1>2. \A i \in DOMAIN transcript : Answered(i) <=> Answered(i)'
    BY DEF Answered
  <1>3. TurnsAreAnswered'
    BY <1>2 DEF ToolsIInv, TurnsAreAnswered
  <1> QED
    BY <1>1, <1>3 DEF ToolsIInv

\* The model's message ends a transcript whose turns are all answered.
LEMMA AnswerKeeps ==
    ASSUME ToolsIInv, NEW n \in 0..MaxCalls, ModelAnswers(n)
    PROVE  ToolsIInv'
  <1>0. ToolsTypeOK /\ ResultsFollowTheirTurn /\ TurnsAreAnswered /\ AtRest
    BY DEF ToolsIInv, ModelAnswers, AtRest
  <1>a. PICK len \in Nat : len = Len(transcript)
    BY <1>0, MessagesOf DEF ToolsTypeOK
  <1>1. /\ transcript \in Seq(Messages) /\ len \in Nat /\ DOMAIN transcript = 1..len
        /\ \A i \in 1..len : transcript[i].n \in Nat /\ transcript[i].role \in {"assistant", "tool"}
    BY <1>0, <1>a, MessagesOf DEF ToolsTypeOK
  <1>2. Assistant(n) \in Messages /\ Assistant(n).role = "assistant" /\ Assistant(n).n = n /\ n \in Nat
    BY RunToolsAssumption DEF Assistant, Messages
  <1>3. /\ transcript' \in Seq(Messages) /\ Len(transcript') = len + 1
        /\ DOMAIN transcript' = 1..(len + 1)
        /\ transcript'[len + 1] = Assistant(n)
        /\ \A i \in 1..len : transcript'[i] = transcript[i]
    BY <1>a, <1>1, <1>2 DEF ModelAnswers
  <1>4. calls' = n /\ (n = 0 => AtRest' /\ loop' = "returned") /\ (n # 0 => ~AtRest' /\ loop' = "scheduling")
    BY <1>0 DEF ModelAnswers, ReturnOutcome, AtRest, ToolsTypeOK
  <1>5. ToolsTypeOK'
    BY <1>0, <1>3, RunToolsAssumption DEF ModelAnswers, ReturnOutcome, ToolsTypeOK
  <1>6. \A i \in 1..len : transcript[i].role = "assistant" => Answered(i)
    BY <1>0, <1>1 DEF TurnsAreAnswered
  <1>7. ASSUME NEW i \in 1..len, transcript[i].role = "assistant" PROVE Answered(i)'
    <2>1. Answered(i)
      BY <1>6, <1>7
    <2> DEFINE last == i + transcript[i].n
    <2>2. /\ last \in Nat /\ last <= len
          /\ \A k \in (i + 1)..last : transcript[k].role = "tool"
          /\ last < len => transcript[last + 1].role = "assistant"
      BY <1>a, <1>1, <2>1 DEF Answered
    <2>3. i + transcript'[i].n = last
      BY <1>3
    <2>4. \A k \in (i + 1)..last : transcript'[k].role = "tool"
      BY <1>a, <1>1, <1>3, <2>2
    <2>5. transcript'[last + 1].role = "assistant"
      <3>1. CASE last = len
        BY <1>2, <1>3, <3>1
      <3>2. CASE last < len
        BY <1>3, <2>2, <3>2, <1>1
      <3> QED
        BY <1>a, <1>1, <2>2, <3>1, <3>2
    <2> HIDE DEF last
    <2>6. last <= Len(transcript')
      BY <1>a, <1>3, <2>2
    <2> QED
      BY <2>3, <2>4, <2>5, <2>6 DEF Answered
  <1>8. n = 0 => Answered(len + 1)'
    BY <1>a, <1>1, <1>2, <1>3 DEF Answered
  <1>9. ResultsFollowTheirTurn'
    <2> SUFFICES ASSUME NEW i \in DOMAIN transcript', transcript'[i].role = "tool",
                        NEW turn \in Int, turn = i - transcript'[i].n
                 PROVE  /\ turn \in 1..(i - 1) /\ transcript'[turn].role = "assistant"
                        /\ \A k \in (turn + 1)..i : transcript'[k].role = "tool"
      <3>1. \A i \in DOMAIN transcript' : transcript'[i].n \in Nat /\ i \in Int
        BY <1>3, MessagesOf
      <3> QED
        BY <3>1 DEF ResultsFollowTheirTurn
    <2>1. i \in 1..len
      BY <1>2, <1>3
    <2>2. transcript[i].role = "tool" /\ turn = i - transcript[i].n
      BY <1>3, <2>1
    <2>3. /\ turn \in 1..(i - 1) /\ transcript[turn].role = "assistant"
          /\ \A k \in (turn + 1)..i : transcript[k].role = "tool"
      BY <1>0, <1>1, <2>1, <2>2 DEF ResultsFollowTheirTurn
    <2>4. turn \in 1..len /\ \A k \in (turn + 1)..i : k \in 1..len
      BY <2>1, <2>3
    <2> QED
      BY <1>3, <2>3, <2>4
  <1>10. TurnsAreAnswered'
    <2>1. ASSUME NEW i \in DOMAIN transcript', transcript'[i].role = "assistant"
          PROVE  Answered(i)' \/ (i = Len(transcript') /\ ~AtRest')
      <3>1. CASE i = len + 1
        BY <1>3, <1>4, <1>8, <3>1
      <3>2. CASE i \in 1..len
        BY <1>3, <1>7, <2>1, <3>2
      <3> QED
        BY <1>a, <1>1, <1>3, <2>1, <3>1, <3>2
    <2>2. loop' \in {"scheduling", "collecting"} =>
            /\ calls' > 0 /\ transcript' # <<>>
            /\ transcript'[Len(transcript')] = Assistant(calls')
      BY <1>a, <1>1, <1>2, <1>3, <1>4
    <2> QED
      BY <2>1, <2>2 DEF TurnsAreAnswered, Assistant
  <1> QED
    BY <1>5, <1>9, <1>10 DEF ToolsIInv

\* The results of a complete turn follow the message that ends the transcript.
TurnCompletes ==
    /\ loop = "collecting" /\ loop' = "turn" /\ UNCHANGED <<calls, outcome>>
    /\ transcript' = transcript \o [k \in 1..calls |-> Result(k)]

LEMMA ResultsKeep ==
    ASSUME ToolsIInv, TurnCompletes
    PROVE  ToolsIInv'
  <1> DEFINE answers == [k \in 1..calls |-> Result(k)]
  <1>0. ToolsTypeOK /\ ResultsFollowTheirTurn /\ TurnsAreAnswered /\ calls \in Nat
    BY RunToolsAssumption DEF ToolsIInv, ToolsTypeOK
  <1>a. PICK len \in Nat : len = Len(transcript)
    BY <1>0, MessagesOf DEF ToolsTypeOK
  <1>1. /\ transcript \in Seq(Messages) /\ len \in Nat /\ DOMAIN transcript = 1..len
        /\ \A i \in 1..len : transcript[i].n \in Nat /\ transcript[i].role \in {"assistant", "tool"}
    BY <1>0, <1>a, MessagesOf DEF ToolsTypeOK
  <1>2. \A k \in 1..calls : Result(k) \in Messages /\ Result(k).role = "tool" /\ Result(k).n = k
    BY <1>0 DEF Result, Messages
  <1>3. answers \in Seq(Messages) /\ Len(answers) = calls
    BY <1>0, <1>2
  <1>4. /\ transcript' \in Seq(Messages) /\ Len(transcript') = len + calls
        /\ DOMAIN transcript' = 1..(len + calls)
        /\ \A i \in 1..len : transcript'[i] = transcript[i]
        /\ \A i \in (len + 1)..(len + calls) : transcript'[i] = answers[i - len]
    BY <1>0, <1>a, <1>1, <1>3 DEF TurnCompletes
  <1>5. \A i \in (len + 1)..(len + calls) : transcript'[i].role = "tool" /\ transcript'[i].n = i - len
    <2> SUFFICES ASSUME NEW i \in (len + 1)..(len + calls)
                 PROVE  transcript'[i].role = "tool" /\ transcript'[i].n = i - len
      OBVIOUS
    <2>1. i - len \in 1..calls
      BY <1>0, <1>1
    <2> QED
      BY <1>2, <1>4, <2>1
  <1>6. /\ calls > 0 /\ len \in 1..len
        /\ transcript[len].role = "assistant" /\ transcript[len].n = calls
    BY <1>0, <1>a, <1>1 DEF TurnsAreAnswered, Assistant, TurnCompletes
  <1>7. \A i \in 1..len : transcript[i].role = "assistant" => Answered(i) \/ i = len
    BY <1>0, <1>1 DEF TurnsAreAnswered
  <1> HIDE DEF answers
  <1>8. ToolsTypeOK'
    BY <1>0, <1>a, <1>4 DEF ToolsTypeOK, TurnCompletes
  <1>9. ResultsFollowTheirTurn'
    <2> SUFFICES ASSUME NEW i \in DOMAIN transcript', transcript'[i].role = "tool",
                        NEW turn \in Int, turn = i - transcript'[i].n
                 PROVE  /\ turn \in 1..(i - 1) /\ transcript'[turn].role = "assistant"
                        /\ \A k \in (turn + 1)..i : transcript'[k].role = "tool"
      <3>1. \A i \in DOMAIN transcript' : transcript'[i].n \in Nat /\ i \in Int
        BY <1>0, <1>4, MessagesOf
      <3> QED
        BY <3>1 DEF ResultsFollowTheirTurn
    <2>1. CASE i \in 1..len
      <3>1. transcript[i].role = "tool" /\ turn = i - transcript[i].n
        BY <1>4, <2>1
      <3>2. /\ turn \in 1..(i - 1) /\ transcript[turn].role = "assistant"
            /\ \A k \in (turn + 1)..i : transcript[k].role = "tool"
        BY <1>0, <1>a, <1>1, <2>1, <3>1 DEF ResultsFollowTheirTurn
      <3>3. turn \in 1..len /\ \A k \in (turn + 1)..i : k \in 1..len
        BY <2>1, <3>2
      <3> QED
        BY <1>4, <3>2, <3>3
    <2>2. CASE i \in (len + 1)..(len + calls)
      <3>1. turn = len
        BY <1>0, <1>a, <1>1, <1>5, <2>2
      <3> QED
        BY <1>0, <1>a, <1>1, <1>4, <1>5, <1>6, <2>2, <3>1
    <2> QED
      BY <1>0, <1>a, <1>1, <1>4, <2>1, <2>2
  <1>10. ASSUME NEW i \in 1..len, transcript[i].role = "assistant", i # len
         PROVE  Answered(i)'
    <2> DEFINE last == i + transcript[i].n
    <2>1. /\ last \in Nat /\ last <= len
          /\ \A k \in (i + 1)..last : transcript[k].role = "tool"
          /\ last < len => transcript[last + 1].role = "assistant"
      BY <1>a, <1>1, <1>7, <1>10 DEF Answered
    <2>2. last # len
      BY <1>a, <1>1, <1>6, <1>10, <2>1
    <2>3. i + transcript'[i].n = last
      BY <1>4
    <2>4. \A k \in (i + 1)..last : transcript'[k].role = "tool"
      BY <1>a, <1>1, <1>4, <2>1
    <2>5. last <= len + calls /\ transcript'[last + 1].role = "assistant"
      BY <1>0, <1>a, <1>1, <1>4, <2>1, <2>2
    <2> HIDE DEF last
    <2> QED
      BY <1>4, <2>3, <2>4, <2>5 DEF Answered
  <1>11. Answered(len)'
    <2>1. len + transcript'[len].n = Len(transcript')
      BY <1>4, <1>6
    <2>2. \A k \in (len + 1)..Len(transcript') : transcript'[k].role = "tool"
      BY <1>4, <1>5
    <2>3. Len(transcript') <= Len(transcript') /\ ~(Len(transcript') < Len(transcript'))
      BY <1>0, <1>4
    <2> QED
      BY <2>1, <2>2, <2>3 DEF Answered
  <1>12. TurnsAreAnswered'
    <2>1. ASSUME NEW i \in DOMAIN transcript', transcript'[i].role = "assistant"
          PROVE  Answered(i)'
      <3>1. i \in 1..len
        BY <1>0, <1>a, <1>1, <1>4, <1>5, <2>1
      <3> QED
        BY <1>4, <1>10, <1>11, <2>1, <3>1
    <2> QED
      BY <2>1 DEF TurnsAreAnswered, TurnCompletes
  <1> QED
    BY <1>8, <1>9, <1>12 DEF ToolsIInv

\* Each step of the loop, of a goroutine or of the caller keeps the invariant.
LEMMA NextToolsIInv == ToolsIInv /\ [ToolsNext]_toolsVars => ToolsIInv'
  <1> SUFFICES ASSUME ToolsIInv, [ToolsNext]_toolsVars PROVE ToolsIInv'
    OBVIOUS
  <1>0. ToolsTypeOK
    BY DEF ToolsIInv
  <1>1. ASSUME StartTurn PROVE ToolsIInv'
    <2>1. /\ transcript' = transcript /\ calls' = calls /\ AtRest
          /\ loop' \in {"model", "returned"} /\ ToolsTypeOK'
      BY <1>0, <1>1 DEF StartTurn, ReturnOutcome, ToolsTypeOK, AtRest
    <2> QED
      BY <2>1, SilenceKeeps
  <1>2. ASSUME ModelFails PROVE ToolsIInv'
    <2>1. /\ transcript' = transcript /\ AtRest /\ loop' = "returned" /\ ToolsTypeOK'
      BY <1>0, <1>2 DEF ModelFails, ReturnOutcome, ToolsTypeOK, AtRest
    <2> QED
      BY <2>1, SilenceKeeps
  <1>3. ASSUME Launch \/ AllScheduled PROVE ToolsIInv'
    <2>1. /\ transcript' = transcript /\ calls' = calls /\ outcome' = outcome
          /\ loop = "scheduling" /\ loop' \in {"scheduling", "collecting"}
      BY <1>3 DEF Launch, AllScheduled
    <2>2. ToolsTypeOK' /\ ~AtRest'
      BY <1>0, <2>1 DEF ToolsTypeOK, AtRest
    <2> QED
      BY <2>1, <2>2, SilenceKeeps
  <1>4. ASSUME Cancel PROVE ToolsIInv'
    <2>1. /\ transcript' = transcript /\ calls' = calls
          /\ loop' = "returned" /\ outcome' = "canceled"
      BY <1>4 DEF Cancel, ReturnOutcome
    <2>2. ToolsTypeOK' /\ ~AtRest'
      BY <1>0, <2>1 DEF ToolsTypeOK, AtRest
    <2> QED
      BY <2>1, <2>2, SilenceKeeps
  <1>5. ASSUME NEW n \in 0..MaxCalls, ModelAnswers(n) PROVE ToolsIInv'
    BY <1>5, AnswerKeeps
  <1>6. ASSUME NEW i \in Calls, Collect(i) PROVE ToolsIInv'
    <2>1. CASE collected' = 1..calls
      BY <1>6, <2>1, ResultsKeep DEF Collect, TurnCompletes
    <2>2. CASE collected' # 1..calls
      <3>1. UNCHANGED <<transcript, loop, calls, outcome>> /\ loop = "collecting"
        BY <1>6, <2>2 DEF Collect
      <3>2. ToolsTypeOK' /\ (AtRest' => AtRest)
        BY <1>0, <3>1 DEF ToolsTypeOK, AtRest
      <3> QED
        BY <3>1, <3>2, SilenceKeeps
    <2> QED
      BY <2>1, <2>2
  <1>7. ASSUME UNCHANGED <<transcript, loop, calls, outcome>> PROVE ToolsIInv'
    <2>1. ToolsTypeOK' /\ (AtRest' => AtRest)
      BY <1>0, <1>7 DEF ToolsTypeOK, AtRest
    <2> QED
      BY <1>7, <2>1, SilenceKeeps
  <1>8. (\E i \in Calls : ToolStep(i)) \/ ContextEnds \/ UNCHANGED toolsVars =>
          UNCHANGED <<transcript, loop, calls, outcome>>
    BY DEF ToolStep, StartTool, SendResult, ReleaseSlot, ToolGoes, ContextEnds, toolsVars
  <1> QED
    BY <1>1, <1>2, <1>3, <1>4, <1>5, <1>6, <1>7, <1>8 DEF ToolsNext, LoopStep

\* The last assistant message at or before a result is the one its number counts from.
LEMMA InvariantAnswersCalls == ASSUME ToolsIInv PROVE TranscriptAnswersEveryCall
  <1>0. ToolsTypeOK /\ ResultsFollowTheirTurn /\ TurnsAreAnswered
    BY DEF ToolsIInv
  <1>1. /\ Len(transcript) \in Nat /\ DOMAIN transcript = 1..Len(transcript)
        /\ \A i \in 1..Len(transcript) : transcript[i].n \in Nat
    BY <1>0, MessagesOf DEF ToolsTypeOK
  <1>2. ASSUME NEW i \in DOMAIN transcript, transcript[i].role = "tool"
        PROVE  transcript[i].n = i - TurnOf(i)
    <2> DEFINE turns == {k \in 1..i : transcript[k].role = "assistant"}
               turn == i - transcript[i].n
    <2>1. /\ turn \in 1..(i - 1) /\ transcript[turn].role = "assistant"
          /\ \A k \in (turn + 1)..i : transcript[k].role = "tool"
      BY <1>0, <1>2 DEF ResultsFollowTheirTurn
    <2>2. turn \in turns /\ \A k \in turns : turn >= k
      BY <1>1, <2>1
    <2> HIDE DEF turn
    <2>3. \A m \in turns : (\A k \in turns : m >= k) => m = turn
      BY <1>1, <2>1, <2>2
    <2>4. TurnOf(i) = turn
      BY <2>2, <2>3 DEF TurnOf, Max
    <2> QED
      BY <1>1, <2>4 DEF turn
  <1>3. ASSUME NEW i \in DOMAIN transcript,
               transcript[i].role = "assistant", i < Len(transcript) \/ AtRest
        PROVE  Answered(i)
    BY <1>0, <1>1, <1>3 DEF TurnsAreAnswered
  <1> QED
    BY <1>2, <1>3 DEF TranscriptAnswersEveryCall

\* Before a model is asked again it has seen the result of each call, once and in the
\* order of the calls, whatever the number of calls, their concurrency, the order in
\* which the tools finish and the turn the context ends in.
THEOREM CallsAreAnswered == ToolsSpec => []TranscriptAnswersEveryCall
  <1> QED
    BY InitToolsIInv, NextToolsIInv, InvariantAnswersCalls, PTL DEF ToolsSpec
=============================================================================
