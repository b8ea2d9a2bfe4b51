-------------------------- MODULE ConcurrentBatcher --------------------------
(***************************************************************************)
(* ConcurrentBatcher.ProcessBatch of batch.go: a fixed pool of workers     *)
(* takes requests from the caller, who hands them over one at a time, and  *)
(* enters the results into one table under a lock.                         *)
(*                                                                         *)
(* The n-th request is called n.  The provider's answer is chosen freely;  *)
(* an error, no response at all, a panic and a request timeout all come to *)
(* a recorded failure.                                                     *)
(***************************************************************************)
EXTENDS Integers, Sequences, FiniteSets

CONSTANTS
    BatchSize,          \* requests in the batch
    Workers             \* WithMaxConcurrency: the goroutines of the pool

Batch == 1..BatchSize

ASSUME BatcherAssumption ==
    BatchSize \in Nat \ {0} /\ Workers # {} /\ IsFiniteSet(Workers)

VARIABLES
    continueOnError,    \* WithContinueOnError; never changed
    parentDone,         \* the caller's context has ended
    canceled,           \* cancelBatch was called
    next,               \* the request the caller hands over next
    caller,             \* "feeding", "waiting" (for the workers), "returned"
    job, step,          \* per worker: the request it has, and where it is
    begun,              \* history: requests the provider was asked
    results,            \* per request: "none", "ok", "costed" or "failed"
    successCount, failureCount,
    totalCost, allCostsReported,
    completed,          \* progress counted so far
    progress            \* history: values the progress callback received

options == <<continueOnError>>
table == <<results, successCount, failureCount, totalCost, allCostsReported>>
batchVars == <<options, parentDone, canceled, next, caller, job, step, begun, table,
          completed, progress>>

BatchInit ==
    /\ continueOnError \in BOOLEAN
    /\ parentDone = FALSE /\ canceled = FALSE
    /\ next = 1 /\ caller = "feeding"
    /\ job = [w \in Workers |-> 0]
    /\ step = [w \in Workers |-> "idle"]
    /\ begun = {}
    /\ results = [r \in Batch |-> "none"]
    /\ successCount = 0 /\ failureCount = 0
    /\ totalCost = 0 /\ allCostsReported = TRUE
    /\ completed = 0 /\ progress = <<>>

Stopped == canceled \/ parentDone
Goto(w, to) == step' = [step EXCEPT ![w] = to]
Recorded == {r \in Batch : results[r] # "none"}

-----------------------------------------------------------------------------
(* The caller.                                                             *)

\* The channel has no buffer: a request goes to a worker that waits for one.
Feed(w) ==
    /\ caller = "feeding" /\ next <= BatchSize /\ step[w] = "idle"
    /\ job' = [job EXCEPT ![w] = next]
    /\ Goto(w, "taken")
    /\ next' = next + 1
    /\ UNCHANGED <<options, parentDone, canceled, caller, begun, table, completed, progress>>

StopFeeding ==
    /\ caller = "feeding"
    /\ next > BatchSize \/ Stopped
    /\ caller' = "waiting"
    /\ UNCHANGED <<options, parentDone, canceled, next, job, step, begun, table,
                   completed, progress>>

\* wg.Wait is over.
ReturnResult ==
    /\ caller = "waiting" /\ \A w \in Workers : step[w] = "exited"
    /\ caller' = "returned"
    /\ UNCHANGED <<options, parentDone, canceled, next, job, step, begun, table,
                   completed, progress>>

-----------------------------------------------------------------------------
(* A worker: processOne.                                                   *)

\* The channel is closed.
Leave(w) ==
    /\ step[w] = "idle" /\ caller = "waiting"
    /\ Goto(w, "exited")
    /\ UNCHANGED <<options, parentDone, canceled, next, caller, job, begun, table,
                   completed, progress>>

\* A request that is taken after the batch was canceled is dropped unrecorded.
Begin(w) ==
    /\ step[w] = "taken"
    /\ IF Stopped
       THEN Goto(w, "idle") /\ UNCHANGED begun
       ELSE Goto(w, "provider") /\ begun' = begun \cup {job[w]}
    /\ UNCHANGED <<options, parentDone, canceled, next, caller, job, table, completed, progress>>

\* recordSuccess of a response that reports its cost, or does not.
Succeed(w) ==
    /\ step[w] = "provider"
    /\ \E costed \in BOOLEAN :
         /\ results' = [results EXCEPT ![job[w]] = IF costed THEN "costed" ELSE "ok"]
         /\ totalCost' = IF costed THEN totalCost + 1 ELSE totalCost
         /\ allCostsReported' = (allCostsReported /\ costed)
    /\ successCount' = successCount + 1
    /\ Goto(w, "progress")
    /\ UNCHANGED <<options, parentDone, canceled, next, caller, job, begun, failureCount,
                   completed, progress>>

\* A slip: a failure stops the batch whatever the option says.
FailStoppingAlways(w) ==
    /\ step[w] = "provider"
    /\ results' = [results EXCEPT ![job[w]] = "failed"]
    /\ failureCount' = failureCount + 1
    /\ Goto(w, "cancel")
    /\ UNCHANGED <<options, parentDone, canceled, next, caller, job, begun, successCount,
                   totalCost, allCostsReported, completed, progress>>

\* recordFailure, and cancelBatch after it.
Fail(w) ==
    /\ step[w] = "provider"
    /\ results' = [results EXCEPT ![job[w]] = "failed"]
    /\ failureCount' = failureCount + 1
    /\ Goto(w, IF continueOnError THEN "progress" ELSE "cancel")
    /\ UNCHANGED <<options, parentDone, canceled, next, caller, job, begun, successCount,
                   totalCost, allCostsReported, completed, progress>>

CancelBatch(w) ==
    /\ step[w] = "cancel"
    /\ canceled' = TRUE
    /\ Goto(w, "progress")
    /\ UNCHANGED <<options, parentDone, next, caller, job, begun, table, completed, progress>>

\* reportProgress counts under its lock, and calls back off it.
Count(w) ==
    /\ step[w] = "progress"
    /\ completed' = completed + 1
    /\ job' = [job EXCEPT ![w] = completed']
    /\ Goto(w, "callback")
    /\ UNCHANGED <<options, parentDone, canceled, next, caller, begun, table, progress>>

ProgressCallback(w) ==
    /\ step[w] = "callback"
    /\ progress' = Append(progress, job[w])
    /\ Goto(w, "idle")
    /\ UNCHANGED <<options, parentDone, canceled, next, caller, job, begun, table, completed>>

\* The caller's context ends.
CancelParent ==
    /\ ~parentDone /\ caller # "returned"
    /\ parentDone' = TRUE
    /\ UNCHANGED <<options, canceled, next, caller, job, step, begun, table,
                   completed, progress>>

Work(w) ==
    \/ Feed(w) \/ Leave(w) \/ Begin(w) \/ Succeed(w) \/ Fail(w) \/ CancelBatch(w)
    \/ Count(w) \/ ProgressCallback(w)

BatchNext == StopFeeding \/ ReturnResult \/ CancelParent \/ \E w \in Workers : Work(w)

\* Goroutines are scheduled, the provider answers (each request has a timeout),
\* and progress callbacks return.
BatchFairness ==
    /\ WF_batchVars(StopFeeding) /\ WF_batchVars(ReturnResult)
    /\ \A w \in Workers : WF_batchVars(Work(w))

BatchSpec == BatchInit /\ [][BatchNext]_batchVars /\ BatchFairness

-----------------------------------------------------------------------------
(* Properties                                                              *)

\* What ProcessBatch returns is exact: an entry for every request that started
\* and no other, both counts equal to the entries, a total cost only if every
\* success reported one, each progress value given once, and nothing left out
\* but by the end of the caller's context or by a failure that may stop a batch.
\* Progress is never ahead of the results, though the two have different locks.
BatchIsExact ==
    /\ completed <= Cardinality(Recorded)
    /\ caller = "returned" =>
        /\ Recorded = begun
        /\ failureCount = Cardinality({r \in Batch : results[r] = "failed"})
        /\ successCount = Cardinality(Recorded) - failureCount
        /\ allCostsReported => totalCost = successCount
        /\ Len(progress) = Cardinality(Recorded)
        /\ {progress[i] : i \in DOMAIN progress} = 1..Len(progress)
        /\ Recorded # Batch => parentDone \/ (~continueOnError /\ failureCount > 0)

\* ProcessBatch returns.
BatchReturns == <>(caller = "returned")
=============================================================================
