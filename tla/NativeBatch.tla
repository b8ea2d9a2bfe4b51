----------------------------- MODULE NativeBatch -----------------------------
(***************************************************************************)
(* OpenRouter's batches.  Goroutines add requests to a BatchBuilder; the   *)
(* requests become one submission, which the service accepts before it can *)
(* be read, works off, and may purge; WaitBatch polls it, ever more rarely,*)
(* and the result lines, in any order and perhaps not one for each, are    *)
(* mapped back onto the requests.                                          *)
(***************************************************************************)
EXTENDS Integers, Sequences, FiniteSets

CONSTANTS
    CustomIds, DefaultModel,
    MaxRequestsInBatch,             \* bound on the requests of a batch
    Grace,                          \* batchVisibilityGrace
    AskedIntervals,                 \* initial poll intervals that a caller asks for
    DefaultInterval, MaxInterval,   \* defaultBatchPollInterval, maxBatchPollInterval
    MaxNow                          \* bound on the clock
ASSUME NativeBatchAssumption ==
    {Grace, MaxNow} \subseteq Nat /\ AskedIntervals \subseteq Int
    /\ MaxInterval \in Nat /\ DefaultInterval \in 1..MaxInterval

VARIABLES batched,     \* the builder's requests, in the order they were added
          jobPhase,  \* "building", "waiting" and the ends
          remote,    \* the batch at the service: can it be read, how far is it, its lines
          batchNow, wake, pollInterval,  \* WaitBatch's clock, next poll and current interval
          lineResults, successes, failures, totalUsage

batchVars == <<batched, jobPhase, remote, batchNow, wake, pollInterval, lineResults, successes, failures, totalUsage>>
replies == <<lineResults, successes, failures, totalUsage>>

BatchTerminal == {"completed", "failed"}  \* "failed" stands for expired and canceled too

\* What a line may hold: a response to be used (of two tokens), neither response nor error,
\* or an error; an error status and a body that does not decode are told as errors are.
LineKinds == {"response", "neither", "error"}

\* A slip: the default is put in, but what is longer than the cap is not cut.
StartUncut(asked) == IF asked <= 0 THEN DefaultInterval ELSE asked

\* The initial interval: the default where none is asked for, and never above the cap.
StartInterval(asked) ==
    IF asked <= 0 THEN DefaultInterval ELSE IF asked > MaxInterval THEN MaxInterval ELSE asked

\* jitter: up to a tenth is added to spread the waiters.
Spread(interval) == interval .. interval + interval \div 10

BatchInit ==
    /\ batched = <<>> /\ jobPhase = "building" /\ remote = [seen |-> FALSE, state |-> "", lines |-> <<>>]
    /\ batchNow = 0 /\ wake = 0 /\ \E asked \in AskedIntervals : pollInterval = StartInterval(asked)
    /\ lineResults = <<>> /\ successes = 0 /\ failures = 0 /\ totalUsage = 0

\* Add: under the builder's mutex, an identifier is taken once and is not empty.
Add(id, model, text) ==
    /\ jobPhase = "building" /\ Len(batched) < MaxRequestsInBatch
    /\ id # "" /\ \A i \in DOMAIN batched : batched[i].id # id
    /\ batched' = Append(batched, [id |-> id, model |-> model, text |-> text])
    /\ UNCHANGED <<jobPhase, remote, batchNow, wake, pollInterval, replies>>

\* buildSubmission: text only, and one model for all, the client's where none is asked for.
Resolved(r) == IF r.model = "" THEN DefaultModel ELSE r.model
Submittable ==
    /\ batched # <<>>
    /\ \A i \in DOMAIN batched : batched[i].text /\ Resolved(batched[i]) = Resolved(batched[1])

\* ProcessBatch: what cannot be submitted is refused; a failed submission may all the same
\* have queued a batch, which this call never names.
SubmitBatch ==
    /\ jobPhase = "building"
    /\ \/ Submittable /\ jobPhase' = "waiting" /\ remote' = [remote EXCEPT !.state = "validating"]
       \/ Submittable /\ jobPhase' = "error" /\ UNCHANGED remote
       \/ ~Submittable /\ jobPhase' = "refused" /\ UNCHANGED remote
    /\ UNCHANGED <<batched, batchNow, wake, pollInterval, replies>>

BatchedIds == {batched[i].id : i \in DOMAIN batched}

\* The service: the batch can be read, is done, with lines of its own order, or is purged.
Land == /\ jobPhase = "waiting" /\ ~remote.seen /\ remote.state # "purged"
        /\ remote' = [remote EXCEPT !.seen = TRUE]
        /\ UNCHANGED <<batched, jobPhase, batchNow, wake, pollInterval, replies>>
Finish ==
    /\ remote.state = "validating" /\ jobPhase = "waiting"
    /\ \/ remote' = [remote EXCEPT !.state = "failed"]
       \/ \E n \in 0 .. Len(batched) :
            \E ids \in [1 .. n -> BatchedIds], kinds \in [1 .. n -> LineKinds] :
                remote' = [remote EXCEPT !.state = "completed",
                                         !.lines = [i \in 1 .. n |-> <<ids[i], kinds[i]>>]]
    /\ UNCHANGED <<batched, jobPhase, batchNow, wake, pollInterval, replies>>
Purge == /\ remote.state \in BatchTerminal /\ jobPhase = "waiting"
         /\ remote' = [seen |-> FALSE, state |-> "purged", lines |-> <<>>]
         /\ UNCHANGED <<batched, jobPhase, batchNow, wake, pollInterval, replies>>

BatchTick == /\ jobPhase = "waiting" /\ batchNow < MaxNow /\ batchNow' = batchNow + 1
        /\ UNCHANGED <<batched, jobPhase, remote, wake, pollInterval, replies>>

SleepsFor(interval) == \E pause \in Spread(interval) : wake' = batchNow + pause

\* A read that finds nothing: within the grace the batch may still appear, and the
\* interval stays; later it is missing.
Unreadable ==
    /\ ~remote.seen
    /\ IF batchNow < Grace THEN SleepsFor(pollInterval) /\ UNCHANGED jobPhase
       ELSE jobPhase' = "missing" /\ UNCHANGED wake
    /\ UNCHANGED <<pollInterval, replies>>

\* A read that fails in any other way ends the wait, within the grace too.
ReadFails == jobPhase' = "unread" /\ UNCHANGED <<wake, pollInterval, replies>>

Unfinished ==
    /\ remote.seen /\ remote.state \notin BatchTerminal
    /\ SleepsFor(pollInterval)
    /\ pollInterval' = (IF pollInterval * 2 < MaxInterval THEN pollInterval * 2 ELSE MaxInterval)
    /\ UNCHANGED <<jobPhase, replies>>

\* convertBatchLine: a line is a response or a reason why there is none.
Converts(k) == k = "response"

\* Of several lines of a request the last counts; a request without one has failed.
LinesOf(id) == {i \in DOMAIN remote.lines : remote.lines[i][1] = id}
LineOf(id) == remote.lines[CHOOSE i \in LinesOf(id) : \A j \in LinesOf(id) : j <= i]
Succeeded(id) == LinesOf(id) # {} /\ Converts(LineOf(id)[2])

\* A slip: the lines are gone through, not the requests.
CollectLines ==
    LET given == {i \in DOMAIN batched : LinesOf(batched[i].id) # {}}
        good == {i \in given : Converts(LineOf(batched[i].id)[2])}
    IN /\ lineResults' = [id \in {batched[i].id : i \in given} |-> id \in {batched[i].id : i \in good}]
       /\ successes' = Cardinality(good) /\ failures' = Cardinality(given) - Cardinality(good)
       /\ totalUsage' = 2 * Cardinality(good)

\* collectBatchResults.
Collect ==
    LET good == {i \in DOMAIN batched : Succeeded(batched[i].id)}
    IN /\ lineResults' = [id \in BatchedIds |-> Succeeded(id)]
       /\ successes' = Cardinality(good) /\ failures' = Cardinality(DOMAIN batched \ good)
       /\ totalUsage' = 2 * Cardinality(good)

Finished ==
    /\ remote.seen /\ remote.state \in BatchTerminal
    /\ IF remote.state = "completed" THEN jobPhase' = "done" /\ Collect
       ELSE jobPhase' = "failed" /\ UNCHANGED replies
    /\ UNCHANGED <<wake, pollInterval>>

Poll ==
    /\ jobPhase = "waiting" /\ batchNow >= wake
    /\ Unreadable \/ ReadFails \/ Unfinished \/ Finished
    /\ UNCHANGED <<batched, remote, batchNow>>

\* The caller's context ends a read or a sleep.
LeaveBatch == /\ jobPhase = "waiting" /\ jobPhase' = "left"
         /\ UNCHANGED <<batched, remote, batchNow, wake, pollInterval, replies>>

BatchNext ==
    \/ \E id \in CustomIds, model \in {"", "other"}, text \in BOOLEAN : Add(id, model, text)
    \/ SubmitBatch \/ Land \/ Finish \/ Purge \/ BatchTick \/ Poll \/ LeaveBatch

BatchSpec == BatchInit /\ [][BatchNext]_batchVars

-----------------------------------------------------------------------------
\* Every request of a batch has one result, a response exactly if its last line is one,
\* the counts and the usage are those of the lineResults, a batch of two models or of images
\* is never queued, and a batch is only missing when the grace is over; whatever interval
\* the caller asked for, a poll is never further away than the longest and a tenth of it.
\* (collectBatchResults and buildSubmission; WaitBatch with its clamp, doubling and jitter.)
BatchIsAnswered ==
    /\ jobPhase = "done" =>
        /\ DOMAIN lineResults = BatchedIds
        /\ successes + failures = Len(batched)
        /\ successes = Cardinality({id \in DOMAIN lineResults : lineResults[id]})
        /\ totalUsage = 2 * successes
        /\ \A id \in DOMAIN lineResults : lineResults[id] <=>
            \E i \in DOMAIN remote.lines :
                remote.lines[i] = <<id, "response">> /\ \A j \in DOMAIN remote.lines :
                    j > i => remote.lines[j][1] # id
    /\ remote.state # "" => \A i, j \in DOMAIN batched :
        batched[i].text /\ (i # j => batched[i].id # batched[j].id /\ Resolved(batched[i]) = Resolved(batched[j]))
    /\ jobPhase = "missing" => batchNow >= Grace
    /\ jobPhase = "waiting" => wake <= batchNow + MaxInterval + MaxInterval \div 10
=============================================================================
