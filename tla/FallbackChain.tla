---------------------------- MODULE FallbackChain ----------------------------
(***************************************************************************)
(* FallbackChain and WeightedFallbackChain of                              *)
(* pkg/middleware/resilience/fallback.go: clients tried in order until one *)
(* answers.                                                                *)
(*                                                                         *)
(* A call works on a snapshot of the chain while other goroutines add,     *)
(* remove, heal and cool down clients.  Health is kept per client, under   *)
(* an id that is never used again, so that a call that comes back late     *)
(* blames the client it talked to and no other.  The locked sections are   *)
(* one action each.  A client's answer is chosen freely: success, or an    *)
(* error that is provider ill-health or not and that the selector takes as *)
(* a reason to fall back or not.  Time is counted in ticks.                *)
(***************************************************************************)
EXTENDS Integers, Sequences, FiniteSets, SequencesExt

CONSTANTS
    Requests,           \* calls and streams made on the chain
    Streams,            \* those that are Stream calls
    InitialWeights,     \* the weights the chain is made with, one per client
    MaxId,              \* bound: clients ever in the chain
    RecoveryAfter       \* ticks a failed client is in cooldown

ASSUME ChainAssumption ==
    /\ Streams \subseteq Requests
    /\ InitialWeights \in Seq(Nat) /\ Len(InitialWeights) <= MaxId
    /\ MaxId \in Nat
    /\ RecoveryAfter \in Nat \ {0}

Ids == 1..MaxId

VARIABLES
    entries,            \* the chain: ids, with the cooldown each has left
    weights,            \* WeightedFallbackChain.weights, by position
    nextID,
    pc, candidates, at, \* each call: where it is, its snapshot, its position in it
    tried,              \* history: the outcomes of its attempts
    fallbacks,          \* history: onFallback calls
    result,             \* what the call returned
    blamed,             \* history: clients put in cooldown and not healed since
    weightOf            \* history: the weight each client came with

chain == <<entries, weights, nextID, weightOf>>
call == <<pc, candidates, at, tried, fallbacks, result>>
vars == <<chain, call, blamed>>

Errors == [unhealthy : BOOLEAN, fallback : BOOLEAN]

\* Highest weight first, and stable: NewWeightedFallbackChain.
ByWeight(ws) ==
    LET Ahead(i) == {j \in DOMAIN ws : ws[j] > ws[i] \/ (ws[j] = ws[i] /\ j < i)}
    IN  [n \in 1..Len(ws) |-> ws[CHOOSE i \in DOMAIN ws : Cardinality(Ahead(i)) = n - 1]]

Init ==
    /\ weights = ByWeight(InitialWeights)
    /\ entries = [i \in 1..Len(weights) |-> [id |-> i, cooldown |-> 0]]
    /\ nextID = Len(weights) + 1
    /\ weightOf = [id \in Ids |-> IF id <= Len(weights) THEN weights[id] ELSE 1]
    /\ pc = [r \in Requests |-> "start"]
    /\ candidates = [r \in Requests |-> <<>>]
    /\ at = [r \in Requests |-> 0]
    /\ tried = [r \in Requests |-> <<>>]
    /\ fallbacks = [r \in Requests |-> 0]
    /\ result = [r \in Requests |-> "none"]
    /\ blamed = {}

-----------------------------------------------------------------------------
(* Health.                                                                 *)

Healthy(entry) == entry.cooldown = 0

\* A slip: health is kept by position, and not by id.
CoolDownAt(r, cooldown) ==
    entries' = [i \in DOMAIN entries |->
        IF i = at[r]
        THEN [entries[i] EXCEPT !.cooldown = cooldown] ELSE entries[i]]

\* markHealthyID and markUnhealthyID: nothing if the client has gone.
SetCooldown(r, cooldown) ==
    entries' = [i \in DOMAIN entries |->
        IF entries[i].id = candidates[r][at[r]]
        THEN [entries[i] EXCEPT !.cooldown = cooldown] ELSE entries[i]]

Id(r) == candidates[r][at[r]]

MarkHealthy(r) == SetCooldown(r, 0) /\ blamed' = blamed \ {Id(r)}

Record(r, err) ==
    IF err.unhealthy
    THEN SetCooldown(r, RecoveryAfter) /\ blamed' = blamed \cup {Id(r)}
    ELSE UNCHANGED <<entries, blamed>>

SetClientHealthy(i, healthy) ==
    /\ entries' = [entries EXCEPT ![i].cooldown = IF healthy THEN 0 ELSE RecoveryAfter]
    /\ blamed' = IF healthy THEN blamed \ {entries[i].id} ELSE blamed \cup {entries[i].id}
    /\ UNCHANGED <<weights, nextID, weightOf, call>>

ResetHealth ==
    /\ entries' = [i \in DOMAIN entries |-> [entries[i] EXCEPT !.cooldown = 0]]
    /\ blamed' = {}
    /\ UNCHANGED <<weights, nextID, weightOf, call>>

AddClient ==
    /\ nextID <= MaxId
    /\ entries' = Append(entries, [id |-> nextID, cooldown |-> 0])
    /\ weights' = Append(weights, 1)
    /\ nextID' = nextID + 1
    /\ UNCHANGED <<weightOf, call, blamed>>

\* A slip: the embedded chain's method, which knows nothing of weights.
RemoveEntryOnly(i) ==
    /\ entries' = RemoveAt(entries, i)
    /\ UNCHANGED <<weights, nextID, weightOf, call, blamed>>

RemoveClient(i) ==
    /\ entries' = RemoveAt(entries, i)
    /\ weights' = RemoveAt(weights, i)
    /\ UNCHANGED <<nextID, weightOf, call, blamed>>

Tick ==
    /\ \E i \in DOMAIN entries : ~Healthy(entries[i])
    /\ entries' = [i \in DOMAIN entries |->
           IF Healthy(entries[i]) THEN entries[i]
           ELSE [entries[i] EXCEPT !.cooldown = @ - 1]]
    /\ UNCHANGED <<weights, nextID, weightOf, call, blamed>>

-----------------------------------------------------------------------------
(* A call.                                                                 *)

Goto(r, to) == pc' = [pc EXCEPT ![r] = to]
Return(r, value) == Goto(r, "done") /\ result' = [result EXCEPT ![r] = value]
Tried(r, outcome) ==
    tried' = [tried EXCEPT ![r] = Append(@, [id |-> Id(r), outcome |-> outcome])]

\* The positions in S from first to last.
InOrder(S) ==
    CHOOSE places \in [1..Cardinality(S) -> S] :
        \A i, j \in 1..Cardinality(S) : i < j => places[i] < places[j]

\* The healthy clients in order, or all of them if there is none.
Eligible ==
    IF \E i \in DOMAIN entries : Healthy(entries[i])
    THEN {i \in DOMAIN entries : Healthy(entries[i])} ELSE DOMAIN entries

Snapshot == [n \in 1..Cardinality(Eligible) |-> entries[InOrder(Eligible)[n]].id]

\* A slip: waits for a chain that has clients.
StartWithClients(r) ==
    /\ pc[r] = "start" /\ Snapshot # <<>>
    /\ candidates' = [candidates EXCEPT ![r] = Snapshot]
    /\ Goto(r, "trying") /\ at' = [at EXCEPT ![r] = 1]
    /\ UNCHANGED <<chain, tried, fallbacks, result, blamed>>

Start(r) ==
    /\ pc[r] = "start"
    /\ candidates' = [candidates EXCEPT ![r] = Snapshot]
    /\ IF Snapshot = <<>>
       THEN Return(r, "noClients") /\ UNCHANGED at
       ELSE Goto(r, "trying") /\ at' = [at EXCEPT ![r] = 1] /\ UNCHANGED result
    /\ UNCHANGED <<chain, tried, fallbacks, blamed>>

Succeed(r) ==
    /\ pc[r] = "trying" /\ r \notin Streams
    /\ MarkHealthy(r)
    /\ Tried(r, "ok") /\ Return(r, "ok")
    /\ UNCHANGED <<weights, nextID, weightOf, candidates, at, fallbacks>>

\* A slip: the position is not advanced.
TryAgain(r) ==
    /\ Goto(r, "trying") /\ fallbacks' = [fallbacks EXCEPT ![r] = @ + 1]
    /\ UNCHANGED <<at, result>>

\* On to the next client of the snapshot, if there is one.
FallBack(r) ==
    IF at[r] < Len(candidates[r])
    THEN /\ fallbacks' = [fallbacks EXCEPT ![r] = @ + 1]
         /\ Goto(r, "trying") /\ at' = [at EXCEPT ![r] = @ + 1] /\ UNCHANGED result
    ELSE Return(r, "allFailed") /\ UNCHANGED <<at, fallbacks>>

\* A slip: falls back whatever the selector says.
FailAlwaysFallingBack(r, err) ==
    /\ pc[r] = "trying"
    /\ Record(r, err)
    /\ Tried(r, IF err.fallback THEN "failed" ELSE "refused")
    /\ FallBack(r)
    /\ UNCHANGED <<weights, nextID, weightOf, candidates>>

\* The client fails, or refuses to open a stream.
Fail(r, err) ==
    /\ pc[r] = "trying"
    /\ Record(r, err)
    /\ Tried(r, IF err.fallback THEN "failed" ELSE "refused")
    /\ IF err.fallback THEN FallBack(r) ELSE Return(r, "error") /\ UNCHANGED <<at, fallbacks>>
    /\ UNCHANGED <<weights, nextID, weightOf, candidates>>

\* A stream is open; the call waits for its first chunk before it commits.
Open(r) ==
    /\ pc[r] = "trying" /\ r \in Streams
    /\ Goto(r, "firstChunk")
    /\ UNCHANGED <<chain, candidates, at, tried, fallbacks, result, blamed>>

\* Committed: what follows is forwarded.
FirstChunk(r) ==
    /\ pc[r] = "firstChunk"
    /\ MarkHealthy(r)
    /\ Tried(r, "ok") /\ Goto(r, "forwarding")
    /\ UNCHANGED <<weights, nextID, weightOf, candidates, at, fallbacks, result>>

\* A stream that closes without a chunk counts as a success.
EmptyStream(r) ==
    /\ pc[r] = "firstChunk"
    /\ MarkHealthy(r)
    /\ Tried(r, "ok") /\ Return(r, "ok")
    /\ UNCHANGED <<weights, nextID, weightOf, candidates, at, fallbacks>>

\* The first chunk is an error: fall back (the source is drained), or hand it on.
FirstError(r, err) ==
    /\ pc[r] = "firstChunk"
    /\ Record(r, err)
    /\ Tried(r, IF err.fallback THEN "failed" ELSE "refused")
    /\ IF err.fallback
       THEN FallBack(r)
       ELSE Return(r, "error") /\ UNCHANGED <<at, fallbacks>>
    /\ UNCHANGED <<weights, nextID, weightOf, candidates>>

\* The context ends first.  The stream that was opened is not even drained.
CancelFirst(r) ==
    /\ pc[r] = "firstChunk"
    /\ Return(r, "canceled")
    /\ UNCHANGED <<chain, candidates, at, tried, fallbacks, blamed>>

\* forwardStream ends, and tells onDone the error it saw, if any.
EndForward(r) ==
    /\ pc[r] = "forwarding"
    /\ \/ Return(r, "ok") /\ UNCHANGED <<entries, blamed>>
       \/ \E err \in Errors : Record(r, err) /\ Return(r, "ok")
    /\ UNCHANGED <<weights, nextID, weightOf, candidates, at, tried, fallbacks>>

Work(r) ==
    \/ Start(r) \/ Succeed(r) \/ Open(r) \/ FirstChunk(r) \/ EmptyStream(r) \/ EndForward(r)
    \/ \E err \in Errors : Fail(r, err) \/ FirstError(r, err)

Manage ==
    \/ AddClient \/ ResetHealth \/ Tick
    \/ \E i \in DOMAIN entries :
          RemoveClient(i) \/ \E healthy \in BOOLEAN : SetClientHealthy(i, healthy)

Next == Manage \/ \E r \in Requests : Work(r) \/ CancelFirst(r)

SafeSpec == Init /\ [][Next]_vars

\* A caller's goroutine runs, and its client answers some day.
Spec == SafeSpec /\ \A r \in Requests : WF_vars(Work(r))

\* For an instance of two clients, the heavier one given last.
TwoWeights == <<1, 2>>

-----------------------------------------------------------------------------
(* Properties                                                              *)

\* Only a client that failed itself, or that somebody cooled down by hand, is in
\* cooldown: a late answer never lands on the client that has moved into the
\* position of the one that gave it.
CooldownIsEarned == \A i \in DOMAIN entries : ~Healthy(entries[i]) => entries[i].id \in blamed

\* A call asks the clients in the order of the chain and none of them twice,
\* however the chain changes under it.
TriedOnceInOrder ==
    \A r \in Requests : \A i, j \in DOMAIN tried[r] : i < j => tried[r][i].id < tried[r][j].id

\* What a call returns is explained by its attempts: every client before the
\* last failed in a way worth falling back from, and "all failed" means all of
\* the snapshot.  Each change of client was announced by one onFallback.
AnswerIsExplained ==
    \A r \in Requests : pc[r] = "done" /\ result[r] # "noClients" =>
        LET n == Len(tried[r]) IN
        /\ \A i \in 1..(n - 1) : tried[r][i].outcome = "failed"
        /\ fallbacks[r] = (IF result[r] = "canceled" THEN n ELSE n - 1)
        /\ result[r] = "ok" => tried[r][n].outcome = "ok"
        /\ result[r] = "error" => tried[r][n].outcome = "refused"
        /\ result[r] = "allFailed" =>
             n = Len(candidates[r]) /\ tried[r][n].outcome = "failed"

\* A call goes down the chain it took a copy of, whatever becomes of the chain, and its
\* end is that of its attempts.
CallsFollowTheirChain == TriedOnceInOrder /\ AnswerIsExplained

\* Weights() describes the chain: each client has the weight it came with.
WeightsAligned ==
    /\ Len(weights) = Len(entries)
    /\ \A i \in DOMAIN entries : weights[i] = weightOf[entries[i].id]

\* What is kept per client follows the client through every change of the chain: its
\* cooldown by its id, its weight by its position.
HealthAndWeightFollowTheClient == CooldownIsEarned /\ WeightsAligned

\* Every call returns, whatever is done to the chain.
CallsReturn == <>(\A r \in Requests : pc[r] = "done")
=============================================================================
