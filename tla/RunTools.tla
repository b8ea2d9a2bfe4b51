------------------------------ MODULE RunTools ------------------------------
(***************************************************************************)
(* RunTools of runtools.go: the loop that asks a model, runs the tools it  *)
(* calls and asks again.  The calls of one turn run in goroutines, so many *)
(* at a time, and give their results to the loop through a channel.        *)
(*                                                                         *)
(* The i-th call of a turn is called i.  What a tool answers (a result, an *)
(* error, a panic, the name of no tool) becomes one message in every case. *)
(***************************************************************************)
EXTENDS Integers, Sequences, FiniteSets, SequencesExt

CONSTANTS
    MaxCalls,           \* tool calls in one response, at most
    Concurrency,        \* WithToolConcurrency
    MaxIterations       \* WithMaxIterations

Calls == 1..MaxCalls

ASSUME RunToolsAssumption ==
    MaxCalls \in Nat /\ Concurrency \in Nat \ {0} /\ MaxIterations \in Nat \ {0}

VARIABLES
    contextDone,
    loop,               \* "turn", "model", "scheduling", "collecting", "returned"
    iteration,
    calls,              \* tool calls of this turn
    scheduled,          \* of these, how many have a goroutine
    tool,               \* each goroutine: "none", "launched", "running", "sent", "exited"
    collected,          \* results received, in the order of the calls
    transcript,         \* [role, n]: an assistant message with n calls, or the n-th result
    outcome

goroutines == <<scheduled, tool>>
toolsVars == <<contextDone, loop, iteration, calls, goroutines, collected, transcript, outcome>>

Assistant(n) == [role |-> "assistant", n |-> n]
Result(i) == [role |-> "tool", n |-> i]

ToolsInit ==
    /\ contextDone = FALSE
    /\ loop = "turn" /\ iteration = 1
    /\ calls = 0 /\ scheduled = 0
    /\ tool = [i \in Calls |-> "none"]
    /\ collected = {}
    /\ transcript = <<>>
    /\ outcome = "none"

ReturnOutcome(value) == loop' = "returned" /\ outcome' = value
HoldSlot == {i \in Calls : tool[i] \in {"launched", "running", "sent"}}

-----------------------------------------------------------------------------
(* The loop.                                                               *)

StartTurn ==
    /\ loop = "turn"
    /\ IF iteration > MaxIterations THEN ReturnOutcome("maxIterations")
       ELSE IF contextDone THEN ReturnOutcome("canceled")
       ELSE loop' = "model" /\ UNCHANGED outcome
    /\ UNCHANGED <<contextDone, iteration, calls, goroutines, collected, transcript>>

\* The model fails or answers nothing.
ModelFails ==
    /\ loop = "model"
    /\ ReturnOutcome("error")
    /\ UNCHANGED <<contextDone, iteration, calls, goroutines, collected, transcript>>

ModelAnswers(n) ==
    /\ loop = "model"
    /\ transcript' = Append(transcript, Assistant(n))
    /\ calls' = n /\ scheduled' = 0 /\ collected' = {}
    /\ tool' = [i \in Calls |-> "none"]
    /\ IF n = 0 THEN ReturnOutcome("answer") ELSE loop' = "scheduling" /\ UNCHANGED outcome
    /\ UNCHANGED <<contextDone, iteration>>

\* The next call has its slot, and its goroutine.
Launch ==
    /\ loop = "scheduling" /\ scheduled < calls /\ ~contextDone
    /\ Cardinality(HoldSlot) < Concurrency
    /\ scheduled' = scheduled + 1
    /\ tool' = [tool EXCEPT ![scheduled'] = "launched"]
    /\ UNCHANGED <<contextDone, loop, iteration, calls, collected, transcript, outcome>>

AllScheduled ==
    /\ loop = "scheduling" /\ scheduled = calls
    /\ loop' = "collecting"
    /\ UNCHANGED <<contextDone, iteration, calls, goroutines, collected, transcript, outcome>>

\* The context ends before the turn is complete: the transcript ends with the
\* message that made the calls, and the goroutines are on their own.
Cancel ==
    /\ contextDone
    /\ \/ loop = "scheduling" /\ scheduled < calls
       \/ loop = "collecting" /\ collected # 1..calls
    /\ ReturnOutcome("canceled")
    /\ UNCHANGED <<contextDone, iteration, calls, goroutines, collected, transcript>>

\* A slip: results are taken in the order they come.
CollectAppending(i) ==
    /\ loop = "collecting" /\ ~contextDone
    /\ i \notin collected /\ tool[i] \in {"sent", "exited"}
    /\ collected' = collected \cup {i}
    /\ transcript' = Append(transcript, Result(i))
    /\ IF collected' = 1..calls
       THEN loop' = "turn" /\ iteration' = iteration + 1
       ELSE UNCHANGED <<loop, iteration>>
    /\ UNCHANGED <<contextDone, calls, goroutines, outcome>>

\* A result has come.  The last one completes the turn.
Collect(i) ==
    /\ loop = "collecting" /\ ~contextDone
    /\ i \notin collected /\ tool[i] \in {"sent", "exited"}
    /\ collected' = collected \cup {i}
    /\ IF collected' = 1..calls
       THEN /\ transcript' = transcript \o [k \in 1..calls |-> Result(k)]
            /\ loop' = "turn" /\ iteration' = iteration + 1
       ELSE UNCHANGED <<transcript, loop, iteration>>
    /\ UNCHANGED <<contextDone, calls, goroutines, outcome>>

-----------------------------------------------------------------------------
(* The goroutine of a call.                                                *)

ToolGoes(i, to) ==
    /\ tool' = [tool EXCEPT ![i] = to]
    /\ UNCHANGED <<contextDone, loop, iteration, calls, scheduled, collected, transcript, outcome>>

\* callCtx has ended, with the caller's context or with RunTools.
CallContextDone == contextDone \/ loop = "returned"

\* A goroutine that starts too late leaves without a result.
StartTool(i) ==
    /\ tool[i] = "launched"
    /\ ToolGoes(i, IF CallContextDone THEN "exited" ELSE "running")

\* A slip: a result is sent only if the context has not ended.
SendIfWanted(i) ==
    /\ tool[i] = "running" /\ ~CallContextDone
    /\ ToolGoes(i, "sent")

\* The channel holds a result for every call: nobody waits.
SendResult(i) ==
    /\ tool[i] = "running"
    /\ ToolGoes(i, "sent")

ReleaseSlot(i) ==
    /\ tool[i] = "sent"
    /\ ToolGoes(i, "exited")

ContextEnds ==
    /\ ~contextDone /\ loop # "returned"
    /\ contextDone' = TRUE
    /\ UNCHANGED <<loop, iteration, calls, goroutines, collected, transcript, outcome>>

ToolStep(i) == StartTool(i) \/ SendResult(i) \/ ReleaseSlot(i)

LoopStep ==
    \/ StartTurn \/ ModelFails \/ Launch \/ AllScheduled \/ Cancel
    \/ \E n \in 0..MaxCalls : ModelAnswers(n)
    \/ \E i \in Calls : Collect(i)

ToolsNext == ContextEnds \/ LoopStep \/ \E i \in Calls : ToolStep(i)

\* Goroutines are scheduled, models answer, and tools return.
ToolsFairness == WF_toolsVars(LoopStep) /\ \A i \in Calls : WF_toolsVars(ToolStep(i))

ToolsSpec == ToolsInit /\ [][ToolsNext]_toolsVars /\ ToolsFairness

-----------------------------------------------------------------------------
(* Properties                                                              *)

\* Where the i-th message of the transcript has its assistant message.
TurnOf(i) == Max({k \in 1..i : transcript[k].role = "assistant"})

\* No turn is under way, nor was one canceled.
AtRest == loop \in {"turn", "model"} \/ outcome \in {"answer", "maxIterations", "error"}

\* The calls of the i-th message have their results, right behind it, and behind
\* those is another turn or nothing.
Answered(i) ==
    LET last == i + transcript[i].n IN
    /\ last <= Len(transcript)
    /\ \A k \in (i + 1)..last : transcript[k].role = "tool"
    /\ last < Len(transcript) => transcript[last + 1].role = "assistant"

\* Whatever order tools finish in, a model is shown each call's result, once and
\* in the order of the calls, before it is asked again: the calls of every turn
\* but a canceled last one are answered completely.
TranscriptAnswersEveryCall ==
    /\ \A i \in DOMAIN transcript :
          transcript[i].role = "tool" => transcript[i].n = i - TurnOf(i)
    /\ \A i \in DOMAIN transcript :
          transcript[i].role = "assistant" /\ (i < Len(transcript) \/ AtRest) => Answered(i)

\* RunTools returns, and no goroutine it started stays behind.
AllToolsEnd == <>[](loop = "returned" /\ HoldSlot = {})
=============================================================================
