---------------------------- MODULE ModelRequest ----------------------------
(***************************************************************************)
(* What the options of a call become in the request of each wire format:   *)
(* anthropic's messages (buildRequest), chat completions and Responses     *)
(* (BuildChatRequest, BuildResponsesRequest), and Gemini.  Models refuse   *)
(* requests over combinations of options, each generation over others.     *)
(* Options are built once and used for many calls: the map of extra body   *)
(* fields in them is the caller's.                                         *)
(***************************************************************************)
EXTENDS Integers, Sequences, FiniteSets, SequencesExt

CONSTANTS
    Families,           \* the wire formats of an execution
    MaxBuilds           \* bound on the calls made with one set of options

RequestAssumption ==
    Families \subseteq {"anthropic", "chat", "responses", "gemini"} /\ MaxBuilds \in Nat

VARIABLES
    family,             \* the wire format
    options,            \* of the call
    extra,              \* the caller's map of extra body fields: its "thinking", or none
    request,            \* what was built, or nothing
    builds              \* how many requests have been

vars == <<family, options, extra, request, builds>>

Unset == "unset"
NoBudget == 0

-----------------------------------------------------------------------------
(* Options.                                                                *)

Models == [anthropic |-> {"opus-4-5", "sonnet-4-6", "opus-4-8", "fable-5", "mythos"},
           chat |-> {"gpt-4", "o3"}, responses |-> {"gpt-4", "o3"}, gemini |-> {"gemini-3"}]

Efforts == {Unset, "minimal", "high"}
NoReasoning == [enabled |-> Unset, effort |-> Unset, budget |-> NoBudget, given |-> FALSE]
Reasonings ==
    {NoReasoning} \cup
    [enabled : {Unset, "on", "off"}, effort : Efforts, budget : {NoBudget, 500, 2000}, given : {TRUE}]

\* Whether tools are offered, and how one is to be chosen.
Toolings == {<<FALSE, Unset>>, <<TRUE, Unset>>, <<TRUE, "required">>, <<TRUE, "none">>}

\* How the call is cached, and how many messages are marked.
Cachings == {<<Unset, 0>>, <<"on", 4>>, <<"disabled", 4>>}

Options(f) ==
    [model : Models[f], maxTokens : {0, 2000}, reasoning : Reasonings, format : {"text", "json"},
     tooling : IF f = "anthropic" THEN Toolings ELSE {<<TRUE, "required">>},
     caching : IF f = "anthropic" THEN Cachings ELSE {<<Unset, 0>>},
     foreignTurn : IF f = "anthropic" THEN BOOLEAN ELSE {FALSE}]

Init ==
    /\ family \in Families /\ options \in Options(family)
    /\ extra \in (IF family = "chat" THEN {Unset, "own"} ELSE {Unset})
    /\ request = <<>> /\ builds = 0

IsEnabled(r) ==
    IF r.enabled # Unset THEN r.enabled = "on" ELSE r.effort # Unset \/ r.budget > 0

ReasoningBudgetForEffort == [unset |-> 0, minimal |-> 1024, high |-> 24576]

BudgetOf(r) == IF r.budget > 0 THEN r.budget ELSE ReasoningBudgetForEffort[r.effort]

WantsJson == options.format = "json"

-----------------------------------------------------------------------------
(* anthropic.                                                              *)

ClassifyModel == [m \in Models["anthropic"] |->
    CASE m \in {"fable-5", "mythos"} -> "alwaysOn" [] m = "opus-4-8" -> "gen47"
      [] m = "sonnet-4-6" -> "gen46" [] OTHER -> "legacy"]

DeprecatesTemperature(model) == ClassifyModel[model] \in {"gen47", "alwaysOn"}

RejectsForcedToolChoice(model) == model = "mythos"

EffortForModel(effort) == IF effort = "minimal" THEN "low" ELSE effort

StructuredOutputTool == "structured_output"

NoThinking == [type |-> Unset, budget |-> NoBudget]
Forcing == {"required", StructuredOutputTool}

LargerOf(a, b) == IF a < b THEN b ELSE a

\* A slip: the answer is not given room beside the budget.
BudgetWithoutRoom(r, maxTokens) ==
    LET asked == IF BudgetOf(r) > 0 THEN BudgetOf(r) ELSE 4096
    IN  [budget |-> LargerOf(asked, 1024), maxTokens |-> maxTokens]

\* The budget of legacy models, and a limit of tokens above it.
BudgetAndRoom(r, maxTokens) ==
    LET asked == IF BudgetOf(r) > 0 THEN BudgetOf(r) ELSE 4096
        budget == LargerOf(asked, 1024)
    IN  [budget |-> budget, maxTokens |-> IF maxTokens <= budget THEN budget + 4096 ELSE maxTokens]

\* The request with thinking, in the shape the model's generation takes.
ApplyThinking(req, generation, r, structured) ==
    LET effort == IF r.effort # Unset THEN EffortForModel(r.effort) ELSE Unset
        room == BudgetAndRoom(r, req.maxTokens)
    IN  IF ~r.given THEN req
        ELSE CASE generation = "alwaysOn" ->
                    IF IsEnabled(r) THEN [req EXCEPT !.effort = effort] ELSE req
               [] generation \in {"gen46", "gen47"} ->
                    IF r.enabled = "off" THEN [req EXCEPT !.thinking.type = "disabled"]
                    ELSE IF ~IsEnabled(r) THEN req
                    ELSE [req EXCEPT !.thinking.type = "adaptive", !.effort = effort, !.sampling = FALSE]
               [] OTHER ->
                    IF ~IsEnabled(r) \/ structured THEN req
                    ELSE [req EXCEPT !.maxTokens = room.maxTokens, !.sampling = FALSE,
                                     !.thinking = [type |-> "enabled", budget |-> room.budget]]

\* At most four breakpoints: of the system, of the tools, then of the messages.
EnforceCacheLimit(req) ==
    LET left == 4 - (IF req.systemCached THEN 1 ELSE 0) - (IF req.toolsCached THEN 1 ELSE 0)
    IN  [req EXCEPT !.marks = IF @ > left THEN left ELSE @]

\* The tools and how one is chosen: the structured output tool alone, if the answer is to
\* be JSON; a model that may not be forced is told to call it.
ChooseTool(req) ==
    LET choice == options.tooling[2]
        mayForce == req.thinking.type # "enabled" /\ ~RejectsForcedToolChoice(req.model)
    IN  IF WantsJson
        THEN [req EXCEPT !.tools = {StructuredOutputTool},
                         !.choice = IF RejectsForcedToolChoice(req.model) THEN "auto" ELSE StructuredOutputTool,
                         !.instructed = RejectsForcedToolChoice(req.model)]
        ELSE [req EXCEPT !.tools = IF options.tooling[1] THEN {"tool"} ELSE {},
                         !.toolsCached = options.tooling[1] /\ options.caching[1] = "on",
                         !.choice = IF choice \in Forcing /\ ~mayForce THEN "auto" ELSE choice]

\* A turn that another provider has begun goes on without budget thinking.
ThinkingSuspended ==
    /\ ClassifyModel[options.model] = "legacy" /\ IsEnabled(options.reasoning)
    /\ ~WantsJson /\ options.foreignTurn

BuildRequest ==
    LET plain == [family |-> "anthropic", model |-> options.model,
                  maxTokens |-> IF options.maxTokens = 0 THEN 4096 ELSE options.maxTokens,
                  sampling |-> ~DeprecatesTemperature(options.model), thinking |-> NoThinking,
                  effort |-> Unset, systemCached |-> options.caching[1] # "disabled",
                  toolsCached |-> FALSE, marks |-> options.caching[2], tools |-> {},
                  choice |-> Unset, instructed |-> FALSE]
        reasoning == IF ThinkingSuspended THEN NoReasoning ELSE options.reasoning
    IN  EnforceCacheLimit(ChooseTool(
            ApplyThinking(plain, ClassifyModel[options.model], reasoning, WantsJson)))

-----------------------------------------------------------------------------
(* Chat completions, Responses and Gemini.                                 *)

IsOpenAIReasoningModel(model) == model = "o3"

\* A toggle for the models that have one, beside the caller's own.
ThinkingToggle ==
    IF extra # Unset \/ options.reasoning.enabled = Unset \/ IsOpenAIReasoningModel(options.model)
    THEN extra ELSE options.reasoning.enabled

BuildChatRequest ==
    LET restricted == IsOpenAIReasoningModel(options.model)
    IN  [family |-> "chat", model |-> options.model, sampling |-> ~restricted,
         maxTokens |-> IF restricted THEN Unset ELSE "max_tokens",
         maxCompletionTokens |-> IF restricted THEN "max_tokens" ELSE Unset,
         effort |-> options.reasoning.effort, thinking |-> ThinkingToggle, format |-> options.format]

BuildResponsesRequest ==
    [family |-> "responses", model |-> options.model,
     sampling |-> ~IsOpenAIReasoningModel(options.model),
     effort |-> options.reasoning.effort, thinking |-> Unset, format |-> options.format]

\* Thoughts are asked for with a budget or without one; a budget of zero turns them off.
BuildGeminiRequest ==
    LET r == options.reasoning
    IN  [family |-> "gemini", thoughts |-> IsEnabled(r), format |-> options.format,
         thinking |-> IF IsEnabled(r) THEN (IF BudgetOf(r) > 0 THEN "budget" ELSE Unset)
                      ELSE IF r.enabled = "off" THEN "zero" ELSE Unset]

-----------------------------------------------------------------------------
\* A slip: the toggle is put into the caller's map.
ExtraIsShared(toggle) == toggle

\* The request has a copy of the caller's map.
ExtraAfter(toggle) == extra

Build ==
    /\ request = <<>> /\ builds < MaxBuilds /\ builds' = builds + 1
    /\ request' = CASE family = "anthropic" -> BuildRequest [] family = "chat" -> BuildChatRequest
                    [] family = "responses" -> BuildResponsesRequest [] OTHER -> BuildGeminiRequest
    /\ extra' = IF family = "chat" THEN ExtraAfter(ThinkingToggle) ELSE extra
    /\ UNCHANGED <<family, options>>

\* The next call, with the same map, reasons or does not.
NextCall(enabled) ==
    /\ request # <<>> /\ options.reasoning.given /\ enabled # options.reasoning.enabled
    /\ options' = [options EXCEPT !.reasoning.enabled = enabled]
    /\ request' = <<>> /\ UNCHANGED <<family, extra, builds>>

Next == Build \/ \E enabled \in {Unset, "on", "off"} : NextCall(enabled)

Spec == Init /\ [][Next]_vars

-----------------------------------------------------------------------------
(* Properties                                                              *)

\* What Anthropic refuses with an error 400.
AnthropicAccepts(r) ==
    LET generation == ClassifyModel[r.model]
        breakpoints == Cardinality({b \in {"system", "tools"} :
                            IF b = "system" THEN r.systemCached ELSE r.toolsCached}) + r.marks
    IN  /\ r.maxTokens > 0 /\ breakpoints <= 4 /\ r.effort # "minimal"
        /\ generation \in {"gen47", "alwaysOn"} => ~r.sampling
        /\ CASE r.thinking.type = "enabled" ->
                  /\ generation = "legacy" /\ r.choice \notin Forcing /\ ~r.sampling
                  /\ r.thinking.budget >= 1024 /\ r.thinking.budget < r.maxTokens
             [] r.thinking.type = "adaptive" -> generation \in {"gen46", "gen47"} /\ ~r.sampling
             [] r.thinking.type = "disabled" -> generation # "alwaysOn"
             [] OTHER -> TRUE
        /\ RejectsForcedToolChoice(r.model) => r.choice \notin Forcing

\* What was asked for is still asked for, where the model can do it.
AnthropicAsksFor(r) ==
    LET on == r.thinking.type \in {"enabled", "adaptive"}
        able == ClassifyModel[r.model] # "alwaysOn" /\ ~ThinkingSuspended
                    /\ ~(ClassifyModel[r.model] = "legacy" /\ WantsJson)
    IN  /\ on <=> IsEnabled(options.reasoning) /\ able
        /\ WantsJson => r.tools = {StructuredOutputTool} /\ (r.choice = StructuredOutputTool \/ r.instructed)
        /\ options.caching[1] # "disabled" => r.systemCached

\* OpenAI's reasoning models refuse what other models take, and fields they do not know.
OpenAIAccepts(r) ==
    IsOpenAIReasoningModel(r.model) =>
        ~r.sampling /\ r.thinking \in {Unset, "own"} /\ (r.family = "chat" => r.maxTokens = Unset)

\* Whatever the options, and whatever was called before with the same map, the request is
\* one the model accepts and asks for what this call's options do.
RequestSaysWhatTheOptionsSay ==
    request # <<>> =>
        CASE family = "anthropic" -> AnthropicAccepts(request) /\ AnthropicAsksFor(request)
          [] family \in {"chat", "responses"} ->
               /\ OpenAIAccepts(request)
               /\ request.thinking \in {Unset, "own", options.reasoning.enabled}
          [] OTHER -> request.thinking = "zero" <=> options.reasoning.enabled = "off"
=============================================================================
