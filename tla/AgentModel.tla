----------------------------- MODULE AgentModel -----------------------------
(***************************************************************************)
(* llmadk: a session of Google's Agent Development Kit over any LLM of the *)
(* SDK.  The kit keeps the session as contents, of which the model it asks *)
(* next may be another one, stores a call's result when there is one, and  *)
(* may send it again; the bridge turns the contents into messages and the  *)
(* answer, whole or streamed, back into a content.  Providers refuse a call*)
(* without its result, the kit pairs calls with results by identifier over *)
(* the whole session, and Gemini refuses a signature it did not issue.     *)
(***************************************************************************)
EXTENDS Integers, Sequences, SequencesExt, FiniteSetsExt

CONSTANTS MaxContents    \* bound on the contents of a session
AgentAssumption == MaxContents \in Nat

VARIABLES
    config,        \* the generation config of the next request
    contents,      \* the session, as the kit stores it
    shown          \* the last turn, as the kit was shown it

agentVars == <<config, contents, shown>>

\* Identifiers: one below nine characters, one of the kit's, one of a provider's that is
\* kept if it is new; random ones follow.
NoId == 0
Short == 1
AdkId == 2
Kept == 3
FirstRandom == 10

Setter == "set_model_response"
Skip == "skip_thought_signature_validator"
Pending == 0    \* pendingResult

\* A part of a content; for is where the call of a result is, which the bridge does not see.
NoEnvelope == [kind |-> "none", provider |-> "", sig |-> "", meta |-> FALSE, text |-> ""]
Part(what) == [what |-> what, text |-> "", id |-> NoId, name |-> "", raw |-> "",
               env |-> NoEnvelope, value |-> Pending, for |-> <<0, 0>>]
TextPart(text) == [Part("text") EXCEPT !.text = text]
Message(role) == [role |-> role, text |-> "", calls |-> <<>>, reasoning |-> <<>>,
                  answers |-> NoId, value |-> Pending, of |-> <<0, 0>>]

-----------------------------------------------------------------------------
(* Signatures.                                                             *)

\* Only what decodes as base64 and is not an envelope is a signature Gemini issued.
GeminiSignatureBytes(sig) == IF sig = "odd" THEN "" ELSE sig

\* Gemini's go as they are, the others' into an envelope, which is read first.
AttachCallSignature(part, call) ==
    IF call.sig = "" THEN part
    ELSE IF call.by = "gemini" /\ GeminiSignatureBytes(call.sig) # "" THEN [part EXCEPT !.raw = call.sig]
    ELSE [part EXCEPT !.env = [NoEnvelope EXCEPT !.kind = "call", !.provider = call.by, !.sig = call.sig]]

NativeSignature(part) == [NoEnvelope EXCEPT !.kind = "thought", !.provider = "gemini", !.sig = part.raw]

PartSignature(part) ==
    IF part.env.kind # "none" THEN part.env ELSE IF part.raw # "" THEN NativeSignature(part) ELSE NoEnvelope

Readable(e) == e.kind \notin {"none", "corrupt"}

\* envelope.reasoning: the envelope has the text if the part does not show it.
Rebuilt(e, visible) ==
    [provider |-> e.provider, sig |-> e.sig, meta |-> e.meta, text |-> IF e.text # "" THEN e.text ELSE visible]

-----------------------------------------------------------------------------
(* The config.                                                             *)

\* reject: a field without an equivalent fails the request, unless it is one that may be
\* ignored and is.
Passes(c) == c.field = "none" \/ (c.field = "soft" /\ c.ignored)

CallsOff(c) == c.mode = "NONE"

\* structuredOutput: tools and a schema become tools and one more; with calls off, or no
\* tools, the schema is the request's own.
Structured(c) == c.schema /\ c.tools # {} /\ ~CallsOff(c)
SchemaDirect(c) == c.schema /\ ~Structured(c)
StructuredOutput(c) == IF Structured(c) THEN c.tools \cup {Setter} ELSE c.tools

FilterTools(tools, allowed) ==
    IF allowed = {} THEN tools ELSE {t \in tools : t \in allowed \cup {Setter}}

\* A slip: one allowed function is pinned though the answer is to be a call as well.
PinOverAnswer(c) ==
    CASE CallsOff(c) -> [tools |-> StructuredOutput(c), choice |-> "none"]
      [] c.mode = "ANY" /\ Cardinality(c.allowed) = 1 ->
            [tools |-> FilterTools(StructuredOutput(c), c.allowed), choice |-> "pinned"]
      [] c.mode = "ANY" -> [tools |-> FilterTools(StructuredOutput(c), c.allowed), choice |-> "required"]
      [] OTHER -> [tools |-> FilterTools(StructuredOutput(c), c.allowed), choice |-> "auto"]

ToolConfig(c) ==
    CASE CallsOff(c) -> [tools |-> StructuredOutput(c), choice |-> "none"]
      [] c.mode = "ANY" /\ Cardinality(c.allowed) = 1 /\ ~Structured(c) ->
            [tools |-> FilterTools(StructuredOutput(c), c.allowed), choice |-> "pinned"]
      [] c.mode = "ANY" -> [tools |-> FilterTools(StructuredOutput(c), c.allowed), choice |-> "required"]
      [] OTHER -> [tools |-> FilterTools(StructuredOutput(c), c.allowed), choice |-> "auto"]

\* tools: the kit's search becomes the provider's, if it has one, or may be left out; a tool
\* only Gemini runs, or a function that does not block, is refused.
Search(c) == "search" \in c.extra /\ c.searches
Tools(c) == /\ "server" \notin c.extra
            /\ "search" \in c.extra => c.searches \/ c.ignored

Configured(c) ==
    /\ Passes(c) /\ Tools(c)
    /\ c.mode = "VALIDATED" => c.ignored
    /\ Structured(c) => Setter \notin c.tools

-----------------------------------------------------------------------------
(* The request.                                                            *)

CollectHistoryIDs(cs) == {p.id : p \in UNION {Range(c.parts) : c \in Range(cs)}} \ {NoId}

\* synthesizeID: from the call's place and name, so that the same history gives the same
\* request; the first such identifier may be taken, if only by a provider's.
SynthesizeID(place, taken) ==
    IF Kept \notin taken THEN Kept ELSE 100 * place[1] + 10 * place[2]

\* The calls without identifier of one turn, by the identifiers they are given.
SynthesizedCalls(cs, i, taken) ==
    LET parts == cs[i].parts
    IN  FoldLeft(LAMBDA acc, k :
            IF parts[k].what # "call" \/ parts[k].id # NoId THEN acc
            ELSE LET id == SynthesizeID(<<i, k>>, acc.taken)
                 IN  [ids |-> acc.ids @@ (k :> id), taken |-> acc.taken \cup {id}],
            [ids |-> <<>>, taken |-> taken], [k \in DOMAIN parts |-> k])

FunctionCall(part, place, ids) ==
    [id |-> IF part.id # NoId THEN part.id ELSE ids[place[2]], name |-> part.name,
     sig |-> IF Readable(PartSignature(part)) THEN PartSignature(part).sig ELSE "",
     by |-> IF Readable(PartSignature(part)) THEN PartSignature(part).provider ELSE ""]

\* A turn of a model: its first readable signature, its text and its calls.
ModelContent(cs, i, ids) ==
    LET parts == cs[i].parts
        thoughts == SelectSeq(parts, LAMBDA p : p.what = "thought")
        visible == IF thoughts = <<>> THEN "" ELSE thoughts[1].text
        signed == SelectSeq(thoughts, LAMBDA p : Readable(PartSignature(p)))
        texts == SelectSeq(parts, LAMBDA p : p.what = "text")
        places == SelectSeq([k \in DOMAIN parts |-> k], LAMBDA k : parts[k].what = "call")
        m == [Message("assistant") EXCEPT
                !.of = <<i, 0>>,
                !.text = IF texts = <<>> THEN "" ELSE texts[1].text,
                !.calls = [n \in DOMAIN places |-> FunctionCall(parts[places[n]], <<i, places[n]>>, ids)],
                !.reasoning = IF signed # <<>> THEN <<Rebuilt(PartSignature(signed[1]), visible)>>
                              ELSE IF visible = "" THEN <<>>
                              ELSE <<[provider |-> "", sig |-> "", meta |-> FALSE, text |-> visible]>>]
    IN  IF m.text = "" /\ m.calls = <<>> /\ m.reasoning = <<>> THEN <<>> ELSE <<m>>

\* A result without identifier answers the oldest call of its name that had none in the
\* turn just before; without such a call it is given an identifier no call has.
FunctionResponse(part, place, open, taken) ==
    LET queue == SelectSeq(open, LAMBDA c : c.name = part.name)
        id == IF part.id # NoId THEN part.id ELSE IF queue # <<>> THEN queue[1].id ELSE SynthesizeID(place, taken)
    IN  [message |-> [Message("tool") EXCEPT !.answers = id, !.value = part.value],
         open |-> IF part.id = NoId /\ queue # <<>> THEN Remove(open, queue[1]) ELSE open,
         taken |-> taken \cup {id}]

\* The results first, as providers want them, then the text and the media.
UserContent(cs, i, open, taken) ==
    LET parts == cs[i].parts
        results == FoldLeft(LAMBDA acc, k :
            IF parts[k].what # "result" THEN acc
            ELSE LET r == FunctionResponse(parts[k], <<i, k>>, acc.open, acc.taken)
                 IN  [messages |-> Append(acc.messages, r.message), open |-> r.open, taken |-> r.taken],
            [messages |-> <<>>, open |-> open, taken |-> taken], [k \in DOMAIN parts |-> k])
        rest == SelectSeq(parts, LAMBDA p : p.what \in {"text", "image"})
    IN  [results EXCEPT !.messages = IF rest = <<>> THEN @ ELSE Append(@, [Message("user") EXCEPT !.text = rest[1].text])]

\* content, for each in turn: pendingCalls is cleared where a model's turn begins.
Contents(cs) ==
    FoldLeft(LAMBDA acc, i :
        IF cs[i].role = "model"
        THEN LET s == SynthesizedCalls(cs, i, acc.taken)
                 open == [n \in 1 .. Cardinality(DOMAIN s.ids) |->
                            LET k == CHOOSE k \in DOMAIN s.ids : Cardinality({j \in DOMAIN s.ids : j <= k}) = n
                            IN  [id |-> s.ids[k], name |-> cs[i].parts[k].name]]
             IN  [messages |-> acc.messages \o ModelContent(cs, i, s.ids), open |-> open, taken |-> s.taken]
        ELSE LET u == UserContent(cs, i, acc.open, acc.taken)
             IN  [messages |-> acc.messages \o u.messages, open |-> u.open, taken |-> u.taken],
        [messages |-> <<>>, open |-> <<>>, taken |-> CollectHistoryIDs(cs)], [i \in DOMAIN cs |-> i])

\* The tool messages directly after the i-th message.
ResultsAfter(msgs, i) ==
    LET n == Max({0} \cup {k \in 1 .. Len(msgs) - i : \A j \in 1 .. k : msgs[i + j].role = "tool"})
    IN  SubSeq(msgs, i + 1, i + n)

\* A slip: the first result of a call counts, not the last.
AnsweredOnce(call, results) ==
    LET own == SelectSeq(results, LAMBDA r : r.answers = call.id)
    IN  IF own # <<>> THEN own[1] ELSE [Message("tool") EXCEPT !.answers = call.id]

\* repairToolResults: each call is followed by its last result, or by word that there is
\* none yet; what answers no call goes.
Answered(call, results) ==
    LET own == SelectSeq(results, LAMBDA r : r.answers = call.id)
    IN  IF own # <<>> THEN Last(own) ELSE [Message("tool") EXCEPT !.answers = call.id]
RepairToolResults(msgs) ==
    FlattenSeq([i \in DOMAIN msgs |->
        IF msgs[i].role = "tool" THEN <<>>
        ELSE <<msgs[i]>> \o [k \in DOMAIN msgs[i].calls |-> Answered(msgs[i].calls[k], ResultsAfter(msgs, i))]])
DroppedOrphans(msgs) ==
    Cardinality({j \in DOMAIN msgs : msgs[j].role = "tool" /\
        ~\E i \in 1 .. j - 1 : /\ \A n \in i + 1 .. j : msgs[n].role = "tool"
                               /\ \E c \in Range(msgs[i].calls) : c.id = msgs[j].answers})
DroppedEnvelopes(cs) ==
    Cardinality({<<i, k>> \in (DOMAIN cs) \X (1 .. 4) :
        cs[i].role = "model" /\ k \in DOMAIN cs[i].parts /\ cs[i].parts[k].env.kind = "corrupt"})

Translate(cs) == RepairToolResults(Contents(cs).messages)

Carried(cs) == \A c \in Range(cs) : c.role = "user" => \A p \in Range(c.parts) : p.what # "audio"
HasImages(cs) == \E c \in Range(cs) : c.role = "user" /\ \E p \in Range(c.parts) : p.what = "image"

\* checkCapabilities.
Capable(c, cs) ==
    c.checks => ("tools" \in c.caps \/ ToolConfig(c).tools = {}) /\ ("vision" \in c.caps \/ ~HasImages(cs))
                /\ ("json" \in c.caps \/ ~c.schema)

-----------------------------------------------------------------------------
(* The answer.                                                             *)

\* resolveStructured: other calls come first; with none, the last setter is the answer.
ResolveStructured(resp) ==
    LET kept == SelectSeq(resp.calls, LAMBDA c : c.name # Setter)
    IN  IF Len(kept) = Len(resp.calls) THEN resp
        ELSE IF kept # <<>> THEN [resp EXCEPT !.calls = kept]
        ELSE [resp EXCEPT !.calls = <<>>, !.text = "answer", !.finish = "stop"]

\* stamp: behind a router nobody can say who served what came unstamped.
Stamp(resp) ==
    IF resp.reasoning = <<>> \/ resp.reasoning[1].provider # "" \/ config.router THEN resp
    ELSE [resp EXCEPT !.reasoning[1].provider = "wrapped"]

\* assignIDs: a provider's identifier stays if it is long, not the kit's, and new.
AssignIDs(calls, taken) ==
    FoldLeft(LAMBDA done, c :
        LET seen == {d.id : d \in Range(done)}
            fresh == Min({n \in FirstRandom .. FirstRandom + 9 : n \notin seen \cup taken})
        IN  Append(done, [c EXCEPT !.id = IF c.id = Kept /\ c.id \notin seen \cup taken THEN c.id ELSE fresh]),
        <<>>, calls)

\* Shown text stays in the part, hidden text goes into the envelope; Gemini's own
\* reasoning is its signature alone.
ThoughtPart(rc) ==
    LET own == rc.provider = "gemini" /\ ~rc.meta
        raw == GeminiSignatureBytes(rc.sig)
        p == [Part("thought") EXCEPT !.text = IF config.hide THEN "" ELSE rc.text]
    IN  IF rc.text = "" /\ rc.sig = "" /\ ~rc.meta THEN <<>>
        ELSE IF own /\ config.hide /\ raw = "" THEN <<>>
        ELSE IF own THEN <<[p EXCEPT !.raw = raw]>>
        ELSE <<[p EXCEPT !.env = [kind |-> "thought", provider |-> rc.provider, sig |-> rc.sig, meta |-> rc.meta,
                                  text |-> IF config.hide THEN rc.text ELSE ""]]>>

\* The first call of a turn has a signature, if only the one that says there is none.
FunctionCallPart(c, first) ==
    LET p == AttachCallSignature([Part("call") EXCEPT !.id = c.id, !.name = c.name], c)
    IN  IF first /\ p.raw = "" THEN [p EXCEPT !.raw = Skip] ELSE p

FinishReason(finish, hasOutput) ==
    CASE finish \in {"stop", "tool_calls"} -> "STOP"
      [] finish = "length" -> "MAX_TOKENS"
      [] finish = "" /\ hasOutput -> "STOP"
      [] OTHER -> "OTHER"

Arguments(resp) == \A c \in Range(resp.calls) : c.object

\* convert: a turn that only thought, unseen, leaves nothing to replay.
Prepared(resp) ==
    LET r == Stamp(IF Structured(config) THEN ResolveStructured(resp) ELSE resp)
    IN  [r EXCEPT !.calls = AssignIDs(r.calls, CollectHistoryIDs(contents))]
Convert(r) ==
    LET output == r.text # "" \/ r.calls # <<>>
        thought == IF r.reasoning # <<>> /\ (output \/ ~config.hide) THEN ThoughtPart(r.reasoning[1]) ELSE <<>>
        text == IF r.text # "" THEN <<TextPart(r.text)>> ELSE <<>>
    IN  [parts |-> thought \o text \o [k \in DOMAIN r.calls |-> FunctionCallPart(r.calls[k], k = 1)],
         finish |-> FinishReason(r.finish, output)]

-----------------------------------------------------------------------------
(* Streaming.                                                              *)

NoChunk == [text |-> "", thought |-> "", sig |-> "", meta |-> FALSE, provider |-> "", last |-> <<>>]

\* The chunks of an answer: thought and signature may come apart, the stamp may come on
\* either, and the last chunk has the calls and the finish reason.
Chunks(resp, apart) ==
    LET rc == resp.reasoning[1]
        signature == [NoChunk EXCEPT !.sig = rc.sig, !.meta = rc.meta, !.provider = rc.provider]
        thoughts == IF resp.reasoning = <<>> THEN <<>>
                    ELSE IF apart THEN <<[NoChunk EXCEPT !.thought = rc.text], signature>>
                    ELSE <<[signature EXCEPT !.thought = rc.text]>>
        texts == IF resp.text = "" THEN <<>> ELSE <<[NoChunk EXCEPT !.text = resp.text]>>
    IN  thoughts \o texts \o <<[NoChunk EXCEPT !.last = <<resp>>]>>

\* accumulator.add: what a chunk leaves out stays as it was.
Accumulate(acc, chunk) ==
    LET old == IF acc.reasoning = <<>> THEN [provider |-> "", sig |-> "", meta |-> FALSE, text |-> ""]
               ELSE acc.reasoning[1]
        thinks == chunk.thought # "" \/ chunk.sig # "" \/ chunk.meta \/ chunk.provider # ""
        rc == [provider |-> IF chunk.provider # "" THEN chunk.provider ELSE old.provider,
               sig |-> IF chunk.sig # "" THEN chunk.sig ELSE old.sig, meta |-> chunk.meta \/ old.meta,
               text |-> IF chunk.thought # "" THEN chunk.thought ELSE old.text]
        done == chunk.last # <<>>
    IN  [text |-> IF chunk.text # "" THEN chunk.text ELSE acc.text,
         reasoning |-> IF thinks THEN <<rc>> ELSE acc.reasoning,
         calls |-> IF done THEN chunk.last[1].calls ELSE acc.calls,
         finish |-> IF done THEN chunk.last[1].finish ELSE acc.finish]

\* partial: what of a chunk may be shown before the turn is complete.
Partial(chunk) ==
    (IF chunk.thought # "" /\ ~config.hide THEN <<[Part("thought") EXCEPT !.text = chunk.thought]>> ELSE <<>>)
    \o (IF chunk.text # "" /\ ~Structured(config) THEN <<TextPart(chunk.text)>> ELSE <<>>)

NoResponse == [text |-> "", reasoning |-> <<>>, calls |-> <<>>, finish |-> ""]

-----------------------------------------------------------------------------
Plain == [tools |-> {"f", "g"}, schema |-> FALSE, mode |-> "AUTO", allowed |-> {}, field |-> "none",
          ignored |-> FALSE, checks |-> FALSE, caps |-> {}, hide |-> TRUE, router |-> FALSE,
          extra |-> {}, searches |-> FALSE]
Configs ==
    [tools : {{"f"}, {"f", "g"}, {}, {Setter}}, schema : BOOLEAN, mode : {"AUTO", "NONE", "ANY", "VALIDATED"},
     allowed : {{}, {"f"}, {"f", "h"}}, field : {"none", "soft", "hard"}, ignored : BOOLEAN,
     checks : BOOLEAN, caps : {{"json", "vision"}, {"tools"}}, hide : {TRUE}, router : {FALSE},
     extra : {{}}, searches : {FALSE}] \cup
    {[Plain EXCEPT !.extra = e, !.searches = s, !.ignored = i] :
        e \in {{"search"}, {"search", "server"}}, s, i \in BOOLEAN}
TurnConfigs == {[Plain EXCEPT !.hide = h, !.schema = s, !.router = s # h] : h, s \in BOOLEAN}

Reasonings ==
    {[provider |-> "gemini", sig |-> s, meta |-> FALSE, text |-> "t"] : s \in {"", "sig", "odd"}} \cup
    {[provider |-> "anthropic", sig |-> "sig", meta |-> m, text |-> "t"] : m \in BOOLEAN} \cup
    {[provider |-> "", sig |-> "sig", meta |-> FALSE, text |-> "t"],
     [provider |-> "anthropic", sig |-> "", meta |-> TRUE, text |-> ""]}
Call(id, name) == [id |-> id, name |-> name, sig |-> "", by |-> "", object |-> TRUE]
Answer(text, calls) == [text |-> text, reasoning |-> <<>>, calls |-> calls, finish |-> "stop"]
Replies ==
    {[Answer(text, <<>>) EXCEPT !.reasoning = <<rc>>, !.finish = f] :
        rc \in Reasonings, text \in {"", "x"}, f \in {"stop", "length"}} \cup
    {[Answer("", <<[Call(Kept, "f") EXCEPT !.sig = s, !.by = p]>>) EXCEPT !.reasoning = <<rc>>] :
        s \in {"sig", "odd"}, p \in {"gemini", "anthropic"},
        rc \in {[provider |-> "anthropic", sig |-> "sig", meta |-> FALSE, text |-> "t"]}} \cup
    {Answer("", <<Call(i, "f"), Call(j, "g")>>) : i, j \in {Short, AdkId, Kept}} \cup
    {Answer("x", calls) : calls \in {<<Call(Kept, Setter)>>, <<Call(Short, Setter), Call(Kept, "f")>>,
                                     <<[Call(Kept, "f") EXCEPT !.object = FALSE]>>}} \cup
    {[Answer("", <<>>) EXCEPT !.finish = ""]}
\* Later turns repeat an identifier.
LaterReplies == {Answer("x", calls) : calls \in {<<Call(Kept, "f")>>, <<Call(Short, "g"), Call(Kept, "f")>>}}
RepliesNow == IF Len(contents) = 1 THEN Replies ELSE LaterReplies

Nothing == [how |-> "none", partials |-> <<>>, whole |-> <<>>, got |-> <<>>]

Init == config = Plain /\ contents = <<>> /\ shown = Nothing

User(parts) == [role |-> "user", parts |-> parts, answer |-> <<>>]

\* The agent's request, and its config.
Ask ==
    /\ contents = <<>>
    /\ config' \in TurnConfigs \cup Configs
    /\ \E what \in IF config' \in TurnConfigs THEN {"text"} ELSE {"text", "image", "audio"} :
          contents' = <<User(<<[Part(what) EXCEPT !.text = "q"]>>)>>
    /\ shown' = Nothing

Accepts(c, cs) == Configured(c) /\ Carried(cs) /\ Capable(c, cs)

Asked == contents # <<>> /\ Last(contents).role = "user" /\ shown.how = "none" /\ config \in TurnConfigs

Refuse ==
    /\ contents # <<>> /\ ~Accepts(config, contents) /\ shown.how = "none"
    /\ shown' = [Nothing EXCEPT !.how = "error"]
    /\ UNCHANGED <<config, contents>>

\* What the kit is given of a whole answer, and stores.
Deliver(resp, sent, partials, how) ==
    LET r == Prepared(resp)
        turn == Convert(r)
    IN  IF ~Arguments(r) THEN shown' = [Nothing EXCEPT !.how = "error", !.partials = partials] /\ UNCHANGED contents
        ELSE /\ shown' = [how |-> how, partials |-> partials, whole |-> <<turn>>, got |-> <<resp, sent>>]
             /\ contents' = IF turn.parts = <<>> THEN contents
                            ELSE Append(contents, [role |-> "model", parts |-> turn.parts, answer |-> <<r>>])

GenerateContent ==
    /\ Asked /\ Accepts(config, contents) /\ Len(contents) < MaxContents
    /\ \E resp \in RepliesNow : Deliver(resp, resp, <<>>, "whole")
    /\ UNCHANGED config

\* The stream may end before its last chunk, however it ends.
Stream ==
    /\ Asked /\ Accepts(config, contents) /\ Len(contents) < MaxContents
    /\ \E resp \in RepliesNow, apart \in BOOLEAN :
          LET chunks == Chunks(resp, apart)
          IN  \E n \in {1, Len(chunks)} :
                LET partials == FlattenSeq([i \in 1 .. n |-> Partial(chunks[i])])
                IN  IF n < Len(chunks)
                    THEN shown' = [Nothing EXCEPT !.how = "error", !.partials = partials] /\ UNCHANGED contents
                    ELSE Deliver(FoldLeft(Accumulate, NoResponse, chunks), resp, partials, "streamed")
    /\ UNCHANGED config

\* A turn of another of the kit's models, whose calls have no identifier.
Foreign ==
    /\ Asked /\ ~config.schema /\ config.hide /\ Len(contents) < MaxContents
    /\ \A c \in Range(contents) : c.role = "model" => c.answer = <<>>
    /\ \E names \in {<<"f", "f">>, <<"g", "f">>} :
          contents' = Append(contents, [role |-> "model", answer |-> <<>>,
                             parts |-> [k \in DOMAIN names |-> [Part("call") EXCEPT !.name = names[k], !.raw = IF k = 1 THEN "sig" ELSE ""]]])
    /\ shown' = [Nothing EXCEPT !.how = "whole"]
    /\ UNCHANGED config

\* The kit's next content: of the last turn's calls some results, in any order if they
\* have identifiers, perhaps one again, perhaps one that answers nothing, and text.
Results(i) ==
    LET parts == contents[i].parts
        calls == SelectSeq([k \in DOMAIN parts |-> k], LAMBDA k : parts[k].what = "call")
        result(k, n) == [Part("result") EXCEPT !.id = parts[k].id, !.name = parts[k].name, !.value = 10 * k + n, !.for = <<i, k>>]
        all == [k \in DOMAIN calls |-> result(calls[k], 1)]
        named == calls # <<>> /\ parts[calls[1]].id # NoId
    IN  IF i > 2 THEN {all} ELSE
        {all, SubSeq(all, 1, Min({1, Len(all)}))} \cup
        (IF named THEN {Reverse(all), Append(all, result(calls[1], 2)), <<>>} ELSE {<<>>}) \cup
        {<<[Part("result") EXCEPT !.name = "h", !.value = 99]>> \o (IF named THEN all ELSE <<>>)}

Reply ==
    /\ contents # <<>> /\ Last(contents).role = "model" /\ Len(contents) + 1 < MaxContents
    /\ \E results \in Results(Len(contents)), text \in {<<>>, <<TextPart("q")>>} :
          results \o text # <<>> /\ contents' = Append(contents, User(results \o text))
    /\ config' \in IF config.schema \/ Len(contents) > 2 THEN {config} ELSE {config, [config EXCEPT !.hide = ~@]}
    /\ shown' = Nothing

\* The store the session is kept in damages an envelope.
Damage ==
    /\ Len(contents) = 2 /\ \A k \in DOMAIN contents[2].parts : contents[2].parts[k].env.kind # "corrupt"
    /\ \E k \in DOMAIN contents[2].parts :
          contents[2].parts[k].env.kind \in {"thought", "call"} /\ contents' = [contents EXCEPT ![2].parts[k].env.kind = "corrupt"]
    /\ UNCHANGED <<config, shown>>

Next == Ask \/ Refuse \/ GenerateContent \/ Stream \/ Foreign \/ Reply \/ Damage

-----------------------------------------------------------------------------
Due == Asked /\ Accepts(config, contents)

\* Every call of a model is followed by its one result, in the calls' order, and nothing
\* else is a result; no two calls of the session have one identifier, nor is it the kit's.
CallsAreSettled == Due => LET sent == Translate(contents) IN
    /\ \A i \in DOMAIN sent : sent[i].role # "tool" =>
        /\ Len(ResultsAfter(sent, i)) = Len(sent[i].calls)
        /\ \A k \in DOMAIN sent[i].calls : ResultsAfter(sent, i)[k].answers = sent[i].calls[k].id
    /\ \A i, j \in DOMAIN sent : \A k \in DOMAIN sent[i].calls, l \in DOMAIN sent[j].calls :
        /\ sent[i].calls[k].id \notin {NoId, AdkId}
        /\ <<i, k>> # <<j, l>> => sent[i].calls[k].id # sent[j].calls[l].id

\* A config means what it says: a schema is enforced in exactly one way, and an answer by
\* a call can be called; the agent's tools are the ones allowed; a field is never dropped
\* in silence unless it may be and its user said so.
ConfigIsKept == (contents # <<>> /\ Accepts(config, contents)) =>
    LET t == ToolConfig(config)
    IN  /\ config.schema => (SchemaDirect(config) <=> ~(Setter \in t.tools /\ t.choice # "none"))
        /\ Structured(config) => t.choice \in {"auto", "required"}
        /\ t.choice # "none" => t.tools \ {Setter} = IF config.allowed = {} THEN config.tools \ {Setter}
                                                     ELSE (config.tools \cap config.allowed) \ {Setter}
        /\ config.ignored \/ (config.field = "none" /\ ("search" \in config.extra => Search(config)))
        /\ config.checks => ("tools" \in config.caps \/ t.tools = {})

\* The results of a call, as the session has them.
Given(i, k) ==
    SelectSeq(FlattenSeq([j \in DOMAIN contents |-> contents[j].parts]), LAMBDA p : p.what = "result" /\ p.for = <<i, k>>)

\* A call's result is the last its tool gave, or word that there is none; only results of
\* no call are dropped, each of which is counted.
ResultsAreTheCalls == Due => LET sent == Translate(contents) IN
    /\ \A m \in DOMAIN sent : \A n \in DOMAIN sent[m].calls :
        LET i == sent[m].of[1]
            places == SelectSeq([k \in DOMAIN contents[i].parts |-> k], LAMBDA k : contents[i].parts[k].what = "call")
            given == Given(i, places[n])
        IN  ResultsAfter(sent, m)[n].value = IF given = <<>> THEN Pending ELSE Last(given).value
    /\ DroppedOrphans(Contents(contents).messages) = Len(Given(0, 0))

Damaged(c, what) == \E p \in Range(c.parts) : p.what = what /\ p.env.kind = "corrupt"

\* What a model thought and signed comes back to its provider as it was, through the
\* session, shown or hidden; nothing is signed in another's name, and what is stored as
\* Gemini's is Gemini's.
ReasoningReturns == Due => LET sent == Translate(contents) IN
    \A m \in DOMAIN sent : (sent[m].role = "assistant" /\ contents[sent[m].of[1]].answer # <<>>) =>
        LET c == contents[sent[m].of[1]]
            told == c.answer[1]
            back == sent[m]
        IN  /\ told.reasoning = <<>> => back.reasoning = <<>>
            /\ back.reasoning # <<>> /\ back.reasoning[1].sig # "" =>
                    back.reasoning[1].sig = told.reasoning[1].sig /\ back.reasoning[1].provider = told.reasoning[1].provider
            /\ (told.reasoning # <<>> /\ ~Damaged(c, "thought")) =>
                    LET rc == told.reasoning[1]
                    IN  IF rc.provider # "gemini" THEN back.reasoning = told.reasoning
                        ELSE rc.sig = "sig" => back.reasoning # <<>> /\ back.reasoning[1].sig = rc.sig
            /\ Len(back.calls) = Len(told.calls)
            /\ \A k \in DOMAIN back.calls :
                    \/ back.calls[k].sig = told.calls[k].sig /\ back.calls[k].by = told.calls[k].by
                    \/ told.calls[k].sig = "" /\ back.calls[k].sig = Skip /\ back.calls[k].by = "gemini"
                    \/ Damaged(c, "call")
            /\ \A p \in Range(c.parts) : p.raw \notin {"", Skip} =>
                    IF p.what = "thought" THEN told.reasoning[1].provider = "gemini"
                    ELSE \E k \in DOMAIN told.calls : told.calls[k].by = "gemini"

\* A streamed turn is the whole one, what was shown of it before is in it, hidden thought
\* and the text beside a structured answer are not, and that answer is the whole turn.
TurnIsWhole == shown.whole # <<>> /\ shown.got # <<>> =>
    LET parts == shown.whole[1].parts
        of(ps, what) == [k \in DOMAIN SelectSeq(ps, LAMBDA p : p.what = what) |-> SelectSeq(ps, LAMBDA p : p.what = what)[k].text]
    IN  /\ shown.got[1] = shown.got[2]
        /\ (shown.how = "streamed" /\ ~Structured(config)) => of(shown.partials, "text") = of(parts, "text")
        /\ (shown.how = "streamed" /\ ~config.hide) => IsPrefix(of(shown.partials, "thought"), of(parts, "thought"))
        /\ config.hide => \A p \in Range(shown.partials \o parts) : p.what = "thought" => p.text = ""
        /\ Structured(config) => \A p \in Range(parts) : p.name # Setter
        /\ (Structured(config) /\ \E c \in Range(shown.got[1].calls) : c.name = Setter) =>
                \/ of(parts, "call") # <<>>
                \/ of(parts, "text") = <<"answer">> /\ shown.whole[1].finish = "STOP"

\* What the kit has in its session, and what it gives the model back, is what was said:
\* results at their calls, reasoning with its provider, the whole turn as its partials.
SessionIsWhole == ResultsAreTheCalls /\ ReasoningReturns /\ TurnIsWhole
SessionIsAccepted == CallsAreSettled /\ ConfigIsKept
=============================================================================
