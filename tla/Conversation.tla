---------------------------- MODULE Conversation ----------------------------
(***************************************************************************)
(* A conversation, as its caller keeps it, and what each provider is sent  *)
(* of it.  Messages are merged and validated (message.go), what another    *)
(* provider's model thought or signed is left out (provenance.go), and the *)
(* rest is converted to the provider's own form.  Providers reject a       *)
(* request over any of it: a call without its result, a thinking block out *)
(* of place, a signature they did not issue.  Answers may come from a      *)
(* different provider each time: that is what a fallback chain does.       *)
(***************************************************************************)
EXTENDS Integers, Sequences, FiniteSets, SequencesExt

CONSTANT MaxMessages    \* bound on the messages of a conversation

ConversationAssumption == MaxMessages \in Nat

VARIABLES
    messages,           \* the conversation, as the caller keeps it
    merging             \* whether the caller lets messages be merged

vars == <<messages, merging>>

Providers == {"anthropic", "gemini", "openai", "mistral"}

NoId == 0
NoName == 0
None == "none"
Unsigned == None

\* The message of a role.  text: the pieces of Content; parts: its Parts, each a text or
\* an image; reasoning: empty or one record; answers: the call a tool message answers.
Message(role) == [role |-> role, text |-> <<>>, parts |-> <<>>, calls |-> <<>>, answers |-> NoId,
                  name |-> NoName, reasoning |-> <<>>]

TextPart(pieces) == [type |-> "text", pieces |-> pieces]
Image(piece) == [type |-> "image", pieces |-> <<piece>>]

PiecesOf(parts) == FlattenSeq([i \in DOMAIN parts |-> parts[i].pieces])

Init == messages = <<>> /\ merging \in BOOLEAN

-----------------------------------------------------------------------------
(* Preparing the messages.                                                 *)

\* mergeSystemContent: one text, unless there is an image in it.
SystemContent(systems) ==
    LET partsOf(m) == IF m.parts # <<>> THEN m.parts
                      ELSE IF m.text # <<>> THEN <<TextPart(m.text)>> ELSE <<>>
        parts == FlattenSeq([i \in DOMAIN systems |-> partsOf(systems[i])])
        plain == \A i \in DOMAIN parts : parts[i].type = "text"
    IN  [Message("system") EXCEPT !.text = IF plain THEN PiecesOf(parts) ELSE <<>>,
                                  !.parts = IF plain THEN <<>> ELSE parts]

ConsolidateSystemMessages(msgs) ==
    LET systems == SelectSeq(msgs, LAMBDA m : m.role = "system")
    IN  IF systems = <<>> THEN msgs
        ELSE <<SystemContent(systems)>> \o SelectSeq(msgs, LAMBDA m : m.role # "system")

\* Text stays before what came after it, in Content or as a part.
Merged(a, b) ==
    LET asParts == a.text # <<>> /\ (a.parts # <<>> \/ b.parts # <<>>)
        parts == IF asParts THEN <<TextPart(a.text)>> \o a.parts ELSE a.parts
        text == IF asParts THEN <<>> ELSE a.text
        joins == b.text # <<>> /\ parts # <<>>
    IN  [a EXCEPT !.text = IF joins THEN text ELSE text \o b.text,
                  !.parts = (IF joins THEN Append(parts, TextPart(b.text)) ELSE parts) \o b.parts,
                  !.calls = @ \o b.calls]

\* Reasoning belongs to its own message.
Mergeable(a, b) ==
    /\ a.role = b.role /\ b.role \in {"user", "assistant"}
    /\ a.reasoning = <<>> /\ b.reasoning = <<>>

MergeConsecutiveMessages(msgs) ==
    IF Len(msgs) <= 1 THEN msgs
    ELSE FoldLeft(LAMBDA done, m :
                    IF done # <<>> /\ Mergeable(Last(done), m)
                    THEN Append(Front(done), Merged(Last(done), m)) ELSE Append(done, m),
                  <<>>, ConsolidateSystemMessages(msgs))

\* ValidateMessages, ValidateInlineSystem and ValidateToolCallIDs.
ValidConversation(msgs) ==
    LET turns == SelectSeq(msgs, LAMBDA m : m.role # "system")
    IN  /\ msgs # <<>> /\ (turns # <<>> => Head(turns).role # "tool")
        /\ \A i \in DOMAIN msgs :
             /\ msgs[i].role = "system" => i = 1
             /\ msgs[i].role = "tool" => msgs[i].answers # NoId

\* A slip: the signatures of calls are kept.
DropForeignReasoning(msgs, p) ==
    [i \in DOMAIN msgs |-> [msgs[i] EXCEPT !.reasoning = SelectSeq(@, LAMBDA r : r.by = p)]]

DropForeignReplay(msgs, p) ==
    [i \in DOMAIN msgs |->
        [msgs[i] EXCEPT
            !.reasoning = SelectSeq(@, LAMBDA r : r.by = p),
            !.calls = [j \in DOMAIN @ |-> IF @[j].signedBy \in {p, Unsigned} THEN @[j]
                                          ELSE [@[j] EXCEPT !.signedBy = Unsigned]]]]

Prepared(p) ==
    DropForeignReplay(IF merging THEN MergeConsecutiveMessages(messages) ELSE messages, p)

\* The first message of the turn in progress.
CurrentTurnStart(msgs) ==
    LET before == {i \in DOMAIN msgs : msgs[i].role \notin {"assistant", "tool"}}
    IN  1 + (IF before = {} THEN 0 ELSE CHOOSE i \in before : \A j \in before : j <= i)

InTurn(msgs) == {i \in CurrentTurnStart(msgs)..Len(msgs) : msgs[i].role = "assistant"}

-----------------------------------------------------------------------------
(* What each provider is sent: a sequence of blocks per message, each with  *)
(* the message it is of.                                                   *)

Block(type, role, id, name, pieces, by) ==
    [type |-> type, role |-> role, id |-> id, name |-> name, pieces |-> pieces, by |-> by]

\* Parts, or else the content.
TextBlocks(m, role) ==
    IF m.parts # <<>>
    THEN [i \in DOMAIN m.parts |-> Block(m.parts[i].type, role, NoId, NoName, m.parts[i].pieces, None)]
    ELSE IF m.text # <<>> THEN <<Block("text", role, NoId, NoName, m.text, None)>> ELSE <<>>

CallBlocks(m) ==
    [i \in DOMAIN m.calls |->
        Block("call", m.role, m.calls[i].id, m.calls[i].name, <<>>, m.calls[i].signedBy)]

ReasoningBlocks(m) ==
    [i \in DOMAIN m.reasoning |-> Block("thinking", m.role, NoId, NoName, <<>>, m.reasoning[i].by)]

Result(m, name) == <<Block("result", "user", m.answers, name, m.text, None)>>

\* Messages of which nothing is sent are left out.
Wire(blocksOf) == SelectSeq(blocksOf, LAMBDA blocks : blocks # <<>>)

\* The thinking of a message comes before the rest; a result is sent once.
AnthropicWire(msgs) ==
    LET repeated(i) == \E j \in 1..(i - 1) : msgs[j].role = "tool" /\ msgs[j].answers = msgs[i].answers
        blocks(i) ==
            LET m == msgs[i] IN
            IF m.role = "system" \/ (m.role = "tool" /\ repeated(i)) THEN <<>>
            ELSE IF m.role = "tool" THEN Result(m, NoName)
            ELSE (IF m.role = "assistant" THEN ReasoningBlocks(m) ELSE <<>>)
                 \o TextBlocks(m, m.role) \o CallBlocks(m)
    IN  Wire([i \in DOMAIN msgs |-> blocks(i)])

\* Budget thinking, in a turn of which no message holds a thinking block, is not asked for.
ThinkingSuspended(msgs) ==
    /\ \A i \in InTurn(msgs) : msgs[i].reasoning = <<>>
    /\ \E i \in InTurn(msgs) : msgs[i].calls # <<>>

\* The first call of a step of the turn that is not signed gets the placeholder.
SkipValidationForUnsignedCalls(msgs) ==
    [i \in DOMAIN msgs |->
        IF i \in InTurn(msgs) /\ msgs[i].calls # <<>> /\ msgs[i].calls[1].signedBy = Unsigned
        THEN [msgs[i] EXCEPT !.calls[1].signedBy = "gemini"] ELSE msgs[i]]

\* The name of the call a result answers, if the caller does not give it.
CallName(msgs, i) ==
    LET named == {c \in UNION {Range(msgs[j].calls) : j \in 1..i} : c.id = msgs[i].answers}
    IN  IF msgs[i].name # NoName THEN msgs[i].name
        ELSE IF named # {} THEN (CHOOSE c \in named : TRUE).name ELSE msgs[i].answers

GeminiWire(prepared) ==
    LET msgs == SkipValidationForUnsignedCalls(prepared)
        blocks(i) ==
            LET m == msgs[i] IN
            IF m.role = "system" THEN <<>>
            ELSE IF m.role = "tool" THEN Result(m, CallName(msgs, i))
            ELSE TextBlocks(m, m.role) \o CallBlocks(m)
    IN  Wire([i \in DOMAIN msgs |-> blocks(i)])

\* Items of one message; reasoning is replayed only before something it belongs to.
ResponsesWire(msgs) ==
    LET blocks(i) ==
            LET m == msgs[i]
                rest == TextBlocks(m, m.role) \o CallBlocks(m) IN
            IF m.role = "system" THEN <<>>
            ELSE IF m.role = "tool" THEN Result(m, NoName)
            ELSE IF m.role = "assistant" /\ rest # <<>> THEN ReasoningBlocks(m) \o rest ELSE rest
    IN  Wire([i \in DOMAIN msgs |-> blocks(i)])

\* Ids of nine characters, of which ids that are not in that form get a hash.
NineChar(id) == IF id > 200 THEN id ELSE id + 1000

NormalizeToolCallIDs(msgs) ==
    [i \in DOMAIN msgs |->
        [msgs[i] EXCEPT !.answers = IF @ = NoId THEN @ ELSE NineChar(@),
                        !.calls = [j \in DOMAIN @ |-> [@[j] EXCEPT !.id = NineChar(@)]]]]

ChatWire(prepared) ==
    LET msgs == NormalizeToolCallIDs(prepared)
        blocks(i) == IF msgs[i].role = "tool" THEN Result(msgs[i], msgs[i].name)
                     ELSE IF msgs[i].role = "system" THEN <<>>
                     ELSE TextBlocks(msgs[i], msgs[i].role) \o CallBlocks(msgs[i])
    IN  Wire([i \in DOMAIN msgs |-> blocks(i)])

WireOf(p) ==
    CASE p = "anthropic" -> AnthropicWire(Prepared(p)) [] p = "gemini" -> GeminiWire(Prepared(p))
      [] p = "openai" -> ResponsesWire(Prepared(p)) [] p = "mistral" -> ChatWire(Prepared(p))

-----------------------------------------------------------------------------
(* The conversation.                                                       *)

CallsMade == UNION {Range(messages[i].calls) : i \in DOMAIN messages}
Answered == {messages[i].answers : i \in DOMAIN messages}
Pending == {c \in CallsMade : c.id \notin Answered}

Piece == Len(messages) + 1
Says(message) == Len(messages) < MaxMessages /\ messages' = Append(messages, message) /\ UNCHANGED merging

\* The caller asks, or instructs; again before there is an answer, if it likes.
Ask(role, withImage) ==
    /\ Pending = {}
    /\ Says([Message(role) EXCEPT
                !.text = IF withImage THEN <<>> ELSE <<Piece>>,
                !.parts = IF withImage THEN <<TextPart(<<Piece>>), Image(Piece)>> ELSE <<>>])

\* A provider answers the conversation so far; the SDK stamps what it thought and signed.
\* Claude thinks at the start of a turn, and only if it was
\* asked to; Gemini signs the first call of a step; the ids are the provider's own.
Answer(p, thinks, calls) ==
    /\ Pending = {} /\ messages # <<>> /\ Last(messages).role \in {"user", "tool"}
    /\ ValidConversation(Prepared(p))
    /\ p = "anthropic" /\ thinks => InTurn(messages) = {} /\ ~ThinkingSuspended(Prepared(p))
    /\ p \in {"gemini", "mistral"} => ~thinks
    /\ LET id(k) == 100 * (IF p = "mistral" THEN 2 ELSE 1) + 10 * Piece + k
           signer(k) == IF p = "gemini" /\ k = 1 THEN p ELSE Unsigned
       IN  Says([Message("assistant") EXCEPT
                    !.text = IF calls = 0 THEN <<Piece>> ELSE <<>>,
                    !.calls = [k \in 1..calls |-> [id |-> id(k), name |-> k, signedBy |-> signer(k)]],
                    !.reasoning = IF thinks THEN <<[by |-> p]>> ELSE <<>>])

\* The result of a call, in any order, with the tool's name or without.
ToolResult(call, named) ==
    /\ call \in Pending
    /\ Says([Message("tool") EXCEPT !.text = <<Piece>>, !.answers = call.id,
                                    !.name = IF named THEN call.name ELSE NoName])

Next ==
    \/ \E role \in {"user", "system"}, withImage \in BOOLEAN : Ask(role, withImage)
    \/ \E p \in Providers, thinks \in BOOLEAN, calls \in 0..2 : Answer(p, thinks, calls)
    \/ \E call \in Pending, named \in BOOLEAN : ToolResult(call, named)

Spec == Init /\ [][Next]_vars

-----------------------------------------------------------------------------
(* Properties                                                              *)

Ids(blocks, type) == {b.id : b \in {b \in Range(blocks) : b.type = type}}

\* Calls are answered once each, by their ids, before the conversation goes on.
CallsAreAnswered(wire) ==
    \A i \in DOMAIN wire : Ids(wire[i], "call") # {} =>
        LET n == Cardinality(Ids(wire[i], "call"))
            following == SubSeq(wire, i + 1, i + n)
        IN  /\ Len(following) = n /\ \A k \in 1..n : Len(following[k]) = 1
            /\ {following[k][1].id : k \in 1..n} = Ids(wire[i], "call")
            /\ \A k \in 1..n : following[k][1].type = "result"

ThinkingComesFirst(wire) ==
    \A i \in DOMAIN wire : \A j \in DOMAIN wire[i] :
        wire[i][j].type = "thinking" => wire[i][1].type = "thinking" /\ Last(wire[i]).type # "thinking"

\* No provider is sent what another one thought or signed.
NothingForeign(wire, p) ==
    \A i \in DOMAIN wire : \A j \in DOMAIN wire[i] : wire[i][j].by \in {None, p}

\* What was said is sent, once and in order.
NothingLost(wire) ==
    LET said == SelectSeq(messages, LAMBDA m : m.role # "system")
        pieces(m) == IF m.parts # <<>> THEN PiecesOf(m.parts) ELSE m.text
    IN  FlattenSeq([i \in DOMAIN wire |-> PiecesOf(wire[i])])
            = FlattenSeq([i \in DOMAIN said |-> pieces(said[i])])

\* With thinking, the first message of a turn that uses tools opens with a thinking block.
ThinkingOpensTheTurn ==
    LET msgs == Prepared("anthropic")
    IN  (\E i \in InTurn(msgs) : msgs[i].calls # <<>>) /\ ~ThinkingSuspended(msgs) =>
            msgs[CurrentTurnStart(msgs)].reasoning # <<>>

\* The first call of every step of the turn is signed, by Gemini or for it; a result has
\* the name of its call.
GeminiCallsAreSigned ==
    LET msgs == SkipValidationForUnsignedCalls(Prepared("gemini"))
    IN  /\ \A i \in InTurn(msgs) : msgs[i].calls # <<>> => msgs[i].calls[1].signedBy = "gemini"
        /\ \A i \in DOMAIN msgs : msgs[i].role = "tool" =>
             \E c \in CallsMade : c.id = msgs[i].answers /\ c.name = CallName(msgs, i)

MergingOnceIsEnough ==
    LET merged == MergeConsecutiveMessages(messages) IN MergeConsecutiveMessages(merged) = merged

\* Whoever answered before, a conversation without open calls, prepared for any of the
\* providers, is one it accepts and that says what the caller's says.
AnyProviderCanGoOn ==
    Pending = {} => MergingOnceIsEnough /\ \A p \in Providers : ValidConversation(Prepared(p)) =>
        LET wire == WireOf(p)
        IN  /\ CallsAreAnswered(wire) /\ ThinkingComesFirst(wire)
            /\ NothingForeign(wire, p) /\ NothingLost(wire)
            /\ p = "anthropic" => ThinkingOpensTheTurn
            /\ p = "gemini" => GeminiCallsAreSigned
=============================================================================
