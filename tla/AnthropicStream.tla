--------------------------- MODULE AnthropicStream ---------------------------
(***************************************************************************)
(* pkg/providers/anthropic: the stream of a message.  The server says the  *)
(* blocks of a message one after the other, in events; the goroutine of    *)
(* Client.Stream sends text and thinking on as they come, puts tool calls  *)
(* together, and ends the stream with what convertResponse would have made *)
(* of the whole message.                                                   *)
(***************************************************************************)
EXTENDS ModelAnswer

CONSTANT MaxEvents      \* bound on the events of an execution

AnthropicAssumption == MaxEvents \in Nat

VARIABLES
    server,             \* what it has said so far, and the block it is in
    reader,             \* what the goroutine has accumulated
    chunks              \* what it has sent

vars == <<server, reader, chunks>>

NoUsage == [prompt |-> 0, cached |-> 0, completion |-> 0, total |-> 0]
NoBlock == [kind |-> None, id |-> NoId, name |-> None, args |-> <<>>]

\* A JSON format was asked for: it is served by a tool the model has to call.
StructuredName == "structured_output"

Init ==
    /\ server = [events |-> 0, content |-> <<>>, thought |-> <<>>, signature |-> <<>>,
                 redacted |-> <<>>, calls |-> <<>>, block |-> NoBlock,
                 finish |-> None, usage |-> NoUsage, stopped |-> FALSE]
    /\ \E structured, estimate \in BOOLEAN :
         reader = [calls |-> <<>>, current |-> NoBlock, content |-> <<>>, thought |-> <<>>,
                   signature |-> <<>>, redacted |-> <<>>, emitted |-> FALSE, finish |-> None,
                   usage |-> NoUsage, structured |-> structured, estimate |-> estimate]
    /\ chunks = <<>>

-----------------------------------------------------------------------------
TotalTokens(u) == u.prompt + u.cached + u.completion

ConvertUsage(u) == [u EXCEPT !.total = TotalTokens(u)]

EmptyObject == <<0>>

\* A tool without arguments streams none.
NormalizeToolArgs(args) == IF args = <<>> THEN EmptyObject ELSE args

Finished(block) == ToolCall(block.id, block.name, NormalizeToolArgs(block.args))

\* The input of the first call of the structured output tool, if there is one.
StructuredContent(calls) ==
    LET answers == SelectSeq(calls, LAMBDA c : c.name = StructuredName)
    IN  IF answers = <<>> THEN <<>> ELSE Head(answers).args

ConvertStopReason == [end_turn |-> "stop", tool_use |-> "tool_calls", max_tokens |-> "length"]

Estimated == [NoUsage EXCEPT !.total = -1]

UsageAtEnd(usage) == IF reader.estimate /\ usage.total = 0 THEN Estimated ELSE usage

-----------------------------------------------------------------------------
(* The goroutine.                                                          *)

\* A slip: a block that was not closed is left out of the calls.
CallsOfClosedBlocks == reader.calls

\* A tool_use block that was never closed is surfaced too.
CallsAtEnd ==
    IF reader.current.kind = None THEN reader.calls
    ELSE Append(reader.calls, Finished(reader.current))

\* The chunk that ends the stream: reasoning that was streamed is not repeated, its
\* signature and what was redacted are sent only here.
FinalChunk ==
    [Chunk EXCEPT
        !.content = IF reader.structured /\ reader.content = <<>>
                    THEN StructuredContent(CallsAtEnd) ELSE <<>>,
        !.thought = IF reader.emitted THEN <<>> ELSE reader.thought,
        !.signature = reader.signature, !.metadata = reader.redacted,
        !.calls = CallsAtEnd, !.finish = reader.finish,
        !.usage = UsageAtEnd(reader.usage), !.done = TRUE]

Sent(new) == chunks' = chunks \o new

\* The server says an event and the goroutine handles it.
Event(said, handled, sent) ==
    /\ ~Ended(chunks) /\ ~server.stopped /\ server.events < MaxEvents
    /\ server' = [said EXCEPT !.events = @ + 1]
    /\ reader' = handled
    /\ Sent(sent)

Piece == server.events + 1
InBlock(kind) == server.block.kind = kind

\* The usage of the prompt; some of it may have been cached.
MessageStart(cached) ==
    /\ server.events = 0
    /\ Event([server EXCEPT !.usage.prompt = 2, !.usage.cached = cached],
             [reader EXCEPT !.usage = [NoUsage EXCEPT !.prompt = 2, !.cached = cached]], <<>>)

\* Blocks follow one another, until the stop reason is said.
BlockStart(block, handled) ==
    /\ InBlock(None) /\ server.finish = None /\ server.events > 0
    /\ Event([server EXCEPT !.block = block], handled, <<>>)

TextStart == BlockStart([NoBlock EXCEPT !.kind = "text"], reader)
\* At most one block of thinking is signed.
ThinkingStart ==
    /\ server.thought = <<>>
    /\ BlockStart([NoBlock EXCEPT !.kind = "thinking"], reader)

ToolUseStart(name) ==
    LET block == [kind |-> "tool_use", id |-> Piece, name |-> name, args |-> <<>>]
    IN  BlockStart(block, [reader EXCEPT !.current = block])

RedactedStart ==
    /\ InBlock(None) /\ server.finish = None /\ server.events > 0
    /\ Event([server EXCEPT !.redacted = Append(@, Piece), !.block.kind = "redacted"],
             [reader EXCEPT !.redacted = Append(@, Piece)], <<>>)

TextDelta ==
    /\ InBlock("text")
    /\ Event([server EXCEPT !.content = Append(@, Piece)],
             [reader EXCEPT !.content = Append(@, Piece)], <<TextChunk(<<Piece>>)>>)

ThinkingDelta ==
    /\ InBlock("thinking") /\ server.signature = <<>>
    /\ Event([server EXCEPT !.thought = Append(@, Piece)],
             [reader EXCEPT !.thought = Append(@, Piece), !.emitted = TRUE],
             <<ThoughtChunk(<<Piece>>)>>)

\* Reasoning that is not shown has a signature and no text.
SignatureDelta ==
    /\ InBlock("thinking") /\ server.signature = <<>>
    /\ Event([server EXCEPT !.signature = <<Piece>>],
             [reader EXCEPT !.signature = @ \o <<Piece>>], <<>>)

InputDelta ==
    /\ InBlock("tool_use")
    /\ Event([server EXCEPT !.block.args = Append(@, Piece)],
             [reader EXCEPT !.current.args = Append(@, Piece)], <<>>)

BlockStop ==
    /\ server.block.kind # None
    /\ Event([server EXCEPT !.block = NoBlock,
                !.calls = IF InBlock("tool_use") THEN Append(@, Finished(server.block)) ELSE @],
             IF reader.current.kind = None THEN reader
             ELSE [reader EXCEPT !.calls = Append(@, Finished(reader.current)), !.current = NoBlock],
             <<>>)

\* The stop reason and the usage of the completion.  A proxy may have dropped the end
\* of the last block; counts the event leaves out stay as they were.
MessageDelta(reason) ==
    /\ server.finish = None /\ server.events > 0
    /\ LET usage == ConvertUsage([reader.usage EXCEPT !.completion = 3])
       IN  Event([server EXCEPT !.finish = ConvertStopReason[reason], !.usage.completion = 3],
                 [reader EXCEPT !.finish = ConvertStopReason[reason], !.usage = usage], <<>>)

\* An error comes with no usage.
BrokenChunk == [ErrorChunk EXCEPT !.usage = NoUsage]

Over(final) == ~Ended(chunks) /\ Sent(<<final>>) /\ UNCHANGED reader

MessageStop ==
    /\ server.finish # None
    /\ Over(FinalChunk) /\ server' = [server EXCEPT !.stopped = TRUE]

\* The connection ends: the message is whole if its stop reason was said.
EndOfStream == Over(IF reader.finish = None THEN BrokenChunk ELSE FinalChunk) /\ UNCHANGED server

\* A read fails, an error event comes, or the context ends.
Fails == Over(BrokenChunk) /\ UNCHANGED server

Next ==
    \/ \E cached \in {0, 5} : MessageStart(cached)
    \/ TextStart \/ ThinkingStart \/ RedactedStart
    \/ \E name \in {"tool", StructuredName} : ToolUseStart(name)
    \/ TextDelta \/ ThinkingDelta \/ SignatureDelta \/ InputDelta \/ BlockStop
    \/ \E reason \in DOMAIN ConvertStopReason : MessageDelta(reason)
    \/ MessageStop \/ EndOfStream \/ Fails

Spec == Init /\ [][Next]_vars

-----------------------------------------------------------------------------
\* The calls of the message, the one in an unclosed block included.
SaidCalls ==
    IF InBlock("tool_use") THEN Append(server.calls, Finished(server.block)) ELSE server.calls

\* convertResponse: the message as the answer to a request that does not stream.
ConvertResponse ==
    [content |-> IF reader.structured /\ server.content = <<>>
                 THEN StructuredContent(SaidCalls) ELSE server.content,
     thought |-> server.thought, signature |-> server.signature, metadata |-> server.redacted,
     calls |-> SaidCalls, finish |-> server.finish, usage |-> UsageAtEnd(ConvertUsage(server.usage))]

\* A stream that ends without an error had come to its stop reason, and is, collected,
\* the answer the request would have got without streaming, its signature included.
StreamedMessageIsTheAnswer ==
    Succeeded(chunks) => server.finish # None /\ Collect(chunks) = ConvertResponse
=============================================================================
