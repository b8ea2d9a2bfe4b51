---------------------------- MODULE GeminiStream ----------------------------
(***************************************************************************)
(* pkg/providers/gemini: the stream of an answer.  Frames carry whole      *)
(* function calls, pieces of text and thought, a finish reason and usage;  *)
(* nothing marks the end but the end of the connection.  An answer may be  *)
(* refused before it begins, or finish with nothing said.                  *)
(***************************************************************************)
EXTENDS ModelAnswer

CONSTANT MaxFrames      \* bound on the frames of an execution

GeminiAssumption == MaxFrames \in Nat

VARIABLES
    server,             \* what it has said so far
    reader,             \* what the goroutine of Client.Stream has accumulated
    chunks              \* what it has sent

vars == <<server, reader, chunks>>

NoUsage == [prompt |-> 0, completion |-> 0, cached |-> 0, reasoning |-> 0, total |-> 0]

Init ==
    /\ server = [frames |-> 0, content |-> <<>>, thought |-> <<>>, calls |-> <<>>,
                 finish |-> None, usage |-> <<>>, blocked |-> FALSE]
    /\ \E estimate \in BOOLEAN :
         reader = [content |-> <<>>, thought |-> <<>>, emitted |-> FALSE, calls |-> <<>>,
                   finish |-> None, raw |-> None, usage |-> <<>>, estimate |-> estimate]
    /\ chunks = <<>>

-----------------------------------------------------------------------------
(* Usage and finish reasons.                                               *)

\* What two backends report of the same answer: thoughts counted apart, or among
\* the candidates.
Figures(separate) ==
    [prompt |-> 5, cached |-> 2, candidates |-> IF separate THEN 3 ELSE 7, thoughts |-> 4, total |-> 12]

Floor(n) == IF n < 0 THEN 0 ELSE n

\* A slip: thoughts are taken to be counted apart by every backend.
ThoughtsAlwaysApart(um) == um.thoughts > 0

\* Thoughts are counted once, whichever way the backend reports them.
ThoughtsApart(um) == um.thoughts > 0 /\ um.prompt + um.candidates + um.thoughts = um.total

ConvertUsageMetadata(um) ==
    [prompt |-> Floor(um.prompt - um.cached),
     completion |-> um.candidates + (IF ThoughtsApart(um) THEN um.thoughts ELSE 0),
     cached |-> um.cached, reasoning |-> um.thoughts, total |-> um.total]

GetFinishReason == [STOP |-> "stop", MAX_TOKENS |-> "length", SAFETY |-> "content_filter", none |-> None]

Estimated == [NoUsage EXCEPT !.total = -1]

UsageAtEnd(usage) ==
    IF reader.estimate /\ (usage = <<>> \/ usage.total = 0) THEN Estimated
    ELSE IF usage = <<>> THEN NoUsage ELSE usage

\* A finish that says why there is nothing.
EmptyFinish(content, thought, calls, raw) ==
    content = <<>> /\ thought = <<>> /\ calls = <<>> /\ raw \notin {None, "STOP"}

-----------------------------------------------------------------------------
(* The goroutine.                                                          *)

\* STOP is said of answers that call tools too.
FinishAtEnd(calls, finish) == IF calls # <<>> THEN "tool_calls" ELSE finish

FinalChunk ==
    IF EmptyFinish(reader.content, reader.thought, reader.calls, reader.raw)
    THEN [ErrorChunk EXCEPT !.finish = reader.finish, !.usage = UsageAtEnd(reader.usage)]
    ELSE [Chunk EXCEPT
            !.thought = IF reader.emitted THEN <<>> ELSE reader.thought,
            !.calls = EnsureToolCallIDs(reader.calls), !.done = TRUE,
            !.finish = FinishAtEnd(reader.calls, reader.finish), !.usage = UsageAtEnd(reader.usage)]

Sent(new) == chunks' = chunks \o new

\* The server says something in a frame, and the goroutine handles it.
Frame(said, handled, sent) ==
    /\ ~Ended(chunks) /\ ~server.blocked /\ server.frames < MaxFrames
    /\ server' = [said EXCEPT !.frames = @ + 1]
    /\ reader' = handled
    /\ Sent(sent)

Piece == server.frames + 1

Text == Frame([server EXCEPT !.content = Append(@, Piece)],
              [reader EXCEPT !.content = Append(@, Piece)], <<TextChunk(<<Piece>>)>>)

Thought == Frame([server EXCEPT !.thought = Append(@, Piece)],
                 [reader EXCEPT !.thought = Append(@, Piece), !.emitted = TRUE],
                 <<ThoughtChunk(<<Piece>>)>>)

\* Only some models give calls an id, or a signature.
Call(id, signature) ==
    LET call == [id |-> id, hasFunction |-> TRUE, name |-> "tool", args |-> <<Piece>>,
                 signature |-> signature]
    IN  Frame([server EXCEPT !.calls = Append(@, call)], [reader EXCEPT !.calls = Append(@, call)], <<>>)

Finish(raw) ==
    /\ server.finish = None
    /\ Frame([server EXCEPT !.finish = raw],
             [reader EXCEPT !.raw = raw, !.finish = GetFinishReason[raw]], <<>>)

\* Counts are cumulative: the last ones stand.
Usage(um) ==
    Frame([server EXCEPT !.usage = um], [reader EXCEPT !.usage = ConvertUsageMetadata(um)], <<>>)

\* The prompt was filtered; what it cost comes with the error.
Blocked(charged) ==
    /\ server.frames = 0
    /\ LET usage == IF charged THEN ConvertUsageMetadata(Figures(FALSE)) ELSE NoUsage
       IN  Frame([server EXCEPT !.blocked = TRUE, !.usage = IF charged THEN Figures(FALSE) ELSE <<>>], reader,
                 <<[ErrorChunk EXCEPT !.usage = usage]>>)

EndOfStream == ~Ended(chunks) /\ Sent(<<FinalChunk>>) /\ UNCHANGED <<server, reader>>

\* A read fails, or the context ends.
Fails == ~Ended(chunks) /\ Sent(<<[ErrorChunk EXCEPT !.usage = NoUsage]>>) /\ UNCHANGED <<server, reader>>

Next ==
    \/ Text \/ Thought
    \/ \E id \in {NoId, 1}, signature \in {None, "signature"} : Call(id, signature)
    \/ \E raw \in DOMAIN GetFinishReason \ {None} : Finish(raw)
    \/ \E separate \in BOOLEAN : Usage(Figures(separate))
    \/ \E charged \in BOOLEAN : Blocked(charged)
    \/ EndOfStream \/ Fails

Spec == Init /\ [][Next]_vars

-----------------------------------------------------------------------------
(* The same answer to a request that does not stream.                      *)

\* blockedPrompt and validateNonEmptyFinish.
Refused ==
    server.blocked \/ EmptyFinish(server.content, server.thought, server.calls, server.finish)

\* The signature of the thought itself is not part of the comparison: only the answer
\* that does not stream keeps it.
ConvertResponse ==
    [content |-> server.content, thought |-> server.thought, signature |-> <<>>, metadata |-> <<>>,
     calls |-> EnsureToolCallIDs(server.calls),
     finish |-> FinishAtEnd(server.calls, GetFinishReason[server.finish]),
     usage |-> UsageAtEnd(IF server.usage = <<>> THEN <<>> ELSE ConvertUsageMetadata(server.usage))]

-----------------------------------------------------------------------------
(* Properties                                                              *)

\* A stream that succeeds is, collected, the answer without streaming, which would not
\* have been an error, and its calls can be dispatched.
StreamedAnswerIsTheAnswer ==
    Succeeded(chunks) =>
        /\ ~Refused /\ Collect(chunks) = ConvertResponse
        /\ CallsAreUsable(Last(chunks).calls)

\* The parts of the usage a stream ends with add up to its total, also when it ends
\* because the prompt was refused.
UsageAddsUp ==
    Ended(chunks) /\ Last(chunks).usage # Estimated =>
        LET u == Last(chunks).usage IN u.prompt + u.completion + u.cached = u.total
=============================================================================
