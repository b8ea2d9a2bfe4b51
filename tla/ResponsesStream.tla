--------------------------- MODULE ResponsesStream ---------------------------
(***************************************************************************)
(* pkg/openaicompat: the stream of the Responses API.  Text and reasoning  *)
(* are streamed as they come; everything else is taken from the response   *)
(* that the terminal event holds (ProcessResponsesStream), converted as a  *)
(* response that was not streamed is (ConvertResponsesResponse).           *)
(***************************************************************************)
EXTENDS ModelAnswer

CONSTANT MaxItems       \* bound on what a response consists of

ResponsesAssumption == MaxItems \in Nat

VARIABLES
    server,             \* the response so far, and whether its text is streamed
    reader,             \* what ProcessResponsesStream has accumulated
    chunks              \* what it has sent

vars == <<server, reader, chunks>>

Init ==
    /\ \E streamed \in BOOLEAN :
         server = [output |-> <<>>, streamed |-> streamed, status |-> "in_progress", details |-> None,
                   usage |-> None]
    /\ \E estimate \in BOOLEAN : reader = [content |-> <<>>, estimate |-> estimate]
    /\ chunks = <<>>

\* An item of the output: its type, what is in it, and the id of a call.
Item(type, piece, id) == [type |-> type, piece |-> piece, id |-> id]

-----------------------------------------------------------------------------
(* ConvertResponsesResponse.                                               *)

PiecesOf(output, type) ==
    LET items == SelectSeq(output, LAMBDA item : item.type = type)
    IN  [i \in DOMAIN items |-> items[i].piece]

CallsOf(output) ==
    LET items == SelectSeq(output, LAMBDA item : item.type = "function_call")
    IN  [i \in DOMAIN items |-> ToolCall(items[i].id, "tool", <<items[i].piece>>)]

\* Calls, then why the response is incomplete, decide.
ResponsesFinishReason(response) ==
    IF CallsOf(response.output) # <<>> THEN "tool_calls"
    ELSE IF response.details = "max_output_tokens" THEN "length"
    ELSE IF response.details = "content_filter" THEN "content_filter" ELSE "stop"

\* A refusal shows in the finish reason, and in the text when there is no other.
ConvertResponsesResponse(response) ==
    LET text == PiecesOf(response.output, "output_text")
        refusal == PiecesOf(response.output, "refusal")
    IN  [content |-> IF text = <<>> THEN refusal ELSE text,
         thought |-> PiecesOf(response.output, "summary"), signature |-> <<>>,
         metadata |-> PiecesOf(response.output, "encrypted"),
         calls |-> EnsureToolCallIDs(CallsOf(response.output)),
         finish |-> IF refusal # <<>> THEN "content_filter" ELSE ResponsesFinishReason(response),
         usage |-> IF reader.estimate /\ response.usage = None THEN "estimated" ELSE response.usage]

-----------------------------------------------------------------------------
(* ProcessResponsesStream.                                                 *)

\* A slip: reasoning that was streamed is sent again with the final chunk.
FinalChunkWithReasoning ==
    LET response == ConvertResponsesResponse(server)
    IN  [Chunk EXCEPT
            !.content = IF reader.content = <<>> THEN response.content ELSE <<>>,
            !.thought = response.thought, !.metadata = response.metadata, !.calls = response.calls,
            !.finish = response.finish, !.usage = response.usage, !.done = TRUE]

\* What was streamed is left out; text that was not is sent whole.
FinalChunkFromResponse ==
    LET response == ConvertResponsesResponse(server)
    IN  [Chunk EXCEPT
            !.content = IF reader.content = <<>> THEN response.content ELSE <<>>,
            !.metadata = response.metadata, !.calls = response.calls,
            !.finish = response.finish, !.usage = response.usage, !.done = TRUE]

Sent(new) == chunks' = chunks \o new

Open == ~Ended(chunks) /\ server.status = "in_progress"
Piece == Len(server.output) + 1

\* The model adds an item to the response; events the stream does not read tell of it.
Adds(item) ==
    /\ Open /\ Len(server.output) < MaxItems
    /\ server' = [server EXCEPT !.output = Append(@, item)]

Text ==
    /\ Adds(Item("output_text", Piece, NoId))
    /\ IF server.streamed
       THEN reader' = [reader EXCEPT !.content = Append(@, Piece)] /\ Sent(<<TextChunk(<<Piece>>)>>)
       ELSE UNCHANGED <<reader, chunks>>

Summary == Adds(Item("summary", Piece, NoId)) /\ Sent(<<ThoughtChunk(<<Piece>>)>>) /\ UNCHANGED reader

\* Proxies repeat the ids of calls, or leave them out.
OtherItem ==
    /\ \/ Adds(Item("encrypted", Piece, NoId)) \/ Adds(Item("refusal", Piece, NoId))
       \/ \E id \in {NoId, 1} : Adds(Item("function_call", Piece, id))
    /\ UNCHANGED <<reader, chunks>>

\* response.completed or response.incomplete.
Terminal ==
    /\ Open
    /\ \E details \in {None, "max_output_tokens", "content_filter"}, usage \in {None, "given"} :
         server' = [server EXCEPT !.status = IF details = None THEN "completed" ELSE "incomplete",
                                  !.details = details, !.usage = usage]
    /\ UNCHANGED <<reader, chunks>>

SendFinal ==
    /\ ~Ended(chunks) /\ server.status \in {"completed", "incomplete"}
    /\ Sent(<<FinalChunkFromResponse>>) /\ UNCHANGED <<server, reader>>

\* response.failed, the end of the connection, a read that fails, or the context.
Fails ==
    /\ Open
    /\ \E status \in {"failed", "in_progress"} : server' = [server EXCEPT !.status = status]
    /\ Sent(<<ErrorChunk>>) /\ UNCHANGED reader

Next == Text \/ Summary \/ OtherItem \/ Terminal \/ SendFinal \/ Fails

Spec == Init /\ [][Next]_vars

-----------------------------------------------------------------------------
(* Properties                                                              *)

\* A stream that ends without an error had its terminal event, and is, collected, the
\* answer without streaming; a refusal is never taken for an answer that stopped.
StreamedResponseIsTheResponse ==
    Succeeded(chunks) =>
        /\ server.status \in {"completed", "incomplete"}
        /\ Collect(chunks) = ConvertResponsesResponse(server)
        /\ PiecesOf(server.output, "refusal") # <<>> => Last(chunks).finish = "content_filter"
=============================================================================
