----------------------------- MODULE ChatStream -----------------------------
(***************************************************************************)
(* pkg/openaicompat: the stream of a chat completion.  The server says an  *)
(* answer frame by frame; the reader turns frames into chunks for the      *)
(* caller and puts together the tool calls, of which each frame holds      *)
(* fragments (ProcessStream and appendOrMergeToolCall).                    *)
(*                                                                         *)
(* Servers number fragments, name the call they belong to, or continue the *)
(* call in flight.  They leave out ids or repeat them, break the numbering,*)
(* report errors between frames, and connections drop.                     *)
(*                                                                         *)
(* How chunks reach a caller who does not read them is in StreamPipeline.  *)
(***************************************************************************)
EXTENDS ModelAnswer

CONSTANTS
    MaxFrames,          \* bound on the frames of an execution
    MaxCalls            \* maxStreamedToolCalls

ChatAssumption == MaxFrames \in Nat /\ MaxCalls \in Nat \ {0}

VARIABLES
    server,             \* how it streams, and what it has said so far
    reader,             \* what ProcessStream has accumulated
    chunks              \* what it has sent

vars == <<server, reader, chunks>>

NoIndex == -2
Malformed == -1
NoCall == [id |-> NoId, hasFunction |-> FALSE, name |-> None, args |-> <<>>]

Init ==
    /\ \E style \in {"indexed", "named", "inFlight"} :
         server = [style |-> style, frames |-> 0, content |-> <<>>, thought |-> <<>>,
                   open |-> {}, call |-> [i \in 0..(MaxCalls - 1) |-> NoCall],
                   finish |-> None, usage |-> None, closed |-> FALSE, sound |-> TRUE]
    /\ \E estimate \in BOOLEAN :
         reader = [calls |-> <<>>, finish |-> None, usage |-> None, estimate |-> estimate]
    /\ chunks = <<>>

-----------------------------------------------------------------------------
(* Putting calls together.                                                 *)

\* A fragment of a call: an index or none, an id or none, and a function or none.
Delta(index, id, hasFunction, name, args) ==
    [index |-> index, id |-> id, hasFunction |-> hasFunction, name |-> name, args |-> args]

Or(value, otherwise) == IF value = None THEN otherwise ELSE value

\* A slip: fragments of a call without a function yet are lost.
ContinuedIfStarted(call, delta) ==
    IF ~call.hasFunction THEN call
    ELSE [call EXCEPT !.name = Or(@, delta.name), !.args = @ \o delta.args]

\* The function of a call grows; a name it has is kept.
Continued(call, delta) ==
    IF ~delta.hasFunction THEN call
    ELSE [call EXCEPT !.hasFunction = TRUE, !.name = Or(@, delta.name), !.args = @ \o delta.args]

Started(delta) ==
    [id |-> delta.id, hasFunction |-> delta.hasFunction, name |-> delta.name, args |-> delta.args]

\* Entries up to a new index are filled in.
MergeIndexedToolCall(calls, delta) ==
    LET at == delta.index + 1 IN
    IF at > Len(calls)
    THEN [i \in 1..at |-> IF i = at THEN Started(delta)
                          ELSE IF i <= Len(calls) THEN calls[i] ELSE NoCall]
    ELSE [calls EXCEPT ![at] =
            [Continued(@, delta) EXCEPT !.id = IF delta.id = NoId THEN @ ELSE delta.id, !.name = Or(delta.name, @)]]

AppendOrMergeToolCall(calls, delta) ==
    LET named == {i \in DOMAIN calls : delta.id # NoId /\ calls[i].id = delta.id}
        inFlight == delta.id = NoId /\ delta.index = NoIndex /\ calls # <<>> /\ delta.hasFunction
    IN  IF delta.index >= 0 THEN MergeIndexedToolCall(calls, delta)
        ELSE IF named # {}
        THEN LET i == CHOOSE i \in named : \A j \in named : i <= j
             IN  [calls EXCEPT ![i] = Continued(@, delta)]
        ELSE IF inFlight
        THEN [calls EXCEPT ![Len(calls)] = Continued(@, delta)]
        ELSE Append(calls, Started(delta))

\* A delta beyond the limit ends the stream.
Placeable(delta) == delta.index < MaxCalls

\* Entries that nothing ever filled are dropped.
CompactToolCalls(calls) ==
    LET kept == SelectSeq(calls, LAMBDA c : c.id # NoId \/ c.hasFunction)
    IN  [i \in DOMAIN kept |-> [kept[i] EXCEPT !.hasFunction = TRUE]]

-----------------------------------------------------------------------------
(* ProcessStream.                                                          *)

Sent(new) == chunks' = chunks \o new

UsageAtEnd(usage, estimate) ==
    IF estimate /\ usage \in {None, "zero"} THEN "estimated" ELSE usage

FinalChunk ==
    [Chunk EXCEPT !.calls = EnsureToolCallIDs(CompactToolCalls(reader.calls)),
                  !.finish = reader.finish, !.done = TRUE,
                  !.usage = UsageAtEnd(reader.usage, reader.estimate)]

Frame == [content |-> <<>>, thought |-> <<>>, deltas |-> <<>>, finish |-> None,
          usage |-> None]

\* Text and reasoning go on at once, fragments are merged as far as they can be.
Process(frame) ==
    LET placed == \A i \in DOMAIN frame.deltas : Placeable(frame.deltas[i])
        forwarded == (IF frame.content = <<>> THEN <<>> ELSE <<TextChunk(frame.content)>>)
                  \o (IF frame.thought = <<>> THEN <<>> ELSE <<ThoughtChunk(frame.thought)>>)
    IN  IF placed
        THEN /\ reader' = [reader EXCEPT
                  !.calls = FoldLeft(AppendOrMergeToolCall, @, frame.deltas),
                  !.finish = Or(frame.finish, @), !.usage = Or(frame.usage, @)]
             /\ Sent(forwarded)
        ELSE Sent(Append(forwarded, ErrorChunk)) /\ UNCHANGED reader

-----------------------------------------------------------------------------
(* The server.                                                             *)

Says(said, frame) ==
    /\ ~Ended(chunks) /\ ~server.closed /\ server.frames < MaxFrames
    /\ server' = [said EXCEPT !.frames = server.frames + 1]
    /\ Process(frame)

Piece == server.frames + 1

SayText ==
    \/ Says([server EXCEPT !.content = Append(@, Piece)], [Frame EXCEPT !.content = <<Piece>>])
    \/ Says([server EXCEPT !.thought = Append(@, Piece)], [Frame EXCEPT !.thought = <<Piece>>])

\* What the fragments of call i carry beside their text.
Numbered(i) == IF server.style = "indexed" THEN i ELSE NoIndex
NamedOnce(id) == IF server.style = "named" THEN id ELSE NoId

\* A call begins, with its function or with its id alone.  Only servers that number
\* their calls skip numbers, leave out ids or repeat them.
SayCall(i, id, hasFunction) ==
    /\ i \notin server.open /\ (hasFunction \/ id # NoId)
    /\ server.style # "indexed" => id = i + 1 /\ i = Cardinality(server.open)
    /\ LET name == IF hasFunction THEN "tool" ELSE None
           delta == Delta(Numbered(i), id, hasFunction, name, <<>>)
       IN  Says([server EXCEPT !.open = @ \cup {i},
                  !.call[i] = [id |-> id, hasFunction |-> hasFunction, name |-> name, args |-> <<>>]],
                [Frame EXCEPT !.deltas = <<delta>>])

\* More of a call's arguments, or of two at once; without an index or an id only of
\* the call in flight.  The name is given when it was not before.
Fragment(i) ==
    Delta(Numbered(i), NamedOnce(server.call[i].id), TRUE,
          IF server.call[i].name = None THEN "tool" ELSE None, <<Piece>>)

Grown(i) == [server.call[i] EXCEPT !.hasFunction = TRUE, !.name = "tool", !.args = Append(@, Piece)]

SayArguments(S) ==
    /\ S # {} /\ S \subseteq server.open
    /\ server.style = "inFlight" => S = {Cardinality(server.open) - 1}
    /\ Says([server EXCEPT !.call = [i \in DOMAIN @ |-> IF i \in S THEN Grown(i) ELSE @[i]]],
            [Frame EXCEPT !.deltas =
                [k \in 1..Cardinality(S) |-> Fragment(SetToSortSeq(S, <)[k])]])

SayFinish ==
    /\ server.finish = None
    /\ Says([server EXCEPT !.finish = "tool_calls"], [Frame EXCEPT !.finish = "tool_calls"])

SayUsage(usage) ==
    /\ server.usage = None
    /\ Says([server EXCEPT !.usage = usage], [Frame EXCEPT !.usage = usage])

\* A fragment whose index is negative or absurd.
SayNonsense(index) ==
    Says([server EXCEPT !.sound = FALSE],
         [Frame EXCEPT !.deltas = <<Delta(index, NoId, TRUE, None, <<Piece>>)>>])

-----------------------------------------------------------------------------
(* The end of the stream.                                                  *)

Over(final) ==
    /\ ~Ended(chunks)
    /\ Sent(<<final>>)
    /\ UNCHANGED reader

\* The [DONE] sentinel.
Done == Over(FinalChunk) /\ server' = [server EXCEPT !.closed = TRUE]

\* The connection ends without it: the answer is whole if it was said to be finished.
EndOfStream ==
    /\ Over(IF reader.finish = None THEN ErrorChunk ELSE FinalChunk)
    /\ UNCHANGED server

\* A read fails, the context ends, or the server sends an error instead of a frame.
Fails == Over(ErrorChunk) /\ UNCHANGED server

Ids(i) == {NoId} \cup 1..(i + 1)

Next ==
    \/ SayText \/ SayFinish \/ \E u \in {"zero", "given"} : SayUsage(u)
    \/ \E i \in 0..(MaxCalls - 1) : \E id \in Ids(i), f \in BOOLEAN : SayCall(i, id, f)
    \/ \E S \in SUBSET (0..(MaxCalls - 1)) : SayArguments(S)
    \/ SayNonsense(Malformed) \/ SayNonsense(MaxCalls)
    \/ Done \/ EndOfStream \/ Fails

Spec == Init /\ [][Next]_vars

-----------------------------------------------------------------------------
(* The same answer to a request that does not stream.                      *)

\* The calls said, in the order of their numbers.
SaidCalls ==
    LET order == SetToSortSeq(server.open, <)
    IN  [k \in DOMAIN order |-> [server.call[order[k]] EXCEPT !.hasFunction = TRUE]]

\* ConvertResponse, and the estimate GenerateContent makes.
ConvertResponse ==
    [content |-> server.content, thought |-> server.thought, signature |-> <<>>, metadata |-> <<>>,
     calls |-> EnsureToolCallIDs(SaidCalls), finish |-> server.finish,
     usage |-> UsageAtEnd(server.usage, reader.estimate)]

-----------------------------------------------------------------------------
(* Properties                                                              *)

\* Whatever the server does, calls that reach the caller can be dispatched.
DeliveredCallsAreUsable == Succeeded(chunks) => CallsAreUsable(Last(chunks).calls)

\* A stream of a well-behaved server that ends without an error was complete, and is,
\* collected, the answer the same request would have got without streaming.
StreamedChatIsTheAnswer ==
    Succeeded(chunks) =>
        /\ server.closed \/ server.finish # None
        /\ server.sound => Collect(chunks) = ConvertResponse
=============================================================================
