---------------------------- MODULE ModelAnswer ----------------------------
(***************************************************************************)
(* What a model answers, as the SDK hands it on: the chunks of a stream,   *)
(* their collection, and the tool calls in an answer.  Text is a sequence  *)
(* of pieces.  A word that is missing is None, a missing id NoId; the ids  *)
(* servers give are positive, the ones the SDK mints negative.             *)
(***************************************************************************)
EXTENDS Integers, Sequences, FiniteSets, SequencesExt

None == "none"
NoId == 0

\* A tool call.  hasFunction: whether its Function is set; args: the pieces of the
\* arguments in the order they were received.
ToolCall(id, name, args) == [id |-> id, hasFunction |-> TRUE, name |-> name, args |-> args]

-----------------------------------------------------------------------------
(* Chunks.                                                                 *)

Chunk == [content |-> <<>>, thought |-> <<>>, signature |-> <<>>, metadata |-> <<>>,
          calls |-> <<>>, finish |-> None, usage |-> None, error |-> FALSE, done |-> FALSE]

TextChunk(pieces) == [Chunk EXCEPT !.content = pieces]
ThoughtChunk(pieces) == [Chunk EXCEPT !.thought = pieces]
ErrorChunk == [Chunk EXCEPT !.error = TRUE, !.done = TRUE]

Ended(chunks) == chunks # <<>> /\ Last(chunks).done
Succeeded(chunks) == Ended(chunks) /\ ~Last(chunks).error

Joined(seqs) == FlattenSeq(seqs)

\* The last of them that says anything.
LastSaid(seqs) ==
    LET said == SelectSeq(seqs, LAMBDA s : s # <<>>)
    IN  IF said = <<>> THEN <<>> ELSE Last(said)

\* What CollectStream makes of the chunks of a stream that succeeded.
Collect(chunks) ==
    [content |-> Joined([i \in DOMAIN chunks |-> chunks[i].content]),
     thought |-> Joined([i \in DOMAIN chunks |-> chunks[i].thought]),
     signature |-> LastSaid([i \in DOMAIN chunks |-> chunks[i].signature]),
     metadata |-> LastSaid([i \in DOMAIN chunks |-> chunks[i].metadata]),
     calls |-> Last(chunks).calls,
     finish |-> Last(chunks).finish,
     usage |-> Last(chunks).usage]

-----------------------------------------------------------------------------
(* Ids of tool calls.                                                      *)

\* Random: never the id of another call.
NewToolCallID(i) == -i

EnsureToolCallIDs(calls) ==
    [i \in DOMAIN calls |->
        IF calls[i].id = NoId \/ \E j \in 1..(i - 1) : calls[j].id = calls[i].id
        THEN [calls[i] EXCEPT !.id = NewToolCallID(i)] ELSE calls[i]]

\* A caller may dispatch on every call and pair every result with its call.
CallsAreUsable(calls) ==
    /\ \A i \in DOMAIN calls : calls[i].hasFunction /\ calls[i].id # NoId
    /\ \A i, j \in DOMAIN calls : i # j => calls[i].id # calls[j].id
=============================================================================
