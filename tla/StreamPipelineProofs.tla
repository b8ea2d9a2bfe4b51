------------------------ MODULE StreamPipelineProofs ------------------------
(***************************************************************************)
(* Whatever the number of middlewares, of chunks and of places in a        *)
(* channel, the caller of a stream reads the chunks in order and then one  *)
(* terminal chunk, a finalizer is not told of a success that was not, and  *)
(* the pipeline implements StreamContract.                                 *)
(*                                                                         *)
(* The inductive invariant has two halves.  The first, about the order,    *)
(* follows every chunk from the provider to the caller: what is in a       *)
(* channel continues what was taken from it, and a stage has passed on     *)
(* what it took, except the chunk in its hands.  The second, about losses, *)
(* says that a stage is short of a chunk only when the caller is to blame. *)
(***************************************************************************)
EXTENDS StreamPipeline, FiniteSetTheorems, WellFoundedInduction, TLAPS

(* Sequences of chunks.                                                    *)

EndsIn(q) == q # <<>> /\ IsTerminal(q[Len(q)])
Count(q) == IF EndsIn(q) THEN Len(q) - 1 ELSE Len(q)

\* The data chunks after the k-th, in order, and nothing after a terminal.
Numbered(q, k) ==
    \A i \in 1..Len(q) : q[i] = Data(k + i) \/ (i = Len(q) /\ IsTerminal(q[i]))

(* The parts of the invariant.                                             *)

TypeOK ==
    /\ canceled \in BOOLEAN
    /\ buffer \in [Stages -> Seq(Chunks)]
    /\ closed \in [Stages -> BOOLEAN]
    /\ pc \in [Stages -> {"loop", "send", "sendBlocked", "terminal", "terminalBlocked",
                          "ensure", "ensuring", "ensuringBlocked", "finalize", "close", "exited"}]
    /\ holding \in [Stages -> Chunks]
    /\ terminalSent \in [Stages -> BOOLEAN]
    /\ expired \in [Stages -> BOOLEAN]
    /\ draining \in SUBSET Wrappers
    /\ said \in 0..NChunks
    /\ passed \in [Stages -> Nat]
    /\ failureSeen \in [Wrappers -> BOOLEAN]
    /\ received \in Seq(Chunks)
    /\ caller \in {"reading", "gone"}
    /\ paused \in BOOLEAN

Sending(s) == pc[s] \in {"send", "sendBlocked"}
Delivering(s) == pc[s] \in {"terminal", "terminalBlocked", "ensuring", "ensuringBlocked"}

\* The terminal chunk is in the channel for good.
Over(s) == terminalSent[s] /\ ~Delivering(s)

\* The data chunks that were taken from a channel, and those a stage has taken.
Taken(s) == passed[s] - Count(buffer[s])
Got(s) == IF Sending(s) /\ ~IsTerminal(holding[s]) THEN passed[s] + 1 ELSE passed[s]

QueueInOrder(s) ==
    /\ Taken(s) >= 0
    /\ Numbered(buffer[s], Taken(s))
    /\ EndsIn(buffer[s]) => Over(s)

HoldsWhatItOwes(s) ==
    /\ Delivering(s) => IsTerminal(holding[s])
    /\ pc[s] \in {"terminal", "ensuring"} \/ Sending(s) => ~terminalSent[s]
    /\ pc[s] \in {"terminalBlocked", "ensuringBlocked"} => terminalSent[s]
    /\ Sending(s) /\ ~IsTerminal(holding[s]) => holding[s] = Data(passed[s] + 1)
    /\ closed[s] <=> pc[s] = "exited"
    /\ s \in draining => pc[s] # "loop" /\ ~Sending(s)
    /\ s \in Wrappers /\ pc[s] \in {"terminal", "terminalBlocked"} => s \in draining

\* What a wrapper has got is what its source has given.
FollowsItsSource(s) ==
    /\ s \notin draining => Taken(s-1) = Got(s)
    /\ \/ pc[s] = "loop" /\ terminalSent[s]
       \/ Sending(s) /\ IsTerminal(holding[s])
       => Over(s-1) /\ buffer[s-1] = <<>>
    /\ s \notin draining /\ Over(s-1) /\ ~EndsIn(buffer[s-1]) =>
        Over(s) \/ (Sending(s) /\ IsTerminal(holding[s]))
    /\ s \notin draining /\ ~Sending(s) /\ pc[s] # "loop" => pc[s-1] = "exited"

ProviderInStep ==
    /\ pc[0] \notin {"ensure", "ensuring", "ensuringBlocked", "finalize"}
    /\ pc[0] = "loop" => ~terminalSent[0]
    /\ Sending(0) => ~IsTerminal(holding[0])
    /\ pc[0] = "loop" \/ Sending(0) => said = Got(0)

CallerInStep ==
    /\ Numbered(received, 0)
    /\ Count(received) = Taken(Depth)
    /\ EndsIn(received) => Over(Depth) /\ buffer[Depth] = <<>>
    /\ Over(Depth) /\ ~EndsIn(buffer[Depth]) => EndsIn(received)

\* The caller has left chunks unread for a send timeout, or has walked away, and
\* then the last wrapper has seen an error or is about to.
CallerToBlame ==
    \/ paused
    \/ /\ caller = "gone"
       /\ Depth \in Wrappers =>
            failureSeen[Depth] \/ (pc[Depth] = "sendBlocked" /\ ~HasRoom(Depth))

LossHasACause(s) ==
    /\ expired[s] => CallerToBlame
    /\ pc[s] = "ensure" => terminalSent[s] \/ canceled \/ CallerToBlame
    /\ pc[s] \in {"finalize", "close", "exited"} => terminalSent[s] \/ CallerToBlame
    /\ pc[s] \in {"ensuring", "ensuringBlocked"} => IsError(holding[s]) \/ CallerToBlame

DoneIsMeant(s) ==
    /\ (Sending(s) \/ Delivering(s)) /\ holding[s].ends = "done" =>
            passed[s] = NChunks \/ CallerToBlame
    /\ EndsIn(buffer[s]) /\ buffer[s][Len(buffer[s])].ends = "done" =>
            passed[s] = NChunks \/ CallerToBlame

FailureIsShown(s) ==
    /\ (Sending(s) \/ Delivering(s)) /\ IsError(holding[s]) => failureSeen[s]
    /\ pc[s] \in {"terminal", "terminalBlocked"} => IsError(holding[s])
    /\ Over(s) => failureSeen[s] \/ passed[s] = NChunks \/ CallerToBlame

Order ==
    /\ \A s \in Stages : QueueInOrder(s) /\ HoldsWhatItOwes(s)
    /\ \A s \in Wrappers : FollowsItsSource(s)
    /\ ProviderInStep
    /\ CallerInStep

Losses ==
    /\ \A s \in Stages : LossHasACause(s) /\ DoneIsMeant(s)
    /\ \A s \in Wrappers : FailureIsShown(s)

IInv == TypeOK /\ Order /\ Losses

-----------------------------------------------------------------------------
(* Chunks and sequences of them.                                           *)

LEMMA ChunkFacts ==
    /\ \A n : ~IsTerminal(Data(n)) /\ ~IsError(Data(n)) /\ Data(n).ends = "no" /\ Data(n).n = n
    /\ \A e \in Endings : IsTerminal(Terminal(e)) /\ Terminal(e) \in Chunks
                          /\ Terminal(e).ends = e /\ (IsError(Terminal(e)) <=> e # "done")
    /\ \A n \in 1..NChunks : Data(n) \in Chunks
    /\ \A c \in Chunks : /\ IsTerminal(c) => (IsError(c) <=> c.ends # "done")
                         /\ IsError(c) => IsTerminal(c)
                         /\ c.ends = "done" => IsTerminal(c)
    /\ \A n : Data(n) \in Chunks => n \in 1..NChunks
  BY DEF Data, Terminal, IsTerminal, IsError, Chunks, Endings

\* A data chunk that continues the sequence.
LEMMA AppendData ==
    ASSUME NEW q \in Seq(Chunks), NEW k \in Int, Numbered(q, k), ~EndsIn(q),
           NEW c \in Chunks, c = Data(k + Count(q) + 1)
    PROVE  /\ Append(q, c) \in Seq(Chunks)
           /\ Numbered(Append(q, c), k)
           /\ ~EndsIn(Append(q, c))
           /\ Count(Append(q, c)) = Count(q) + 1
  <1>1. /\ Append(q, c) \in Seq(Chunks) /\ Len(Append(q, c)) = Len(q) + 1
        /\ \A i \in 1..Len(q) : Append(q, c)[i] = q[i]
        /\ Append(q, c)[Len(q) + 1] = c
    OBVIOUS
  <1>2. ~IsTerminal(c)
    BY ChunkFacts
  <1>3. Count(q) = Len(q) /\ Len(q) \in Nat
    BY DEF Count
  <1>4. ~EndsIn(Append(q, c)) /\ Count(Append(q, c)) = Count(q) + 1
    BY <1>1, <1>2, <1>3 DEF EndsIn, Count
  <1>5. ASSUME NEW i \in 1..Len(q) PROVE q[i] = Data(k + i)
    BY <1>5 DEF Numbered, EndsIn
  <1>6. Numbered(Append(q, c), k)
    BY <1>1, <1>3, <1>5 DEF Numbered
  <1> QED
    BY <1>1, <1>4, <1>6

\* A terminal chunk, which ends it.
LEMMA AppendTerminal ==
    ASSUME NEW q \in Seq(Chunks), NEW k \in Int, Numbered(q, k), ~EndsIn(q),
           NEW c \in Chunks, IsTerminal(c)
    PROVE  /\ Append(q, c) \in Seq(Chunks)
           /\ Numbered(Append(q, c), k)
           /\ EndsIn(Append(q, c))
           /\ Append(q, c)[Len(Append(q, c))] = c
           /\ Count(Append(q, c)) = Count(q)
  <1>1. /\ Append(q, c) \in Seq(Chunks) /\ Len(Append(q, c)) = Len(q) + 1
        /\ \A i \in 1..Len(q) : Append(q, c)[i] = q[i]
        /\ Append(q, c)[Len(q) + 1] = c
    OBVIOUS
  <1>2. Count(q) = Len(q) /\ Len(q) \in Nat
    BY DEF Count
  <1>3. EndsIn(Append(q, c)) /\ Count(Append(q, c)) = Count(q)
    BY <1>1, <1>2 DEF EndsIn, Count
  <1>4. ASSUME NEW i \in 1..Len(q) PROVE q[i] = Data(k + i)
    BY <1>4 DEF Numbered, EndsIn
  <1>5. Numbered(Append(q, c), k)
    BY <1>1, <1>2, <1>4 DEF Numbered
  <1> QED
    BY <1>1, <1>3, <1>5

\* The first chunk taken from a sequence: h is its head, and r its tail.
LEMMA TakeFirst ==
    ASSUME NEW q \in Seq(Chunks), NEW k \in Int, Numbered(q, k), Len(q) > 0,
           NEW r \in Seq(Chunks), Len(r) = Len(q) - 1,
           \A i \in 1..Len(r) : r[i] = q[i + 1]
    PROVE  \/ /\ q[1] = Data(k + 1)
              /\ Numbered(r, k + 1)
              /\ EndsIn(r) <=> EndsIn(q)
              /\ EndsIn(q) => r[Len(r)] = q[Len(q)]
              /\ Count(r) = Count(q) - 1
              /\ Count(q) >= 1
           \/ /\ IsTerminal(q[1])
              /\ q[1] = q[Len(q)] /\ EndsIn(q) /\ Count(q) = 0
              /\ r = <<>> /\ ~EndsIn(r) /\ Count(r) = 0
  <1>1. Len(q) \in Nat /\ Len(r) \in Nat /\ 1 \in 1..Len(q)
    OBVIOUS
  <1>2. q[1] = Data(k + 1) \/ (Len(q) = 1 /\ IsTerminal(q[1]))
    BY <1>1 DEF Numbered
  <1>3. Len(r) = 0 => r = <<>> /\ ~EndsIn(r) /\ Count(r) = 0
    BY DEF EndsIn, Count
  <1>4. Len(q) > 0 => q # <<>>
    OBVIOUS
  <1>5. CASE Len(q) = 1 /\ IsTerminal(q[1])
    BY <1>1, <1>3, <1>4, <1>5 DEF EndsIn, Count
  <1>6. CASE q[1] = Data(k + 1)
    <2>1. ~IsTerminal(q[1])
      BY <1>6, ChunkFacts
    <2>2. Numbered(r, k + 1)
      <3> SUFFICES ASSUME NEW i \in 1..Len(r)
                   PROVE  \/ r[i] = Data((k + 1) + i)
                          \/ i = Len(r) /\ IsTerminal(r[i])
        BY DEF Numbered
      <3>1. i + 1 \in 1..Len(q) /\ k + (i + 1) = (k + 1) + i
        BY <1>1
      <3>2. q[i + 1] = Data(k + (i + 1)) \/ (i + 1 = Len(q) /\ IsTerminal(q[i + 1]))
        BY <3>1 DEF Numbered
      <3> QED
        BY <1>1, <3>1, <3>2
    <2>3. CASE Len(q) = 1
      BY <1>1, <1>3, <1>4, <1>6, <2>1, <2>2, <2>3 DEF EndsIn, Count
    <2>4. CASE Len(q) > 1
      <3>1. Len(r) > 0 /\ r # <<>> /\ Len(r) \in 1..Len(r)
        BY <1>1, <2>4
      <3>2. r[Len(r)] = q[Len(q)]
        BY <1>1, <3>1
      <3> QED
        BY <1>1, <1>4, <1>6, <2>2, <2>4, <3>1, <3>2 DEF EndsIn, Count
    <2> QED
      BY <1>1, <2>3, <2>4
  <1> QED
    BY <1>2, <1>5, <1>6

LEMMA TakeHead ==
    ASSUME NEW q \in Seq(Chunks), NEW k \in Int, Numbered(q, k), q # <<>>
    PROVE  /\ Head(q) \in Chunks /\ Tail(q) \in Seq(Chunks)
           /\ \/ /\ Head(q) = Data(k + 1)
                 /\ Numbered(Tail(q), k + 1)
                 /\ EndsIn(Tail(q)) <=> EndsIn(q)
                 /\ EndsIn(q) => Tail(q)[Len(Tail(q))] = q[Len(q)]
                 /\ Count(Tail(q)) = Count(q) - 1
                 /\ Count(q) >= 1
              \/ /\ IsTerminal(Head(q))
                 /\ Head(q) = q[Len(q)] /\ EndsIn(q) /\ Count(q) = 0
                 /\ Tail(q) = <<>> /\ ~EndsIn(Tail(q)) /\ Count(Tail(q)) = 0
  <1>1. /\ Head(q) \in Chunks /\ Tail(q) \in Seq(Chunks)
        /\ Len(q) > 0 /\ Len(Tail(q)) = Len(q) - 1
        /\ Head(q) = q[1]
        /\ \A i \in 1..Len(Tail(q)) : Tail(q)[i] = q[i + 1]
    OBVIOUS
  <1> DEFINE r == Tail(q)
  <1> HIDE DEF r
  <1>2. /\ r \in Seq(Chunks) /\ Len(r) = Len(q) - 1
        /\ \A i \in 1..Len(r) : r[i] = q[i + 1]
    BY <1>1 DEF r
  <1>3. r = Tail(q)
    BY DEF r
  <1> QED
    BY <1>1, <1>2, <1>3, TakeFirst

LEMMA CountIsNat ==
    ASSUME NEW q \in Seq(Chunks)
    PROVE  Count(q) \in Nat
  BY DEF Count, EndsIn

-----------------------------------------------------------------------------
(* Types.                                                                  *)

LEMMA StageFacts ==
    /\ Wrappers \subseteq Stages
    /\ 0 \in Stages /\ Depth \in Stages /\ 0 \notin Wrappers
    /\ \A s \in Wrappers : s - 1 \in Stages /\ s - 1 # s
    /\ \A s \in Stages : s # Depth => s + 1 \in Wrappers /\ (s + 1) - 1 = s
    /\ \A s \in Stages : s # 0 => s \in Wrappers
    /\ \A s, r \in Stages : s - 1 = r - 1 => s = r
    /\ Stages \subseteq Nat
  BY PipelineAssumption DEF Stages, Wrappers

LEMMA EndingFacts ==
    /\ CleanEnding \in Endings /\ ContextEnding \in Endings
    /\ {"done", "canceled", "timeout", "providerError"} = Endings
  BY DEF CleanEnding, ContextEnding, Endings

LEMMA InitTypeOK == Init => TypeOK
  <1> SUFFICES ASSUME Init PROVE TypeOK
    OBVIOUS
  <1>1. canceled \in BOOLEAN /\ paused \in BOOLEAN
    BY Zenon DEF Init
  <1>2. Terminal("done") \in Chunks
    BY ChunkFacts, EndingFacts
  <1> QED
    BY <1>1, <1>2, PipelineAssumption DEF Init, TypeOK

LEMMA StepTypeOK == TypeOK /\ [Next]_vars => TypeOK'
  <1> SUFFICES ASSUME TypeOK, [Next]_vars PROVE TypeOK'
    OBVIOUS
  <1>a. ASSUME NEW s \in Stages, SendNow(s), UNCHANGED <<canceled, said, received, caller, paused>>
        PROVE  TypeOK'
    BY <1>a DEF TypeOK, SendNow, Put, Mark, Goto
  <1>b. ASSUME NEW s \in Stages, NEW why \in Endings, SendFails(s, why),
               UNCHANGED <<canceled, said, received, caller, paused>>
        PROVE  TypeOK'
    <2>1. Terminal(why) \in Chunks
      BY ChunkFacts
    <2>2. failureSeen' \in [Wrappers -> BOOLEAN]
      BY <1>b DEF TypeOK, SendFails, Process, IsError
    <2> QED
      BY <1>b, <2>1, <2>2 DEF TypeOK, SendFails, Hold, Goto
  <1>1. ASSUME NEW s \in Stages, Send(s) PROVE TypeOK'
    <2>1. CASE canceled
      BY <1>1, <1>b, <2>1, EndingFacts DEF Send
    <2>2. CASE ~canceled /\ HasRoom(s)
      BY <1>1, <1>a, <2>2 DEF Send
    <2>3. CASE ~canceled /\ ~HasRoom(s)
      BY <1>1, <2>3 DEF Send, Goto, TypeOK
    <2> QED
      BY <2>1, <2>2, <2>3
  <1>2. ASSUME NEW s \in Stages, UnblockSend(s) PROVE TypeOK'
    BY <1>2, <1>a, <1>b, EndingFacts DEF UnblockSend
  <1>3. ASSUME NEW s \in Stages, DeliverTerminal(s) PROVE TypeOK'
    <2>1. AfterTerminal(s) \in {"ensure", "finalize", "close"}
      BY DEF AfterTerminal
    <2>2. BlockedAt(s) \in {"terminalBlocked", "ensuringBlocked"}
      BY DEF BlockedAt
    <2>3. pc' \in [Stages -> {"loop", "send", "sendBlocked", "terminal", "terminalBlocked",
                          "ensure", "ensuring", "ensuringBlocked", "finalize", "close", "exited"}]
      BY <1>3, <2>1, <2>2 DEF TypeOK, DeliverTerminal, Goto
    <2>4. buffer' \in [Stages -> Seq(Chunks)]
      <3>1. Append(buffer[s], holding[s]) \in Seq(Chunks)
        BY DEF TypeOK
      <3>2. buffer' = buffer \/ buffer' = [buffer EXCEPT ![s] = Append(@, holding[s])]
        BY <1>3, Zenon DEF DeliverTerminal, Put
      <3> QED
        BY <3>1, <3>2 DEF TypeOK
    <2>5. terminalSent' \in [Stages -> BOOLEAN]
      BY <1>3 DEF TypeOK, DeliverTerminal, Mark
    <2> QED
      BY <1>3, <2>3, <2>4, <2>5 DEF TypeOK, DeliverTerminal
  <1>4. ASSUME NEW s \in Stages, UnblockTerminal(s) PROVE TypeOK'
    <2>1. AfterTerminal(s) \in {"ensure", "finalize", "close"}
      BY DEF AfterTerminal
    <2>2. pc' \in [Stages -> {"loop", "send", "sendBlocked", "terminal", "terminalBlocked",
                          "ensure", "ensuring", "ensuringBlocked", "finalize", "close", "exited"}]
      BY <1>4, <2>1 DEF TypeOK, UnblockTerminal, Goto
    <2>3. buffer' \in [Stages -> Seq(Chunks)]
      <3>1. Append(buffer[s], holding[s]) \in Seq(Chunks)
        BY DEF TypeOK
      <3>2. buffer' = buffer \/ buffer' = [buffer EXCEPT ![s] = Append(@, holding[s])]
        BY <1>4, Zenon DEF UnblockTerminal, Put
      <3> QED
        BY <3>1, <3>2 DEF TypeOK
    <2> QED
      BY <1>4, <2>2, <2>3 DEF TypeOK, UnblockTerminal, Mark
  <1>5. ASSUME NEW s \in Stages, CloseChannel(s) PROVE TypeOK'
    BY <1>5 DEF TypeOK, CloseChannel, Goto
  <1>6. ASSUME NEW s \in Wrappers, ReceiveChunk(s) PROVE TypeOK'
    <2>1. s \in Stages /\ s - 1 \in Stages
      BY StageFacts
    <2>2. /\ Head(buffer[s-1]) \in Chunks
          /\ Tail(buffer[s-1]) \in Seq(Chunks)
      BY <1>6, <2>1 DEF ReceiveChunk, TypeOK
    <2>3. failureSeen' \in [Wrappers -> BOOLEAN]
      BY <1>6 DEF TypeOK, ReceiveChunk, Process, IsError
    <2> QED
      BY <1>6, <2>1, <2>2, <2>3 DEF TypeOK, ReceiveChunk, Hold, Goto
  <1>7. ASSUME NEW s \in Wrappers, LeaveLoop(s) PROVE TypeOK'
    BY <1>7, StageFacts DEF TypeOK, LeaveLoop, Goto
  <1>8. ASSUME NEW s \in Wrappers, Ensure(s) PROVE TypeOK'
    <2>1. s \in Stages /\ Terminal(ContextEnding) \in Chunks
      BY StageFacts, ChunkFacts, EndingFacts
    <2>2. failureSeen' \in [Wrappers -> BOOLEAN]
      BY <1>8 DEF TypeOK, Ensure, Process, IsError
    <2> QED
      BY <1>8, <2>1, <2>2 DEF TypeOK, Ensure, Hold, Goto
  <1>9. ASSUME NEW s \in Wrappers, Finalize(s) PROVE TypeOK'
    BY <1>9, StageFacts DEF TypeOK, Finalize, Goto
  <1>10. ASSUME NEW s \in Wrappers, Drain(s) PROVE TypeOK'
    <2>1. s - 1 \in Stages /\ Tail(buffer[s-1]) \in Seq(Chunks)
      BY <1>10, StageFacts DEF Drain, TypeOK
    <2> QED
      BY <1>10, <2>1 DEF TypeOK, Drain
  <1>11. CASE ReadResponse
    <2>1. /\ \A e \in Endings : Terminal(e) \in Chunks
          /\ \A n \in 1..NChunks : Data(n) \in Chunks
          /\ 0 \in Stages
      BY ChunkFacts, StageFacts
    <2>2. CASE /\ ~canceled /\ said < NChunks
               /\ said' = said + 1
               /\ Hold(0, Data(said')) /\ Goto(0, "send")
      <3>1. said' \in 1..NChunks /\ said' \in 0..NChunks
        BY <2>2, PipelineAssumption DEF TypeOK
      <3>2. Data(said') \in Chunks
        BY <2>1, <3>1
      <3> QED
        BY <1>11, <2>1, <2>2, <3>1, <3>2 DEF TypeOK, ReadResponse, Hold, Goto
    <2>3. CASE /\ \/ canceled /\ Hold(0, Terminal("canceled"))
                  \/ ~canceled /\ said = NChunks /\ Hold(0, Terminal("done"))
                  \/ Hold(0, Terminal("providerError"))
               /\ Goto(0, "terminal")
               /\ UNCHANGED said
      BY <1>11, <2>1, <2>3, EndingFacts DEF TypeOK, ReadResponse, Hold, Goto
    <2> QED
      BY <1>11, <2>2, <2>3 DEF ReadResponse
  <1>12. CASE Receive
    <2>1. /\ Head(buffer[Depth]) \in Chunks
          /\ Tail(buffer[Depth]) \in Seq(Chunks)
      BY <1>12, StageFacts DEF Receive, TypeOK
    <2> QED
      BY <1>12, <2>1, StageFacts DEF TypeOK, Receive
  <1>13. CASE WalkAway
    BY <1>13 DEF TypeOK, WalkAway, sender
  <1>14. CASE Cancel
    BY <1>14 DEF TypeOK, Cancel, sender
  <1>15. CASE Tick
    <2>1. expired' \in [Stages -> BOOLEAN]
      BY <1>15 DEF Tick, Blocked
    <2>2. paused' \in BOOLEAN
      BY <1>15, Zenon DEF Tick, TypeOK
    <2> QED
      BY <1>15, <2>1, <2>2 DEF TypeOK, Tick
  <1>16. CASE UNCHANGED vars
    BY <1>16 DEF TypeOK, vars, sender
  <1> QED
    BY <1>1, <1>2, <1>3, <1>4, <1>5, <1>6, <1>7, <1>8, <1>9, <1>10, <1>11, <1>12, <1>13,
       <1>14, <1>15, <1>16 DEF Next, StageStep, WrapperStep

-----------------------------------------------------------------------------
(* The steps of one stage.                                                 *)

\* Nothing happens to the stages outside S, to the response, which the first stage
\* reads, nor to what the caller has read, from the last.
OnlyMoves(S) ==
    /\ \A r \in Stages \ S :
        /\ buffer'[r] = buffer[r] /\ closed'[r] = closed[r]
        /\ pc'[r] = pc[r] /\ holding'[r] = holding[r]
        /\ terminalSent'[r] = terminalSent[r] /\ expired'[r] = expired[r]
        /\ passed'[r] = passed[r]
        /\ r \in draining' <=> r \in draining
    /\ \A r \in Wrappers \ S : failureSeen'[r] = failureSeen[r]
    /\ 0 \notin S => said' = said
    /\ Depth \notin S => received' = received
    /\ UNCHANGED <<canceled, caller, paused>>

\* What the invariant says of one stage, of it and its neighbours, and of it and
\* its environment.
InvOf(s) ==
    /\ QueueInOrder(s) /\ HoldsWhatItOwes(s) /\ LossHasACause(s) /\ DoneIsMeant(s)
    /\ s \in Wrappers => FollowsItsSource(s) /\ FailureIsShown(s)
    /\ \A w \in Wrappers : w - 1 = s => FollowsItsSource(w)
    /\ s = 0 => ProviderInStep
    /\ s = Depth => CallerInStep

LEMMA PartsOfIInv ==
    ASSUME IInv
    PROVE  /\ \A r \in Stages : /\ QueueInOrder(r) /\ HoldsWhatItOwes(r)
                                /\ LossHasACause(r) /\ DoneIsMeant(r)
                                /\ buffer[r] \in Seq(Chunks) /\ holding[r] \in Chunks
                                /\ Count(buffer[r]) \in Nat /\ passed[r] \in Nat
                                /\ Taken(r) \in Nat /\ Taken(r) + Count(buffer[r]) = passed[r]
           /\ \A r \in Wrappers : FollowsItsSource(r) /\ FailureIsShown(r)
           /\ ProviderInStep /\ CallerInStep
  BY CountIsNat DEF IInv, Order, Losses, TypeOK, QueueInOrder, Taken

\* A step of some stages keeps what the invariant says of the others.
LEMMA SomeStagesMove ==
    ASSUME IInv, CallerToBlame => CallerToBlame',
           NEW S, OnlyMoves(S), \A s \in S : InvOf(s)'
    PROVE  Order' /\ Losses'
  <1>1. ASSUME NEW r \in Stages
        PROVE  (QueueInOrder(r) /\ HoldsWhatItOwes(r) /\ LossHasACause(r) /\ DoneIsMeant(r))'
    <2>1. CASE r \in S
      BY <2>1 DEF InvOf
    <2>2. CASE r \notin S
      BY <2>2, PartsOfIInv
         DEF OnlyMoves, QueueInOrder, HoldsWhatItOwes, LossHasACause, DoneIsMeant,
             Taken, Over, Sending, Delivering
    <2> QED
      BY <2>1, <2>2
  <1>2. ASSUME NEW r \in Wrappers PROVE FollowsItsSource(r)'
    <2>1. CASE r \in S \/ r - 1 \in S
      BY <2>1 DEF InvOf
    <2>2. CASE r \notin S /\ r - 1 \notin S
      <3>1. r \in Stages \ S /\ r - 1 \in Stages \ S /\ FollowsItsSource(r)
        BY <2>2, PartsOfIInv, StageFacts
      <3> QED
        BY <3>1 DEF OnlyMoves, FollowsItsSource, Taken, Got, Over, Sending, Delivering
    <2> QED
      BY <2>1, <2>2
  <1>3. ASSUME NEW r \in Wrappers PROVE FailureIsShown(r)'
    <2>1. CASE r \in S
      BY <2>1 DEF InvOf
    <2>2. CASE r \notin S
      <3>1. r \in Stages \ S /\ r \in Wrappers \ S /\ FailureIsShown(r)
        BY <2>2, PartsOfIInv, StageFacts
      <3> QED
        BY <3>1 DEF OnlyMoves, FailureIsShown, Over, Sending, Delivering
    <2> QED
      BY <2>1, <2>2
  <1>4. ProviderInStep'
    <2>1. CASE 0 \in S
      BY <2>1 DEF InvOf
    <2>2. CASE 0 \notin S
      <3>1. 0 \in Stages \ S /\ ProviderInStep
        BY <2>2, PartsOfIInv, StageFacts
      <3> QED
        BY <2>2, <3>1 DEF OnlyMoves, ProviderInStep, Got, Sending
    <2> QED
      BY <2>1, <2>2
  <1>5. CallerInStep'
    <2>1. CASE Depth \in S
      BY <2>1 DEF InvOf
    <2>2. CASE Depth \notin S
      <3>1. Depth \in Stages \ S /\ CallerInStep
        BY <2>2, PartsOfIInv, StageFacts
      <3> QED
        BY <2>2, <3>1 DEF OnlyMoves, CallerInStep, Taken, Over, Sending, Delivering
    <2> QED
      BY <2>1, <2>2
  <1> QED
    BY <1>1, <1>2, <1>3, <1>4, <1>5 DEF Order, Losses

\* A stage sends a data chunk.
LEMMA SendDataIInv ==
    ASSUME IInv, CallerToBlame => CallerToBlame',
           NEW s \in Stages, Sending(s), ~IsTerminal(holding[s]), SendNow(s),
           UNCHANGED <<canceled, said, received, caller, paused>>
    PROVE  Order' /\ Losses'
  <1>1. /\ pc' = [pc EXCEPT ![s] = "loop"]
        /\ buffer' = [buffer EXCEPT ![s] = Append(@, holding[s])]
        /\ terminalSent' = [terminalSent EXCEPT ![s] = @ \/ IsTerminal(holding[s])]
        /\ passed' = [passed EXCEPT ![s] = @ + 1]
        /\ expired' = [expired EXCEPT ![s] = FALSE]
        /\ UNCHANGED <<canceled, closed, holding, draining, said, failureSeen, received, caller, paused>>
    BY DEF SendNow, Goto, Put, Mark
  <1>2. OnlyMoves({s})
    BY <1>1 DEF OnlyMoves, IInv, TypeOK
  <1>3. /\ holding[s] = Data(passed[s] + 1)
        /\ Numbered(buffer[s], Taken(s)) /\ ~EndsIn(buffer[s]) /\ ~terminalSent[s]
    BY PartsOfIInv DEF QueueInOrder, HoldsWhatItOwes, Over
  <1>4. /\ buffer'[s] = Append(buffer[s], holding[s])
        /\ pc'[s] = "loop" /\ passed'[s] = passed[s] + 1 /\ ~terminalSent'[s] /\ ~expired'[s]
    BY <1>1, <1>3 DEF IInv, TypeOK
  <1>5. /\ Numbered(buffer'[s], Taken(s)) /\ ~EndsIn(buffer'[s])
        /\ Count(buffer'[s]) = Count(buffer[s]) + 1
    BY <1>3, <1>4, AppendData, PartsOfIInv
  <1>6. Taken(s)' = Taken(s)
    BY <1>4, <1>5, PartsOfIInv DEF Taken
  <1>7. (QueueInOrder(s) /\ HoldsWhatItOwes(s) /\ LossHasACause(s) /\ DoneIsMeant(s))'
    BY <1>1, <1>3, <1>4, <1>5, <1>6, PartsOfIInv
       DEF QueueInOrder, HoldsWhatItOwes, LossHasACause, DoneIsMeant, Over, Sending, Delivering
  <1>8. ASSUME s \in Wrappers PROVE (FollowsItsSource(s) /\ FailureIsShown(s))'
    <2>1. s - 1 \in Stages \ {s} /\ FollowsItsSource(s) /\ FailureIsShown(s)
      BY <1>8, PartsOfIInv, StageFacts
    <2> QED
      BY <1>1, <1>2, <1>3, <1>4, <2>1
         DEF OnlyMoves, FollowsItsSource, FailureIsShown, Taken, Got, Over, Sending, Delivering
  <1>9. ASSUME NEW w \in Wrappers, w - 1 = s PROVE FollowsItsSource(w)'
    <2>1. w \in Stages \ {s} /\ FollowsItsSource(w)
      BY <1>9, PartsOfIInv, StageFacts
    <2> QED
      BY <1>2, <1>3, <1>4, <1>5, <1>6, <1>9, <2>1
         DEF OnlyMoves, FollowsItsSource, Got, Over, Sending, Delivering
  <1>10. ASSUME s = 0 PROVE ProviderInStep'
    BY <1>1, <1>3, <1>4, <1>10, PartsOfIInv DEF ProviderInStep, Got, Sending
  <1>11. ASSUME s = Depth PROVE CallerInStep'
    BY <1>1, <1>3, <1>4, <1>5, <1>6, <1>11, PartsOfIInv
       DEF CallerInStep, Over, Sending, Delivering
  <1> QED
    BY <1>2, <1>7, <1>8, <1>9, <1>10, <1>11, SomeStagesMove DEF InvOf


\* A stage puts a terminal chunk into its channel, in Send or in DeliverTerminal.
LEMMA PutTerminalIInv ==
    ASSUME IInv, CallerToBlame => CallerToBlame',
           NEW s \in Stages, NEW to,
           \/ Sending(s) /\ IsTerminal(holding[s]) /\ to = "loop"
           \/ Delivering(s) /\ to = AfterTerminal(s),
           Goto(s, to), Put(s), Mark(s, TRUE),
           expired' \in {expired, [expired EXCEPT ![s] = FALSE]},
           UNCHANGED <<canceled, closed, holding, draining, said, passed, failureSeen, received, caller, paused>>
    PROVE  Order' /\ Losses'
  <1>1. /\ pc' = [pc EXCEPT ![s] = to]
        /\ buffer' = [buffer EXCEPT ![s] = Append(@, holding[s])]
        /\ terminalSent' = [terminalSent EXCEPT ![s] = TRUE]
    BY DEF Goto, Put, Mark
  <1>2. OnlyMoves({s})
    BY <1>1 DEF OnlyMoves, IInv, TypeOK
  <1>3. /\ IsTerminal(holding[s]) /\ Numbered(buffer[s], Taken(s)) /\ ~EndsIn(buffer[s]) /\ ~Over(s)
        /\ (Sending(s) \/ Delivering(s)) /\ pc[s] # "loop" /\ pc[s] # "exited"
        /\ holding[s].ends = "done" => passed[s] = NChunks \/ CallerToBlame
        /\ IsError(holding[s]) \/ holding[s].ends = "done"
    BY PartsOfIInv, ChunkFacts DEF QueueInOrder, HoldsWhatItOwes, DoneIsMeant, Over, Sending, Delivering
  <1>4. /\ buffer'[s] = Append(buffer[s], holding[s])
        /\ pc'[s] = to /\ terminalSent'[s] /\ (expired'[s] => expired[s])
    BY <1>1, <1>3 DEF IInv, TypeOK
  <1>5. /\ Numbered(buffer'[s], Taken(s)) /\ EndsIn(buffer'[s])
        /\ buffer'[s][Len(buffer'[s])] = holding[s]
        /\ Count(buffer'[s]) = Count(buffer[s])
    BY <1>3, <1>4, AppendTerminal, PartsOfIInv
  <1>6. Taken(s)' = Taken(s)
    BY <1>5, PartsOfIInv DEF Taken
  <1>7. /\ to = "loop" => Sending(s) /\ s \in Wrappers
        /\ to \in {"loop", "ensure", "finalize", "close"}
        /\ to = "ensure" => s \in Wrappers /\ s \in draining
        /\ s = 0 => to = "close"
        /\ to = "finalize" => pc[s] \in {"ensuring", "ensuringBlocked"}
        /\ to = "close" => s \notin Wrappers
    BY <1>3, PartsOfIInv, StageFacts DEF AfterTerminal, ProviderInStep, HoldsWhatItOwes, Sending, Delivering
  <1>8. (QueueInOrder(s) /\ HoldsWhatItOwes(s) /\ LossHasACause(s) /\ DoneIsMeant(s))'
    BY <1>2, <1>3, <1>4, <1>5, <1>6, <1>7, PartsOfIInv
       DEF QueueInOrder, HoldsWhatItOwes, LossHasACause, DoneIsMeant, Taken, Over, Sending, Delivering
  <1>9. ASSUME s \in Wrappers PROVE (FollowsItsSource(s) /\ FailureIsShown(s))'
    <2>1. s - 1 \in Stages \ {s} /\ FollowsItsSource(s) /\ FailureIsShown(s)
      BY <1>9, PartsOfIInv, StageFacts
    <2> QED
      BY <1>2, <1>3, <1>4, <1>5, <1>6, <1>7, <1>9, <2>1, PartsOfIInv
         DEF OnlyMoves, FollowsItsSource, FailureIsShown, HoldsWhatItOwes, DoneIsMeant, Taken, Got,
             Over, Sending, Delivering
  <1>10. ASSUME NEW w \in Wrappers, w - 1 = s PROVE FollowsItsSource(w)'
    <2>1. w \in Stages \ {s} /\ FollowsItsSource(w)
      BY <1>10, PartsOfIInv, StageFacts
    <2> QED
      BY <1>2, <1>3, <1>4, <1>5, <1>6, <1>7, <1>10, <2>1
         DEF OnlyMoves, FollowsItsSource, Got, Over, Sending, Delivering
  <1>11. ASSUME s = 0 PROVE ProviderInStep'
    BY <1>2, <1>3, <1>4, <1>5, <1>6, <1>7, <1>11, PartsOfIInv, StageFacts DEF ProviderInStep, Got, Sending
  <1>12. ASSUME s = Depth PROVE CallerInStep'
    BY <1>2, <1>3, <1>4, <1>5, <1>6, <1>7, <1>12, PartsOfIInv
       DEF CallerInStep, HoldsWhatItOwes, Taken, Over, Sending, Delivering
  <1> QED
    BY <1>2, <1>8, <1>9, <1>10, <1>11, <1>12, SomeStagesMove DEF InvOf

\* A send that the end of the context or the timeout makes fail.
LEMMA SendFailsIInv ==
    ASSUME IInv, CallerToBlame => CallerToBlame',
           NEW s \in Stages, Sending(s), NEW why \in {"canceled", "timeout"}, SendFails(s, why),
           UNCHANGED <<canceled, said, received, caller, paused>>
    PROVE  Order' /\ Losses'
  <1>1. /\ pc' = [pc EXCEPT ![s] = "terminal"]
        /\ holding' = [holding EXCEPT ![s] = Terminal(why)]
        /\ expired' = [expired EXCEPT ![s] = FALSE]
        /\ draining' = draining \cup ({s} \cap Wrappers)
        /\ s \in Wrappers => failureSeen' = [failureSeen EXCEPT ![s] = @ \/ IsError(Terminal(why))]
        /\ s \notin Wrappers => failureSeen' = failureSeen
        /\ UNCHANGED <<buffer, closed, terminalSent, passed>>
    BY DEF SendFails, Goto, Hold, Process
  <1>2. OnlyMoves({s})
    BY <1>1 DEF OnlyMoves, IInv, TypeOK
  <1>3. /\ IsTerminal(Terminal(why)) /\ IsError(Terminal(why)) /\ Terminal(why).ends # "done"
        /\ ~terminalSent[s]
    BY ChunkFacts, EndingFacts, PartsOfIInv DEF HoldsWhatItOwes
  <1>4. /\ pc'[s] = "terminal" /\ holding'[s] = Terminal(why) /\ ~expired'[s]
        /\ terminalSent'[s] = terminalSent[s] /\ buffer'[s] = buffer[s] /\ passed'[s] = passed[s]
        /\ closed'[s] = closed[s]
        /\ s \in Wrappers => s \in draining'
        /\ s \in Wrappers => failureSeen'[s]
        /\ s \in draining' => s \in Wrappers
    BY <1>1, <1>3 DEF IInv, TypeOK
  <1>5. (QueueInOrder(s) /\ HoldsWhatItOwes(s) /\ LossHasACause(s) /\ DoneIsMeant(s))'
    BY <1>2, <1>3, <1>4, PartsOfIInv
       DEF QueueInOrder, HoldsWhatItOwes, LossHasACause, DoneIsMeant, Taken, Over, Sending, Delivering
  <1>6. ASSUME s \in Wrappers PROVE (FollowsItsSource(s) /\ FailureIsShown(s))'
    <2>1. s - 1 \in Stages \ {s} /\ FollowsItsSource(s) /\ FailureIsShown(s)
      BY <1>6, PartsOfIInv, StageFacts
    <2> QED
      BY <1>2, <1>3, <1>4, <1>6, <2>1, PartsOfIInv
         DEF OnlyMoves, FollowsItsSource, FailureIsShown, HoldsWhatItOwes, DoneIsMeant, Taken, Got,
             Over, Sending, Delivering
  <1>7. ASSUME NEW w \in Wrappers, w - 1 = s PROVE FollowsItsSource(w)'
    <2>1. w \in Stages \ {s} /\ FollowsItsSource(w)
      BY <1>7, PartsOfIInv, StageFacts
    <2> QED
      BY <1>2, <1>3, <1>4, <1>7, <2>1, PartsOfIInv
         DEF OnlyMoves, FollowsItsSource, HoldsWhatItOwes, Taken, Got, Over, Sending, Delivering
  <1>8. ASSUME s = 0 PROVE ProviderInStep'
    BY <1>2, <1>3, <1>4, <1>8, PartsOfIInv, StageFacts DEF ProviderInStep, Got, Sending
  <1>9. ASSUME s = Depth PROVE CallerInStep'
    BY <1>2, <1>3, <1>4, <1>9, PartsOfIInv
       DEF CallerInStep, HoldsWhatItOwes, Taken, Over, Sending, Delivering
  <1> QED
    BY <1>2, <1>5, <1>6, <1>7, <1>8, <1>9, SomeStagesMove DEF InvOf

\* A stage waits for room, in Send or in DeliverTerminal.
LEMMA BlockIInv ==
    ASSUME IInv, CallerToBlame => CallerToBlame',
           NEW s \in Stages, NEW to, Goto(s, to),
           \/ pc[s] = "send" /\ to = "sendBlocked" /\ UNCHANGED terminalSent
           \/ pc[s] \in {"terminal", "ensuring"} /\ to = BlockedAt(s) /\ Mark(s, TRUE),
           UNCHANGED <<canceled, buffer, closed, holding, expired, draining, said, passed, failureSeen,
                       received, caller, paused>>
    PROVE  Order' /\ Losses'
  <1>1. /\ pc' = [pc EXCEPT ![s] = to]
        /\ \/ terminalSent' = terminalSent /\ pc[s] = "send" /\ to = "sendBlocked"
           \/ /\ terminalSent' = [terminalSent EXCEPT ![s] = TRUE]
              /\ \/ pc[s] = "terminal" /\ to = "terminalBlocked"
                 \/ pc[s] = "ensuring" /\ to = "ensuringBlocked"
    BY DEF Goto, Mark, BlockedAt
  <1>2. OnlyMoves({s})
    BY <1>1 DEF OnlyMoves, IInv, TypeOK
  <1>3. /\ holding'[s] = holding[s] /\ expired'[s] = expired[s] /\ buffer'[s] = buffer[s]
        /\ passed'[s] = passed[s] /\ closed'[s] = closed[s] /\ pc'[s] = to /\ draining' = draining
        /\ failureSeen' = failureSeen /\ said' = said
        /\ pc[s] = "send" => terminalSent'[s] = terminalSent[s]
        /\ pc[s] # "send" => terminalSent'[s]
    BY <1>1 DEF IInv, TypeOK
  <1>4. (QueueInOrder(s) /\ HoldsWhatItOwes(s) /\ LossHasACause(s) /\ DoneIsMeant(s))'
    BY <1>1, <1>2, <1>3, PartsOfIInv
       DEF QueueInOrder, HoldsWhatItOwes, LossHasACause, DoneIsMeant, Taken, Over, Sending, Delivering
  <1>5. ASSUME s \in Wrappers PROVE (FollowsItsSource(s) /\ FailureIsShown(s))'
    <2>1. s - 1 \in Stages \ {s} /\ FollowsItsSource(s) /\ FailureIsShown(s)
      BY <1>5, PartsOfIInv, StageFacts
    <2> QED
      BY <1>1, <1>2, <1>3, <1>5, <2>1, PartsOfIInv
         DEF OnlyMoves, FollowsItsSource, FailureIsShown, HoldsWhatItOwes, DoneIsMeant, Taken, Got,
             Over, Sending, Delivering
  <1>6. ASSUME NEW w \in Wrappers, w - 1 = s PROVE FollowsItsSource(w)'
    <2>1. w \in Stages \ {s} /\ FollowsItsSource(w)
      BY <1>6, PartsOfIInv, StageFacts
    <2> QED
      BY <1>1, <1>2, <1>3, <1>6, <2>1, PartsOfIInv
         DEF OnlyMoves, FollowsItsSource, HoldsWhatItOwes, Taken, Got, Over, Sending, Delivering
  <1>7. ASSUME s = 0 PROVE ProviderInStep'
    BY <1>1, <1>2, <1>3, <1>7, PartsOfIInv, StageFacts DEF ProviderInStep, Got, Sending
  <1>8. ASSUME s = Depth PROVE CallerInStep'
    BY <1>1, <1>2, <1>3, <1>8, PartsOfIInv
       DEF CallerInStep, HoldsWhatItOwes, Taken, Over, Sending, Delivering
  <1> QED
    BY <1>2, <1>4, <1>5, <1>6, <1>7, <1>8, SomeStagesMove DEF InvOf

\* DeliverTerminal gives up, and arms its guard again.
LEMMA TimeOutIInv ==
    ASSUME IInv, CallerToBlame => CallerToBlame',
           NEW s \in Stages, pc[s] \in {"terminalBlocked", "ensuringBlocked"}, expired[s],
           Mark(s, FALSE), Goto(s, AfterTerminal(s)), expired' = [expired EXCEPT ![s] = FALSE],
           UNCHANGED <<canceled, buffer, closed, holding, draining, said, passed, failureSeen,
                       received, caller, paused>>
    PROVE  Order' /\ Losses'
  <1> DEFINE to == AfterTerminal(s)
  <1>1. /\ pc' = [pc EXCEPT ![s] = to]
        /\ terminalSent' = [terminalSent EXCEPT ![s] = FALSE]
    BY DEF Goto, Mark
  <1>2. OnlyMoves({s})
    BY <1>1 DEF OnlyMoves, IInv, TypeOK
  <1>3. /\ buffer'[s] = buffer[s] /\ passed'[s] = passed[s] /\ closed'[s] = closed[s]
        /\ ~expired'[s] /\ ~terminalSent'[s] /\ draining' = draining
        /\ pc'[s] = to /\ CallerToBlame
        /\ ~EndsIn(buffer[s]) /\ Delivering(s)
    BY <1>1, PartsOfIInv DEF IInv, TypeOK, LossHasACause, QueueInOrder, Over, Delivering
  <1>4. /\ to \in {"ensure", "finalize", "close"}
        /\ to = "ensure" => s \in Wrappers /\ s \in draining
        /\ s = 0 => to = "close"
        /\ to = "finalize" => pc[s] = "ensuringBlocked"
        /\ to = "close" => s \notin Wrappers
    BY PartsOfIInv, StageFacts DEF AfterTerminal, ProviderInStep, HoldsWhatItOwes
  <1>5. (QueueInOrder(s) /\ HoldsWhatItOwes(s) /\ LossHasACause(s) /\ DoneIsMeant(s))'
    BY <1>2, <1>3, <1>4, PartsOfIInv
       DEF QueueInOrder, HoldsWhatItOwes, LossHasACause, DoneIsMeant, Taken, Over, Sending, Delivering
  <1>6. ASSUME s \in Wrappers PROVE (FollowsItsSource(s) /\ FailureIsShown(s))'
    <2>1. s - 1 \in Stages \ {s} /\ FollowsItsSource(s) /\ FailureIsShown(s)
      BY <1>6, PartsOfIInv, StageFacts
    <2> QED
      BY <1>2, <1>3, <1>4, <1>6, <2>1, PartsOfIInv
         DEF OnlyMoves, FollowsItsSource, FailureIsShown, HoldsWhatItOwes, DoneIsMeant, Taken, Got,
             Over, Sending, Delivering
  <1>7. ASSUME NEW w \in Wrappers, w - 1 = s PROVE FollowsItsSource(w)'
    <2>1. w \in Stages \ {s} /\ FollowsItsSource(w)
      BY <1>7, PartsOfIInv, StageFacts
    <2> QED
      BY <1>2, <1>3, <1>4, <1>7, <2>1, PartsOfIInv
         DEF OnlyMoves, FollowsItsSource, HoldsWhatItOwes, Taken, Got, Over, Sending, Delivering
  <1>8. ASSUME s = 0 PROVE ProviderInStep'
    BY <1>2, <1>3, <1>4, <1>8, PartsOfIInv, StageFacts DEF ProviderInStep, Got, Sending
  <1>9. ASSUME s = Depth PROVE CallerInStep'
    BY <1>2, <1>3, <1>4, <1>9, PartsOfIInv
       DEF CallerInStep, HoldsWhatItOwes, Taken, Over, Sending, Delivering
  <1> QED
    BY <1>2, <1>5, <1>6, <1>7, <1>8, <1>9, SomeStagesMove DEF InvOf


\* A middleware ends, or a stage closes its channel.
LEMMA CloseIInv ==
    ASSUME IInv, CallerToBlame => CallerToBlame', NEW s \in Stages,
           CloseChannel(s) \/ (s \in Wrappers /\ Finalize(s))
    PROVE  Order' /\ Losses'
  <1>1. /\ \/ /\ pc[s] = "close" /\ pc' = [pc EXCEPT ![s] = "exited"]
              /\ closed' = [closed EXCEPT ![s] = TRUE]
           \/ /\ pc[s] = "finalize" /\ pc' = [pc EXCEPT ![s] = "close"] /\ closed' = closed
        /\ UNCHANGED <<canceled, buffer, holding, terminalSent, expired, draining, said, passed,
                       failureSeen, received, caller, paused>>
    BY DEF CloseChannel, Finalize, Goto
  <1>2. OnlyMoves({s})
    BY <1>1 DEF OnlyMoves, IInv, TypeOK
  <1>3. \/ pc[s] = "close" /\ pc'[s] = "exited" /\ closed'[s]
        \/ pc[s] = "finalize" /\ pc'[s] = "close" /\ closed'[s] = closed[s]
    BY <1>1 DEF IInv, TypeOK
  <1>4. (QueueInOrder(s) /\ HoldsWhatItOwes(s) /\ LossHasACause(s) /\ DoneIsMeant(s))'
    BY <1>1, <1>2, <1>3, PartsOfIInv
       DEF QueueInOrder, HoldsWhatItOwes, LossHasACause, DoneIsMeant, Taken, Over, Sending, Delivering
  <1>5. ASSUME s \in Wrappers PROVE (FollowsItsSource(s) /\ FailureIsShown(s))'
    <2>1. s - 1 \in Stages \ {s} /\ FollowsItsSource(s) /\ FailureIsShown(s)
      BY <1>5, PartsOfIInv, StageFacts
    <2> QED
      BY <1>1, <1>2, <1>3, <1>5, <2>1, PartsOfIInv
         DEF OnlyMoves, FollowsItsSource, FailureIsShown, HoldsWhatItOwes, DoneIsMeant, Taken, Got,
             Over, Sending, Delivering
  <1>6. ASSUME NEW w \in Wrappers, w - 1 = s PROVE FollowsItsSource(w)'
    <2>1. w \in Stages \ {s} /\ FollowsItsSource(w)
      BY <1>6, PartsOfIInv, StageFacts
    <2> QED
      BY <1>1, <1>2, <1>3, <1>6, <2>1, PartsOfIInv
         DEF OnlyMoves, FollowsItsSource, HoldsWhatItOwes, Taken, Got, Over, Sending, Delivering
  <1>7. ASSUME s = 0 PROVE ProviderInStep'
    BY <1>1, <1>2, <1>3, <1>7, PartsOfIInv, StageFacts DEF ProviderInStep, Got, Sending
  <1>8. ASSUME s = Depth PROVE CallerInStep'
    BY <1>1, <1>2, <1>3, <1>8, PartsOfIInv
       DEF CallerInStep, HoldsWhatItOwes, Taken, Over, Sending, Delivering
  <1> QED
    BY <1>2, <1>4, <1>5, <1>6, <1>7, <1>8, SomeStagesMove DEF InvOf

\* The source is closed, or the context has ended.
LEMMA LeaveLoopIInv ==
    ASSUME IInv, CallerToBlame => CallerToBlame', NEW s \in Wrappers, LeaveLoop(s)
    PROVE  Order' /\ Losses'
  <1>0. s \in Stages /\ s - 1 \in Stages \ {s} /\ FollowsItsSource(s)
    BY PartsOfIInv, StageFacts
  <1>1. /\ pc[s] = "loop" /\ pc' = [pc EXCEPT ![s] = "ensure"]
        /\ buffer[s-1] = <<>>
        /\ closed[s-1] \/ canceled
        /\ \/ draining' = draining /\ closed[s-1]
           \/ draining' = draining \cup {s}
        /\ UNCHANGED <<canceled, buffer, closed, holding, terminalSent, expired, said, passed,
                   failureSeen, received, caller, paused>>
    BY DEF LeaveLoop, Goto
  <1>2. OnlyMoves({s})
    BY <1>0, <1>1 DEF OnlyMoves, IInv, TypeOK
  <1>3. /\ pc'[s] = "ensure"
        /\ pc[s-1] = "exited" \/ s \in draining'
        /\ ~EndsIn(buffer[s-1])
        /\ closed[s-1] => pc[s-1] = "exited"
        /\ s \notin draining
    BY <1>0, <1>1, PartsOfIInv DEF IInv, TypeOK, HoldsWhatItOwes, EndsIn
  <1>4. terminalSent[s] \/ canceled \/ CallerToBlame
    <2>1. SUFFICES ASSUME ~canceled, ~CallerToBlame PROVE terminalSent[s]
      OBVIOUS
    <2>2. Over(s-1)
      BY <1>0, <1>1, <1>3, <2>1, PartsOfIInv DEF LossHasACause, Over, Delivering
    <2> QED
      BY <1>0, <1>1, <1>3, <2>2 DEF FollowsItsSource, Over, Sending
  <1>5. (QueueInOrder(s) /\ HoldsWhatItOwes(s) /\ LossHasACause(s) /\ DoneIsMeant(s))'
    BY <1>0, <1>1, <1>2, <1>3, <1>4, PartsOfIInv
       DEF QueueInOrder, HoldsWhatItOwes, LossHasACause, DoneIsMeant, Taken, Over, Sending, Delivering
  <1>6. ASSUME s \in Wrappers PROVE (FollowsItsSource(s) /\ FailureIsShown(s))'
    <2>1. s - 1 \in Stages \ {s} /\ FollowsItsSource(s) /\ FailureIsShown(s)
      BY <1>6, PartsOfIInv, StageFacts
    <2> QED
      BY <1>0, <1>1, <1>2, <1>3, <1>4, <1>6, <2>1, PartsOfIInv
         DEF OnlyMoves, FollowsItsSource, FailureIsShown, HoldsWhatItOwes, DoneIsMeant, Taken, Got,
             Over, Sending, Delivering
  <1>7. ASSUME NEW w \in Wrappers, w - 1 = s PROVE FollowsItsSource(w)'
    <2>1. w \in Stages \ {s} /\ FollowsItsSource(w)
      BY <1>7, PartsOfIInv, StageFacts
    <2> QED
      BY <1>0, <1>1, <1>2, <1>3, <1>4, <1>7, <2>1, PartsOfIInv
         DEF OnlyMoves, FollowsItsSource, HoldsWhatItOwes, Taken, Got, Over, Sending, Delivering
  <1>8. ASSUME s = 0 PROVE ProviderInStep'
    BY <1>0, <1>1, <1>2, <1>3, <1>4, <1>8, PartsOfIInv, StageFacts DEF ProviderInStep, Got, Sending
  <1>9. ASSUME s = Depth PROVE CallerInStep'
    BY <1>0, <1>1, <1>2, <1>3, <1>4, <1>9, PartsOfIInv
       DEF CallerInStep, HoldsWhatItOwes, Taken, Over, Sending, Delivering
  <1> QED
    BY <1>0, <1>2, <1>5, <1>6, <1>7, <1>8, <1>9, SomeStagesMove DEF InvOf

\* A terminal chunk is made up for a source that sent none.
LEMMA EnsureIInv ==
    ASSUME IInv, CallerToBlame => CallerToBlame', NEW s \in Wrappers, Ensure(s)
    PROVE  Order' /\ Losses'
  <1> DEFINE c == Terminal(ContextEnding)
  <1>0. /\ s \in Stages
        /\ IsTerminal(c) /\ (IsError(c) <=> canceled)
        /\ c.ends = "done" <=> ~canceled
    BY ChunkFacts, EndingFacts, StageFacts DEF ContextEnding, Endings
  <1>1. /\ pc[s] = "ensure"
        /\ \/ terminalSent[s] /\ pc' = [pc EXCEPT ![s] = "finalize"] /\ UNCHANGED <<holding, failureSeen>>
           \/ /\ ~terminalSent[s] /\ pc' = [pc EXCEPT ![s] = "ensuring"]
              /\ holding' = [holding EXCEPT ![s] = c]
              /\ failureSeen' = [failureSeen EXCEPT ![s] = @ \/ IsError(c)]
        /\ UNCHANGED <<canceled, buffer, closed, terminalSent, expired, draining, said, passed,
                       received, caller, paused>>
    BY DEF Ensure, Goto, Hold, Process
  <1>2. OnlyMoves({s})
    BY <1>0, <1>1 DEF OnlyMoves, IInv, TypeOK
  <1>3. /\ \/ terminalSent[s] /\ pc'[s] = "finalize" /\ holding'[s] = holding[s]
           \/ ~terminalSent[s] /\ pc'[s] = "ensuring" /\ holding'[s] = c
        /\ failureSeen[s] => failureSeen'[s]
        /\ pc'[s] = "ensuring" /\ IsError(c) => failureSeen'[s]
    BY <1>0, <1>1 DEF IInv, TypeOK
  <1>4. pc'[s] = "ensuring" => IsError(c) \/ CallerToBlame
    BY <1>0, <1>1, <1>3, PartsOfIInv DEF LossHasACause
  <1> HIDE DEF c
  <1>5. (QueueInOrder(s) /\ HoldsWhatItOwes(s) /\ LossHasACause(s) /\ DoneIsMeant(s))'
    BY <1>0, <1>1, <1>2, <1>3, <1>4, PartsOfIInv
       DEF QueueInOrder, HoldsWhatItOwes, LossHasACause, DoneIsMeant, Taken, Over, Sending, Delivering
  <1>6. ASSUME s \in Wrappers PROVE (FollowsItsSource(s) /\ FailureIsShown(s))'
    <2>1. s - 1 \in Stages \ {s} /\ FollowsItsSource(s) /\ FailureIsShown(s)
      BY <1>6, PartsOfIInv, StageFacts
    <2> QED
      BY <1>0, <1>1, <1>2, <1>3, <1>4, <1>6, <2>1, PartsOfIInv
         DEF OnlyMoves, FollowsItsSource, FailureIsShown, HoldsWhatItOwes, DoneIsMeant, Taken, Got,
             Over, Sending, Delivering
  <1>7. ASSUME NEW w \in Wrappers, w - 1 = s PROVE FollowsItsSource(w)'
    <2>1. w \in Stages \ {s} /\ FollowsItsSource(w)
      BY <1>7, PartsOfIInv, StageFacts
    <2> QED
      BY <1>0, <1>1, <1>2, <1>3, <1>4, <1>7, <2>1, PartsOfIInv
         DEF OnlyMoves, FollowsItsSource, HoldsWhatItOwes, Taken, Got, Over, Sending, Delivering
  <1>8. ASSUME s = 0 PROVE ProviderInStep'
    BY <1>0, <1>1, <1>2, <1>3, <1>4, <1>8, PartsOfIInv, StageFacts DEF ProviderInStep, Got, Sending
  <1>9. ASSUME s = Depth PROVE CallerInStep'
    BY <1>0, <1>1, <1>2, <1>3, <1>4, <1>9, PartsOfIInv
       DEF CallerInStep, HoldsWhatItOwes, Taken, Over, Sending, Delivering
  <1> QED
    BY <1>0, <1>2, <1>5, <1>6, <1>7, <1>8, <1>9, SomeStagesMove DEF InvOf

\* The provider reads the next chunk, or learns how the response ends.
LEMMA ReadResponseIInv ==
    ASSUME IInv, TypeOK', CallerToBlame => CallerToBlame', ReadResponse
    PROVE  Order' /\ Losses'
  <1> DEFINE s == 0
  <1>0. s \in Stages /\ s \notin Wrappers /\ s = 0
    BY StageFacts
  <1>1. /\ pc[s] = "loop" /\ ~terminalSent[s]
        /\ UNCHANGED <<canceled, buffer, closed, terminalSent, expired, draining,
                   passed, failureSeen, received, caller, paused>>
    BY DEF ReadResponse
  <1> HIDE DEF s
  <1>3. \/ /\ pc' = [pc EXCEPT ![s] = "send"] /\ said' = said + 1
           /\ holding' = [holding EXCEPT ![s] = Data(said + 1)]
        \/ /\ pc' = [pc EXCEPT ![s] = "terminal"] /\ said' = said
           /\ \E e \in Endings : /\ holding' = [holding EXCEPT ![s] = Terminal(e)]
                                 /\ e = "done" => said = NChunks
    BY <1>0 DEF ReadResponse, Goto, Hold, Endings
  <1>2. OnlyMoves({s})
    BY <1>0, <1>1, <1>3 DEF OnlyMoves, IInv, TypeOK
  <1>4. said = passed[s] /\ ProviderInStep
    BY <1>0, <1>1, PartsOfIInv DEF ProviderInStep, Got, Sending
  <1>5. \/ /\ pc'[s] = "send" /\ said' = passed[s] + 1
           /\ holding'[s] = Data(passed[s] + 1) /\ ~IsTerminal(holding'[s])
           /\ holding'[s].ends # "done"
        \/ /\ pc'[s] = "terminal" /\ IsTerminal(holding'[s])
           /\ holding'[s].ends = "done" => passed[s] = NChunks
    BY <1>0, <1>3, <1>4, ChunkFacts DEF IInv, TypeOK
  <1>6. (QueueInOrder(s) /\ HoldsWhatItOwes(s) /\ LossHasACause(s) /\ DoneIsMeant(s))'
    BY <1>0, <1>1, <1>2, <1>4, <1>5, PartsOfIInv
       DEF QueueInOrder, HoldsWhatItOwes, LossHasACause, DoneIsMeant, Taken, Over, Sending, Delivering
  <1>7. ASSUME s \in Wrappers PROVE (FollowsItsSource(s) /\ FailureIsShown(s))'
    <2>1. s - 1 \in Stages \ {s} /\ FollowsItsSource(s) /\ FailureIsShown(s)
      BY <1>7, PartsOfIInv, StageFacts
    <2> QED
      BY <1>0, <1>1, <1>2, <1>4, <1>5, <1>7, <2>1, PartsOfIInv
         DEF OnlyMoves, FollowsItsSource, FailureIsShown, HoldsWhatItOwes, DoneIsMeant, Taken, Got,
             Over, Sending, Delivering
  <1>8. ASSUME NEW w \in Wrappers, w - 1 = s PROVE FollowsItsSource(w)'
    <2>1. w \in Stages \ {s} /\ FollowsItsSource(w)
      BY <1>8, PartsOfIInv, StageFacts
    <2> QED
      BY <1>0, <1>1, <1>2, <1>4, <1>5, <1>8, <2>1, PartsOfIInv
         DEF OnlyMoves, FollowsItsSource, HoldsWhatItOwes, Taken, Got, Over, Sending, Delivering
  <1>9. ASSUME s = 0 PROVE ProviderInStep'
    BY <1>0, <1>1, <1>2, <1>4, <1>5, <1>9, PartsOfIInv, StageFacts DEF ProviderInStep, Got, Sending
  <1>10. ASSUME s = Depth PROVE CallerInStep'
    BY <1>0, <1>1, <1>2, <1>4, <1>5, <1>10, PartsOfIInv
       DEF CallerInStep, HoldsWhatItOwes, Taken, Over, Sending, Delivering
  <1> QED
    BY <1>0, <1>2, <1>6, <1>7, <1>8, <1>9, <1>10, SomeStagesMove DEF InvOf


-----------------------------------------------------------------------------
(* The steps of the readers.                                               *)

\* The first chunk is taken from a channel.
LEMMA TakeChunk ==
    ASSUME IInv, CallerToBlame => CallerToBlame',
           NEW b \in Stages, buffer[b] # <<>>, buffer'[b] = Tail(buffer[b]),
           pc'[b] = pc[b], terminalSent'[b] = terminalSent[b], passed'[b] = passed[b],
           holding'[b] = holding[b]
    PROVE  /\ QueueInOrder(b)' /\ DoneIsMeant(b)'
           /\ Head(buffer[b]) \in Chunks
           /\ \/ /\ Head(buffer[b]) = Data(Taken(b) + 1) /\ ~IsTerminal(Head(buffer[b]))
                 /\ Taken(b)' = Taken(b) + 1
                 /\ EndsIn(buffer'[b]) <=> EndsIn(buffer[b])
              \/ /\ IsTerminal(Head(buffer[b])) /\ Over(b)
                 /\ Taken(b)' = Taken(b) /\ Taken(b) = passed[b]
                 /\ buffer'[b] = <<>> /\ ~EndsIn(buffer'[b]) /\ EndsIn(buffer[b])
                 /\ Head(buffer[b]).ends = "done" => passed[b] = NChunks \/ CallerToBlame
  <1>1. /\ QueueInOrder(b) /\ DoneIsMeant(b) /\ Taken(b) \in Nat /\ buffer[b] \in Seq(Chunks)
        /\ Count(buffer[b]) \in Nat /\ passed[b] \in Nat
        /\ Taken(b) + Count(buffer[b]) = passed[b] /\ Numbered(buffer[b], Taken(b))
    BY PartsOfIInv DEF QueueInOrder
  <1>2. (Sending(b) \/ Delivering(b))' <=> (Sending(b) \/ Delivering(b))
    BY DEF Sending, Delivering
  <1>3. Over(b)' = Over(b)
    BY DEF Over, Delivering
  <1> DEFINE DataFirst ==
             /\ Head(buffer[b]) = Data(Taken(b) + 1)
             /\ Numbered(Tail(buffer[b]), Taken(b) + 1)
             /\ EndsIn(Tail(buffer[b])) <=> EndsIn(buffer[b])
             /\ EndsIn(buffer[b]) => Tail(buffer[b])[Len(Tail(buffer[b]))] = buffer[b][Len(buffer[b])]
             /\ Count(Tail(buffer[b])) = Count(buffer[b]) - 1
             /\ Count(buffer[b]) >= 1
             TerminalFirst ==
             /\ IsTerminal(Head(buffer[b]))
             /\ Head(buffer[b]) = buffer[b][Len(buffer[b])] /\ EndsIn(buffer[b]) /\ Count(buffer[b]) = 0
             /\ Tail(buffer[b]) = <<>> /\ ~EndsIn(Tail(buffer[b])) /\ Count(Tail(buffer[b])) = 0
  <1>6. DataFirst \/ TerminalFirst
    <2>1. Taken(b) \in Int
      BY <1>1
    <2> QED
      BY <1>1, <2>1, TakeHead, Zenon
  <1>4. CASE DataFirst
    <2>1. Taken(b)' = Taken(b) + 1
      BY <1>1, <1>4 DEF Taken
    <2>2. QueueInOrder(b)'
      BY <1>1, <1>3, <1>4, <2>1 DEF QueueInOrder
    <2>3. DoneIsMeant(b)'
      BY <1>1, <1>2, <1>4 DEF DoneIsMeant
    <2> QED
      BY <1>1, <1>4, <2>1, <2>2, <2>3, TakeHead, ChunkFacts
  <1>5. CASE TerminalFirst
    <2>1. Taken(b)' = Taken(b) /\ Taken(b) = passed[b]
      BY <1>1, <1>5 DEF Taken
    <2>2. Numbered(<<>>, Taken(b))
      BY DEF Numbered
    <2>4. QueueInOrder(b)' /\ Over(b)
      BY <1>1, <1>3, <1>5, <2>1, <2>2 DEF QueueInOrder
    <2>3. DoneIsMeant(b)' /\ (Head(buffer[b]).ends = "done" => passed[b] = NChunks \/ CallerToBlame)
      BY <1>1, <1>2, <1>5 DEF DoneIsMeant
    <2> QED
      BY <1>1, <1>5, <2>1, <2>3, <2>4, TakeHead
  <1> QED
    BY <1>4, <1>5, <1>6

\* The drainer of an abandoned source throws a chunk away.
LEMMA DrainIInv ==
    ASSUME IInv, CallerToBlame => CallerToBlame', NEW r \in Wrappers, Drain(r)
    PROVE  Order' /\ Losses'
  <1> DEFINE s == r - 1
  <1>1. s \in Stages /\ s # Depth /\ r \in Stages
    BY PipelineAssumption DEF Stages, Wrappers
  <1>2. /\ r \in draining /\ buffer[s] # <<>> /\ buffer' = [buffer EXCEPT ![s] = Tail(@)]
        /\ UNCHANGED <<canceled, closed, pc, holding, terminalSent, expired, draining,
                       said, passed, failureSeen, received, caller, paused>>
    BY DEF Drain
  <1>3. \A w \in Wrappers : w - 1 = s => w = r
    BY DEF Wrappers
  <1> HIDE DEF s
  <1>4. OnlyMoves({s})
    BY <1>1, <1>2 DEF OnlyMoves, IInv, TypeOK
  <1>5. QueueInOrder(s)' /\ DoneIsMeant(s)'
    BY <1>1, <1>2, TakeChunk DEF IInv, TypeOK
  <1>6. HoldsWhatItOwes(s)' /\ LossHasACause(s)'
    BY <1>1, <1>2, PartsOfIInv DEF HoldsWhatItOwes, LossHasACause, Sending, Delivering
  <1>7. ASSUME s \in Wrappers PROVE (FollowsItsSource(s) /\ FailureIsShown(s))'
    <2>1. s - 1 \in Stages \ {s} /\ FollowsItsSource(s) /\ FailureIsShown(s)
      BY <1>7, PartsOfIInv, StageFacts
    <2> QED
      BY <1>2, <1>4, <2>1
         DEF OnlyMoves, FollowsItsSource, FailureIsShown, Taken, Got, Over, Sending, Delivering
  <1>8. FollowsItsSource(r)'
    BY <1>1, <1>2, PartsOfIInv DEF FollowsItsSource, HoldsWhatItOwes, Sending
  <1>9. s = 0 => ProviderInStep'
    BY <1>2, PartsOfIInv DEF ProviderInStep, Got, Sending
  <1> QED
    BY <1>1, <1>3, <1>4, <1>5, <1>6, <1>7, <1>8, <1>9, SomeStagesMove DEF InvOf

\* The caller reads a chunk.
LEMMA ReceiveIInv ==
    ASSUME IInv, CallerToBlame => CallerToBlame', Receive
    PROVE  Order' /\ Losses'
  <1> DEFINE s == Depth
  <1>1. s \in Stages /\ s = Depth
    BY StageFacts
  <1>2. /\ buffer[s] # <<>> /\ buffer' = [buffer EXCEPT ![s] = Tail(@)]
        /\ received' = Append(received, Head(buffer[s]))
        /\ UNCHANGED <<canceled, closed, pc, holding, terminalSent, expired, draining,
                       said, passed, failureSeen, caller, paused>>
    BY DEF Receive
  <1> HIDE DEF s
  <1>4. OnlyMoves({s})
    BY <1>1, <1>2 DEF OnlyMoves, IInv, TypeOK
  <1>5. /\ QueueInOrder(s)' /\ DoneIsMeant(s)'
        /\ Head(buffer[s]) \in Chunks
        /\ \/ /\ Head(buffer[s]) = Data(Taken(s) + 1) /\ ~IsTerminal(Head(buffer[s]))
              /\ Taken(s)' = Taken(s) + 1
              /\ EndsIn(buffer'[s]) <=> EndsIn(buffer[s])
           \/ /\ IsTerminal(Head(buffer[s])) /\ Over(s)
              /\ Taken(s)' = Taken(s)
              /\ buffer'[s] = <<>> /\ ~EndsIn(buffer'[s]) /\ EndsIn(buffer[s])
    BY <1>1, <1>2, TakeChunk DEF IInv, TypeOK
  <1>6. HoldsWhatItOwes(s)' /\ LossHasACause(s)'
    BY <1>1, <1>2, PartsOfIInv DEF HoldsWhatItOwes, LossHasACause, Sending, Delivering
  <1>7. ASSUME s \in Wrappers PROVE (FollowsItsSource(s) /\ FailureIsShown(s))'
    <2>1. s - 1 \in Stages \ {s} /\ FollowsItsSource(s) /\ FailureIsShown(s)
      BY <1>7, PartsOfIInv, StageFacts
    <2> QED
      BY <1>2, <1>4, <2>1
         DEF OnlyMoves, FollowsItsSource, FailureIsShown, Taken, Got, Over, Sending, Delivering
  <1>8. \A w \in Wrappers : w - 1 # s
    BY <1>1, PipelineAssumption DEF Wrappers
  <1>9. s = 0 => ProviderInStep'
    BY <1>2, PartsOfIInv DEF ProviderInStep, Got, Sending
  <1>10. CallerInStep'
    <2>1. /\ received \in Seq(Chunks) /\ Numbered(received, 0) /\ ~EndsIn(received)
          /\ Count(received) = Taken(s) /\ Taken(s) \in Nat /\ CallerInStep
      BY <1>1, <1>2, PartsOfIInv DEF IInv, TypeOK, CallerInStep
    <2>2. Over(Depth)' = Over(Depth)
      BY <1>1, <1>2 DEF Over, Delivering
    <2>3. CASE /\ Head(buffer[s]) = Data(Taken(s) + 1)
               /\ Taken(s)' = Taken(s) + 1
               /\ EndsIn(buffer'[s]) <=> EndsIn(buffer[s])
      <3>1. Head(buffer[s]) = Data(0 + Count(received) + 1)
        BY <2>1, <2>3
      <3>2. /\ Numbered(received', 0) /\ ~EndsIn(received')
            /\ Count(received') = Count(received) + 1
        BY <1>2, <1>5, <2>1, <3>1, AppendData
      <3> QED
        BY <1>1, <2>1, <2>2, <2>3, <3>2 DEF CallerInStep
    <2>4. CASE /\ IsTerminal(Head(buffer[s])) /\ Over(s)
               /\ Taken(s)' = Taken(s)
               /\ buffer'[s] = <<>>
      <3>1. /\ Numbered(received', 0) /\ EndsIn(received')
            /\ Count(received') = Count(received)
        BY <1>2, <1>5, <2>1, <2>4, AppendTerminal
      <3> QED
        BY <1>1, <2>1, <2>2, <2>4, <3>1 DEF CallerInStep
    <2> QED
      BY <1>5, <2>3, <2>4
  <1> QED
    BY <1>1, <1>4, <1>5, <1>6, <1>7, <1>8, <1>9, <1>10, SomeStagesMove DEF InvOf


\* A middleware reads a chunk of its source.
LEMMA ReceiveChunkIInv ==
    ASSUME IInv, CallerToBlame => CallerToBlame', NEW s \in Wrappers, ReceiveChunk(s)
    PROVE  Order' /\ Losses'
  <1> DEFINE b == s - 1  chunk == Head(buffer[b])
  <1>1. /\ s \in Stages /\ b \in Stages /\ b # s /\ b # Depth /\ s # 0
        /\ \A w \in Wrappers : (w - 1 = b => w = s) /\ w - 1 # w
    BY PipelineAssumption DEF Stages, Wrappers
  <1>2. /\ pc[s] = "loop" /\ buffer[b] # <<>>
        /\ buffer' = [buffer EXCEPT ![b] = Tail(@)]
        /\ pc' = [pc EXCEPT ![s] = "send"]
        /\ holding' = [holding EXCEPT ![s] = chunk]
        /\ failureSeen' = [failureSeen EXCEPT ![s] = @ \/ IsError(chunk)]
        /\ UNCHANGED <<canceled, closed, terminalSent, expired, draining, said, passed, received, caller, paused>>
    BY DEF ReceiveChunk, Hold, Process, Goto
  <1>3. FollowsItsSource(s) /\ FailureIsShown(s)
    BY PartsOfIInv
  <1>4. /\ s \notin draining /\ ~terminalSent[s] /\ Taken(b) = passed[s]
        /\ Over(b) => EndsIn(buffer[b])
    BY <1>1, <1>2, <1>3, PartsOfIInv DEF FollowsItsSource, HoldsWhatItOwes, Got, Over, Sending
  <1> HIDE DEF b, chunk
  <1>5. OnlyMoves({b, s})
    BY <1>1, <1>2 DEF OnlyMoves, IInv, TypeOK
  <1>6. /\ buffer'[b] = Tail(buffer[b]) /\ pc'[b] = pc[b] /\ holding'[b] = holding[b]
        /\ buffer'[s] = buffer[s] /\ pc'[s] = "send" /\ holding'[s] = chunk
        /\ failureSeen[s] \/ IsError(chunk) => failureSeen'[s]
    BY <1>1, <1>2 DEF IInv, TypeOK
  <1>7. /\ QueueInOrder(b)' /\ DoneIsMeant(b)'
        /\ chunk \in Chunks
        /\ \/ /\ chunk = Data(passed[s] + 1) /\ ~IsTerminal(chunk)
              /\ Taken(b)' = passed[s] + 1
              /\ EndsIn(buffer'[b]) <=> EndsIn(buffer[b])
           \/ /\ IsTerminal(chunk) /\ Over(b)
              /\ Taken(b)' = passed[s]
              /\ buffer'[b] = <<>>
              /\ chunk.ends = "done" => passed[s] = NChunks \/ CallerToBlame
    BY <1>1, <1>2, <1>4, <1>6, TakeChunk DEF chunk
  <1>8. Over(b)' = Over(b)
    BY <1>2, <1>6 DEF Over, Delivering
  <1>9. HoldsWhatItOwes(b)' /\ LossHasACause(b)'
    BY <1>1, <1>2, <1>6, PartsOfIInv DEF HoldsWhatItOwes, LossHasACause, Sending, Delivering
  <1>10. (QueueInOrder(s) /\ HoldsWhatItOwes(s) /\ LossHasACause(s) /\ DoneIsMeant(s))'
    BY <1>1, <1>2, <1>4, <1>6, <1>7, PartsOfIInv, ChunkFacts
       DEF QueueInOrder, HoldsWhatItOwes, LossHasACause, DoneIsMeant, Taken, Over, Sending, Delivering
  <1>11. FailureIsShown(s)'
    BY <1>2, <1>4, <1>6 DEF FailureIsShown, Over, Sending, Delivering
  <1>12. FollowsItsSource(s)'
    <2>1. (Sending(s) /\ pc[s] # "loop")'
      BY <1>6 DEF Sending
    <2>2. Got(s)' = IF IsTerminal(chunk) THEN passed[s] ELSE passed[s] + 1
      BY <1>2, <1>6 DEF Got, Sending
    <2> QED
      BY <1>4, <1>6, <1>7, <1>8, <2>1, <2>2 DEF FollowsItsSource, b
  <1>13. ASSUME b \in Wrappers PROVE (FollowsItsSource(b) /\ FailureIsShown(b))'
    <2>1. b - 1 \in Stages \ {b, s} /\ FollowsItsSource(b) /\ FailureIsShown(b)
      BY <1>13, PartsOfIInv, PipelineAssumption DEF b, Stages, Wrappers
    <2>2. failureSeen'[b] = failureSeen[b]
      BY <1>1, <1>2, <1>13 DEF IInv, TypeOK
    <2> QED
      BY <1>2, <1>5, <1>6, <2>1, <2>2
         DEF OnlyMoves, FollowsItsSource, FailureIsShown, Taken, Got, Over, Sending, Delivering
  <1>14. ASSUME NEW w \in Wrappers, w - 1 = s PROVE FollowsItsSource(w)'
    <2>1. w \in Stages \ {b, s} /\ FollowsItsSource(w)
      BY <1>14, PartsOfIInv, PipelineAssumption DEF b, Stages, Wrappers
    <2> QED
      BY <1>2, <1>4, <1>5, <1>6, <1>14, <2>1
         DEF OnlyMoves, FollowsItsSource, Taken, Got, Over, Sending, Delivering
  <1>15. ASSUME b = 0 PROVE ProviderInStep'
    BY <1>2, <1>6, <1>15, PartsOfIInv DEF ProviderInStep, Got, Sending
  <1>16. ASSUME s = Depth PROVE CallerInStep'
    BY <1>2, <1>4, <1>6, <1>16, PartsOfIInv DEF CallerInStep, Taken, Over, Sending, Delivering
  <1>17. InvOf(s)'
    BY <1>1, <1>10, <1>11, <1>12, <1>14, <1>16 DEF InvOf
  <1>18. InvOf(b)'
    BY <1>1, <1>7, <1>9, <1>12, <1>13, <1>15 DEF InvOf
  <1> QED
    BY <1>5, <1>17, <1>18, SomeStagesMove


-----------------------------------------------------------------------------
(* The caller to blame.                                                    *)

LEMMA LeastOne ==
    ASSUME NEW T \in SUBSET Nat, T # {}
    PROVE  \E x \in T : \A y \in T : x <= y
  <1>1. \E x \in T : \A y \in T : <<y, x>> \notin OpToRel(<, Nat)
    BY NatLessThanWellFounded, WFMin
  <1>2. PICK x \in T : \A y \in T : <<y, x>> \notin OpToRel(<, Nat)
    BY <1>1
  <1>3. ASSUME NEW y \in T PROVE x <= y
    <2>1. x \in Nat /\ y \in Nat /\ <<y, x>> \notin OpToRel(<, Nat)
      BY <1>2
    <2> QED
      BY <2>1 DEF OpToRel
  <1> QED
    BY <1>2, <1>3

\* A send timeout passes only when every stage from some blocked one to the last is
\* blocked: each keeps the one before from going on.
LEMMA TickBlame ==
    ASSUME IInv, Tick
    PROVE  CallerToBlame'
  <1>1. PICK s \in Stages : Blocked(s)
    BY DEF Tick
  <1>2. ASSUME NEW r \in Wrappers, Blocked(r - 1) PROVE Blocked(r)
    <2>1. /\ r \in Stages /\ r - 1 \in Stages /\ ~Runnable(r) /\ ~Runnable(r - 1)
          /\ FollowsItsSource(r) /\ buffer[r-1] \in Seq(Chunks)
      BY PartsOfIInv, StageFacts DEF Tick
    <2>2. buffer[r-1] # <<>>
      BY <1>2, <2>1, PipelineAssumption DEF Runnable, HasRoom
    <2>3. pc[r] # "loop" /\ r \notin draining /\ ~Blocked(r) => pc[r] = "exited"
      BY <2>1, <2>2 DEF Runnable, IInv, TypeOK, Blocked
    <2>4. pc[r] # "exited"
      BY <1>2, <2>1, <2>2, <2>3 DEF FollowsItsSource, Runnable, Blocked, Sending
    <2>5. pc[r] # "loop" /\ r \notin draining
      BY <2>1, <2>2 DEF Runnable
    <2> QED
      BY <2>3, <2>4, <2>5
  <1>3. Blocked(Depth)
    <2> DEFINE T == {r \in s..Depth : ~Blocked(r)}
    <2>1. SUFFICES ASSUME T # {} PROVE FALSE
      BY PipelineAssumption, <1>1 DEF Stages
    <2>2. T \in SUBSET Nat
      BY <1>1, PipelineAssumption DEF Stages
    <2>3. PICK r \in T : \A y \in T : r <= y
      BY <2>1, <2>2, LeastOne
    <2>4. r # s /\ r \in s..Depth /\ ~Blocked(r)
      BY <1>1, <2>3
    <2>5. r \in Wrappers /\ r - 1 \in s..Depth
      BY <1>1, <2>4, PipelineAssumption DEF Stages, Wrappers
    <2>6. Blocked(r - 1)
      BY <2>2, <2>3, <2>5
    <2> QED
      BY <1>2, <2>4, <2>5, <2>6
  <1>4. ~HasRoom(Depth) /\ buffer[Depth] # <<>>
    BY <1>3, PartsOfIInv, StageFacts, PipelineAssumption DEF Tick, Runnable, HasRoom
  <1>5. /\ pc' = pc /\ failureSeen' = failureSeen /\ buffer' = buffer /\ caller' = caller
        /\ paused \/ caller = "reading" => paused'
    BY <1>4 DEF Tick
  <1>6. CASE caller = "reading" \/ paused
    BY <1>5, <1>6 DEF CallerToBlame
  <1>7. CASE caller = "gone" /\ ~paused
    <2>1. ASSUME Depth \in Wrappers
          PROVE  failureSeen[Depth] \/ (pc[Depth] = "sendBlocked" /\ ~HasRoom(Depth))
      <3>1. /\ pc[Depth] \in {"terminal", "terminalBlocked"} => IsError(holding[Depth])
            /\ Delivering(Depth) /\ IsError(holding[Depth]) => failureSeen[Depth]
            /\ pc[Depth] = "ensuringBlocked" => IsError(holding[Depth]) \/ CallerToBlame
        BY <2>1, PartsOfIInv, StageFacts DEF FailureIsShown, LossHasACause
      <3> QED
        BY <1>3, <1>4, <1>7, <2>1, <3>1 DEF Blocked, Delivering, CallerToBlame
    <2> QED
      BY <1>5, <1>7, <2>1 DEF CallerToBlame, HasRoom
  <1> QED
    BY <1>6, <1>7 DEF IInv, TypeOK

\* A caller who is to blame stays so.
LEMMA BlameStays ==
    ASSUME IInv, Next, CallerToBlame
    PROVE  CallerToBlame'
  <1> DEFINE Waits == pc[Depth] = "sendBlocked" /\ ~HasRoom(Depth)
             Shown == Depth \in Wrappers => failureSeen[Depth] \/ Waits
  <1>1. SUFFICES ASSUME UNCHANGED <<caller, paused>>, Shown, caller = "gone"
                 PROVE  Shown'
    <2>1. CASE Tick
      BY <2>1, TickBlame
    <2>2. CASE WalkAway
      BY <2>2 DEF WalkAway, CallerToBlame
    <2>3. CASE ~Tick /\ ~WalkAway
      <3>1. UNCHANGED <<caller, paused>>
        BY <2>3, Zenon DEF Next, StageStep, WrapperStep, Send, UnblockSend, DeliverTerminal,
           UnblockTerminal, CloseChannel, ReceiveChunk, LeaveLoop, Ensure, Finalize, Drain,
           ReadResponse, Receive, Cancel
      <3> QED
        BY <1>1, <3>1 DEF CallerToBlame
    <2> QED
      BY <2>1, <2>2, <2>3
  <1>2. Depth \in Stages /\ \A w \in Wrappers : w \in Stages /\ w - 1 # Depth /\ w - 1 \in Stages
    BY PipelineAssumption DEF Stages, Wrappers
  <1>3. ASSUME Depth \in Wrappers, failureSeen[Depth] PROVE failureSeen'[Depth]
    <2>1. ASSUME NEW s \in Stages, NEW c, Process(s, c) PROVE failureSeen'[Depth]
      BY <1>3, <2>1 DEF Process, IInv, TypeOK
    <2>2. CASE UNCHANGED failureSeen
      BY <1>3, <2>2
    <2> QED
      BY <2>1, <2>2, <1>2, Zenon DEF Next, StageStep, WrapperStep, Send, SendNow, SendFails, UnblockSend,
         DeliverTerminal, UnblockTerminal, CloseChannel, ReceiveChunk, LeaveLoop, Ensure, Finalize, Drain,
         ReadResponse, Receive, Cancel, WalkAway, Tick, sender
  <1>4. ASSUME Depth \in Wrappers, Waits PROVE failureSeen'[Depth] \/ Waits'
    <2>1. ASSUME NEW s \in Stages, StageStep(s) PROVE failureSeen'[Depth] \/ Waits'
      <3>1. CASE s = Depth
        <4>1. ASSUME NEW why \in {"canceled", "timeout"}, SendFails(s, why) PROVE failureSeen'[Depth]
          BY <1>4, <3>1, <4>1, ChunkFacts, EndingFacts DEF SendFails, Process, IInv, TypeOK
        <4> QED
          BY <1>4, <2>1, <3>1, <4>1 DEF StageStep, Send, UnblockSend, DeliverTerminal, UnblockTerminal,
             CloseChannel
      <3>2. CASE s # Depth
        <4>1. pc'[Depth] = pc[Depth] /\ buffer'[Depth] = buffer[Depth]
          BY <1>2, <2>1, <3>2 DEF StageStep, Send, SendNow, SendFails, UnblockSend, DeliverTerminal,
             UnblockTerminal, CloseChannel, Goto, Put, IInv, TypeOK
        <4> QED
          BY <1>4, <4>1 DEF HasRoom
      <3> QED
        BY <3>1, <3>2
    <2>2. ASSUME NEW s \in Wrappers, WrapperStep(s) \/ Drain(s) PROVE Waits'
      <3>1. pc'[Depth] = pc[Depth] /\ buffer'[Depth] = buffer[Depth]
        BY <1>2, <1>4, <2>2 DEF WrapperStep, ReceiveChunk, LeaveLoop, Ensure, Finalize, Drain, Goto,
           IInv, TypeOK
      <3> QED
        BY <1>4, <3>1 DEF HasRoom
    <2>3. CASE ReadResponse \/ Receive \/ WalkAway \/ Cancel \/ Tick
      <3>1. pc'[Depth] = pc[Depth] /\ buffer'[Depth] = buffer[Depth]
        BY <1>1, <1>2, <1>4, <2>3, StageFacts DEF ReadResponse, Receive, WalkAway, Cancel, Tick, sender, Goto,
           IInv, TypeOK
      <3> QED
        BY <1>4, <3>1 DEF HasRoom
    <2> QED
      BY <2>1, <2>2, <2>3 DEF Next
  <1> QED
    BY <1>1, <1>3, <1>4


-----------------------------------------------------------------------------
(* The inductive invariant.                                                *)

\* The context ends, a timeout passes, or nothing happens that the invariant tells
\* apart.
LEMMA EnvironmentIInv ==
    ASSUME IInv, CallerToBlame => CallerToBlame',
           UNCHANGED <<buffer, closed, pc, holding, terminalSent, draining, said, passed,
                       failureSeen, received>>,
           canceled => canceled',
           \A r \in Stages : expired'[r] => expired[r] \/ CallerToBlame'
    PROVE  Order' /\ Losses'
  <1>1. ASSUME NEW r \in Stages
        PROVE  (QueueInOrder(r) /\ HoldsWhatItOwes(r) /\ LossHasACause(r) /\ DoneIsMeant(r))'
    BY PartsOfIInv DEF QueueInOrder, HoldsWhatItOwes, LossHasACause, DoneIsMeant,
       Taken, Over, Sending, Delivering
  <1>2. ASSUME NEW r \in Wrappers PROVE (FollowsItsSource(r) /\ FailureIsShown(r))'
    BY PartsOfIInv DEF FollowsItsSource, FailureIsShown, Taken, Got, Over, Sending, Delivering
  <1>3. ProviderInStep' /\ CallerInStep'
    BY PartsOfIInv DEF ProviderInStep, CallerInStep, Taken, Got, Over, Sending, Delivering
  <1> QED
    BY <1>1, <1>2, <1>3 DEF Order, Losses

LEMMA InitIInv == Init => IInv
  <1> SUFFICES ASSUME Init PROVE IInv
    OBVIOUS
  <1>1. TypeOK
    BY InitTypeOK
  <1>2. /\ canceled = FALSE /\ draining = {} /\ said = 0 /\ received = <<>>
        /\ \A s \in Stages : /\ buffer[s] = <<>> /\ closed[s] = FALSE /\ pc[s] = "loop"
                             /\ terminalSent[s] = FALSE /\ expired[s] = FALSE /\ passed[s] = 0
    BY DEF Init
  <1>3. Count(<<>>) = 0 /\ ~EndsIn(<<>>) /\ \A k : Numbered(<<>>, k)
    BY DEF Count, EndsIn, Numbered
  <1>4. \A s \in Stages : Taken(s) = 0 /\ ~Over(s)
    BY <1>2, <1>3 DEF Taken, Over
  <1>5. ASSUME NEW s \in Stages
        PROVE  QueueInOrder(s) /\ HoldsWhatItOwes(s) /\ LossHasACause(s) /\ DoneIsMeant(s)
    BY <1>2, <1>3, <1>4
       DEF QueueInOrder, HoldsWhatItOwes, LossHasACause, DoneIsMeant, Sending, Delivering
  <1>6. ASSUME NEW s \in Wrappers PROVE FollowsItsSource(s) /\ FailureIsShown(s)
    BY <1>2, <1>3, <1>4, StageFacts
       DEF FollowsItsSource, FailureIsShown, Got, Sending, Delivering
  <1>7. ProviderInStep /\ CallerInStep
    BY <1>2, <1>3, <1>4, StageFacts DEF ProviderInStep, CallerInStep, Got, Sending
  <1> QED
    BY <1>1, <1>5, <1>6, <1>7 DEF IInv, Order, Losses

LEMMA NextIInv == IInv /\ [Next]_vars => IInv'
  <1> SUFFICES ASSUME IInv, [Next]_vars PROVE IInv'
    OBVIOUS
  <1>1. TypeOK'
    BY StepTypeOK DEF IInv
  <1>2. CallerToBlame => CallerToBlame'
    <2>1. CASE Next
      BY <2>1, BlameStays
    <2>2. CASE UNCHANGED vars
      BY <2>2 DEF vars, sender, CallerToBlame, HasRoom
    <2> QED
      BY <2>1, <2>2
  <1>3. SUFFICES Order' /\ Losses'
    BY <1>1 DEF IInv
  <1>4. ASSUME NEW s \in Stages, Sending(s), SendNow(s),
               UNCHANGED <<canceled, said, received, caller, paused>>
        PROVE  Order' /\ Losses'
    <2>1. CASE ~IsTerminal(holding[s])
      BY <1>2, <1>4, <2>1, SendDataIInv
    <2>2. CASE IsTerminal(holding[s])
      <3>1. terminalSent' = [terminalSent EXCEPT ![s] = TRUE]
        BY <1>4, <2>2 DEF SendNow, Mark
      <3>2. /\ Goto(s, "loop") /\ Put(s) /\ Mark(s, TRUE)
            /\ expired' = [expired EXCEPT ![s] = FALSE]
            /\ passed' = [passed EXCEPT ![s] = @]
            /\ UNCHANGED <<closed, holding, draining, failureSeen>>
        BY <1>4, <2>2, <3>1 DEF SendNow, Mark
      <3>3. passed' = passed
        BY <3>2 DEF IInv, TypeOK
      <3> QED
        BY <1>2, <1>4, <2>2, <3>2, <3>3, PutTerminalIInv
    <2> QED
      BY <2>1, <2>2
  <1>5. ASSUME NEW s \in Stages, Send(s) PROVE Order' /\ Losses'
    <2>1. CASE canceled
      BY <1>2, <1>5, <2>1, SendFailsIInv DEF Send, Sending
    <2>2. CASE ~canceled /\ HasRoom(s)
      BY <1>4, <1>5, <2>2 DEF Send, Sending
    <2>3. CASE ~canceled /\ ~HasRoom(s)
      BY <1>2, <1>5, <2>3, BlockIInv DEF Send
    <2> QED
      BY <2>1, <2>2, <2>3
  <1>6. ASSUME NEW s \in Stages, UnblockSend(s) PROVE Order' /\ Losses'
    BY <1>2, <1>4, <1>6, SendFailsIInv DEF UnblockSend, Sending
  <1>7. ASSUME NEW s \in Stages, DeliverTerminal(s) PROVE Order' /\ Losses'
    <2>1. ~terminalSent[s] /\ Delivering(s)
      BY <1>7, PartsOfIInv DEF DeliverTerminal, HoldsWhatItOwes, Delivering
    <2>2. CASE HasRoom(s)
      BY <1>2, <1>7, <2>1, <2>2, PutTerminalIInv DEF DeliverTerminal
    <2>3. CASE ~HasRoom(s)
      BY <1>2, <1>7, <2>1, <2>3, BlockIInv DEF DeliverTerminal
    <2> QED
      BY <2>2, <2>3
  <1>8. ASSUME NEW s \in Stages, UnblockTerminal(s) PROVE Order' /\ Losses'
    <2>1. CASE HasRoom(s) /\ Put(s) /\ UNCHANGED terminalSent
      <3>1. Mark(s, TRUE) /\ Delivering(s)
        BY <1>8, <2>1, PartsOfIInv DEF UnblockTerminal, HoldsWhatItOwes, Mark, Delivering, IInv, TypeOK
      <3> QED
        BY <1>2, <1>8, <2>1, <3>1, PutTerminalIInv DEF UnblockTerminal
    <2>2. CASE expired[s] /\ Mark(s, FALSE) /\ UNCHANGED buffer
      BY <1>2, <1>8, <2>2, TimeOutIInv DEF UnblockTerminal
    <2> QED
      BY <1>8, <2>1, <2>2 DEF UnblockTerminal
  <1>9. ASSUME NEW s \in Stages, CloseChannel(s) PROVE Order' /\ Losses'
    BY <1>2, <1>9, CloseIInv
  <1>10. ASSUME NEW s \in Wrappers, Finalize(s) PROVE Order' /\ Losses'
    BY <1>2, <1>10, CloseIInv, StageFacts
  <1>11. ASSUME NEW s \in Wrappers, ReceiveChunk(s) PROVE Order' /\ Losses'
    BY <1>2, <1>11, ReceiveChunkIInv
  <1>12. ASSUME NEW s \in Wrappers, LeaveLoop(s) PROVE Order' /\ Losses'
    BY <1>2, <1>12, LeaveLoopIInv
  <1>13. ASSUME NEW s \in Wrappers, Ensure(s) PROVE Order' /\ Losses'
    BY <1>2, <1>13, EnsureIInv
  <1>14. ASSUME NEW s \in Wrappers, Drain(s) PROVE Order' /\ Losses'
    BY <1>2, <1>14, DrainIInv
  <1>15. CASE ReadResponse
    BY <1>1, <1>2, <1>15, ReadResponseIInv
  <1>16. CASE Receive
    BY <1>2, <1>16, ReceiveIInv
  <1>17. CASE WalkAway \/ Cancel \/ UNCHANGED vars
    BY <1>2, <1>17, EnvironmentIInv DEF WalkAway, Cancel, vars, sender
  <1>18. CASE Tick
    BY <1>2, <1>18, EnvironmentIInv, TickBlame DEF Tick
  <1> QED
    BY <1>5, <1>6, <1>7, <1>8, <1>9, <1>10, <1>11, <1>12, <1>13, <1>14, <1>15, <1>16,
       <1>17, <1>18 DEF Next, StageStep, WrapperStep


\* The parts of the invariant, in every reachable state.
THEOREM PipelineInvariant == SafeSpec => []IInv
  BY InitIInv, NextIInv, PTL DEF SafeSpec

-----------------------------------------------------------------------------
(* What the caller and the finalizers see.                                 *)

\* InOrderThenOneTerminal: what a caller receives is the data chunks in order and then
\* at most one terminal chunk, for every pipeline.  It speaks of every pause, timeout,
\* cancellation and re-armed guard of StreamSender.
THEOREM OrderIsKept == SafeSpec => []InOrderThenOneTerminal
  <1>1. IInv => InOrderThenOneTerminal
    <2> SUFFICES ASSUME IInv, NEW i \in 1..Len(received)
                 PROVE  received[i].n = i \/ (i = Len(received) /\ IsTerminal(received[i]))
      BY DEF InOrderThenOneTerminal
    <2>1. received[i] = Data(0 + i) \/ (i = Len(received) /\ IsTerminal(received[i]))
      BY PartsOfIInv DEF CallerInStep, Numbered
    <2>2. received \in Seq(Chunks) /\ 0 + i = i
      BY DEF IInv, TypeOK
    <2> QED
      BY <2>1, <2>2, ChunkFacts
  <1> QED
    BY <1>1, PipelineInvariant, PTL

\* InnerStagesEndTheirStream: only a caller who pauses or leaves can make a stage inside
\* the pipeline lose its terminal chunk (DeliverTerminal's timeout).
THEOREM InnerStagesKeepTheirTerminal == SafeSpec => []InnerStagesEndTheirStream
  <1>1. IInv => InnerStagesEndTheirStream
    BY PartsOfIInv DEF InnerStagesEndTheirStream, HoldsWhatItOwes, LossHasACause, CallerToBlame
  <1> QED
    BY <1>1, PipelineInvariant, PTL

\* SuccessIsComplete: the finalizer of a middleware, such as the circuit breaker's, that
\* was shown no error has passed on every chunk, unless the caller is to blame.
THEOREM NoFalseSuccess == SafeSpec => []SuccessIsComplete
  <1>1. IInv => SuccessIsComplete
    <2> SUFFICES ASSUME IInv, NEW s \in Wrappers, pc[s] = "exited", ~failureSeen[s]
                 PROVE  passed[s] = NChunks \/ paused \/ (caller = "gone" /\ s # Depth)
      BY DEF SuccessIsComplete, Exited
    <2>1. s \in Stages
      BY StageFacts
    <2>2. passed[s] = NChunks \/ CallerToBlame
      BY <2>1, PartsOfIInv DEF LossHasACause, FailureIsShown, Over, Delivering
    <2> QED
      BY <2>2 DEF CallerToBlame
  <1> QED
    BY <1>1, PipelineInvariant, PTL

\* A terminal chunk at the end of what was received, and its absence.
LEMMA EndingOf ==
    ASSUME NEW q \in Seq(Chunks), Numbered(q, 0)
    PROVE  /\ Cardinality({i \in DOMAIN q : ~IsTerminal(q[i])}) = Count(q)
           /\ q = <<>> \/ ~IsTerminal(Last(q)) <=> ~EndsIn(q)
  <1>1. Count(q) \in Nat /\ DOMAIN q = 1..Len(q) /\ Len(q) \in Nat
    BY CountIsNat
  <1>2. {i \in DOMAIN q : ~IsTerminal(q[i])} = 1..Count(q)
    <2>1. ASSUME NEW i \in 1..Len(q) PROVE ~IsTerminal(q[i]) <=> i \in 1..Count(q)
      <3>1. q[i] = Data(0 + i) \/ (i = Len(q) /\ IsTerminal(q[i]))
        BY DEF Numbered
      <3>2. CASE i = Len(q)
        <4>1. q # <<>>
          BY <3>2
        <4> QED
          BY <1>1, <3>2, <4>1 DEF Count, EndsIn
      <3>3. CASE i # Len(q)
        <4>1. ~IsTerminal(q[i])
          BY <3>1, <3>3, ChunkFacts
        <4>2. Count(q) = Len(q) \/ Count(q) = Len(q) - 1
          BY DEF Count
        <4>3. i \in Int /\ 1 <= i /\ i <= Len(q) - 1 /\ Len(q) \in Int
          BY <3>3
        <4>4. i \in 1..Count(q)
          BY <4>2, <4>3
        <4> QED
          BY <4>1, <4>4
      <3> QED
        BY <3>2, <3>3
    <2>2. Count(q) <= Len(q)
      BY <1>1 DEF Count
    <2> QED
      BY <1>1, <2>1, <2>2
  <1>3. Cardinality(1..Count(q)) = Count(q)
    BY <1>1, FS_Interval
  <1> QED
    BY <1>2, <1>3 DEF EndsIn, Last

\* NoSilentClose: a caller who reads on to the closing of the channel finds a terminal
\* chunk before it.
THEOREM StreamsEndAloud == SafeSpec => []NoSilentClose
  <1>1. IInv => NoSilentClose
    <2> SUFFICES ASSUME IInv, closed[Depth], caller = "reading", buffer[Depth] = <<>>, ~paused
                 PROVE  Ending # "open"
      BY DEF NoSilentClose
    <2>1. Over(Depth)
      BY PartsOfIInv, StageFacts DEF HoldsWhatItOwes, LossHasACause, CallerToBlame, Over, Delivering
    <2>2. EndsIn(received) /\ Numbered(received, 0) /\ received \in Seq(Chunks)
      BY <2>1, PartsOfIInv DEF CallerInStep, EndsIn, IInv, TypeOK
    <2> QED
      BY <2>2, EndingOf DEF Ending
  <1> QED
    BY <1>1, PipelineInvariant, PTL

\* KeepsContract: the whole pipeline, seen by its caller, is StreamContract.  Reading a
\* chunk is Deliver, Complete or Fail; a timeout that catches the caller is Pause; every
\* other step of the stages is invisible.
THEOREM PipelineKeepsContract == Spec => KeepsContract
  <1>1. Init => Contract!Init
    <2> SUFFICES ASSUME Init PROVE Contract!Init
      OBVIOUS
    <2>1. received = <<>> /\ paused = FALSE /\ received \in Seq(Chunks) /\ Numbered(received, 0)
      BY DEF Init, Numbered
    <2>2. Delivered = 0
      BY <2>1, EndingOf DEF Delivered, Count, EndsIn
    <2> QED
      BY <2>1, <2>2 DEF Contract!Init, Ending
  <1>2. IInv /\ IInv' /\ [Next]_vars => [Contract!Next]_Contract!vars
    <2> SUFFICES ASSUME IInv, IInv', [Next]_vars PROVE [Contract!Next]_Contract!vars
      OBVIOUS
    <2>1. CASE Receive
      <3>1. /\ received \in Seq(Chunks) /\ Numbered(received, 0) /\ CallerInStep
            /\ received' \in Seq(Chunks) /\ Numbered(received', 0)
            /\ Depth \in Stages /\ buffer[Depth] # <<>> /\ paused' = paused
            /\ received' = Append(received, Head(buffer[Depth]))
            /\ buffer[Depth] \in Seq(Chunks) /\ caller = "reading"
        BY <2>1, PartsOfIInv, StageFacts DEF IInv, Order, TypeOK, CallerInStep, Receive
      <3>2. ~EndsIn(received) /\ Ending = "open" /\ Delivered = Count(received)
        BY <3>1, EndingOf DEF CallerInStep, Ending, Delivered
      <3>3. CallerToBlame => CallerToBlame'
        BY <2>1, BlameStays DEF Next
      <3>4. /\ Head(buffer[Depth]) \in Chunks
            /\ \/ /\ Head(buffer[Depth]) = Data(Taken(Depth) + 1)
                  /\ ~IsTerminal(Head(buffer[Depth]))
               \/ /\ IsTerminal(Head(buffer[Depth])) /\ Taken(Depth) = passed[Depth]
                  /\ Head(buffer[Depth]).ends = "done" => passed[Depth] = NChunks \/ CallerToBlame
        BY <2>1, <3>1, <3>3, TakeChunk DEF Receive, IInv, TypeOK
      <3>5. Count(received) = Taken(Depth) /\ Taken(Depth) \in Nat
        BY <3>1, PartsOfIInv DEF CallerInStep
      <3>6. CASE Head(buffer[Depth]) = Data(Taken(Depth) + 1)
        <4>1. Head(buffer[Depth]) = Data(0 + Count(received) + 1) /\ Taken(Depth) < NChunks
          BY <3>4, <3>5, <3>6, PipelineAssumption, ChunkFacts
        <4>2. ~EndsIn(received') /\ Count(received') = Count(received) + 1
          BY <3>1, <3>2, <3>4, <4>1, AppendData
        <4>3. Ending' = "open" /\ Delivered' = Count(received')
          BY <3>1, <4>2, EndingOf DEF Ending, Delivered
        <4> QED
          BY <3>1, <3>2, <3>5, <4>1, <4>2, <4>3 DEF Contract!Next, Contract!Deliver
      <3>7. CASE IsTerminal(Head(buffer[Depth]))
        <4>1. /\ EndsIn(received') /\ Count(received') = Count(received)
              /\ received'[Len(received')] = Head(buffer[Depth])
          BY <3>1, <3>2, <3>4, <3>7, AppendTerminal
        <4>2. /\ Ending' = IF Head(buffer[Depth]).ends = "done" THEN "done" ELSE "failed"
              /\ Delivered' = Delivered
          BY <3>1, <3>2, <4>1, EndingOf DEF Ending, Delivered, Last
        <4>3. CASE Head(buffer[Depth]).ends = "done"
          <5>1. Delivered = NChunks \/ paused
            BY <3>1, <3>2, <3>4, <3>5, <3>7, <4>3, ChunkFacts DEF CallerToBlame
          <5> QED
            BY <3>1, <3>2, <4>2, <4>3, <5>1 DEF Contract!Next, Contract!Complete
        <4>4. CASE Head(buffer[Depth]).ends # "done"
          BY <3>1, <3>2, <4>2, <4>4 DEF Contract!Next, Contract!Fail
        <4> QED
          BY <4>3, <4>4
      <3> QED
        BY <3>4, <3>6, <3>7
    <2>2. CASE Tick
      <3>1. received' = received /\ paused' \in BOOLEAN /\ (paused => paused')
        BY <2>2 DEF Tick, IInv, TypeOK
      <3>2. Delivered' = Delivered /\ Ending' = Ending
        BY <3>1 DEF Delivered, Ending
      <3>3. CASE paused' = paused
        BY <3>2, <3>3 DEF Contract!vars
      <3>4. CASE paused' # paused
        <4>1. paused \in BOOLEAN /\ paused' \in BOOLEAN /\ (paused => paused')
          BY <3>1 DEF IInv, TypeOK
        <4>2. paused = FALSE
          BY <3>4, <4>1
        <4>3. paused' = TRUE
          BY <3>4, <4>1, <4>2
        <4> QED
          BY <3>2, <4>2, <4>3 DEF Contract!Next, Contract!Pause
      <3> QED
        BY <3>3, <3>4
    <2>3. CASE ~Receive /\ ~Tick
      <3>1. received' = received /\ paused' = paused
        BY <2>3, Zenon DEF Next, StageStep, WrapperStep, Send, UnblockSend, DeliverTerminal,
           UnblockTerminal, CloseChannel, ReceiveChunk, LeaveLoop, Ensure, Finalize, Drain,
           ReadResponse, WalkAway, Cancel, vars
      <3> QED
        BY <3>1 DEF Delivered, Ending, Contract!vars
    <2> QED
      BY <2>1, <2>2, <2>3
  <1>3. Spec => SafeSpec
    BY PTL DEF Spec
  <1> QED
    BY <1>1, <1>2, <1>3, PipelineInvariant, PTL DEF SafeSpec, KeepsContract, Contract!Spec
=============================================================================
