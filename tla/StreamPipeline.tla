--------------------------- MODULE StreamPipeline ---------------------------
(***************************************************************************)
(* Streaming: streaming.go, with the provider goroutines that use it.      *)
(*                                                                         *)
(* A provider goroutine (stage 0) reads a response and sends its chunks    *)
(* into a bounded channel.  Each middleware (stages 1..Depth) reads the    *)
(* channel of the stage before, shows every chunk to its processor, and    *)
(* sends it into a channel of its own, which the caller reads at last.     *)
(* Every stage sends through a StreamSender: bounded by a timeout, so that *)
(* no goroutine outlives a caller who walks away, and careful that one     *)
(* terminal chunk is delivered however the stream ends.                    *)
(*                                                                         *)
(* Time: a tick is one send timeout at the earliest.  Goroutines that can  *)
(* run do so before it passes (timeouts are seconds), callers may not.     *)
(* A chunk is a number, or a terminal: "done" or the name of an error.     *)
(***************************************************************************)
EXTENDS Integers, Sequences, FiniteSets, SequencesExt

CONSTANTS
    Depth,              \* number of middlewares
    NChunks,            \* data chunks the provider has to say
    BufferSize          \* capacity of every channel

ASSUME PipelineAssumption ==
    /\ Depth \in Nat /\ NChunks \in Nat
    /\ BufferSize \in Nat \ {0}

Stages == 0..Depth
Wrappers == 1..Depth

Data(n) == [n |-> n, ends |-> "no"]
Terminal(e) == [n |-> 0, ends |-> e]
Endings == {"done", "canceled", "timeout", "providerError"}
Chunks == {Data(n) : n \in 1..NChunks} \cup {Terminal(e) : e \in Endings}
IsTerminal(chunk) == chunk.ends # "no"
IsError(chunk) == chunk.ends \notin {"no", "done"}

VARIABLES
    canceled,           \* the context of the stream has ended
    buffer,             \* the chunks in each stage's channel
    closed,             \* whether the channel is closed
    pc,                 \* where each stage is
    holding,            \* the chunk it is sending
    terminalSent,       \* StreamSender.terminalSent
    expired,            \* its send has been blocked for the timeout
    draining,           \* the wrappers whose source goes to DrainStream
    said,               \* data chunks the provider has read from the response
    passed,             \* history: data chunks each stage has sent
    failureSeen,        \* the wrapper's processor saw an error
    received,           \* history: what the caller read
    caller,             \* "reading", "gone"
    paused              \* history: it left chunks unread for a send timeout

sender == <<buffer, closed, pc, holding, terminalSent, expired>>
vars == <<canceled, sender, draining, said, passed, failureSeen, received, caller, paused>>

Init ==
    /\ canceled = FALSE
    /\ buffer = [s \in Stages |-> <<>>]
    /\ closed = [s \in Stages |-> FALSE]
    /\ pc = [s \in Stages |-> "loop"]
    /\ holding = [s \in Stages |-> Terminal("done")]
    /\ terminalSent = [s \in Stages |-> FALSE]
    /\ expired = [s \in Stages |-> FALSE]
    /\ draining = {}
    /\ said = 0
    /\ passed = [s \in Stages |-> 0]
    /\ failureSeen = [s \in Wrappers |-> FALSE]
    /\ received = <<>>
    /\ caller = "reading" /\ paused = FALSE

Goto(s, to) == pc' = [pc EXCEPT ![s] = to]
Hold(s, chunk) == holding' = [holding EXCEPT ![s] = chunk]

HasRoom(s) == Len(buffer[s]) < BufferSize
Put(s) == buffer' = [buffer EXCEPT ![s] = Append(@, holding[s])]
Mark(s, sent) == terminalSent' = [terminalSent EXCEPT ![s] = sent]

\* The processor is shown a chunk; the provider has none.
Process(s, chunk) ==
    IF s \in Wrappers
    THEN failureSeen' = [failureSeen EXCEPT ![s] = @ \/ IsError(chunk)]
    ELSE UNCHANGED failureSeen

\* A slip: the context is not asked.
CleanEnding == "done"

ContextEnding == IF canceled THEN "canceled" ELSE "done"

-----------------------------------------------------------------------------
(* The StreamSender.                                                       *)

\* A slip: a terminal chunk that is forwarded is not recorded.
SendNowUnmarked(s) ==
    /\ Put(s)
    /\ passed' = [passed EXCEPT ![s] = IF IsTerminal(holding[s]) THEN @ ELSE @ + 1]
    /\ Goto(s, "loop")
    /\ expired' = [expired EXCEPT ![s] = FALSE]
    /\ UNCHANGED <<closed, holding, terminalSent, draining, failureSeen>>

\* A send that succeeds: the stage returns to its loop.
SendNow(s) ==
    /\ Put(s)
    /\ Mark(s, terminalSent[s] \/ IsTerminal(holding[s]))
    /\ passed' = [passed EXCEPT ![s] = IF IsTerminal(holding[s]) THEN @ ELSE @ + 1]
    /\ Goto(s, "loop")
    /\ expired' = [expired EXCEPT ![s] = FALSE]
    /\ UNCHANGED <<closed, holding, draining, failureSeen>>

\* A slip: the wrapper that gives up does not drain its source.
SendFailsUndrained(s, why) ==
    /\ Hold(s, Terminal(why)) /\ Process(s, Terminal(why))
    /\ Goto(s, "terminal")
    /\ expired' = [expired EXCEPT ![s] = FALSE]
    /\ UNCHANGED <<buffer, closed, terminalSent, draining, passed>>

\* A slip: the processor is not shown the terminal chunk.
SendFailsUnseen(s, why) ==
    /\ Hold(s, Terminal(why))
    /\ draining' = draining \cup ({s} \cap Wrappers)
    /\ Goto(s, "terminal")
    /\ expired' = [expired EXCEPT ![s] = FALSE]
    /\ UNCHANGED <<buffer, closed, terminalSent, failureSeen, passed>>

\* A send that fails.  The stage owes the terminal chunk that says why, and a
\* wrapper leaves its source to a drainer.
SendFails(s, why) ==
    /\ Hold(s, Terminal(why)) /\ Process(s, Terminal(why))
    /\ draining' = draining \cup ({s} \cap Wrappers)
    /\ Goto(s, "terminal")
    /\ expired' = [expired EXCEPT ![s] = FALSE]
    /\ UNCHANGED <<buffer, closed, terminalSent, passed>>

\* Send: the context first, then the channel, and a wait if it is full.
Send(s) ==
    /\ pc[s] = "send"
    /\ IF canceled THEN SendFails(s, "canceled")
       ELSE IF HasRoom(s) THEN SendNow(s)
       ELSE Goto(s, "sendBlocked") /\ UNCHANGED <<buffer, closed, holding, terminalSent,
                                                  expired, draining, passed, failureSeen>>
    /\ UNCHANGED <<canceled, said, received, caller, paused>>

\* A slip: the wait for room has no bound.
UnblockSendUnbounded(s) ==
    /\ pc[s] = "sendBlocked"
    /\ \/ HasRoom(s) /\ SendNow(s)
       \/ canceled /\ SendFails(s, "canceled")
    /\ UNCHANGED <<canceled, said, received, caller, paused>>

UnblockSend(s) ==
    /\ pc[s] = "sendBlocked"
    /\ \/ HasRoom(s) /\ SendNow(s)
       \/ canceled /\ SendFails(s, "canceled")
       \/ expired[s] /\ SendFails(s, "timeout")
    /\ UNCHANGED <<canceled, said, received, caller, paused>>

\* Where DeliverTerminal returns to.
AfterTerminal(s) ==
    CASE pc[s] \in {"terminal", "terminalBlocked"} /\ s \in Wrappers -> "ensure"
      [] pc[s] \in {"ensuring", "ensuringBlocked"} -> "finalize"
      [] OTHER -> "close"

\* Where it waits for room.
BlockedAt(s) == IF pc[s] = "terminal" THEN "terminalBlocked" ELSE "ensuringBlocked"

\* DeliverTerminal: only the first, whatever the context says.
DeliverTerminal(s) ==
    /\ pc[s] \in {"terminal", "ensuring"}
    /\ IF terminalSent[s]
       THEN Goto(s, AfterTerminal(s)) /\ UNCHANGED <<buffer, terminalSent>>
       ELSE /\ Mark(s, TRUE)
            /\ IF HasRoom(s)
               THEN Put(s) /\ Goto(s, AfterTerminal(s))
               ELSE Goto(s, BlockedAt(s)) /\ UNCHANGED buffer
    /\ UNCHANGED <<canceled, closed, holding, expired, draining, said, passed,
                   failureSeen, received, caller, paused>>

\* The bounded wait of DeliverTerminal.  A timeout re-arms the guard.
UnblockTerminal(s) ==
    /\ pc[s] \in {"terminalBlocked", "ensuringBlocked"}
    /\ \/ HasRoom(s) /\ Put(s) /\ UNCHANGED terminalSent
       \/ expired[s] /\ Mark(s, FALSE) /\ UNCHANGED buffer
    /\ Goto(s, AfterTerminal(s))
    /\ expired' = [expired EXCEPT ![s] = FALSE]
    /\ UNCHANGED <<canceled, closed, holding, draining, said, passed, failureSeen, received, caller, paused>>

-----------------------------------------------------------------------------
(* The provider's goroutine.                                               *)

\* The response has a next chunk, ends, fails or makes the decoder panic; or
\* the context has ended, which closes the body.
ReadResponse ==
    /\ pc[0] = "loop" /\ ~terminalSent[0]
    /\ \/ /\ ~canceled /\ said < NChunks
          /\ said' = said + 1
          /\ Hold(0, Data(said')) /\ Goto(0, "send")
       \/ /\ \/ canceled /\ Hold(0, Terminal("canceled"))
             \/ ~canceled /\ said = NChunks /\ Hold(0, Terminal("done"))
             \/ Hold(0, Terminal("providerError"))
          /\ Goto(0, "terminal")
          /\ UNCHANGED said
    /\ UNCHANGED <<canceled, buffer, closed, terminalSent, expired, draining,
                   passed, failureSeen, received, caller, paused>>

-----------------------------------------------------------------------------
(* The goroutine of a middleware: WrapStreamWithFinalizer.                 *)

\* A ready chunk is preferred over the end of the context.
ReceiveChunk(s) ==
    /\ pc[s] = "loop" /\ buffer[s-1] # <<>>
    /\ LET chunk == Head(buffer[s-1]) IN
         Hold(s, chunk) /\ Process(s, chunk)
    /\ buffer' = [buffer EXCEPT ![s-1] = Tail(@)]
    /\ Goto(s, "send")
    /\ UNCHANGED <<canceled, closed, terminalSent, expired, draining, said, passed, received, caller, paused>>

\* The source is closed, or the context has ended and nothing is ready.
LeaveLoop(s) ==
    /\ pc[s] = "loop" /\ buffer[s-1] = <<>>
    /\ \/ closed[s-1] /\ UNCHANGED draining
       \/ ~closed[s-1] /\ canceled /\ draining' = draining \cup {s}
    /\ Goto(s, "ensure")
    /\ UNCHANGED <<canceled, buffer, closed, holding, terminalSent, expired, said, passed,
                   failureSeen, received, caller, paused>>

\* A slip: no terminal chunk is made up for a source that sent none.
EnsureNothing(s) ==
    /\ pc[s] = "ensure"
    /\ Goto(s, "finalize")
    /\ UNCHANGED <<canceled, buffer, closed, holding, terminalSent, expired,
                   draining, said, passed, failureSeen, received, caller, paused>>

\* ensureTerminalThroughProcessor.
Ensure(s) ==
    /\ pc[s] = "ensure"
    /\ IF terminalSent[s]
       THEN Goto(s, "finalize") /\ UNCHANGED <<holding, failureSeen>>
       ELSE /\ Hold(s, Terminal(ContextEnding))
            /\ Process(s, Terminal(ContextEnding))
            /\ Goto(s, "ensuring")
    /\ UNCHANGED <<canceled, buffer, closed, terminalSent, expired, draining, said, passed,
                   received, caller, paused>>

Finalize(s) ==
    /\ pc[s] = "finalize"
    /\ Goto(s, "close")
    /\ UNCHANGED <<canceled, buffer, closed, holding, terminalSent, expired, draining,
                   said, passed, failureSeen, received, caller, paused>>

CloseChannel(s) ==
    /\ pc[s] = "close"
    /\ closed' = [closed EXCEPT ![s] = TRUE]
    /\ Goto(s, "exited")
    /\ UNCHANGED <<canceled, buffer, holding, terminalSent, expired, draining, said, passed,
                   failureSeen, received, caller, paused>>

\* DrainStream: the drainer of an abandoned source throws a chunk away.
Drain(s) ==
    /\ s \in draining /\ buffer[s-1] # <<>>
    /\ buffer' = [buffer EXCEPT ![s-1] = Tail(@)]
    /\ UNCHANGED <<canceled, closed, pc, holding, terminalSent, expired, draining,
                   said, passed, failureSeen, received, caller, paused>>

-----------------------------------------------------------------------------
(* The caller, the context and time.                                       *)

Receive ==
    /\ caller = "reading" /\ buffer[Depth] # <<>>
    /\ received' = Append(received, Head(buffer[Depth]))
    /\ buffer' = [buffer EXCEPT ![Depth] = Tail(@)]
    /\ UNCHANGED <<canceled, closed, pc, holding, terminalSent, expired, draining,
                   said, passed, failureSeen, caller, paused>>

WalkAway ==
    /\ caller = "reading"
    /\ caller' = "gone"
    /\ UNCHANGED <<canceled, sender, draining, said, passed, failureSeen, received, paused>>

Cancel ==
    /\ ~canceled
    /\ canceled' = TRUE
    /\ UNCHANGED <<sender, draining, said, passed, failureSeen, received, caller, paused>>

Blocked(s) == pc[s] \in {"sendBlocked", "terminalBlocked", "ensuringBlocked"}

\* The stage, or its drainer, has something to do now.
Runnable(s) ==
    \/ pc[s] \in {"send", "terminal", "ensure", "ensuring", "finalize", "close"}
    \/ Blocked(s) /\ (HasRoom(s) \/ expired[s] \/ (canceled /\ pc[s] = "sendBlocked"))
    \/ s \in Wrappers /\ pc[s] = "loop"
         /\ (buffer[s-1] # <<>> \/ closed[s-1] \/ canceled)
    \/ s \in draining /\ buffer[s-1] # <<>>

\* A send timeout passes for every stage that is blocked.
Tick ==
    /\ \A s \in Stages : ~Runnable(s)
    /\ \E s \in Stages : Blocked(s)
    /\ expired' = [s \in Stages |-> Blocked(s)]
    /\ paused' = (paused \/ (caller = "reading" /\ buffer[Depth] # <<>>))
    /\ UNCHANGED <<canceled, buffer, closed, pc, holding, terminalSent, draining, said, passed,
                   failureSeen, received, caller>>

StageStep(s) ==
    \/ Send(s) \/ UnblockSend(s) \/ DeliverTerminal(s) \/ UnblockTerminal(s)
    \/ CloseChannel(s)

WrapperStep(s) == ReceiveChunk(s) \/ LeaveLoop(s) \/ Ensure(s) \/ Finalize(s)

Next ==
    \/ \E s \in Stages : StageStep(s)
    \/ \E s \in Wrappers : WrapperStep(s) \/ Drain(s)
    \/ ReadResponse
    \/ Receive \/ WalkAway \/ Cancel
    \/ Tick

SafeSpec == Init /\ [][Next]_vars

\* Goroutines are scheduled, time passes, and a response ends some day (the
\* HTTP client times out).  The caller owes nothing: it may stop reading.
Spec ==
    /\ SafeSpec
    /\ \A s \in Stages : WF_vars(StageStep(s))
    /\ \A s \in Wrappers : WF_vars(WrapperStep(s)) /\ WF_vars(Drain(s))
    /\ WF_vars(ReadResponse) /\ WF_vars(Tick)

-----------------------------------------------------------------------------
(* Properties                                                              *)

Exited(s) == pc[s] = "exited"

\* The data chunks of the caller come first, in order and without a gap, and at
\* most one terminal chunk follows them, whatever happened in between.
InOrderThenOneTerminal ==
    \A i \in 1..Len(received) :
        received[i].n = i \/ (i = Len(received) /\ IsTerminal(received[i]))

\* A stage inside the pipeline gets its terminal chunk across, because the next one
\* drains what it has stopped reading.  Only a caller who leaves chunks unread can make
\* it lose the chunk: then the next stage is blocked as well, for as long, and may be
\* the later of the two to give up.
InnerStagesEndTheirStream ==
    \A s \in Stages \ {Depth} :
        closed[s] => terminalSent[s] \/ paused \/ caller = "gone"

\* Whatever cuts a stream short, the processor of the middleware was shown an
\* error: a finalizer that saw none (the circuit breaker's, which then records
\* a success) has passed on every chunk the provider had to say.  A caller who pauses
\* excuses all of them, one who walks away all but the outermost.
SuccessIsComplete ==
    \A s \in Wrappers : Exited(s) /\ ~failureSeen[s] =>
        passed[s] = NChunks \/ paused \/ (caller = "gone" /\ s # Depth)

\* What the caller sees is the contract: see StreamContract.
Delivered == Cardinality({i \in DOMAIN received : ~IsTerminal(received[i])})
Ending ==
    IF received = <<>> \/ ~IsTerminal(Last(received)) THEN "open"
    ELSE IF Last(received).ends = "done" THEN "done" ELSE "failed"

Contract == INSTANCE StreamContract WITH delivered <- Delivered, ending <- Ending
KeepsContract == Contract!Spec

\* Nor is a caller who reads to the end, without a long pause, left without a
\* terminal chunk (ARCHITECTURE.md: the channel is always closed with one).
NoSilentClose ==
    closed[Depth] /\ caller = "reading" /\ buffer[Depth] = <<>> =>
        Ending # "open" \/ paused

\* What ARCHITECTURE.md says of every stream: Done is success.  It does not hold
\* of a caller who pauses: after two timeouts the guard is re-armed, and Ensure
\* reports a stream that was cut short as done.
DoneMeansComplete == Ending = "done" => Delivered = NChunks

\* Every goroutine ends, and every abandoned source is empty, even when the
\* caller has walked away and never cancels the context.
AllStop == <>(\A s \in Stages : Exited(s) /\ (s \in draining => buffer[s-1] = <<>>))
=============================================================================
