----------------------------- MODULE McpSession -----------------------------
(***************************************************************************)
(* A client of pkg/mcp and its server subprocess: the stdio transport      *)
(* (stdio.go), which carries the calls of the client and the requests of   *)
(* the server over two pipes, the handlers of those requests (inbound.go), *)
(* and Close.                                                              *)
(*                                                                         *)
(* One goroutine writes, one reads, and each call waits in its own.  What  *)
(* is written is a frame: the request of a call, named like the call, or   *)
(* the reply to a request of the server, named like that request.          *)
(*                                                                         *)
(* The server is anything: it may read or not, answer in any order or not, *)
(* reject a frame with an error that names no request, or exit.  Time is   *)
(* not measured: a wait that the code bounds may end at any time, and has  *)
(* to end some time.                                                       *)
(***************************************************************************)
EXTENDS Integers, Sequences, FiniteSets, SequencesExt

CONSTANTS
    Calls,              \* calls of the client
    ServerRequests,     \* requests of the server
    QueueDepth,         \* writeQueueDepth
    PipeSize            \* frames a pipe holds

Frames == Calls \cup ServerRequests
Idle == "idle"
Gone == "gone"

ASSUME SessionAssumption ==
    /\ Calls \cap ServerRequests = {} /\ {Idle, Gone} \cap Frames = {}
    /\ QueueDepth \in Nat \ {0} /\ PipeSize \in Nat \ {0}

VARIABLES
    call,               \* per call: "idle", "writing", "waiting" or "done"
    result,             \* per call: what it returned
    pending, channel,   \* the calls a response can reach, and what reached each
    expired,            \* frames whose context has ended
    frame,              \* per frame: "none", "enqueuing", "queued", "sent", "unsent"
    writes, writer,     \* the queue; Idle, Gone or the frame being written
    reader,             \* Idle (reading), Gone or the request it refuses
    handler,            \* per server request: "none", "running", "replying", "finished"
    closed, closing,    \* t.closed; Close: "no", "stdin", "killed", "inbound", "returned"
    stdin, stdout,      \* the pipes
    server,             \* "up" or "exited"
    working             \* calls the server has read and not answered

calls == <<call, result>>
replies == <<pending, channel, closed>>
writing == <<frame, writes, writer>>
world == <<stdin, stdout, server, working>>
vars == <<calls, replies, expired, writing, reader, handler, closing, world>>

Init ==
    /\ call = [c \in Calls |-> "idle"] /\ result = [c \in Calls |-> "none"]
    /\ pending = {} /\ channel = [c \in Calls |-> "empty"] /\ closed = FALSE
    /\ expired = {}
    /\ frame = [f \in Frames |-> "none"] /\ writes = <<>> /\ writer = Idle
    /\ reader = Idle
    /\ handler = [n \in ServerRequests |-> "none"]
    /\ closing = "no"
    /\ stdin = <<>> /\ stdout = <<>> /\ server = "up" /\ working = {}

done == reader = Gone
stdinOpen == closing = "no"
inboundStopped == closing \in {"inbound", "returned"}

-----------------------------------------------------------------------------
(* write and the goroutine that serves it.                                 *)

FrameIs(f, to) == frame' = [frame EXCEPT ![f] = to]

Enqueue(f) ==
    /\ frame[f] = "enqueuing" /\ writer # Gone
    /\ Len(writes) < QueueDepth
    /\ writes' = Append(writes, f) /\ FrameIs(f, "queued")
    /\ UNCHANGED <<calls, replies, expired, writer, reader, handler, closing, world>>

\* A slip: the writer does not ask whether anybody wants the frame written.
ServeBlindly ==
    /\ writer = Idle /\ writes # <<>>
    /\ writer' = Head(writes) /\ UNCHANGED frame
    /\ writes' = Tail(writes)
    /\ UNCHANGED <<calls, replies, expired, reader, handler, closing, world>>

\* A frame whose caller has given up is dropped.
Serve ==
    /\ writer = Idle /\ writes # <<>>
    /\ IF Head(writes) \in expired
       THEN FrameIs(Head(writes), "unsent") /\ UNCHANGED writer
       ELSE writer' = Head(writes) /\ UNCHANGED frame
    /\ writes' = Tail(writes)
    /\ UNCHANGED <<calls, replies, expired, reader, handler, closing, world>>

Write ==
    /\ writer \in Frames
    /\ stdinOpen /\ server = "up" /\ Len(stdin) < PipeSize
    /\ stdin' = Append(stdin, writer)
    /\ FrameIs(writer, "sent") /\ writer' = Idle
    /\ UNCHANGED <<calls, replies, expired, writes, reader, handler, closing,
                   stdout, server, working>>

\* The pipe is closed, or the write deadline passes.  Part of the frame may be in
\* the pipe then, and the next one be unreadable, which a frame may be anyway.
WriteFails ==
    /\ writer \in Frames
    /\ FrameIs(writer, "unsent") /\ writer' = Idle
    /\ UNCHANGED <<calls, replies, expired, writes, reader, handler, closing,
                   stdin, stdout, server, working>>

\* The grace period after the end of the transport; frames may still be queued.
WriterLeaves ==
    /\ done /\ writer = Idle
    /\ writer' = Gone
    /\ UNCHANGED <<calls, replies, expired, frame, writes, reader, handler, closing, world>>

\* The frame has no consumer any more, nor has it had one.
Orphaned(f) == writer = Gone /\ frame[f] \in {"enqueuing", "queued"}

\* How write can end for its caller.  More than one may be possible.
WriteEnds(f) ==
    ({frame[f]} \cap {"sent", "unsent"})
      \cup (IF f \in expired THEN {"canceled"} ELSE {})
      \cup (IF Orphaned(f) THEN {"closed"} ELSE {})

\* A caller that leaves before its frame is queued takes it away.
Withdraw(f) == IF frame[f] = "enqueuing" THEN FrameIs(f, "unsent") ELSE UNCHANGED frame

-----------------------------------------------------------------------------
(* request: a call of the client.                                          *)

Return(c, value) ==
    /\ call' = [call EXCEPT ![c] = "done"]
    /\ result' = [result EXCEPT ![c] = value]

Request(c) ==
    /\ call[c] = "idle"
    /\ IF closed
       THEN Return(c, "closed") /\ UNCHANGED <<pending, frame>>
       ELSE /\ call' = [call EXCEPT ![c] = "writing"]
            /\ pending' = pending \cup {c}
            /\ FrameIs(c, "enqueuing")
            /\ UNCHANGED result
    /\ UNCHANGED <<channel, closed, expired, writes, writer, reader, handler, closing, world>>

Written(c) ==
    /\ call[c] = "writing"
    /\ \E end \in WriteEnds(c) :
         IF end = "sent"
         THEN call' = [call EXCEPT ![c] = "waiting"] /\ UNCHANGED <<result, pending, frame>>
         ELSE Return(c, end) /\ pending' = pending \ {c} /\ Withdraw(c)
    /\ UNCHANGED <<channel, closed, expired, writes, writer, reader, handler, closing, world>>

HasAnswer(c) == channel[c] \in {"response", "nullIdError"}

\* A slip: of two ready cases either is taken.
ClosedWhileWaitingAnyhow(c) == done \/ channel[c] = "closed"

\* An answer that was delivered wins over the end of the transport.
ClosedWhileWaiting(c) == (done /\ ~HasAnswer(c)) \/ channel[c] = "closed"

Await(c) ==
    /\ call[c] = "waiting"
    /\ \/ HasAnswer(c) /\ Return(c, channel[c])
       \/ ClosedWhileWaiting(c) /\ Return(c, "closed")
       \/ c \in expired /\ ~HasAnswer(c) /\ Return(c, "canceled")
    /\ pending' = pending \ {c}
    /\ UNCHANGED <<channel, closed, expired, writing, reader, handler, closing, world>>

-----------------------------------------------------------------------------
(* The read loop.                                                          *)

\* fail: every pending call is told.
Fail ==
    /\ closed' = TRUE
    /\ channel' = [c \in Calls |-> IF c \in pending THEN "closed" ELSE channel[c]]
    /\ pending' = {}

Deliver(c, answer) ==
    /\ channel' = [channel EXCEPT ![c] = answer]
    /\ pending' = pending \ {c}
    /\ UNCHANGED closed

Receive == reader = Idle /\ stdout # <<>> /\ stdout' = Tail(stdout)

\* Nobody waits for it, or a call does.
ReadResponse ==
    /\ Receive /\ Head(stdout).kind = "response"
    /\ IF Head(stdout).of \in pending THEN Deliver(Head(stdout).of, "response")
       ELSE UNCHANGED replies
    /\ UNCHANGED <<calls, expired, writing, reader, handler, closing,
                   stdin, server, working>>

\* dispatchNullIDError: if one call is pending the error is taken to be its answer.
ReadNullIdError ==
    /\ Receive /\ Head(stdout).kind = "nullIdError"
    /\ IF Cardinality(pending) = 1
       THEN \E c \in pending : Deliver(c, "nullIdError")
       ELSE Fail
    /\ UNCHANGED <<calls, expired, writing, reader, handler, closing,
                   stdin, server, working>>

\* dispatchRequest: a handler is started, or the read loop itself refuses.  It may
\* do that at any time: handlers of other requests may hold all the slots.
ReadRequest ==
    /\ Receive /\ Head(stdout).kind = "request"
    /\ LET n == Head(stdout).of IN
       \/ reader' = n /\ FrameIs(n, "enqueuing") /\ UNCHANGED handler
       \/ /\ ~inboundStopped
          /\ handler' = [handler EXCEPT ![n] = "running"] /\ UNCHANGED <<reader, frame>>
    /\ UNCHANGED <<calls, replies, expired, writes, writer, closing,
                   stdin, server, working>>

Refused ==
    /\ reader \in ServerRequests /\ WriteEnds(reader) # {}
    /\ Withdraw(reader) /\ reader' = Idle
    /\ UNCHANGED <<calls, replies, expired, writes, writer, handler, closing, world>>

EndOfOutput ==
    /\ reader = Idle /\ stdout = <<>> /\ server = "exited"
    /\ Fail /\ reader' = Gone
    /\ UNCHANGED <<calls, expired, writing, handler, closing, world>>

\* The goroutine of a handler: what it returned, or its panic, is written.
Handled(n) ==
    /\ handler[n] = "running"
    /\ handler' = [handler EXCEPT ![n] = "replying"] /\ FrameIs(n, "enqueuing")
    /\ UNCHANGED <<calls, replies, expired, writes, writer, reader, closing, world>>

Replied(n) ==
    /\ handler[n] = "replying" /\ WriteEnds(n) # {}
    /\ handler' = [handler EXCEPT ![n] = "finished"] /\ Withdraw(n)
    /\ UNCHANGED <<calls, replies, expired, writes, writer, reader, closing, world>>

\* A context ends: that of a call, or the timeout of a reply.
Expire(f) ==
    /\ f \notin expired
    /\ IF f \in Calls THEN call[f] \in {"writing", "waiting"}
       ELSE frame[f] \in {"enqueuing", "queued"}
    /\ expired' = expired \cup {f}
    /\ UNCHANGED <<calls, replies, writing, reader, handler, closing, world>>

-----------------------------------------------------------------------------
(* Close.                                                                  *)

Close ==
    /\ closing = "no"
    /\ closing' = "stdin" /\ closed' = TRUE
    /\ UNCHANGED <<calls, pending, channel, expired, writing, reader, handler, world>>

\* The reader has not finished in time.
Kill ==
    /\ closing = "stdin" /\ ~done
    /\ closing' = "killed" /\ server' = "exited"
    /\ UNCHANGED <<calls, replies, expired, writing, reader, handler,
                   stdin, stdout, working>>

\* A slip: the calls are left to a reader that does not finish.
StopInboundOnly ==
    /\ closing \in {"stdin", "killed"} /\ (done \/ closing = "killed")
    /\ UNCHANGED replies
    /\ closing' = "inbound"
    /\ UNCHANGED <<calls, expired, writing, reader, handler, world>>

\* It has, or it has not after the kill either: then the calls are told here.
StopInbound ==
    /\ closing \in {"stdin", "killed"} /\ (done \/ closing = "killed")
    /\ IF done THEN UNCHANGED replies ELSE Fail
    /\ closing' = "inbound"
    /\ UNCHANGED <<calls, expired, writing, reader, handler, world>>

\* inbound.stop waits for handlers, but not for ever.
CloseReturns ==
    /\ closing = "inbound"
    /\ closing' = "returned"
    /\ UNCHANGED <<calls, replies, expired, writing, reader, handler, world>>

-----------------------------------------------------------------------------
(* The server.                                                             *)

Puts(kind, of) ==
    /\ server = "up" /\ Len(stdout) < PipeSize
    /\ stdout' = Append(stdout, [kind |-> kind, of |-> of])

ServerReads ==
    /\ server = "up" /\ stdin # <<>>
    /\ stdin' = Tail(stdin)
    /\ working' = working \cup ({Head(stdin)} \cap Calls)
    /\ UNCHANGED <<calls, replies, expired, writing, reader, handler, closing,
                   stdout, server>>

ServerAnswers(c) ==
    /\ c \in working
    /\ Puts("response", c) \/ Puts("nullIdError", c)
    /\ working' = working \ {c}
    /\ UNCHANGED <<calls, replies, expired, writing, reader, handler, closing,
                   stdin, server>>

ServerAsks(n) ==
    /\ handler[n] = "none" /\ frame[n] = "none"
    /\ \A i \in DOMAIN stdout : stdout[i].of # n
    /\ Puts("request", n)
    /\ UNCHANGED <<calls, replies, expired, writing, reader, handler, closing,
                   stdin, server, working>>

ServerExits ==
    /\ server = "up"
    /\ server' = "exited"
    /\ UNCHANGED <<calls, replies, expired, writing, reader, handler, closing,
                   stdin, stdout, working>>

-----------------------------------------------------------------------------
\* What goroutines do that are scheduled, with the bounds on their waits.
ClientStep ==
    \/ Serve \/ Write \/ WriteFails \/ WriterLeaves
    \/ ReadResponse \/ ReadNullIdError \/ ReadRequest \/ Refused
    \/ Kill \/ StopInbound \/ CloseReturns
    \/ \E f \in Frames : Enqueue(f)
    \/ \E c \in Calls : Written(c) \/ Await(c)
    \/ \E n \in ServerRequests : Replied(n) \/ Expire(n)

\* What depends on the caller, on a handler, on the server and on the processes
\* that hold its pipe.
EnvironmentStep ==
    \/ Close \/ EndOfOutput \/ ServerReads \/ ServerExits
    \/ \E c \in Calls : Request(c) \/ Expire(c) \/ ServerAnswers(c)
    \/ \E n \in ServerRequests : Handled(n) \/ ServerAsks(n)

Next == ClientStep \/ EnvironmentStep

SafeSpec == Init /\ [][Next]_vars

\* An execution is finite, and ends where goroutines have nothing left to do.
\* Nothing is asked of the environment.
Spec == SafeSpec /\ WF_vars(ClientStep)

-----------------------------------------------------------------------------
(* Properties                                                              *)

\* A call that fails because the transport has ended was not answered: a caller
\* may repeat it, and so must not be told so of a call the server has completed.
ClosedMeansUnanswered == \A c \in Calls : result[c] = "closed" => channel[c] # "response"

\* The call has returned, and the writer had not begun its frame by then.
Unbegun(c) == call[c] = "done" /\ writer # c /\ frame[c] # "sent"

\* A call that failed before the writer had begun its frame is never begun, and the
\* server never comes to work on it: a caller may repeat it.  That is all the code
\* promises.  A frame whose write had begun when its caller was told of the failure
\* (serve looks at the caller's context once, before it writes) may be sent after it.
FailedCallsAreNotBegun ==
    [][\A c \in Calls : Unbegun(c) => Unbegun(c)' /\ c \notin working']_vars

\* Whatever the server does, the read loop comes back to its pipe, and when the
\* client is closed Close returns and so does every call.
SessionNeverHangs ==
    /\ []<>(reader \notin ServerRequests)
    /\ closing = "stdin" ~>
         closing = "returned" /\ \A c \in Calls : call[c] \in {"idle", "done"}

(***************************************************************************)
(* What the documentation says and the code does not do.                   *)
(***************************************************************************)

\* The comment on dispatchNullIDError: with one request pending the error is
\* unambiguously the answer to it.  It can be that of a call given up before.
NullIdErrorIsItsAnswer ==
    [][\A c \in Calls : channel'[c] = "nullIdError" /\ channel[c] # "nullIdError"
          => Head(stdout).of = c]_vars
=============================================================================
