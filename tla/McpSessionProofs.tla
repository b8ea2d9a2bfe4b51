-------------------------- MODULE McpSessionProofs --------------------------
(***************************************************************************)
(* A call that is reported as failed by the end of the transport was not   *)
(* answered, and one that failed before the writer had begun its frame is  *)
(* never executed: for every set of calls and of server requests, every    *)
(* queue and every pipe.                                                   *)
(*                                                                         *)
(* The invariant follows the frame of a call.  It is in one place only:    *)
(* with its caller, in the queue once, with the writer, or sent; and all   *)
(* that the server knows of a call, it knows of a call that was sent.      *)
(*                                                                         *)
(* Then the surface of the client: its listings, its notices, and its word *)
(* to the server.                                                          *)
(***************************************************************************)
EXTENDS McpSession, McpClient, FiniteSetTheorems, WellFoundedInduction, SequenceTheorems, TLAPS

Answers == {"empty", "closed", "response", "nullIdError"}
Messages ==
    {m \in [kind : {"response", "nullIdError", "request"}, of : Frames] :
        m.kind = "request" <=> m.of \in ServerRequests}

\* The variables have their types.
TypeOK ==
    /\ call \in [Calls -> {"idle", "writing", "waiting", "done"}]
    /\ result \in [Calls -> {"none", "closed", "canceled", "unsent", "response", "nullIdError"}]
    /\ pending \subseteq Calls /\ channel \in [Calls -> Answers] /\ closed \in BOOLEAN
    /\ expired \subseteq Frames
    /\ frame \in [Frames -> {"none", "enqueuing", "queued", "sent", "unsent"}]
    /\ writes \in Seq(Frames) /\ writer \in Frames \cup {Idle, Gone}
    /\ reader \in ServerRequests \cup {Idle, Gone}
    /\ handler \in [ServerRequests -> {"none", "running", "replying", "finished"}]
    /\ closing \in {"no", "stdin", "killed", "inbound", "returned"}
    /\ stdin \in Seq(Frames) /\ stdout \in Seq(Messages)
    /\ server \in {"up", "exited"} /\ working \subseteq Calls

\* A call that waits was sent.  One that returned has no frame left to be queued, and
\* if its frame is still in the queue the writer will drop it or has left.
KnowsItsFrame(c) ==
    /\ call[c] = "idle" => frame[c] = "none" /\ channel[c] = "empty"
    /\ call[c] = "waiting" => frame[c] = "sent"
    /\ call[c] = "done" =>
          /\ frame[c] # "enqueuing"
          /\ frame[c] = "queued" => c \in expired \/ writer = Gone
    /\ result[c] # "none" => call[c] = "done"
    /\ c \in pending => call[c] \in {"writing", "waiting"}
    /\ channel[c] = "response" => frame[c] = "sent"
    /\ result[c] = "closed" => channel[c] # "response"

\* The frame of a call is in the queue once, or with the writer.
QueuedOnce ==
    /\ \A i \in DOMAIN writes : writes[i] \in Calls =>
          /\ frame[writes[i]] = "queued" /\ writer # writes[i]
          /\ \A j \in DOMAIN writes : writes[j] = writes[i] => j = i
    /\ writer \in Calls => frame[writer] = "queued"

\* What the server knows of.
KnownWereSent ==
    /\ \A c \in working : frame[c] = "sent"
    /\ \A i \in DOMAIN stdin : stdin[i] \in Calls => frame[stdin[i]] = "sent"
    /\ \A i \in DOMAIN stdout : stdout[i].kind = "response" => frame[stdout[i].of] = "sent"

\* The inductive invariant.
IInv == TypeOK /\ (\A c \in Calls : KnowsItsFrame(c)) /\ QueuedOnce /\ KnownWereSent

-----------------------------------------------------------------------------
(* The invariant.                                                          *)

LEMMA InitIInv == Init => IInv
  <1> SUFFICES ASSUME Init PROVE IInv
    OBVIOUS
  <1>1. TypeOK
    <2>1. /\ writer \in Frames \cup {Idle, Gone} /\ reader \in ServerRequests \cup {Idle, Gone}
          /\ writes \in Seq(Frames) /\ stdin \in Seq(Frames) /\ stdout \in Seq(Messages)
      BY DEF Init
    <2> QED
      BY <2>1 DEF Init, TypeOK, Answers
  <1>2. (\A c \in Calls : KnowsItsFrame(c)) /\ KnownWereSent
    BY DEF Init, KnowsItsFrame, KnownWereSent, Frames
  <1>3. QueuedOnce
    BY SessionAssumption DEF Init, QueuedOnce, Frames
  <1> QED
    BY <1>1, <1>2, <1>3 DEF IInv

LEMMA NextIInv == IInv /\ [Next]_vars => IInv'
  <1> SUFFICES ASSUME IInv, [Next]_vars PROVE IInv'
    OBVIOUS
  <1>0. TypeOK /\ (\A c \in Calls : KnowsItsFrame(c)) /\ QueuedOnce /\ KnownWereSent
    BY DEF IInv
  <1>1. ASSUME NEW f \in Frames, Enqueue(f) PROVE IInv'
    <2>1. TypeOK'
      BY <1>0, <1>1, SessionAssumption
      DEF TypeOK, Frames, Messages, Answers, Enqueue, FrameIs, calls, replies, writing, world
    <2>2. (\A b \in Calls : KnowsItsFrame(b))'
      BY <1>0, <1>1, SessionAssumption
      DEF TypeOK, QueuedOnce, KnownWereSent, KnowsItsFrame, Frames, Messages, Answers, Idle,
          Gone, Enqueue, FrameIs, calls, replies, writing, world
    <2>3. QueuedOnce'
      BY <1>0, <1>1, SessionAssumption
      DEF TypeOK, QueuedOnce, KnowsItsFrame, Frames, Idle, Gone, Enqueue, FrameIs, calls,
          replies, writing, world
    <2>4. KnownWereSent'
      BY <1>0, <1>1, SessionAssumption
      DEF TypeOK, QueuedOnce, KnownWereSent, KnowsItsFrame, Frames, Messages, Enqueue, FrameIs,
          calls, replies, writing, world
    <2> QED
      BY <2>1, <2>2, <2>3, <2>4 DEF IInv
  <1>2. CASE Serve
    <2>0. /\ Head(writes) = writes[1] /\ 1 \in DOMAIN writes /\ writes[1] \in Frames
          /\ Tail(writes) \in Seq(Frames) /\ DOMAIN Tail(writes) = 1..(Len(writes) - 1)
          /\ \A i \in 1..(Len(writes) - 1) : Tail(writes)[i] = writes[i + 1] /\ i + 1 \in DOMAIN writes
      BY <1>0, <1>2 DEF TypeOK, Serve
    <2>1. TypeOK'
      BY <1>0, <1>2, <2>0, SessionAssumption
      DEF TypeOK, Frames, Messages, Answers, Serve, FrameIs, calls, replies, writing, world
    <2>2. (\A b \in Calls : KnowsItsFrame(b))'
      BY <1>0, <1>2, <2>0, SessionAssumption
      DEF TypeOK, QueuedOnce, KnownWereSent, KnowsItsFrame, Frames, Messages, Answers, Idle,
          Gone, Serve, FrameIs, calls, replies, writing, world
    <2>3. QueuedOnce'
      <3>1. CASE writes[1] \in expired
        <4>1. /\ frame' = [frame EXCEPT ![writes[1]] = "unsent"]
              /\ writer' = writer /\ writer = Idle /\ writes' = Tail(writes)
          BY <1>2, <2>0, <3>1 DEF Serve, FrameIs
        <4> QED
          BY <1>0, <2>0, <4>1, SessionAssumption DEF TypeOK, QueuedOnce, Frames
      <3>2. CASE writes[1] \notin expired
        <4>1. frame' = frame /\ writer' = writes[1] /\ writes' = Tail(writes)
          BY <1>2, <2>0, <3>2 DEF Serve
        <4> QED
          BY <1>0, <2>0, <4>1 DEF TypeOK, QueuedOnce
      <3> QED
        BY <3>1, <3>2
    <2>4. KnownWereSent'
      BY <1>0, <1>2, <2>0, SessionAssumption
      DEF TypeOK, QueuedOnce, KnownWereSent, KnowsItsFrame, Frames, Messages, Serve, FrameIs,
          calls, replies, writing, world
    <2> QED
      BY <2>1, <2>2, <2>3, <2>4 DEF IInv
  <1>3. CASE Write
    <2>1. TypeOK'
      BY <1>0, <1>3, SessionAssumption
      DEF TypeOK, Frames, Messages, Answers, Write, FrameIs, stdinOpen, calls, replies, writing,
          world
    <2>2. (\A b \in Calls : KnowsItsFrame(b))'
      BY <1>0, <1>3, SessionAssumption
      DEF TypeOK, QueuedOnce, KnownWereSent, KnowsItsFrame, Frames, Messages, Answers, Idle,
          Gone, Write, FrameIs, stdinOpen, calls, replies, writing, world
    <2>3. QueuedOnce'
      BY <1>0, <1>3, SessionAssumption
      DEF TypeOK, QueuedOnce, KnowsItsFrame, Frames, Idle, Gone, Write, FrameIs, stdinOpen,
          calls, replies, writing, world
    <2>4. KnownWereSent'
      BY <1>0, <1>3, SessionAssumption
      DEF TypeOK, QueuedOnce, KnownWereSent, KnowsItsFrame, Frames, Messages, Write, FrameIs,
          stdinOpen, calls, replies, writing, world
    <2> QED
      BY <2>1, <2>2, <2>3, <2>4 DEF IInv
  <1>4. CASE WriteFails
    <2>1. TypeOK'
      BY <1>0, <1>4, SessionAssumption
      DEF TypeOK, Frames, Messages, Answers, WriteFails, FrameIs, calls, replies, writing, world
    <2>2. (\A b \in Calls : KnowsItsFrame(b))'
      BY <1>0, <1>4, SessionAssumption
      DEF TypeOK, QueuedOnce, KnownWereSent, KnowsItsFrame, Frames, Messages, Answers, Idle,
          Gone, WriteFails, FrameIs, calls, replies, writing, world
    <2>3. QueuedOnce'
      BY <1>0, <1>4, SessionAssumption
      DEF TypeOK, QueuedOnce, KnowsItsFrame, Frames, Idle, Gone, WriteFails, FrameIs, calls,
          replies, writing, world
    <2>4. KnownWereSent'
      BY <1>0, <1>4, SessionAssumption
      DEF TypeOK, QueuedOnce, KnownWereSent, KnowsItsFrame, Frames, Messages, WriteFails,
          FrameIs, calls, replies, writing, world
    <2> QED
      BY <2>1, <2>2, <2>3, <2>4 DEF IInv
  <1>5. CASE WriterLeaves
    <2>1. TypeOK'
      BY <1>0, <1>5, SessionAssumption
      DEF TypeOK, Frames, Messages, Answers, WriterLeaves, done, calls, replies, writing, world
    <2>2. (\A b \in Calls : KnowsItsFrame(b))'
      BY <1>0, <1>5, SessionAssumption
      DEF TypeOK, QueuedOnce, KnownWereSent, KnowsItsFrame, Frames, Messages, Answers, Idle,
          Gone, WriterLeaves, done, calls, replies, writing, world
    <2>3. QueuedOnce'
      BY <1>0, <1>5, SessionAssumption
      DEF TypeOK, QueuedOnce, KnowsItsFrame, Frames, Idle, Gone, WriterLeaves, done, calls,
          replies, writing, world
    <2>4. KnownWereSent'
      BY <1>0, <1>5, SessionAssumption
      DEF TypeOK, QueuedOnce, KnownWereSent, KnowsItsFrame, Frames, Messages, WriterLeaves,
          done, calls, replies, writing, world
    <2> QED
      BY <2>1, <2>2, <2>3, <2>4 DEF IInv
  <1>6. ASSUME NEW c \in Calls, Request(c) PROVE IInv'
    <2>1. TypeOK'
      <3>1. CASE closed
        BY <1>0, <1>6, <3>1 DEF TypeOK, Request, Return, world
      <3>2. CASE ~closed
        BY <1>0, <1>6, <3>2 DEF TypeOK, Request, FrameIs, Frames, world
      <3> QED
        BY <3>1, <3>2
    <2>2. (\A b \in Calls : KnowsItsFrame(b))'
      BY <1>0, <1>6, SessionAssumption
      DEF TypeOK, QueuedOnce, KnownWereSent, KnowsItsFrame, Frames, Messages, Answers, Idle,
          Gone, Request, Return, FrameIs, calls, replies, writing, world
    <2>3. QueuedOnce'
      BY <1>0, <1>6, SessionAssumption
      DEF TypeOK, QueuedOnce, KnowsItsFrame, Frames, Idle, Gone, Request, Return, FrameIs,
          calls, replies, writing, world
    <2>4. KnownWereSent'
      BY <1>0, <1>6, SessionAssumption
      DEF TypeOK, QueuedOnce, KnownWereSent, KnowsItsFrame, Frames, Messages, Request, Return,
          FrameIs, calls, replies, writing, world
    <2> QED
      BY <2>1, <2>2, <2>3, <2>4 DEF IInv
  <1>7. ASSUME NEW c \in Calls, Written(c) PROVE IInv'
    <2>1. TypeOK'
      <3>1. PICK end \in WriteEnds(c) :
              IF end = "sent"
              THEN call' = [call EXCEPT ![c] = "waiting"] /\ UNCHANGED <<result, pending, frame>>
              ELSE Return(c, end) /\ pending' = pending \ {c} /\ Withdraw(c)
        BY <1>7 DEF Written
      <3>2. /\ end \in {"sent", "unsent", "canceled", "closed"} /\ c \in Frames
            /\ UNCHANGED <<channel, closed, expired, writes, writer, reader, handler, closing, world>>
        BY <1>7, <3>1 DEF Written, WriteEnds, Frames
      <3>3. frame' \in [Frames -> {"none", "enqueuing", "queued", "sent", "unsent"}]
        BY <1>0, <3>1, <3>2 DEF TypeOK, Withdraw, FrameIs, Return
      <3>4. CASE end = "sent"
        BY <1>0, <3>1, <3>2, <3>3, <3>4 DEF TypeOK, world
      <3>5. CASE end # "sent"
        BY <1>0, <3>1, <3>2, <3>3, <3>5 DEF TypeOK, Return, world
      <3> QED
        BY <3>4, <3>5
    <2>2. (\A b \in Calls : KnowsItsFrame(b))'
      BY <1>0, <1>7, SessionAssumption
      DEF TypeOK, QueuedOnce, KnownWereSent, KnowsItsFrame, Frames, Messages, Answers, Idle,
          Gone, Written, WriteEnds, Orphaned, Return, Withdraw, FrameIs, calls, replies,
          writing, world
    <2>3. QueuedOnce'
      BY <1>0, <1>7, SessionAssumption
      DEF TypeOK, QueuedOnce, KnowsItsFrame, Frames, Idle, Gone, Written, WriteEnds, Orphaned,
          Return, Withdraw, FrameIs, calls, replies, writing, world
    <2>4. KnownWereSent'
      BY <1>0, <1>7, SessionAssumption
      DEF TypeOK, QueuedOnce, KnownWereSent, KnowsItsFrame, Frames, Messages, Written,
          WriteEnds, Orphaned, Return, Withdraw, FrameIs, calls, replies, writing, world
    <2> QED
      BY <2>1, <2>2, <2>3, <2>4 DEF IInv
  <1>8. ASSUME NEW c \in Calls, Await(c) PROVE IInv'
    <2>1. TypeOK'
      <3>1. PICK value \in {"closed", "canceled", "response", "nullIdError"} : Return(c, value)
        BY <1>8 DEF Await, HasAnswer
      <3> QED
        BY <1>0, <1>8, <3>1 DEF TypeOK, Await, Return, writing, world
    <2>2. (\A b \in Calls : KnowsItsFrame(b))'
      BY <1>0, <1>8, SessionAssumption
      DEF TypeOK, QueuedOnce, KnownWereSent, KnowsItsFrame, Frames, Messages, Answers, Idle,
          Gone, Await, HasAnswer, Return, ClosedWhileWaiting, done, calls, replies, writing,
          world
    <2>3. QueuedOnce'
      BY <1>0, <1>8, SessionAssumption
      DEF TypeOK, QueuedOnce, KnowsItsFrame, Frames, Idle, Gone, Await, HasAnswer, Return,
          ClosedWhileWaiting, done, calls, replies, writing, world
    <2>4. KnownWereSent'
      BY <1>0, <1>8, SessionAssumption
      DEF TypeOK, QueuedOnce, KnownWereSent, KnowsItsFrame, Frames, Messages, Await, HasAnswer,
          Return, ClosedWhileWaiting, done, calls, replies, writing, world
    <2> QED
      BY <2>1, <2>2, <2>3, <2>4 DEF IInv
  <1>9. CASE ReadResponse
    <2>0. /\ Head(stdout) = stdout[1] /\ 1 \in DOMAIN stdout /\ stdout[1] \in Messages
          /\ Tail(stdout) \in Seq(Messages) /\ DOMAIN Tail(stdout) = 1..(Len(stdout) - 1)
          /\ \A i \in 1..(Len(stdout) - 1) : Tail(stdout)[i] = stdout[i + 1] /\ i + 1 \in DOMAIN stdout
      BY <1>0, <1>9 DEF TypeOK, ReadResponse, Receive
    <2>1. TypeOK'
      BY <1>0, <1>9, <2>0, SessionAssumption
      DEF TypeOK, Frames, Messages, Answers, ReadResponse, Receive, Deliver, calls, replies,
          writing, world
    <2>2. (\A b \in Calls : KnowsItsFrame(b))'
      BY <1>0, <1>9, <2>0, SessionAssumption
      DEF TypeOK, QueuedOnce, KnownWereSent, KnowsItsFrame, Frames, Messages, Answers, Idle,
          Gone, ReadResponse, Receive, Deliver, calls, replies, writing, world
    <2>3. QueuedOnce'
      BY <1>0, <1>9, <2>0, SessionAssumption
      DEF TypeOK, QueuedOnce, KnowsItsFrame, Frames, Idle, Gone, ReadResponse, Receive, Deliver,
          calls, replies, writing, world
    <2>4. KnownWereSent'
      BY <1>0, <1>9, <2>0, SessionAssumption
      DEF TypeOK, QueuedOnce, KnownWereSent, KnowsItsFrame, Frames, Messages, ReadResponse,
          Receive, Deliver, calls, replies, writing, world
    <2> QED
      BY <2>1, <2>2, <2>3, <2>4 DEF IInv
  <1>10. CASE ReadNullIdError
    <2>0. /\ Head(stdout) = stdout[1] /\ 1 \in DOMAIN stdout /\ stdout[1] \in Messages
          /\ Tail(stdout) \in Seq(Messages) /\ DOMAIN Tail(stdout) = 1..(Len(stdout) - 1)
          /\ \A i \in 1..(Len(stdout) - 1) : Tail(stdout)[i] = stdout[i + 1] /\ i + 1 \in DOMAIN stdout
      BY <1>0, <1>10 DEF TypeOK, ReadNullIdError, Receive
    <2>1. TypeOK'
      <3>1. UNCHANGED <<calls, expired, writing, reader, handler, closing, stdin, server, working>>
        BY <1>10 DEF ReadNullIdError
      <3>2. stdout' \in Seq(Messages)
        BY <1>10, <2>0 DEF ReadNullIdError, Receive
      <3>3. pending' \subseteq Calls /\ channel' \in [Calls -> Answers] /\ closed' \in BOOLEAN
        <4>1. CASE Fail
          BY <1>0, <4>1 DEF TypeOK, Fail, Answers
        <4>2. CASE \E c \in pending : Deliver(c, "nullIdError")
          BY <1>0, <4>2 DEF TypeOK, Deliver, Answers
        <4> QED
          BY <1>10, <4>1, <4>2 DEF ReadNullIdError
      <3> QED
        BY <1>0, <3>1, <3>2, <3>3 DEF TypeOK, calls, writing
    <2>2. (\A b \in Calls : KnowsItsFrame(b))'
      BY <1>0, <1>10, <2>0, SessionAssumption
      DEF TypeOK, QueuedOnce, KnownWereSent, KnowsItsFrame, Frames, Messages, Answers, Idle,
          Gone, ReadNullIdError, Receive, Deliver, Fail, calls, replies, writing, world
    <2>3. QueuedOnce'
      BY <1>0, <1>10, <2>0, SessionAssumption
      DEF TypeOK, QueuedOnce, KnowsItsFrame, Frames, Idle, Gone, ReadNullIdError, Receive,
          Deliver, Fail, calls, replies, writing, world
    <2>4. KnownWereSent'
      BY <1>0, <1>10, <2>0, SessionAssumption
      DEF TypeOK, QueuedOnce, KnownWereSent, KnowsItsFrame, Frames, Messages, ReadNullIdError,
          Receive, Deliver, Fail, calls, replies, writing, world
    <2> QED
      BY <2>1, <2>2, <2>3, <2>4 DEF IInv
  <1>11. CASE ReadRequest
    <2>0. /\ Head(stdout) = stdout[1] /\ 1 \in DOMAIN stdout /\ stdout[1] \in Messages
          /\ Tail(stdout) \in Seq(Messages) /\ DOMAIN Tail(stdout) = 1..(Len(stdout) - 1)
          /\ \A i \in 1..(Len(stdout) - 1) : Tail(stdout)[i] = stdout[i + 1] /\ i + 1 \in DOMAIN stdout
      BY <1>0, <1>11 DEF TypeOK, ReadRequest, Receive
    <2>a. PICK n \in ServerRequests :
              \/ reader' = n /\ FrameIs(n, "enqueuing") /\ UNCHANGED handler
              \/ handler' = [handler EXCEPT ![n] = "running"] /\ UNCHANGED <<reader, frame>>
      BY <1>11, <2>0 DEF ReadRequest, Messages
    <2>b. /\ stdout' = Tail(stdout)
          /\ UNCHANGED <<calls, replies, expired, writes, writer, closing, stdin, server, working>>
      BY <1>11 DEF ReadRequest, Receive
    <2>1. TypeOK'
      BY <1>0, <2>0, <2>a, <2>b DEF TypeOK, Frames, FrameIs, calls, replies
    <2>2. (\A b \in Calls : KnowsItsFrame(b))'
      BY <1>0, <1>11, <2>0, SessionAssumption
      DEF TypeOK, QueuedOnce, KnownWereSent, KnowsItsFrame, Frames, Messages, Answers, Idle,
          Gone, ReadRequest, Receive, FrameIs, inboundStopped, calls, replies, writing, world
    <2>3. QueuedOnce'
      <3>1. ASSUME NEW c \in Calls PROVE frame'[c] = frame[c]
        <4>1. c # n /\ c \in Frames
          BY SessionAssumption DEF Frames
        <4> QED
          BY <1>0, <2>a, <4>1 DEF TypeOK, FrameIs
      <3> QED
        BY <1>0, <2>b, <3>1 DEF TypeOK, QueuedOnce
    <2>4. KnownWereSent'
      BY <1>0, <1>11, <2>0, SessionAssumption
      DEF TypeOK, QueuedOnce, KnownWereSent, KnowsItsFrame, Frames, Messages, ReadRequest,
          Receive, FrameIs, inboundStopped, calls, replies, writing, world
    <2> QED
      BY <2>1, <2>2, <2>3, <2>4 DEF IInv
  <1>12. CASE Refused
    <2>1. TypeOK'
      BY <1>0, <1>12, SessionAssumption
      DEF TypeOK, Frames, Messages, Answers, Refused, Withdraw, FrameIs, calls, replies,
          writing, world
    <2>2. (\A b \in Calls : KnowsItsFrame(b))'
      BY <1>0, <1>12, SessionAssumption
      DEF TypeOK, QueuedOnce, KnownWereSent, KnowsItsFrame, Frames, Messages, Answers, Idle,
          Gone, Refused, Withdraw, FrameIs, calls, replies, writing, world
    <2>3. QueuedOnce'
      BY <1>0, <1>12, SessionAssumption
      DEF TypeOK, QueuedOnce, KnowsItsFrame, Frames, Idle, Gone, Refused, Withdraw, FrameIs,
          calls, replies, writing, world
    <2>4. KnownWereSent'
      BY <1>0, <1>12, SessionAssumption
      DEF TypeOK, QueuedOnce, KnownWereSent, KnowsItsFrame, Frames, Messages, Refused, Withdraw,
          FrameIs, calls, replies, writing, world
    <2> QED
      BY <2>1, <2>2, <2>3, <2>4 DEF IInv
  <1>13. CASE EndOfOutput
    <2>1. TypeOK'
      BY <1>0, <1>13, SessionAssumption
      DEF TypeOK, Frames, Messages, Answers, EndOfOutput, Fail, calls, replies, writing, world
    <2>2. (\A b \in Calls : KnowsItsFrame(b))'
      BY <1>0, <1>13, SessionAssumption
      DEF TypeOK, QueuedOnce, KnownWereSent, KnowsItsFrame, Frames, Messages, Answers, Idle,
          Gone, EndOfOutput, Fail, calls, replies, writing, world
    <2>3. QueuedOnce'
      BY <1>0, <1>13, SessionAssumption
      DEF TypeOK, QueuedOnce, KnowsItsFrame, Frames, Idle, Gone, EndOfOutput, Fail, calls,
          replies, writing, world
    <2>4. KnownWereSent'
      BY <1>0, <1>13, SessionAssumption
      DEF TypeOK, QueuedOnce, KnownWereSent, KnowsItsFrame, Frames, Messages, EndOfOutput, Fail,
          calls, replies, writing, world
    <2> QED
      BY <2>1, <2>2, <2>3, <2>4 DEF IInv
  <1>14. ASSUME NEW n \in ServerRequests, Handled(n) PROVE IInv'
    <2>1. TypeOK'
      BY <1>0, <1>14, SessionAssumption
      DEF TypeOK, Frames, Messages, Answers, Handled, FrameIs, calls, replies, writing, world
    <2>2. (\A b \in Calls : KnowsItsFrame(b))'
      BY <1>0, <1>14, SessionAssumption
      DEF TypeOK, QueuedOnce, KnownWereSent, KnowsItsFrame, Frames, Messages, Answers, Idle,
          Gone, Handled, FrameIs, calls, replies, writing, world
    <2>3. QueuedOnce'
      BY <1>0, <1>14, SessionAssumption
      DEF TypeOK, QueuedOnce, KnowsItsFrame, Frames, Idle, Gone, Handled, FrameIs, calls,
          replies, writing, world
    <2>4. KnownWereSent'
      BY <1>0, <1>14, SessionAssumption
      DEF TypeOK, QueuedOnce, KnownWereSent, KnowsItsFrame, Frames, Messages, Handled, FrameIs,
          calls, replies, writing, world
    <2> QED
      BY <2>1, <2>2, <2>3, <2>4 DEF IInv
  <1>15. ASSUME NEW n \in ServerRequests, Replied(n) PROVE IInv'
    <2>1. TypeOK'
      BY <1>0, <1>15, SessionAssumption
      DEF TypeOK, Frames, Messages, Answers, Replied, Withdraw, FrameIs, calls, replies,
          writing, world
    <2>2. (\A b \in Calls : KnowsItsFrame(b))'
      BY <1>0, <1>15, SessionAssumption
      DEF TypeOK, QueuedOnce, KnownWereSent, KnowsItsFrame, Frames, Messages, Answers, Idle,
          Gone, Replied, Withdraw, FrameIs, calls, replies, writing, world
    <2>3. QueuedOnce'
      BY <1>0, <1>15, SessionAssumption
      DEF TypeOK, QueuedOnce, KnowsItsFrame, Frames, Idle, Gone, Replied, Withdraw, FrameIs,
          calls, replies, writing, world
    <2>4. KnownWereSent'
      BY <1>0, <1>15, SessionAssumption
      DEF TypeOK, QueuedOnce, KnownWereSent, KnowsItsFrame, Frames, Messages, Replied, Withdraw,
          FrameIs, calls, replies, writing, world
    <2> QED
      BY <2>1, <2>2, <2>3, <2>4 DEF IInv
  <1>16. ASSUME NEW f \in Frames, Expire(f) PROVE IInv'
    <2>1. TypeOK'
      BY <1>0, <1>16, SessionAssumption
      DEF TypeOK, Frames, Messages, Answers, Expire, calls, replies, writing, world
    <2>2. (\A b \in Calls : KnowsItsFrame(b))'
      BY <1>0, <1>16, SessionAssumption
      DEF TypeOK, QueuedOnce, KnownWereSent, KnowsItsFrame, Frames, Messages, Answers, Idle,
          Gone, Expire, calls, replies, writing, world
    <2>3. QueuedOnce'
      BY <1>0, <1>16, SessionAssumption
      DEF TypeOK, QueuedOnce, KnowsItsFrame, Frames, Idle, Gone, Expire, calls, replies,
          writing, world
    <2>4. KnownWereSent'
      BY <1>0, <1>16, SessionAssumption
      DEF TypeOK, QueuedOnce, KnownWereSent, KnowsItsFrame, Frames, Messages, Expire, calls,
          replies, writing, world
    <2> QED
      BY <2>1, <2>2, <2>3, <2>4 DEF IInv
  <1>17. CASE Close
    <2>1. TypeOK'
      BY <1>0, <1>17, SessionAssumption
      DEF TypeOK, Frames, Messages, Answers, Close, calls, replies, writing, world
    <2>2. (\A b \in Calls : KnowsItsFrame(b))'
      BY <1>0, <1>17, SessionAssumption
      DEF TypeOK, QueuedOnce, KnownWereSent, KnowsItsFrame, Frames, Messages, Answers, Idle,
          Gone, Close, calls, replies, writing, world
    <2>3. QueuedOnce'
      BY <1>0, <1>17, SessionAssumption
      DEF TypeOK, QueuedOnce, KnowsItsFrame, Frames, Idle, Gone, Close, calls, replies, writing,
          world
    <2>4. KnownWereSent'
      BY <1>0, <1>17, SessionAssumption
      DEF TypeOK, QueuedOnce, KnownWereSent, KnowsItsFrame, Frames, Messages, Close, calls,
          replies, writing, world
    <2> QED
      BY <2>1, <2>2, <2>3, <2>4 DEF IInv
  <1>18. CASE Kill
    <2>1. TypeOK'
      BY <1>0, <1>18, SessionAssumption
      DEF TypeOK, Frames, Messages, Answers, Kill, done, calls, replies, writing, world
    <2>2. (\A b \in Calls : KnowsItsFrame(b))'
      BY <1>0, <1>18, SessionAssumption
      DEF TypeOK, QueuedOnce, KnownWereSent, KnowsItsFrame, Frames, Messages, Answers, Idle,
          Gone, Kill, done, calls, replies, writing, world
    <2>3. QueuedOnce'
      BY <1>0, <1>18, SessionAssumption
      DEF TypeOK, QueuedOnce, KnowsItsFrame, Frames, Idle, Gone, Kill, done, calls, replies,
          writing, world
    <2>4. KnownWereSent'
      BY <1>0, <1>18, SessionAssumption
      DEF TypeOK, QueuedOnce, KnownWereSent, KnowsItsFrame, Frames, Messages, Kill, done, calls,
          replies, writing, world
    <2> QED
      BY <2>1, <2>2, <2>3, <2>4 DEF IInv
  <1>19. CASE StopInbound
    <2>1. TypeOK'
      BY <1>0, <1>19, SessionAssumption
      DEF TypeOK, Frames, Messages, Answers, StopInbound, done, Fail, calls, replies, writing,
          world
    <2>2. (\A b \in Calls : KnowsItsFrame(b))'
      BY <1>0, <1>19, SessionAssumption
      DEF TypeOK, QueuedOnce, KnownWereSent, KnowsItsFrame, Frames, Messages, Answers, Idle,
          Gone, StopInbound, done, Fail, calls, replies, writing, world
    <2>3. QueuedOnce'
      BY <1>0, <1>19, SessionAssumption
      DEF TypeOK, QueuedOnce, KnowsItsFrame, Frames, Idle, Gone, StopInbound, done, Fail, calls,
          replies, writing, world
    <2>4. KnownWereSent'
      BY <1>0, <1>19, SessionAssumption
      DEF TypeOK, QueuedOnce, KnownWereSent, KnowsItsFrame, Frames, Messages, StopInbound, done,
          Fail, calls, replies, writing, world
    <2> QED
      BY <2>1, <2>2, <2>3, <2>4 DEF IInv
  <1>20. CASE CloseReturns
    <2>1. TypeOK'
      BY <1>0, <1>20, SessionAssumption
      DEF TypeOK, Frames, Messages, Answers, CloseReturns, calls, replies, writing, world
    <2>2. (\A b \in Calls : KnowsItsFrame(b))'
      BY <1>0, <1>20, SessionAssumption
      DEF TypeOK, QueuedOnce, KnownWereSent, KnowsItsFrame, Frames, Messages, Answers, Idle,
          Gone, CloseReturns, calls, replies, writing, world
    <2>3. QueuedOnce'
      BY <1>0, <1>20, SessionAssumption
      DEF TypeOK, QueuedOnce, KnowsItsFrame, Frames, Idle, Gone, CloseReturns, calls, replies,
          writing, world
    <2>4. KnownWereSent'
      BY <1>0, <1>20, SessionAssumption
      DEF TypeOK, QueuedOnce, KnownWereSent, KnowsItsFrame, Frames, Messages, CloseReturns,
          calls, replies, writing, world
    <2> QED
      BY <2>1, <2>2, <2>3, <2>4 DEF IInv
  <1>21. CASE ServerReads
    <2>1. TypeOK'
      BY <1>0, <1>21, SessionAssumption
      DEF TypeOK, Frames, Messages, Answers, ServerReads, calls, replies, writing, world
    <2>2. (\A b \in Calls : KnowsItsFrame(b))'
      BY <1>0, <1>21, SessionAssumption
      DEF TypeOK, QueuedOnce, KnownWereSent, KnowsItsFrame, Frames, Messages, Answers, Idle,
          Gone, ServerReads, calls, replies, writing, world
    <2>3. QueuedOnce'
      BY <1>0, <1>21, SessionAssumption
      DEF TypeOK, QueuedOnce, KnowsItsFrame, Frames, Idle, Gone, ServerReads, calls, replies,
          writing, world
    <2>4. KnownWereSent'
      BY <1>0, <1>21, SessionAssumption
      DEF TypeOK, QueuedOnce, KnownWereSent, KnowsItsFrame, Frames, Messages, ServerReads,
          calls, replies, writing, world
    <2> QED
      BY <2>1, <2>2, <2>3, <2>4 DEF IInv
  <1>22. ASSUME NEW c \in Calls, ServerAnswers(c) PROVE IInv'
    <2>0. PICK m \in Messages : m.of = c /\ stdout' = Append(stdout, m)
      BY <1>0, <1>22, SessionAssumption DEF ServerAnswers, Puts, Messages, Frames
    <2>a. /\ c \in working /\ working' = working \ {c}
          /\ UNCHANGED <<calls, replies, expired, writing, reader, handler, closing, stdin, server>>
      BY <1>22 DEF ServerAnswers
    <2>b. /\ DOMAIN stdout' = 1..(Len(stdout) + 1) /\ stdout'[Len(stdout) + 1] = m
          /\ stdout' \in Seq(Messages) /\ \A i \in 1..Len(stdout) : stdout'[i] = stdout[i]
      BY <1>0, <2>0 DEF TypeOK
    <2>1. TypeOK'
      BY <1>0, <2>a, <2>b DEF TypeOK, calls, replies, writing
    <2>2. (\A b \in Calls : KnowsItsFrame(b))'
      BY <1>0, <1>22, SessionAssumption
      DEF TypeOK, QueuedOnce, KnownWereSent, KnowsItsFrame, Frames, Messages, Answers, Idle,
          Gone, ServerAnswers, Puts, calls, replies, writing, world
    <2>3. QueuedOnce'
      BY <1>0, <1>22, SessionAssumption
      DEF TypeOK, QueuedOnce, KnowsItsFrame, Frames, Idle, Gone, ServerAnswers, Puts, calls,
          replies, writing, world
    <2>4. KnownWereSent'
      <3>1. frame' = frame /\ stdin' = stdin /\ frame[c] = "sent"
        BY <1>0, <2>a DEF KnownWereSent, writing
      <3>2. ASSUME NEW i \in DOMAIN stdout' PROVE stdout'[i].kind = "response" => frame[stdout'[i].of] = "sent"
        BY <1>0, <2>0, <2>b, <3>1 DEF TypeOK, KnownWereSent
      <3> QED
        BY <1>0, <2>a, <3>1, <3>2 DEF KnownWereSent
    <2> QED
      BY <2>1, <2>2, <2>3, <2>4 DEF IInv
  <1>23. ASSUME NEW n \in ServerRequests, ServerAsks(n) PROVE IInv'
    <2>1. TypeOK'
      BY <1>0, <1>23, SessionAssumption
      DEF TypeOK, Frames, Messages, Answers, ServerAsks, Puts, calls, replies, writing, world
    <2>2. (\A b \in Calls : KnowsItsFrame(b))'
      BY <1>0, <1>23, SessionAssumption
      DEF TypeOK, QueuedOnce, KnownWereSent, KnowsItsFrame, Frames, Messages, Answers, Idle,
          Gone, ServerAsks, Puts, calls, replies, writing, world
    <2>3. QueuedOnce'
      BY <1>0, <1>23, SessionAssumption
      DEF TypeOK, QueuedOnce, KnowsItsFrame, Frames, Idle, Gone, ServerAsks, Puts, calls,
          replies, writing, world
    <2>4. KnownWereSent'
      BY <1>0, <1>23, SessionAssumption
      DEF TypeOK, QueuedOnce, KnownWereSent, KnowsItsFrame, Frames, Messages, ServerAsks, Puts,
          calls, replies, writing, world
    <2> QED
      BY <2>1, <2>2, <2>3, <2>4 DEF IInv
  <1>24. CASE ServerExits
    <2>1. TypeOK'
      BY <1>0, <1>24, SessionAssumption
      DEF TypeOK, Frames, Messages, Answers, ServerExits, calls, replies, writing, world
    <2>2. (\A b \in Calls : KnowsItsFrame(b))'
      BY <1>0, <1>24, SessionAssumption
      DEF TypeOK, QueuedOnce, KnownWereSent, KnowsItsFrame, Frames, Messages, Answers, Idle,
          Gone, ServerExits, calls, replies, writing, world
    <2>3. QueuedOnce'
      BY <1>0, <1>24, SessionAssumption
      DEF TypeOK, QueuedOnce, KnowsItsFrame, Frames, Idle, Gone, ServerExits, calls, replies,
          writing, world
    <2>4. KnownWereSent'
      BY <1>0, <1>24, SessionAssumption
      DEF TypeOK, QueuedOnce, KnownWereSent, KnowsItsFrame, Frames, Messages, ServerExits,
          calls, replies, writing, world
    <2> QED
      BY <2>1, <2>2, <2>3, <2>4 DEF IInv
  <1>25. CASE UNCHANGED vars
    BY <1>0, <1>25
    DEF IInv, TypeOK, KnowsItsFrame, QueuedOnce, KnownWereSent, vars, calls, replies, writing, world
  <1> QED
    BY <1>1, <1>2, <1>3, <1>4, <1>5, <1>6, <1>7, <1>8, <1>9, <1>10, <1>11, <1>12, <1>13,
       <1>14, <1>15, <1>16, <1>17, <1>18, <1>19, <1>20, <1>21, <1>22, <1>23, <1>24, <1>25
    DEF Next, ClientStep, EnvironmentStep, Frames

LEMMA SessionInvariant == Spec => []IInv
  <1>1. Spec => Init /\ [][Next]_vars
    BY PTL DEF Spec, SafeSpec
  <1> QED
    BY <1>1, InitIInv, NextIInv, PTL

-----------------------------------------------------------------------------
(* The theorems.                                                           *)

\* awaitResponse and write report ErrClosed only of calls whose answer has not
\* reached them: of two ready cases the delivered answer is taken, and a frame that
\* has lost its writer was never sent.
THEOREM ClosedCallsUnanswered == Spec => []ClosedMeansUnanswered
  <1>1. IInv => ClosedMeansUnanswered
    BY DEF IInv, KnowsItsFrame, ClosedMeansUnanswered
  <1> QED
    BY <1>1, SessionInvariant, PTL

\* The writer goroutine never begins the frame of a call that has returned, as the
\* caller's context says so while the frame is queued, and the server works on what was
\* sent only.  Of a frame that was begun before its call returned it says nothing.
THEOREM FailedCallsNeverBegun == Spec => FailedCallsAreNotBegun
  <1> DEFINE Stays(c) == Unbegun(c) => Unbegun(c)' /\ c \notin working'
  <1>1. ASSUME IInv, [Next]_vars PROVE [\A c \in Calls : Stays(c)]_vars
    <2> SUFFICES ASSUME Next, NEW c \in Calls, Unbegun(c) PROVE Unbegun(c)' /\ c \notin working'
      BY <1>1
    <2>0. /\ TypeOK /\ KnowsItsFrame(c) /\ QueuedOnce /\ KnownWereSent
          /\ call[c] = "done" /\ writer # c /\ frame[c] # "sent" /\ c \in Frames
      BY <1>1 DEF IInv, Unbegun, Frames
    <2>1. writer' # c
      <3> SUFFICES ASSUME writer' = c PROVE FALSE
        OBVIOUS
      <3>1. c # Gone /\ c # Idle
        BY <2>0, SessionAssumption
      <3>2. Serve /\ c = Head(writes) /\ Head(writes) \notin expired /\ writer = Idle
        BY <2>0, <3>1 DEF Next, ClientStep, EnvironmentStep, Enqueue, Serve, Write, WriteFails, WriterLeaves,
           Request, Written, Await, ReadResponse, ReadNullIdError, ReadRequest, Refused, EndOfOutput,
           Handled, Replied, Expire, Close, Kill, StopInbound, CloseReturns, ServerReads,
           ServerAnswers, ServerAsks, ServerExits, writing
      <3>3. writes # <<>> /\ writes \in Seq(Frames) /\ writer # Gone
        BY <2>0, <3>2 DEF TypeOK, Serve, Idle, Gone
      <3>4. 1 \in DOMAIN writes /\ Head(writes) = writes[1]
        BY <3>3
      <3>5. frame[c] = "queued"
        BY <2>0, <3>2, <3>4 DEF QueuedOnce
      <3> QED
        BY <2>0, <3>2, <3>3, <3>5 DEF KnowsItsFrame
    <2>2. call'[c] = "done"
      BY <2>0 DEF TypeOK, Next, ClientStep, EnvironmentStep, Enqueue, Serve, Write, WriteFails,
         WriterLeaves, Request, Written, Await, Return, ReadResponse, ReadNullIdError, ReadRequest,
         Refused, EndOfOutput, Handled, Replied, Expire, Close, Kill, StopInbound, CloseReturns,
         ServerReads, ServerAnswers, ServerAsks, ServerExits, calls
    <2>3. frame'[c] # "sent"
      BY <2>0 DEF TypeOK, Next, ClientStep, EnvironmentStep, Enqueue, Serve, Write, WriteFails,
         WriterLeaves, Request, Written, Await, Withdraw, FrameIs, ReadResponse, ReadNullIdError,
         ReadRequest, Refused, EndOfOutput, Handled, Replied, Expire, Close, Kill, StopInbound,
         CloseReturns, ServerReads, ServerAnswers, ServerAsks, ServerExits, writing
    <2>4. c \notin working'
      <3>1. stdin # <<>> => 1 \in DOMAIN stdin /\ Head(stdin) = stdin[1]
        BY <2>0 DEF TypeOK
      <3>2. c \notin working /\ (stdin # <<>> => Head(stdin) # c)
        BY <2>0, <3>1 DEF KnownWereSent
      <3> QED
        BY <3>2 DEF Next, ClientStep, EnvironmentStep, Enqueue, Serve, Write, WriteFails, WriterLeaves,
           Request, Written, Await, ReadResponse, ReadNullIdError, ReadRequest, Refused, EndOfOutput,
           Handled, Replied, Expire, Close, Kill, StopInbound, CloseReturns, ServerReads,
           ServerAnswers, ServerAsks, ServerExits, world
    <2> QED
      BY <2>1, <2>2, <2>3, <2>4 DEF Unbegun
  <1>2. Spec => [][Next]_vars
    BY PTL DEF Spec, SafeSpec
  <1> QED
    BY <1>1, <1>2, SessionInvariant, PTL DEF FailedCallsAreNotBegun

-----------------------------------------------------------------------------
(* The surface of the client.                                              *)

-----------------------------------------------------------------------------
(* Sequences that grow without repeating themselves.                       *)

Distinct(s) == \A i, j \in DOMAIN s : i # j => s[i] # s[j]

LEMMA RangeOfAppend ==
    ASSUME NEW S, NEW s \in Seq(S), NEW x \in S
    PROVE  Range(Append(s, x)) = Range(s) \cup {x}
  <1>1. /\ Len(s) \in Nat /\ DOMAIN s = 1..Len(s) /\ DOMAIN Append(s, x) = 1..Len(s) + 1
        /\ \A i \in 1..Len(s) : Append(s, x)[i] = s[i]
        /\ Append(s, x)[Len(s) + 1] = x
    BY LenProperties, AppendProperties
  <1>2. ASSUME NEW v \in Range(Append(s, x)) PROVE v \in Range(s) \cup {x}
    <2>1. PICK i \in 1..Len(s) + 1 : v = Append(s, x)[i]
      BY <1>1, <1>2 DEF Range
    <2>2. i = Len(s) + 1 \/ i \in 1..Len(s)
      BY <1>1
    <2> QED
      BY <1>1, <2>1, <2>2 DEF Range
  <1>3. ASSUME NEW v \in Range(s) PROVE v \in Range(Append(s, x))
    <2>1. PICK i \in 1..Len(s) : v = s[i]
      BY <1>1, <1>3 DEF Range
    <2>2. i \in 1..Len(s) + 1 /\ Append(s, x)[i] = v
      BY <1>1, <2>1
    <2> QED
      BY <1>1, <2>2 DEF Range
  <1>4. x \in Range(Append(s, x))
    <2>1. Len(s) + 1 \in 1..Len(s) + 1
      BY <1>1
    <2> QED
      BY <1>1, <2>1 DEF Range
  <1> QED
    BY <1>2, <1>3, <1>4

LEMMA DistinctAppend ==
    ASSUME NEW S, NEW s \in Seq(S), NEW x \in S, Distinct(s), x \notin Range(s)
    PROVE  Distinct(Append(s, x))
  <1>1. /\ Len(s) \in Nat /\ DOMAIN s = 1..Len(s) /\ DOMAIN Append(s, x) = 1..Len(s) + 1
        /\ \A i \in 1..Len(s) : Append(s, x)[i] = s[i]
        /\ Append(s, x)[Len(s) + 1] = x
    BY LenProperties, AppendProperties
  <1>2. \A i \in 1..Len(s) : s[i] # x
    BY <1>1 DEF Range
  <1>3. \A i \in 1..Len(s) + 1 : i = Len(s) + 1 \/ i \in 1..Len(s)
    BY <1>1
  <1> QED
    BY <1>1, <1>2, <1>3 DEF Distinct

LEMMA DistinctConcat ==
    ASSUME NEW S, NEW s \in Seq(S), NEW t \in Seq(S), Distinct(s), Distinct(t),
           \A i \in DOMAIN t : t[i] \notin Range(s)
    PROVE  Distinct(s \o t)
  <1>1. /\ Len(s) \in Nat /\ DOMAIN s = 1..Len(s) /\ Len(t) \in Nat /\ DOMAIN t = 1..Len(t)
        /\ s \o t \in Seq(S) /\ Len(s \o t) = Len(s) + Len(t)
        /\ \A i \in 1..Len(s) + Len(t) : (s \o t)[i] = IF i <= Len(s) THEN s[i] ELSE t[i - Len(s)]
    BY LenProperties, ConcatProperties
  <1>2. DOMAIN (s \o t) = 1..Len(s) + Len(t)
    BY <1>1, LenProperties
  <1>3. \A i \in 1..Len(s), j \in 1..Len(t) : s[i] # t[j]
    BY <1>1 DEF Range
  <1> SUFFICES ASSUME NEW i \in 1..Len(s) + Len(t), NEW j \in 1..Len(s) + Len(t), i # j
               PROVE  (s \o t)[i] # (s \o t)[j]
    BY <1>2 DEF Distinct
  <1>4. CASE i <= Len(s) /\ j <= Len(s)
    <2>1. i \in 1..Len(s) /\ j \in 1..Len(s)
      BY <1>1, <1>4
    <2>2. (s \o t)[i] = s[i] /\ (s \o t)[j] = s[j]
      BY <1>1, <1>4
    <2> QED
      BY <1>1, <2>1, <2>2 DEF Distinct
  <1>5. CASE ~(i <= Len(s)) /\ ~(j <= Len(s))
    <2>1. i - Len(s) \in 1..Len(t) /\ j - Len(s) \in 1..Len(t) /\ i - Len(s) # j - Len(s)
      BY <1>1, <1>5
    <2>2. (s \o t)[i] = t[i - Len(s)] /\ (s \o t)[j] = t[j - Len(s)]
      BY <1>1, <1>5
    <2> QED
      BY <1>1, <2>1, <2>2 DEF Distinct
  <1>6. CASE i <= Len(s) /\ ~(j <= Len(s))
    <2>1. i \in 1..Len(s) /\ j - Len(s) \in 1..Len(t)
      BY <1>1, <1>6
    <2>2. (s \o t)[i] = s[i] /\ (s \o t)[j] = t[j - Len(s)]
      BY <1>1, <1>6
    <2> QED
      BY <1>3, <2>1, <2>2
  <1>7. CASE ~(i <= Len(s)) /\ j <= Len(s)
    <2>1. j \in 1..Len(s) /\ i - Len(s) \in 1..Len(t)
      BY <1>1, <1>7
    <2>2. (s \o t)[j] = s[j] /\ (s \o t)[i] = t[i - Len(s)]
      BY <1>1, <1>7
    <2> QED
      BY <1>3, <2>1, <2>2
  <1> QED
    BY <1>4, <1>5, <1>6, <1>7

-----------------------------------------------------------------------------
(* Listings.                                                               *)

Names == {"a", "b", "r"}
Pagings == [cursor : Nat, names : Seq(Names), cursors : Seq(Nat), asked : Seq(Nat), done : {"none", "listed", "cycle"}]

\* What has been asked for was given as a cursor before, but the beginning.
PagingInv ==
    /\ paging \in Pagings
    /\ Distinct(paging.asked)
    /\ paging.done = "none" =>
         /\ paging.cursor \notin Range(paging.asked)
         /\ Range(paging.asked) \cup {paging.cursor} \subseteq Range(paging.cursors) \cup {0}
    /\ host.transport = "stdio" => Distinct(paging.names)
    /\ host.transport = "http" => Len(paging.names) = Len(paging.asked)

LEMMA ConstantsOfClient ==
    /\ NotifyQueue \in Nat \ {0} /\ MaxInflight \in Nat \ {0}
    /\ MaxNotices \in Nat /\ MaxQuestions \in Nat /\ MaxPages \in Nat
  BY McpClientAssumption

LEMMA UnseenIsNew ==
    ASSUME NEW page \in Pages
    PROVE  Unseen(page) \in PagesOfNew /\ Range(Unseen(page)) = Range(page) \ Range(paging.names)
  <1>1. /\ Range(<<>>) = {} /\ Range(<<"a">>) = {"a"} /\ Range(<<"b">>) = {"b"}
        /\ Range(<<"a", "b">>) = {"a", "b"} /\ Range(<<"b", "b">>) = {"b"}
    BY DEF Range
  <1>2. <<>> \in PagesOfNew /\ <<"a">> \in PagesOfNew /\ <<"b">> \in PagesOfNew /\ <<"a", "b">> \in PagesOfNew
    BY DEF PagesOfNew, Pages
  <1>3. \A S \in SUBSET {"a", "b"} : \E names \in PagesOfNew : Range(names) = S
    <2> TAKE S \in SUBSET {"a", "b"}
    <2>1. S = {} \/ S = {"a"} \/ S = {"b"} \/ S = {"a", "b"}
      OBVIOUS
    <2> QED
      BY <1>1, <1>2, <2>1
  <1>4. Range(page) \in SUBSET {"a", "b"}
    BY <1>1 DEF Pages
  <1>5. \E names \in PagesOfNew : Range(names) = Range(page) \ Range(paging.names)
    BY <1>3, <1>4
  <1> QED
    BY <1>5, Zenon DEF Unseen

LEMMA PagesAreNames ==
    ASSUME NEW names \in PagesOfNew
    PROVE  names \in Seq(Names) /\ Distinct(names)
  <1>1. "a" \in Names /\ "b" \in Names
    BY DEF Names
  <1>2. names \in {<<>>, <<"a">>, <<"b">>, <<"a", "b">>}
    BY DEF PagesOfNew, Pages
  <1>3. <<>> \in Seq(Names) /\ <<"a">> \in Seq(Names) /\ <<"b">> \in Seq(Names) /\ <<"a", "b">> \in Seq(Names)
    BY <1>1
  <1>4. Distinct(<<>>) /\ Distinct(<<"a">>) /\ Distinct(<<"b">>) /\ Distinct(<<"a", "b">>)
    BY DEF Distinct
  <1> QED
    BY <1>2, <1>3, <1>4

\* The part of a step that both kinds of listing have in common.
LEMMA NextPage ==
    ASSUME PagingInv, paging.done = "none", NEW next \in Nat,
           NEW new \in Pagings, new.asked = Append(paging.asked, paging.cursor),
           new.done = "none" => next # 0 /\ next \notin Range(paging.cursors),
           new.done = "none" => new.cursor = next /\ new.cursors = Append(paging.cursors, next)
    PROVE  /\ Distinct(new.asked)
           /\ new.done = "none" =>
                /\ new.cursor \notin Range(new.asked)
                /\ Range(new.asked) \cup {new.cursor} \subseteq Range(new.cursors) \cup {0}
  <1>1. /\ paging.asked \in Seq(Nat) /\ paging.cursors \in Seq(Nat) /\ paging.cursor \in Nat
        /\ Distinct(paging.asked) /\ paging.cursor \notin Range(paging.asked)
        /\ Range(paging.asked) \cup {paging.cursor} \subseteq Range(paging.cursors) \cup {0}
    BY DEF PagingInv, Pagings
  <1>2. Distinct(new.asked)
    BY <1>1, DistinctAppend
  <1>0. \A s \in Seq(Nat), x \in Nat : Range(Append(s, x)) = Range(s) \cup {x}
    BY RangeOfAppend
  <1>3. Range(new.asked) = Range(paging.asked) \cup {paging.cursor}
    BY <1>0, <1>1
  <1>4. ASSUME new.done = "none"
        PROVE  /\ new.cursor \notin Range(new.asked)
               /\ Range(new.asked) \cup {new.cursor} \subseteq Range(new.cursors) \cup {0}
    <2>1. Range(new.cursors) = Range(paging.cursors) \cup {next}
      BY <1>0, <1>1, <1>4
    <2> QED
      BY <1>1, <1>3, <1>4, <2>1
  <1> QED
    BY <1>2, <1>4

LEMMA ListToolsKeeps == ASSUME PagingInv, ListTools PROVE PagingInv'
  <1>1. PICK page \in Pages, next \in 0..MaxPages :
         paging' = [paging EXCEPT
            !.names = @ \o Unseen(page),
            !.asked = Append(@, paging.cursor),
            !.done = IF next = 0 \/ next \in Range(paging.cursors) THEN "listed" ELSE "none",
            !.cursors = IF next = 0 THEN @ ELSE Append(@, next), !.cursor = next]
    BY DEF ListTools
  <1>2. paging.done = "none" /\ host' = host /\ host.transport = "stdio"
    BY DEF ListTools
  <1>3. next \in Nat
    BY ConstantsOfClient
  <1> DEFINE fresh == Unseen(page)
  <1>4. fresh \in Seq(Names) /\ Distinct(fresh) /\ \A i \in DOMAIN fresh : fresh[i] \notin Range(paging.names)
    <2>1. fresh \in PagesOfNew /\ Range(fresh) = Range(page) \ Range(paging.names)
      BY UnseenIsNew
    <2>2. \A i \in DOMAIN fresh : fresh[i] \in Range(fresh)
      BY DEF Range
    <2> QED
      BY <2>1, <2>2, PagesAreNames
  <1> HIDE DEF fresh
  <1>5. paging \in Pagings
    BY DEF PagingInv
  <1>6. /\ paging.names \in Seq(Names) /\ paging.cursors \in Seq(Nat) /\ paging.asked \in Seq(Nat)
        /\ paging.cursor \in Nat /\ Distinct(paging.names)
    BY <1>2, <1>5 DEF PagingInv, Pagings
  <1>7. /\ paging.names \o fresh \in Seq(Names) /\ Append(paging.asked, paging.cursor) \in Seq(Nat)
        /\ (IF next = 0 THEN paging.cursors ELSE Append(paging.cursors, next)) \in Seq(Nat)
    <2>1. paging.names \o fresh \in Seq(Names)
      BY <1>4, <1>6, ConcatProperties
    <2>2. Append(paging.asked, paging.cursor) \in Seq(Nat) /\ Append(paging.cursors, next) \in Seq(Nat)
      BY <1>3, <1>6
    <2> QED
      BY <1>6, <2>1, <2>2
  <1>8. /\ paging' \in Pagings /\ paging'.names = paging.names \o fresh
        /\ paging'.asked = Append(paging.asked, paging.cursor)
        /\ paging'.done = (IF next = 0 \/ next \in Range(paging.cursors) THEN "listed" ELSE "none")
        /\ paging'.cursors = (IF next = 0 THEN paging.cursors ELSE Append(paging.cursors, next))
        /\ paging'.cursor = next
    <2> DEFINE cs == IF next = 0 THEN paging.cursors ELSE Append(paging.cursors, next)
               d == IF next = 0 \/ next \in Range(paging.cursors) THEN "listed" ELSE "none"
               as == Append(paging.asked, paging.cursor)
               ns == paging.names \o fresh
    <2>1. paging' = [paging EXCEPT !.names = ns, !.asked = as, !.done = d, !.cursors = cs, !.cursor = next]
      BY <1>1 DEF fresh
    <2>2. ns \in Seq(Names) /\ as \in Seq(Nat) /\ cs \in Seq(Nat) /\ d \in {"none", "listed", "cycle"}
      BY <1>7
    <2> HIDE DEF cs, d, as, ns
    <2>3. /\ paging' \in Pagings /\ paging'.names = ns /\ paging'.asked = as /\ paging'.done = d
          /\ paging'.cursors = cs /\ paging'.cursor = next
      BY <1>3, <1>5, <2>1, <2>2 DEF Pagings
    <2> QED
      BY <2>3 DEF cs, d, as, ns
  <1>9. /\ Distinct(paging'.asked)
        /\ paging'.done = "none" =>
             /\ paging'.cursor \notin Range(paging'.asked)
             /\ Range(paging'.asked) \cup {paging'.cursor} \subseteq Range(paging'.cursors) \cup {0}
    BY <1>2, <1>3, <1>8, NextPage
  <1>10. Distinct(paging'.names)
    BY <1>4, <1>6, <1>8, DistinctConcat
  <1> QED
    BY <1>2, <1>8, <1>9, <1>10 DEF PagingInv

LEMMA ListResourcesKeeps == ASSUME PagingInv, ListResources PROVE PagingInv'
  <1>1. PICK next \in 0..MaxPages :
         paging' = [paging EXCEPT
            !.names = Append(@, "r"), !.asked = Append(@, paging.cursor),
            !.done = IF next = 0 THEN "listed" ELSE IF next \in Range(paging.cursors) THEN "cycle" ELSE "none",
            !.cursors = IF next = 0 THEN @ ELSE Append(@, next), !.cursor = next]
    BY DEF ListResources
  <1>2. paging.done = "none" /\ host' = host /\ host.transport = "http"
    BY DEF ListResources
  <1>3. next \in Nat
    BY ConstantsOfClient
  <1>5. paging \in Pagings
    BY DEF PagingInv
  <1>6. /\ paging.names \in Seq(Names) /\ paging.cursors \in Seq(Nat) /\ paging.asked \in Seq(Nat)
        /\ paging.cursor \in Nat /\ Len(paging.names) = Len(paging.asked) /\ "r" \in Names
    BY <1>2, <1>5 DEF PagingInv, Pagings, Names
  <1>8. /\ paging' \in Pagings /\ paging'.names = Append(paging.names, "r")
        /\ paging'.asked = Append(paging.asked, paging.cursor)
        /\ paging'.done = (IF next = 0 THEN "listed" ELSE IF next \in Range(paging.cursors) THEN "cycle" ELSE "none")
        /\ paging'.cursors = (IF next = 0 THEN paging.cursors ELSE Append(paging.cursors, next))
        /\ paging'.cursor = next
    <2> DEFINE cs == IF next = 0 THEN paging.cursors ELSE Append(paging.cursors, next)
               d == IF next = 0 THEN "listed" ELSE IF next \in Range(paging.cursors) THEN "cycle" ELSE "none"
               as == Append(paging.asked, paging.cursor)
               ns == Append(paging.names, "r")
    <2>1. paging' = [paging EXCEPT !.names = ns, !.asked = as, !.done = d, !.cursors = cs, !.cursor = next]
      BY <1>1
    <2>2. ns \in Seq(Names) /\ as \in Seq(Nat) /\ cs \in Seq(Nat) /\ d \in {"none", "listed", "cycle"}
      <3>1. Append(paging.cursors, next) \in Seq(Nat)
        BY <1>3, <1>6
      <3> QED
        BY <1>6, <3>1
    <2> HIDE DEF cs, d, as, ns
    <2>3. /\ paging' \in Pagings /\ paging'.names = ns /\ paging'.asked = as /\ paging'.done = d
          /\ paging'.cursors = cs /\ paging'.cursor = next
      BY <1>3, <1>5, <2>1, <2>2 DEF Pagings
    <2> QED
      BY <2>3 DEF cs, d, as, ns
  <1>9. /\ Distinct(paging'.asked)
        /\ paging'.done = "none" =>
             /\ paging'.cursor \notin Range(paging'.asked)
             /\ Range(paging'.asked) \cup {paging'.cursor} \subseteq Range(paging'.cursors) \cup {0}
    BY <1>2, <1>3, <1>8, NextPage
  <1>10. Len(paging'.names) = Len(paging'.asked)
    <2>1. Len(Append(paging.names, "r")) = Len(paging.names) + 1
      BY <1>6, AppendProperties
    <2>2. Len(Append(paging.asked, paging.cursor)) = Len(paging.asked) + 1
      BY <1>6, AppendProperties
    <2> QED
      BY <1>6, <1>8, <2>1, <2>2
  <1> QED
    BY <1>2, <1>8, <1>9, <1>10 DEF PagingInv

-----------------------------------------------------------------------------
(* Notifications.                                                          *)

Targets == {<<"client", 0>>, <<"log", 0>>} \cup {<<"call", t>> : t \in 0..2}
Entries == {e \in [to : Targets, n : Nat, own : BOOLEAN] : e.own <=> e.to[1] = "call"}
Pumps ==
    [queue : Seq(Entries), busy : Seq(Entries), delivered : Seq(Entries), dropped : Nat, offered : Seq(Entries),
     tokens : SUBSET Nat, used : SUBSET Nat, progressFn : BOOLEAN, logFn : BOOLEAN]

Ahead == notices.delivered \o notices.busy \o notices.queue
Rising(s) == \A i, j \in DOMAIN s : i < j => s[i].n < s[j].n

\* What was offered is delivered, at work, waiting or dropped, in its order.
NoticeInv ==
    /\ notices \in Pumps /\ Len(notices.busy) <= 1
    /\ Rising(Ahead) /\ \A i \in DOMAIN Ahead : Ahead[i].n <= Len(notices.offered)
    /\ Len(Ahead) + notices.dropped = Len(notices.offered)

\* One element, and its place.
LEMMA OneElement ==
    ASSUME NEW S, NEW b \in Seq(S), Len(b) = 1
    PROVE  b[1] \in S /\ b = <<b[1]>>
  <1>1. b[1] \in S
    <2>1. 1 \in 1..Len(b)
      OBVIOUS
    <2> QED
      BY <2>1, ElementOfSeq
  <1>2. <<b[1]>> \in Seq(S) /\ Len(<<b[1]>>) = 1 /\ \A i \in 1..1 : <<b[1]>>[i] = b[i]
    BY <1>1
  <1> QED
    BY <1>1, <1>2, SeqEqual

\* The first that waits is taken.
LEMMA AheadWhenTaken ==
    ASSUME NEW S, NEW d \in Seq(S), NEW q \in Seq(S), q # <<>>
    PROVE  /\ <<Head(q)>> \in Seq(S) /\ Len(<<Head(q)>>) = 1 /\ Tail(q) \in Seq(S)
           /\ d \o <<Head(q)>> \o Tail(q) = d \o <<>> \o q
  <1>1. Head(q) \in S /\ Tail(q) \in Seq(S) /\ Len(Tail(q)) = Len(q) - 1 /\ Len(q) \in Nat \ {0}
    BY HeadTailProperties, LenProperties, EmptySeq
  <1>2. <<Head(q)>> \in Seq(S) /\ Len(<<Head(q)>>) = 1
    BY <1>1
  <1>3. <<Head(q)>> \o Tail(q) = q
    <2> DEFINE b == <<Head(q)>>
               e == b \o Tail(q)
    <2>1. b \in Seq(S) /\ Len(b) = 1 /\ b[1] = Head(q) /\ Head(q) = q[1]
      BY <1>2
    <2> HIDE DEF b
    <2>2. /\ e \in Seq(S) /\ Len(e) = Len(q)
          /\ \A i \in 1..Len(q) : e[i] = IF i <= 1 THEN b[i] ELSE Tail(q)[i - 1]
      <3>1. Len(b) + Len(Tail(q)) = Len(q)
        BY <1>1, <2>1
      <3>2. /\ e \in Seq(S) /\ Len(e) = Len(b) + Len(Tail(q))
            /\ \A i \in 1..Len(b) + Len(Tail(q)) : e[i] = IF i <= Len(b) THEN b[i] ELSE Tail(q)[i - Len(b)]
        BY <1>1, <2>1, ConcatProperties
      <3> QED
        BY <2>1, <3>1, <3>2
    <2> HIDE DEF e
    <2>3. ASSUME NEW i \in 1..Len(q) PROVE e[i] = q[i]
      <3>1. CASE i = 1
        BY <2>1, <2>2, <3>1
      <3>2. CASE i # 1
        <4>1. i - 1 \in 1..Len(q) - 1 /\ (i - 1) + 1 = i /\ ~(i <= 1)
          BY <1>1, <3>2
        <4>2. Tail(q)[i - 1] = q[i]
          <5>1. \A k \in 1..Len(q) - 1 : Tail(q)[k] = q[k + 1]
            BY <1>1, HeadTailProperties
          <5> QED
            BY <4>1, <5>1
        <4> QED
          BY <2>2, <4>1, <4>2
      <3> QED
        BY <3>1, <3>2
    <2>4. e = q
      BY <2>2, <2>3, SeqEqual
    <2> QED
      BY <2>4 DEF e, b
  <1>4. d \o <<Head(q)>> \o Tail(q) = d \o (<<Head(q)>> \o Tail(q)) /\ d \o <<>> = d
    BY <1>1, <1>2, ConcatAssociative, ConcatEmptySeq
  <1> QED
    BY <1>1, <1>2, <1>3, <1>4

\* The one at work is done.
LEMMA AheadWhenDone ==
    ASSUME NEW S, NEW d \in Seq(S), NEW x \in S, NEW q \in Seq(S)
    PROVE  Append(d, x) \in Seq(S) /\ Append(d, x) \o <<>> \o q = d \o <<x>> \o q
  <1>1. Append(d, x) \in Seq(S) /\ Append(d, x) = d \o <<x>>
    BY AppendProperties, AppendIsConcat
  <1>2. Append(d, x) \o <<>> = Append(d, x)
    BY <1>1, ConcatEmptySeq
  <1>3. Append(d, x) \o <<>> \o q = d \o <<x>> \o q
    BY <1>1, <1>2, Zenon
  <1> QED
    BY <1>1, <1>3

\* One more waits.
LEMMA AheadWhenQueued ==
    ASSUME NEW S, NEW d \in Seq(S), NEW b \in Seq(S), NEW q \in Seq(S), NEW x \in S
    PROVE  d \o b \o Append(q, x) = Append(d \o b \o q, x) /\ d \o b \o q \in Seq(S)
  <1>1. d \o b \in Seq(S) /\ d \o b \o q \in Seq(S) /\ <<x>> \in Seq(S)
    BY ConcatProperties
  <1>2. Append(q, x) = q \o <<x>> /\ Append(d \o b \o q, x) = (d \o b \o q) \o <<x>>
    BY <1>1, AppendIsConcat
  <1>3. (d \o b \o q) \o <<x>> = (d \o b) \o (q \o <<x>>)
    BY <1>1, ConcatAssociative
  <1> QED
    BY <1>1, <1>2, <1>3

LEMMA RisingAppend ==
    ASSUME NEW s \in Seq(Entries), NEW x \in Entries, Rising(s), \A i \in DOMAIN s : s[i].n < x.n
    PROVE  Rising(Append(s, x)) /\ \A i \in DOMAIN Append(s, x) : Append(s, x)[i].n <= x.n
  <1>1. /\ Len(s) \in Nat /\ DOMAIN s = 1..Len(s) /\ DOMAIN Append(s, x) = 1..Len(s) + 1
        /\ \A i \in 1..Len(s) : Append(s, x)[i] = s[i] /\ s[i] \in Entries
        /\ Append(s, x)[Len(s) + 1] = x
    BY LenProperties, AppendProperties, ElementOfSeq
  <1>2. x.n \in Nat /\ \A i \in 1..Len(s) : s[i].n \in Nat
    BY <1>1 DEF Entries
  <1>3. \A i \in 1..Len(s) + 1 : i = Len(s) + 1 \/ i \in 1..Len(s)
    BY <1>1
  <1> HIDE DEF Entries
  <1>4. ASSUME NEW i \in 1..Len(s) + 1, NEW j \in 1..Len(s) + 1, i < j
        PROVE  Append(s, x)[i].n < Append(s, x)[j].n
    <2>1. i \in 1..Len(s)
      BY <1>1, <1>4
    <2> QED
      BY <1>1, <1>3, <1>4, <2>1 DEF Rising
  <1>5. ASSUME NEW i \in 1..Len(s) + 1 PROVE Append(s, x)[i].n <= x.n
    BY <1>1, <1>2, <1>3, <1>5
  <1> QED
    BY <1>1, <1>4, <1>5 DEF Rising

\* Which entries there are, and that a callback of its own call is marked so.
LEMMA RoutedEntry ==
    ASSUME NoticeInv, NEW kind \in {"progress", "log"}, NEW t \in 0..2, Route(kind, t) # <<>>
    PROVE  [to |-> Route(kind, t), n |-> Len(notices.offered) + 1, own |-> kind = "progress" /\ t \in notices.tokens]
             \in Entries
  <1> DEFINE e == [to |-> Route(kind, t), n |-> Len(notices.offered) + 1, own |-> kind = "progress" /\ t \in notices.tokens]
  <1>1. /\ Route(kind, t) \in Targets
        /\ Route(kind, t)[1] = "call" <=> kind = "progress" /\ t \in notices.tokens
    BY DEF Route, Targets
  <1>2. Len(notices.offered) + 1 \in Nat
    BY LenProperties DEF NoticeInv, Pumps
  <1> QED
    BY <1>1, <1>2 DEF Entries

\* Nothing of the notifications' order changes.
LEMMA NoticesStay ==
    ASSUME NoticeInv, notices' \in Pumps, notices'.queue = notices.queue, notices'.busy = notices.busy,
           notices'.delivered = notices.delivered, notices'.dropped = notices.dropped, notices'.offered = notices.offered
    PROVE  NoticeInv'
  BY DEF NoticeInv, Ahead

LEMMA CallsKeepNotices ==
    ASSUME NoticeInv, NEW t \in {1, 2}, StartCall(t) \/ EndCall(t) \/ ClearProgress
    PROVE  NoticeInv'
  <1>1. notices \in Pumps
    BY DEF NoticeInv
  <1>2. \/ notices' = [notices EXCEPT !.tokens = @ \cup {t}, !.used = @ \cup {t}]
        \/ notices' = [notices EXCEPT !.tokens = @ \ {t}]
        \/ notices' = [notices EXCEPT !.progressFn = FALSE]
    BY DEF StartCall, EndCall, ClearProgress
  <1>3. /\ notices' \in Pumps /\ notices'.queue = notices.queue /\ notices'.busy = notices.busy
        /\ notices'.delivered = notices.delivered /\ notices'.dropped = notices.dropped
        /\ notices'.offered = notices.offered
    <2>1. CASE notices' = [notices EXCEPT !.tokens = @ \cup {t}, !.used = @ \cup {t}]
      <3> DEFINE ts == notices.tokens \cup {t}
                 us == notices.used \cup {t}
      <3>1. ts \in SUBSET Nat /\ us \in SUBSET Nat /\ notices' = [notices EXCEPT !.tokens = ts, !.used = us]
        BY <1>1, <2>1 DEF Pumps
      <3> HIDE DEF ts, us
      <3> QED
        BY <1>1, <3>1 DEF Pumps
    <2>2. CASE notices' = [notices EXCEPT !.tokens = @ \ {t}]
      <3> DEFINE ts == notices.tokens \ {t}
      <3>1. ts \in SUBSET Nat /\ notices' = [notices EXCEPT !.tokens = ts]
        BY <1>1, <2>2 DEF Pumps
      <3> HIDE DEF ts
      <3> QED
        BY <1>1, <3>1 DEF Pumps
    <2>3. CASE notices' = [notices EXCEPT !.progressFn = FALSE]
      BY <1>1, <2>3 DEF Pumps
    <2> QED
      BY <1>2, <2>1, <2>2, <2>3
  <1> QED
    BY <1>3, NoticesStay

LEMMA DispatchKeepsNotices ==
    ASSUME NoticeInv, NEW kind \in {"progress", "log"}, NEW t \in 0..2, DispatchNotification(kind, t)
    PROVE  NoticeInv'
  <1> DEFINE to == Route(kind, t)
             e == [to |-> to, n |-> Len(notices.offered) + 1, own |-> kind = "progress" /\ t \in notices.tokens]
  <1>1. CASE UNCHANGED notices
    BY <1>1, NoticesStay DEF NoticeInv
  <1>2. CASE to # <<>> /\ EnqueueNotice(e)
    <2>1. e \in Entries
      BY <1>2, RoutedEntry
    <2>2. e.n = Len(notices.offered) + 1
      OBVIOUS
    <2> HIDE DEF to, e
    <2>3. /\ notices \in Pumps /\ notices.queue \in Seq(Entries) /\ notices.busy \in Seq(Entries)
          /\ notices.delivered \in Seq(Entries) /\ notices.offered \in Seq(Entries) /\ notices.dropped \in Nat
          /\ Len(notices.busy) <= 1
      BY DEF NoticeInv, Pumps
    <2>4. /\ Append(notices.offered, e) \in Seq(Entries) /\ Len(Append(notices.offered, e)) = Len(notices.offered) + 1
          /\ Append(notices.queue, e) \in Seq(Entries) /\ Len(notices.offered) \in Nat
      BY <2>1, <2>3, AppendProperties, LenProperties
    <2>5. Ahead \in Seq(Entries) /\ Len(Ahead) \in Nat
      BY <2>1, <2>3, AheadWhenQueued, LenProperties DEF Ahead
    <2>6. /\ Rising(Ahead) /\ \A i \in DOMAIN Ahead : Ahead[i].n <= Len(notices.offered)
          /\ Len(Ahead) + notices.dropped = Len(notices.offered)
      BY DEF NoticeInv
    <2>7. CASE notices' = notices
      BY <2>3, <2>7, NoticesStay
    <2>8. CASE notices' = [notices EXCEPT !.queue = Append(@, e), !.offered = Append(@, e)]
      <3> DEFINE qs == Append(notices.queue, e)
                 os == Append(notices.offered, e)
      <3>1. notices' = [notices EXCEPT !.queue = qs, !.offered = os]
        BY <2>8
      <3>2. qs \in Seq(Entries) /\ os \in Seq(Entries) /\ Len(os) = Len(notices.offered) + 1
        BY <2>4
      <3>3. Ahead' = notices'.delivered \o notices'.busy \o notices'.queue
        BY DEF Ahead
      <3>4. notices.delivered \o notices.busy \o qs = Append(Ahead, e)
        <4>1. notices.delivered \o notices.busy \o Append(notices.queue, e)
                = Append(notices.delivered \o notices.busy \o notices.queue, e)
          <5>1. \A d, b, q \in Seq(Entries) : d \o b \o Append(q, e) = Append(d \o b \o q, e)
            BY <2>1, AheadWhenQueued
          <5> QED
            BY <2>3, <5>1, Zenon
        <4> QED
          BY <4>1, Zenon DEF Ahead
      <3> HIDE DEF qs, os
      <3>5. /\ notices' \in Pumps /\ notices'.queue = qs /\ notices'.busy = notices.busy
            /\ notices'.delivered = notices.delivered /\ notices'.dropped = notices.dropped /\ notices'.offered = os
        BY <2>3, <3>1, <3>2 DEF Pumps
      <3>6. Ahead' = Append(Ahead, e)
        BY <3>3, <3>4, <3>5
      <3>7. \A i \in DOMAIN Ahead : Ahead[i].n < e.n
        <4>1. ASSUME NEW i \in DOMAIN Ahead PROVE Ahead[i].n < e.n
          <5>1. Ahead[i] \in Entries
            BY <2>5, ElementOfSeq, LenProperties
          <5>2. Ahead[i].n \in Nat
            BY <5>1 DEF Entries
          <5> QED
            BY <2>2, <2>4, <2>6, <5>2
        <4> QED
          BY <4>1
      <3>8. Rising(Append(Ahead, e)) /\ \A i \in DOMAIN Append(Ahead, e) : Append(Ahead, e)[i].n <= e.n
        BY <2>1, <2>5, <2>6, <3>7, RisingAppend
      <3>9. Len(Append(Ahead, e)) = Len(Ahead) + 1
        BY <2>1, <2>5, AppendProperties
      <3>10. Rising(Ahead)' /\ (\A i \in DOMAIN Ahead : Ahead[i].n <= Len(notices.offered))'
        BY <2>2, <3>2, <3>5, <3>6, <3>8 DEF Rising
      <3>11. Len(Ahead') + notices'.dropped = Len(notices'.offered)
        BY <2>3, <2>4, <2>5, <2>6, <3>2, <3>5, <3>6, <3>9
      <3> QED
        BY <2>3, <3>5, <3>10, <3>11 DEF NoticeInv
    <2>9. CASE notices' = [notices EXCEPT !.dropped = @ + 1, !.offered = Append(@, e)]
      <3> DEFINE os == Append(notices.offered, e)
                 more == notices.dropped + 1
      <3>1. notices' = [notices EXCEPT !.dropped = more, !.offered = os]
        BY <2>9
      <3>2. os \in Seq(Entries) /\ Len(os) = Len(notices.offered) + 1 /\ more \in Nat
        BY <2>3, <2>4
      <3> HIDE DEF os, more
      <3>3. /\ notices' \in Pumps /\ notices'.queue = notices.queue /\ notices'.busy = notices.busy
            /\ notices'.delivered = notices.delivered /\ notices'.dropped = more /\ notices'.offered = os
        BY <2>3, <3>1, <3>2 DEF Pumps
      <3>4. Ahead' = Ahead
        BY <3>3 DEF Ahead
      <3>5. \A i \in DOMAIN Ahead : Ahead[i].n <= Len(os)
        <4>1. ASSUME NEW i \in DOMAIN Ahead PROVE Ahead[i].n <= Len(os)
          <5>1. Ahead[i] \in Entries
            BY <2>5, ElementOfSeq, LenProperties
          <5>2. Ahead[i].n \in Nat
            BY <5>1 DEF Entries
          <5> QED
            BY <2>4, <2>6, <3>2, <5>2
        <4> QED
          BY <4>1
      <3>6. Rising(Ahead)' /\ (\A i \in DOMAIN Ahead : Ahead[i].n <= Len(notices.offered))'
        BY <2>6, <3>3, <3>4, <3>5 DEF Rising
      <3>7. Len(Ahead') + notices'.dropped = Len(notices'.offered)
        BY <2>3, <2>4, <2>5, <2>6, <3>2, <3>3, <3>4 DEF more
      <3> QED
        BY <2>3, <3>3, <3>6, <3>7 DEF NoticeInv
    <2> QED
      BY <1>2, <2>7, <2>8, <2>9 DEF EnqueueNotice
  <1> QED
    BY <1>1, <1>2 DEF DispatchNotification

LEMMA PumpKeepsNotices == ASSUME NoticeInv, PumpTakes \/ PumpDone PROVE NoticeInv'
  <1>1. /\ notices \in Pumps /\ notices.queue \in Seq(Entries) /\ notices.busy \in Seq(Entries)
        /\ notices.delivered \in Seq(Entries) /\ notices.offered \in Seq(Entries) /\ notices.dropped \in Nat
        /\ Len(notices.busy) <= 1
    BY DEF NoticeInv, Pumps
  <1>2. /\ Rising(Ahead) /\ \A i \in DOMAIN Ahead : Ahead[i].n <= Len(notices.offered)
        /\ Len(Ahead) + notices.dropped = Len(notices.offered)
    BY DEF NoticeInv
  <1>3. ASSUME NEW ds \in Seq(Entries), NEW bs \in Seq(Entries), NEW qs \in Seq(Entries), Len(bs) <= 1,
               notices' = [notices EXCEPT !.busy = bs, !.queue = qs, !.delivered = ds],
               ds \o bs \o qs = Ahead
        PROVE  NoticeInv'
    <2>1. /\ notices' \in Pumps /\ notices'.queue = qs /\ notices'.busy = bs
          /\ notices'.delivered = ds /\ notices'.dropped = notices.dropped /\ notices'.offered = notices.offered
      BY <1>1, <1>3 DEF Pumps
    <2>2. Ahead' = Ahead
      BY <1>3, <2>1 DEF Ahead
    <2> QED
      BY <1>2, <1>3, <2>1, <2>2 DEF NoticeInv, Rising
  <1>4. CASE PumpTakes
    <2> DEFINE bs == <<Head(notices.queue)>>
               qs == Tail(notices.queue)
               ds == notices.delivered
    <2>1. notices.busy = <<>> /\ notices.queue # <<>> /\ notices' = [notices EXCEPT !.busy = bs, !.queue = qs]
      BY <1>4 DEF PumpTakes
    <2>2. /\ bs \in Seq(Entries) /\ Len(bs) = 1 /\ qs \in Seq(Entries)
          /\ ds \o bs \o qs = ds \o <<>> \o notices.queue
      BY <1>1, <2>1, AheadWhenTaken
    <2>3. ds \o bs \o qs = Ahead
      BY <2>1, <2>2, Zenon DEF Ahead
    <2> HIDE DEF bs, qs
    <2>4. notices' = [notices EXCEPT !.busy = bs, !.queue = qs, !.delivered = ds]
      BY <1>1, <2>1 DEF Pumps
    <2>5. ds \in Seq(Entries) /\ Len(bs) <= 1
      BY <1>1, <2>2
    <2> HIDE DEF ds
    <2> QED
      BY <1>3, <2>2, <2>3, <2>4, <2>5
  <1>5. CASE PumpDone
    <2> DEFINE ds == Append(notices.delivered, notices.busy[1])
               qs == notices.queue
    <2>1. notices.busy # <<>> /\ notices' = [notices EXCEPT !.busy = <<>>, !.delivered = ds]
      BY <1>5 DEF PumpDone
    <2>2. Len(notices.busy) = 1
      <3>1. \A s \in Seq(Entries) : s # <<>> => Len(s) \in Nat \ {0}
        BY EmptySeq
      <3>2. notices.busy \in Seq(Entries) /\ notices.busy # <<>>
        BY <1>1, <2>1
      <3>3. Len(notices.busy) \in Nat \ {0}
        BY <3>1, <3>2, Zenon
      <3>4. Len(notices.busy) <= 1
        BY DEF NoticeInv
      <3>5. \A n \in Nat \ {0} : n <= 1 => n = 1
        OBVIOUS
      <3> QED
        BY <3>3, <3>4, <3>5, Zenon
    <2>3. ds \in Seq(Entries) /\ ds \o <<>> \o qs = notices.delivered \o notices.busy \o notices.queue
      <3> DEFINE x == notices.busy[1]
      <3>1. x \in Entries /\ notices.busy = <<x>>
        <4>1. \A b \in Seq(Entries) : Len(b) = 1 => b[1] \in Entries /\ b = <<b[1]>>
          BY OneElement
        <4>2. notices.busy \in Seq(Entries)
          BY <1>1
        <4> QED
          BY <2>2, <4>1, <4>2, Zenon
      <3> HIDE DEF x
      <3>2. \A d, q \in Seq(Entries) :
               Append(d, x) \in Seq(Entries) /\ Append(d, x) \o <<>> \o q = d \o <<x>> \o q
        BY <3>1, AheadWhenDone
      <3>3. /\ Append(notices.delivered, x) \in Seq(Entries)
            /\ Append(notices.delivered, x) \o <<>> \o notices.queue
                 = notices.delivered \o notices.busy \o notices.queue
        BY <1>1, <3>1, <3>2, Zenon
      <3> QED
        BY <3>3, Zenon DEF x
    <2>4. ds \o <<>> \o qs = Ahead
      BY <2>3, Zenon DEF Ahead
    <2> HIDE DEF ds
    <2>5. notices' = [notices EXCEPT !.busy = <<>>, !.queue = qs, !.delivered = ds]
      BY <1>1, <2>1 DEF Pumps
    <2>6. <<>> \in Seq(Entries) /\ Len(<<>>) <= 1
      BY EmptySeq
    <2> QED
      BY <1>1, <1>3, <2>3, <2>4, <2>5, <2>6 DEF qs
  <1> QED
    BY <1>4, <1>5

-----------------------------------------------------------------------------
(* The host, and the questions of its server.                              *)

HostRecords ==
    [transport : {"stdio", "http"}, sampling : {"none", "handler", "llm"}, approver : BOOLEAN,
     roots : {"none", "static", "bad", "dynamic"}, elicits : BOOLEAN, option : {0, 2},
     life : {"new", "connecting", "ready", "closed", "failed"}, open : BOOLEAN, pump : BOOLEAN, inbound : BOOLEAN,
     handlers : BOOLEAN, advertised : SUBSET Methods, session : BOOLEAN, deletes : {0, 1},
     caps : {{}, {"tools"}}, rootsTold : {0, 1}]

Replies == {"none", "not_found", "shutting_down", "busy", "invalid", "denied", "result", "invalid_roots", "error", "unsupported"}
Limits == -1..3
QuestionRecords ==
    [method : Methods, reply : Replies, asked : Limits, cap : {0, 1}, used : Limits, approved : BOOLEAN]

Promised == host.advertised = ServedMethods(host) /\ Built(host)

\* The host's parts by its life, and the session ended with the transport.
Parts ==
    /\ host \in HostRecords
    /\ host.life \in {"connecting", "ready", "closed"} => Promised
    /\ host.life \in {"failed", "closed"} => ~host.open /\ ~host.pump /\ ~host.inbound
    /\ host.deletes = 1 => host.session /\ ~host.open /\ host.life \in {"failed", "closed"}
    /\ host.life = "closed" => ~host.handlers

\* A question that waits has used nothing; one not found was never advertised.
QuestionOK(q) ==
    /\ q.reply = "not_found" <=> q.method \notin host.advertised
    /\ q.reply = "none" => q.used = 0
    /\ q.used > 0 => /\ q.approved /\ host.approver /\ q.asked > 0
                     /\ q.cap > 0 => q.used <= q.cap /\ q.used <= q.asked
                     /\ q.used <= q.asked \/ q.used <= host.option

Asked ==
    /\ questions \in Seq(QuestionRecords)
    /\ questions = <<>> \/ (Promised /\ host.life # "new" /\ host.transport = "stdio")
    /\ \A i \in DOMAIN questions : QuestionOK(questions[i])
    /\ Cardinality(Running) <= MaxInflight

LEMMA PairBounds ==
    ASSUME NEW a \in Int, NEW b \in Int
    PROVE  /\ \A x \in Int : x <= a /\ x <= b => x <= Min({a, b})
           /\ \A x \in Int : x <= a \/ x <= b => x <= Max({a, b})
  <1>1. \E m \in {a, b} : \A y \in {a, b} : m <= y
    <2>1. CASE a <= b
      BY <2>1
    <2>2. CASE b <= a
      BY <2>2
    <2> QED
      BY <2>1, <2>2
  <1>2. Min({a, b}) \in {a, b}
    BY <1>1 DEF Min
  <1>3. \E m \in {a, b} : \A y \in {a, b} : m >= y
    <2>1. CASE a <= b
      BY <2>1
    <2>2. CASE b <= a
      BY <2>2
    <2> QED
      BY <2>1, <2>2
  <1>4. Max({a, b}) \in {a, b} /\ \A y \in {a, b} : Max({a, b}) >= y
    BY <1>3 DEF Max
  <1> DEFINE lo == Min({a, b})
             hi == Max({a, b})
  <1>5. lo \in {a, b} /\ hi \in {a, b} /\ hi >= a /\ hi >= b
    BY <1>2, <1>4
  <1> HIDE DEF lo, hi
  <1>6. /\ \A x \in Int : x <= a /\ x <= b => x <= lo
        /\ \A x \in Int : x <= a \/ x <= b => x <= hi
    BY <1>5
  <1> QED
    BY <1>6 DEF lo, hi

\* Whatever does not touch the configuration keeps the promise.
LEMMA SamePromise ==
    ASSUME NEW h \in HostRecords, NEW k \in HostRecords, k.transport = h.transport, k.sampling = h.sampling,
           k.approver = h.approver, k.roots = h.roots, k.elicits = h.elicits
    PROVE  ServedMethods(k) = ServedMethods(h) /\ (Built(k) <=> Built(h))
  BY DEF ServedMethods, Built

LEMMA AskedStays ==
    ASSUME Parts, Asked, questions' = questions, host' \in HostRecords,
           host'.transport = host.transport, host'.sampling = host.sampling, host'.approver = host.approver,
           host'.roots = host.roots, host'.elicits = host.elicits, host'.option = host.option,
           host'.advertised = host.advertised, host'.life # "new"
    PROVE  Asked' /\ (Promised' <=> Promised)
  <1>1. host \in HostRecords
    BY DEF Parts
  <1>2. ServedMethods(host') = ServedMethods(host) /\ (Built(host') <=> Built(host))
    BY <1>1, SamePromise
  <1>3. Promised' <=> Promised
    BY <1>2, Zenon DEF Promised
  <1>4. Running' = Running
    BY Zenon DEF Running
  <1>5. \A q \in QuestionRecords : QuestionOK(q)' <=> QuestionOK(q)
    BY DEF QuestionOK
  <1>6. \A i \in DOMAIN questions : questions[i] \in QuestionRecords
    BY LenProperties, ElementOfSeq DEF Asked
  <1> QED
    BY <1>3, <1>4, <1>5, <1>6 DEF Asked

\* The host's own steps.
LEMMA HostSteps ==
    ASSUME Parts, Asked, NewClient \/ CaptureSessionID \/ Initialize \/ CloseInternal \/ RootsChanged
    PROVE  Parts' /\ Asked'
  <1>1. host \in HostRecords /\ questions' = questions
    BY DEF Parts, NewClient, CaptureSessionID, Initialize, CloseInternal, RootsChanged
  <1>2. CASE NewClient /\ Built(host)
    <2> DEFINE served == ServedMethods(host)
    <2>1. host.life = "new" /\ host' = [host EXCEPT !.life = "connecting", !.advertised = served]
      BY <1>2 DEF NewClient, CapabilitiesFor
    <2>2. served \in SUBSET Methods
      BY DEF ServedMethods
    <2> HIDE DEF served
    <2>3. /\ host' \in HostRecords /\ host'.transport = host.transport /\ host'.sampling = host.sampling
          /\ host'.approver = host.approver /\ host'.roots = host.roots /\ host'.elicits = host.elicits
          /\ host'.life = "connecting" /\ host'.advertised = served /\ host'.deletes = host.deletes
      BY <1>1, <2>1, <2>2 DEF HostRecords
    <2>4. ServedMethods(host') = served /\ (Built(host') <=> Built(host))
      BY <1>1, <2>3, SamePromise DEF served
    <2>5. Promised'
      BY <1>2, <2>3, <2>4, Zenon DEF Promised
    <2>6. Parts'
      BY <2>1, <2>3, <2>5 DEF Parts
    <2>7. questions = <<>>
      BY <2>1 DEF Asked
    <2>8. Running = {} /\ Running' = {} /\ DOMAIN questions = {}
      BY <1>1, <2>7 DEF Running
    <2> QED
      BY <1>1, <2>6, <2>7, <2>8 DEF Asked
  <1>3. CASE host' = Abandoned /\ host.life \in {"new", "connecting"}
    <2> DEFINE d == host.deletes + IF host.session THEN 1 ELSE 0
    <2>1. host.deletes = 0
      BY <1>1, <1>3 DEF Parts, HostRecords
    <2>2. d \in {0, 1} /\ (d = 1 => host.session)
      BY <2>1
    <2>3. host' = [host EXCEPT !.life = "failed", !.open = FALSE, !.pump = FALSE, !.inbound = FALSE, !.deletes = d]
      BY <1>3, <2>1 DEF Abandoned
    <2> HIDE DEF d
    <2>4. /\ host' \in HostRecords /\ host'.transport = host.transport /\ host'.sampling = host.sampling
          /\ host'.approver = host.approver /\ host'.roots = host.roots /\ host'.elicits = host.elicits
          /\ host'.option = host.option /\ host'.advertised = host.advertised
          /\ host'.life = "failed" /\ ~host'.open /\ ~host'.pump /\ ~host'.inbound /\ host'.deletes = d
          /\ host'.session = host.session
      BY <1>1, <2>2, <2>3 DEF HostRecords
    <2>5. Asked'
      BY <1>1, <2>4, AskedStays
    <2>6. Parts'
      BY <2>2, <2>4 DEF Parts
    <2> QED
      BY <2>5, <2>6
  <1>4. CASE CaptureSessionID
    <2>1. host.life \notin {"new", "failed"} /\ host' = [host EXCEPT !.session = TRUE]
      BY <1>4 DEF CaptureSessionID
    <2>2. /\ host' \in HostRecords /\ host'.transport = host.transport /\ host'.sampling = host.sampling
          /\ host'.approver = host.approver /\ host'.roots = host.roots /\ host'.elicits = host.elicits
          /\ host'.option = host.option /\ host'.advertised = host.advertised /\ host'.life = host.life
          /\ host'.open = host.open /\ host'.pump = host.pump /\ host'.inbound = host.inbound
          /\ host'.handlers = host.handlers /\ host'.deletes = host.deletes /\ host'.session
      BY <1>1, <2>1 DEF HostRecords
    <2>3. Asked' /\ (Promised' <=> Promised)
      BY <1>1, <2>1, <2>2, AskedStays
    <2> QED
      BY <2>2, <2>3 DEF Parts
  <1>5. CASE Initialize /\ host' # Abandoned
    <2>1. PICK caps \in {{}, {"tools"}} : host' = [host EXCEPT !.life = "ready", !.caps = caps]
      BY <1>5 DEF Initialize
    <2>2. host.life = "connecting"
      BY <1>5 DEF Initialize
    <2>3. /\ host' \in HostRecords /\ host'.transport = host.transport /\ host'.sampling = host.sampling
          /\ host'.approver = host.approver /\ host'.roots = host.roots /\ host'.elicits = host.elicits
          /\ host'.option = host.option /\ host'.advertised = host.advertised /\ host'.life = "ready"
          /\ host'.deletes = host.deletes
      BY <1>1, <2>1 DEF HostRecords
    <2>4. Asked' /\ (Promised' <=> Promised)
      BY <1>1, <2>3, AskedStays
    <2> QED
      BY <2>2, <2>3, <2>4 DEF Parts
  <1>6. CASE CloseInternal
    <2> DEFINE d == host.deletes + IF host.session /\ host.open THEN 1 ELSE 0
    <2>1. d \in {0, 1} /\ (d = 1 => host.session)
      BY <1>1 DEF Parts, HostRecords
    <2>2. /\ host.life \in {"ready", "closed"}
          /\ host' = [host EXCEPT !.life = "closed", !.open = FALSE, !.pump = FALSE, !.inbound = FALSE,
                                  !.handlers = FALSE, !.deletes = d]
      BY <1>6 DEF CloseInternal
    <2> HIDE DEF d
    <2>3. /\ host' \in HostRecords /\ host'.transport = host.transport /\ host'.sampling = host.sampling
          /\ host'.approver = host.approver /\ host'.roots = host.roots /\ host'.elicits = host.elicits
          /\ host'.option = host.option /\ host'.advertised = host.advertised
          /\ host'.life = "closed" /\ ~host'.open /\ ~host'.pump /\ ~host'.inbound /\ ~host'.handlers
          /\ host'.deletes = d /\ host'.session = host.session
      BY <1>1, <2>1, <2>2 DEF HostRecords
    <2>4. Asked' /\ (Promised' <=> Promised)
      BY <1>1, <2>3, AskedStays
    <2> QED
      BY <2>1, <2>2, <2>3, <2>4 DEF Parts
  <1>7. CASE RootsChanged
    <2>1. host.life = "ready" /\ (host' = host \/ host' = [host EXCEPT !.rootsTold = 1])
      BY <1>7 DEF RootsChanged
    <2>2. /\ host' \in HostRecords /\ host'.transport = host.transport /\ host'.sampling = host.sampling
          /\ host'.approver = host.approver /\ host'.roots = host.roots /\ host'.elicits = host.elicits
          /\ host'.option = host.option /\ host'.advertised = host.advertised /\ host'.life = host.life
          /\ host'.deletes = host.deletes
      BY <1>1, <2>1 DEF HostRecords
    <2>3. Asked' /\ (Promised' <=> Promised)
      BY <1>1, <2>1, <2>2, AskedStays
    <2> QED
      BY <2>1, <2>2, <2>3 DEF Parts
  <1> QED
    BY <1>2, <1>3, <1>4, <1>5, <1>6, <1>7 DEF NewClient, Initialize

LEMMA RunningIsFinite == ASSUME Asked PROVE IsFiniteSet(Running) /\ Running \subseteq 1..Len(questions)
  <1>1. Len(questions) \in Nat /\ DOMAIN questions = 1..Len(questions)
    BY LenProperties DEF Asked
  <1>2. Running \subseteq 1..Len(questions)
    BY <1>1 DEF Running
  <1>3. IsFiniteSet(1..Len(questions))
    BY <1>1, FS_Interval
  <1> QED
    BY <1>2, <1>3, FS_Subset

\* One more question, served or refused.
LEMMA OneMoreAsked ==
    ASSUME Asked, host' = host, Promised, host.life # "new", host.transport = "stdio",
           NEW q \in QuestionRecords, QuestionOK(q), questions' = Append(questions, q),
           q.reply = "none" => Cardinality(Running) # MaxInflight
    PROVE  Asked'
  <1> DEFINE n == Len(questions)
  <1>1. /\ n \in Nat /\ DOMAIN questions = 1..n
        /\ questions' \in Seq(QuestionRecords) /\ DOMAIN questions' = 1..n + 1
        /\ \A i \in 1..n : questions'[i] = questions[i]
        /\ questions'[n + 1] = q
    <2>1. questions \in Seq(QuestionRecords)
      BY DEF Asked
    <2>2. n \in Nat /\ DOMAIN questions = 1..n
      BY <2>1, LenProperties
    <2>3. /\ Append(questions, q) \in Seq(QuestionRecords) /\ Len(Append(questions, q)) = n + 1
          /\ \A i \in 1..n : Append(questions, q)[i] = questions[i]
          /\ Append(questions, q)[n + 1] = q
      BY <2>1, AppendProperties
    <2>4. DOMAIN Append(questions, q) = 1..n + 1
      BY <2>3, LenProperties
    <2> QED
      BY <2>2, <2>3, <2>4, Zenon
  <1>2. \A i \in DOMAIN questions : QuestionOK(questions[i])
    BY DEF Asked
  <1>3. IsFiniteSet(Running) /\ Running \subseteq 1..n /\ Cardinality(Running) <= MaxInflight
    BY RunningIsFinite DEF Asked
  <1>4. \A i \in 1..n + 1 : questions'[i] \in QuestionRecords
    BY <1>1, ElementOfSeq, LenProperties
  <1> HIDE DEF n
  <1>5. \A i \in 1..n + 1 : i = n + 1 \/ i \in 1..n
    BY <1>1
  <1>6. \A i \in 1..n + 1 : QuestionOK(questions'[i])
    BY <1>1, <1>2, <1>5, Zenon
  <1>7. \A r : QuestionOK(r)' <=> QuestionOK(r)
    BY Zenon DEF QuestionOK
  <1>8. (\A i \in DOMAIN questions : QuestionOK(questions[i]))'
    <2>1. ASSUME NEW i \in DOMAIN questions' PROVE QuestionOK(questions[i])'
      <3>1. /\ questions'[i].reply = "not_found" <=> questions'[i].method \notin host.advertised
            /\ questions'[i].reply = "none" => questions'[i].used = 0
            /\ questions'[i].used > 0 =>
                 /\ questions'[i].approved /\ host.approver /\ questions'[i].asked > 0
                 /\ questions'[i].cap > 0 => questions'[i].used <= questions'[i].cap
                                             /\ questions'[i].used <= questions'[i].asked
                 /\ questions'[i].used <= questions'[i].asked \/ questions'[i].used <= host.option
        BY <1>1, <1>6, <2>1, Zenon DEF QuestionOK
      <3> QED
        BY <3>1, Zenon DEF QuestionOK
    <2> QED
      BY <2>1
  <1>9. Cardinality(Running') <= MaxInflight
    <2>1. Cardinality(Running) \in Nat /\ MaxInflight \in Nat
      BY <1>3, FS_CardinalityType, ConstantsOfClient
    <2>2. Running' = {i \in 1..n + 1 : questions'[i].reply = "none"} /\ Running = {i \in 1..n : questions[i].reply = "none"}
      BY <1>1, Zenon DEF Running
    <2>3. CASE q.reply = "none"
      <3>1. Running' = Running \cup {n + 1} /\ n + 1 \notin Running
        <4>1. n + 1 \notin 1..n /\ n + 1 \in 1..n + 1 /\ \A i \in 1..n : i \in 1..n + 1
          BY <1>1
        <4> QED
          BY <1>1, <1>5, <2>2, <2>3, <4>1
      <3>2. Cardinality(Running') = Cardinality(Running) + 1
        BY <1>3, <3>1, FS_AddElement
      <3>3. Cardinality(Running) # MaxInflight
        BY <2>3
      <3> DEFINE c == Cardinality(Running)
      <3>4. c \in Nat /\ c <= MaxInflight /\ c # MaxInflight /\ Cardinality(Running') = c + 1
        BY <1>3, <2>1, <3>2, <3>3
      <3> HIDE DEF c
      <3> QED
        BY <2>1, <3>4
    <2>4. CASE q.reply # "none"
      <3>1. Running' = Running
        <4>1. \A i \in 1..n : i \in 1..n + 1
          BY <1>1
        <4> QED
          BY <1>1, <1>5, <2>2, <2>4, <4>1
      <3> QED
        BY <1>3, <3>1
    <2> QED
      BY <2>3, <2>4
  <1>10. Promised'
    BY Zenon DEF Promised
  <1> QED
    BY <1>1, <1>8, <1>9, <1>10 DEF Asked

\* A question that waited has its answer.
LEMMA OneAnswered ==
    ASSUME Asked, host' = host, NEW i \in Running, NEW q \in QuestionRecords, QuestionOK(q), q.reply # "none",
           questions' = [questions EXCEPT ![i] = q]
    PROVE  Asked'
  <1> DEFINE n == Len(questions)
  <1>1. /\ n \in Nat /\ DOMAIN questions = 1..n /\ i \in 1..n /\ questions # <<>>
        /\ questions' \in Seq(QuestionRecords) /\ DOMAIN questions' = 1..n
        /\ \A j \in 1..n : questions'[j] = IF j = i THEN q ELSE questions[j]
    <2>1. questions \in Seq(QuestionRecords)
      BY DEF Asked
    <2>2. n \in Nat /\ DOMAIN questions = 1..n
      BY <2>1, LenProperties
    <2>3. i \in 1..n
      BY RunningIsFinite
    <2>4. questions # <<>>
      BY <2>2, <2>3
    <2>5. /\ [questions EXCEPT ![i] = q] \in Seq(QuestionRecords) /\ Len([questions EXCEPT ![i] = q]) = n
          /\ \A j \in 1..n : [questions EXCEPT ![i] = q][j] = IF j = i THEN q ELSE questions[j]
      BY <2>1, <2>3, ExceptSeq
    <2>6. DOMAIN [questions EXCEPT ![i] = q] = 1..n
      BY <2>5, LenProperties
    <2> QED
      BY <2>2, <2>3, <2>4, <2>5, <2>6, Zenon
  <1>2. \A j \in DOMAIN questions : QuestionOK(questions[j])
    BY DEF Asked
  <1>3. IsFiniteSet(Running) /\ Cardinality(Running) <= MaxInflight
    BY RunningIsFinite DEF Asked
  <1> HIDE DEF n
  <1>4. \A j \in 1..n : QuestionOK(questions'[j])
    BY <1>1, <1>2, Zenon
  <1>5. (\A j \in DOMAIN questions : QuestionOK(questions[j]))'
    <2>1. ASSUME NEW j \in DOMAIN questions' PROVE QuestionOK(questions[j])'
      <3>1. /\ questions'[j].reply = "not_found" <=> questions'[j].method \notin host.advertised
            /\ questions'[j].reply = "none" => questions'[j].used = 0
            /\ questions'[j].used > 0 =>
                 /\ questions'[j].approved /\ host.approver /\ questions'[j].asked > 0
                 /\ questions'[j].cap > 0 => questions'[j].used <= questions'[j].cap
                                             /\ questions'[j].used <= questions'[j].asked
                 /\ questions'[j].used <= questions'[j].asked \/ questions'[j].used <= host.option
        BY <1>1, <1>4, <2>1, Zenon DEF QuestionOK
      <3> QED
        BY <3>1, Zenon DEF QuestionOK
    <2> QED
      BY <2>1
  <1>6. Cardinality(Running') <= MaxInflight
    <2>1. Running' \subseteq Running
      BY <1>1 DEF Running
    <2>2. Cardinality(Running') <= Cardinality(Running) /\ IsFiniteSet(Running')
      BY <1>3, <2>1, FS_Subset
    <2> DEFINE c == Cardinality(Running)
               d == Cardinality(Running')
    <2>3. c \in Nat /\ d \in Nat /\ MaxInflight \in Nat /\ c <= MaxInflight /\ d <= c
      BY <1>3, <2>2, FS_CardinalityType, ConstantsOfClient
    <2> HIDE DEF c, d
    <2>4. d <= MaxInflight
      BY <2>3
    <2> QED
      BY <2>4 DEF d
  <1>7. Promised' /\ host'.life # "new" /\ host'.transport = "stdio"
    BY <1>1, Zenon DEF Promised, Asked
  <1> QED
    BY <1>1, <1>5, <1>6, <1>7 DEF Asked

LEMMA DispatchKeepsAsked == ASSUME Parts, Asked, NEW m \in Methods, DispatchRequest(m) PROVE Parts' /\ Asked'
  <1>1. /\ UNCHANGED host /\ host \in HostRecords /\ host.life # "new" /\ host.transport = "stdio" /\ Promised
    BY DEF DispatchRequest, SupportsInbound, Parts
  <1>2. \E q \in QuestionRecords :
          /\ questions' = Append(questions, q) /\ q.method = m /\ q.used = 0
          /\ q.reply = "not_found" <=> m \notin ServedMethods(host)
          /\ q.reply = "none" => Cardinality(Running) # MaxInflight
    <2> DEFINE old == Question(m)
    <2>1. old \in QuestionRecords /\ old.method = m /\ old.used = 0 /\ old.reply = "none"
      BY DEF Question, QuestionRecords, Replies, Limits
    <2> HIDE DEF old
    <2>2. CASE /\ questions' = Append(questions, old) /\ m \in ServedMethods(host)
               /\ Cardinality(Running) # MaxInflight
      BY <2>1, <2>2
    <2>3. ASSUME NEW r \in {"not_found", "shutting_down", "busy"}, questions' = Append(questions, [old EXCEPT !.reply = r]),
                 r = "not_found" <=> m \notin ServedMethods(host)
          PROVE  \E q \in QuestionRecords :
                   /\ questions' = Append(questions, q) /\ q.method = m /\ q.used = 0
                   /\ q.reply = "not_found" <=> m \notin ServedMethods(host)
                   /\ q.reply = "none" => Cardinality(Running) # MaxInflight
      <3> DEFINE q == [old EXCEPT !.reply = r]
      <3>1. r \in Replies
        BY DEF Replies
      <3>2. q \in QuestionRecords /\ q.method = m /\ q.used = 0 /\ q.reply = r
        BY <2>1, <3>1 DEF QuestionRecords
      <3>3. questions' = Append(questions, q)
        BY <2>3
      <3> HIDE DEF q
      <3> QED
        BY <2>3, <3>2, <3>3
    <2>4. \/ questions' = Append(questions, old) /\ m \in ServedMethods(host) /\ Cardinality(Running) # MaxInflight
          \/ \E r \in {"not_found", "shutting_down", "busy"} :
               questions' = Append(questions, [old EXCEPT !.reply = r]) /\ (r = "not_found" <=> m \notin ServedMethods(host))
      BY DEF DispatchRequest, RefusedQuestion, old
    <2> QED
      BY <2>2, <2>3, <2>4
  <1>3. PICK q \in QuestionRecords :
          /\ questions' = Append(questions, q) /\ q.method = m /\ q.used = 0
          /\ q.reply = "not_found" <=> m \notin ServedMethods(host)
          /\ q.reply = "none" => Cardinality(Running) # MaxInflight
    BY <1>2
  <1>4. QuestionOK(q)
    BY <1>1, <1>3 DEF QuestionOK, Promised
  <1>5. Asked'
    BY <1>1, <1>3, <1>4, OneMoreAsked
  <1> QED
    BY <1>1, <1>5, Zenon DEF Parts, Promised

\* What becomes of a question the model is asked with.
LEMMA SamplingIsBounded ==
    ASSUME Parts, Asked, Promised, NEW i \in Running, questions[i].method = "sampling",
           questions[i] \in QuestionRecords, QuestionOK(questions[i]), ServeSampling(i)
    PROVE  \E q \in QuestionRecords : q.reply # "none" /\ QuestionOK(q) /\ questions' = [questions EXCEPT ![i] = q]
  <1> DEFINE old == questions[i]
  <1>1. /\ old \in QuestionRecords /\ old.reply = "none" /\ old.method = "sampling" /\ old.used = 0
        /\ "sampling" \in host.advertised /\ host.approver /\ host.option \in {0, 2}
    <2>1. old.reply = "none"
      BY DEF Running
    <2>2. old.used = 0 /\ old.method \in host.advertised
      BY <2>1 DEF QuestionOK
    <2>3. host.approver
      BY <2>2 DEF Promised, ServedMethods, Built
    <2>4. host.option \in {0, 2}
      BY DEF Parts, HostRecords
    <2> QED
      BY <2>1, <2>2, <2>3, <2>4
  <1>2. CASE \E tokens \in {-1, 0} : AnsweredQuestion(i, [questions[i] EXCEPT !.reply = "invalid", !.asked = tokens])
    <2>1. PICK tokens \in {-1, 0} : questions' = [questions EXCEPT ![i] = [old EXCEPT !.reply = "invalid", !.asked = tokens]]
      BY <1>2 DEF AnsweredQuestion
    <2> DEFINE q == [old EXCEPT !.reply = "invalid", !.asked = tokens]
    <2>2. questions' = [questions EXCEPT ![i] = q]
      BY <2>1
    <2> HIDE DEF old
    <2>5. tokens \in Limits /\ "invalid" \in Replies
      BY DEF Limits, Replies
    <2>3. q \in QuestionRecords /\ q.reply = "invalid" /\ q.method = "sampling" /\ q.used = 0
      BY <1>1, <2>5 DEF QuestionRecords
    <2> HIDE DEF q
    <2>4. QuestionOK(q)
      BY <1>1, <2>3 DEF QuestionOK
    <2> QED
      BY <2>2, <2>3, <2>4
  <1>3. CASE AnsweredQuestion(i, [questions[i] EXCEPT !.reply = "denied"])
    <2> DEFINE q == [old EXCEPT !.reply = "denied"]
    <2>1. questions' = [questions EXCEPT ![i] = q]
      BY <1>3 DEF AnsweredQuestion
    <2> HIDE DEF old
    <2>2. q \in QuestionRecords /\ q.reply = "denied" /\ q.method = "sampling" /\ q.used = 0
      <3>1. "denied" \in Replies
        BY DEF Replies
      <3> QED
        BY <1>1, <3>1 DEF QuestionRecords
    <2> HIDE DEF q
    <2>3. QuestionOK(q)
      BY <1>1, <2>2 DEF QuestionOK
    <2> QED
      BY <2>1, <2>2, <2>3
  <1>4. ASSUME NEW tokens \in {1, 3}, NEW cap \in {0, 1, 4}, NEW kinds,
               LET q == GateSampling(questions[i], tokens, cap)
               IN  IF host.sampling = "llm" /\ ~SamplingMessages(kinds)
                   THEN AnsweredQuestion(i, [q EXCEPT !.reply = "invalid"])
                   ELSE AnsweredQuestion(i, [q EXCEPT !.reply = "result",
                                              !.used = IF host.sampling = "llm" THEN MaxTokens(q)
                                                       ELSE IF q.cap > 0 THEN q.cap ELSE q.asked])
        PROVE  \E q \in QuestionRecords : q.reply # "none" /\ QuestionOK(q) /\ questions' = [questions EXCEPT ![i] = q]
    <2> DEFINE c == IF cap > 0 /\ cap < tokens THEN cap ELSE 0
               g == [old EXCEPT !.asked = tokens, !.approved = TRUE, !.cap = c]
               u == IF host.sampling = "llm" THEN MaxTokens(g) ELSE IF g.cap > 0 THEN g.cap ELSE g.asked
    <2>1. g = GateSampling(questions[i], tokens, cap)
      BY DEF GateSampling
    <2>2. \/ questions' = [questions EXCEPT ![i] = [g EXCEPT !.reply = "invalid"]]
          \/ questions' = [questions EXCEPT ![i] = [g EXCEPT !.reply = "result", !.used = u]]
      <3> HIDE DEF g
      <3> QED
        BY <1>4, <2>1, Zenon DEF AnsweredQuestion
    <2>3. c \in {0, 1} /\ (c > 0 => c <= tokens)
      OBVIOUS
    <2> HIDE DEF c, old
    <2>4. /\ g \in QuestionRecords /\ g.asked = tokens /\ g.approved /\ g.cap = c /\ g.used = 0
          /\ g.method = "sampling"
      <3>1. tokens \in Limits
        BY DEF Limits
      <3> QED
        BY <1>1, <2>3, <3>1 DEF QuestionRecords
    <2> HIDE DEF g
    <2>5. CASE questions' = [questions EXCEPT ![i] = [g EXCEPT !.reply = "invalid"]]
      <3> DEFINE q == [g EXCEPT !.reply = "invalid"]
      <3>1. q \in QuestionRecords /\ q.reply = "invalid" /\ q.method = "sampling" /\ q.used = 0
        <4>1. "invalid" \in Replies
          BY DEF Replies
        <4> QED
          BY <2>4, <4>1 DEF QuestionRecords
      <3>2. questions' = [questions EXCEPT ![i] = q]
        BY <2>5
      <3> HIDE DEF q
      <3>3. QuestionOK(q)
        BY <1>1, <3>1 DEF QuestionOK
      <3> QED
        BY <3>1, <3>2, <3>3
    <2>6. CASE questions' = [questions EXCEPT ![i] = [g EXCEPT !.reply = "result", !.used = u]]
      <3>1. u \in 0..3 /\ (c > 0 => u <= c /\ u <= tokens) /\ (u <= tokens \/ u <= host.option)
        <4>1. u = IF c > 0 THEN c ELSE IF host.sampling = "llm" /\ host.option > 0 THEN host.option ELSE tokens
          BY <2>4 DEF MaxTokens
        <4> HIDE DEF u
        <4> QED
          BY <1>1, <2>3, <4>1
      <3> HIDE DEF u
      <3> DEFINE q == [g EXCEPT !.reply = "result", !.used = u]
      <3>2. /\ q \in QuestionRecords /\ q.reply = "result" /\ q.method = "sampling" /\ q.used = u
            /\ q.asked = tokens /\ q.approved /\ q.cap = c
        <4>1. u \in Limits /\ "result" \in Replies
          BY <3>1 DEF Limits, Replies
        <4> QED
          BY <2>4, <4>1 DEF QuestionRecords
      <3>3. questions' = [questions EXCEPT ![i] = q]
        BY <2>6
      <3> HIDE DEF q
      <3>4. QuestionOK(q)
        BY <1>1, <3>1, <3>2 DEF QuestionOK
      <3> QED
        BY <3>2, <3>3, <3>4
    <2> QED
      BY <2>2, <2>5, <2>6
  <1> QED
    BY <1>2, <1>3, <1>4 DEF ServeSampling

LEMMA ServeKeepsAsked == ASSUME Parts, Asked, NEW i \in DOMAIN questions, ServeRequest(i) PROVE Parts' /\ Asked'
  <1>1. i \in Running /\ host' = host
    BY DEF ServeRequest
  <1>2. Promised
    <2>1. questions # <<>>
      <3>1. DOMAIN questions = 1..Len(questions) /\ Len(questions) \in Nat
        BY LenProperties DEF Asked
      <3> QED
        BY <3>1
    <2> QED
      BY <2>1 DEF Asked
  <1>3. questions[i] \in QuestionRecords
    BY ElementOfSeq, LenProperties DEF Asked
  <1>4. QuestionOK(questions[i]) /\ questions[i].reply = "none"
    BY <1>1 DEF Asked, Running
  <1>5. \E q \in QuestionRecords : q.reply # "none" /\ QuestionOK(q) /\ questions' = [questions EXCEPT ![i] = q]
    <2>1. CASE questions[i].method = "sampling" /\ ServeSampling(i)
      BY <1>1, <1>2, <1>3, <1>4, <2>1, SamplingIsBounded
    <2>2. ASSUME NEW r \in Replies \ {"none", "not_found"}, questions' = [questions EXCEPT ![i] = [questions[i] EXCEPT !.reply = r]]
          PROVE  \E q \in QuestionRecords : q.reply # "none" /\ QuestionOK(q) /\ questions' = [questions EXCEPT ![i] = q]
      <3> DEFINE old == questions[i]
                 q == [old EXCEPT !.reply = r]
      <3>1. old \in QuestionRecords /\ old.used = 0 /\ old.method \in host.advertised
        BY <1>3, <1>4 DEF QuestionOK
      <3>2. questions' = [questions EXCEPT ![i] = q]
        BY <2>2
      <3> HIDE DEF old
      <3>3. q \in QuestionRecords /\ q.reply = r /\ q.used = 0 /\ q.method = old.method
        BY <3>1 DEF QuestionRecords
      <3> HIDE DEF q
      <3>4. QuestionOK(q) /\ q.reply # "none"
        BY <2>2, <3>1, <3>3 DEF QuestionOK
      <3> QED
        BY <3>2, <3>3, <3>4
    <2>3. CASE ~(questions[i].method = "sampling" /\ ServeSampling(i))
      <3>1. PICK r \in {"result", "invalid_roots", "error", "invalid", "unsupported"} :
               AnsweredQuestion(i, [questions[i] EXCEPT !.reply = r])
        BY <2>3 DEF ServeRequest, ServeRoots, ServeElicitation
      <3>2. r \in Replies \ {"none", "not_found"}
        BY DEF Replies
      <3> QED
        BY <2>2, <3>1, <3>2 DEF AnsweredQuestion
    <2> QED
      BY <2>1, <2>3
  <1>6. Asked'
    BY <1>1, <1>5, OneAnswered
  <1> QED
    BY <1>1, <1>6, Zenon DEF Parts, Promised

-----------------------------------------------------------------------------
(* Everything the client says.                                             *)

ClientInv == Parts /\ Asked /\ NoticeInv /\ PagingInv

LEMMA ClientStarts == ASSUME ClientInit PROVE ClientInv
  <1>1. notices = NoNotices /\ paging = NoPaging /\ questions = <<>>
    BY DEF ClientInit
  <1>2. PICK h \in Hosts :
          \/ host = NewHost(h)
          \/ host = [NewHost(h) EXCEPT !.life = "ready"] /\ ServedMethods(host) = {} /\ Built(host)
    <2>1. CASE \E h \in Hosts : host = NewHost(h)
      BY <2>1, Zenon
    <2>2. ASSUME NEW t \in {"stdio", "http"}, host = [NewHost([Quiet EXCEPT !.transport = t]) EXCEPT !.life = "ready"]
          PROVE  \E h \in Hosts : host = [NewHost(h) EXCEPT !.life = "ready"] /\ ServedMethods(host) = {} /\ Built(host)
      <3> DEFINE h == [Quiet EXCEPT !.transport = t]
      <3>1. h \in Hosts
        <4> DEFINE Configs == [transport : {"stdio", "http"}, sampling : {"none", "handler", "llm"},
                               approver : BOOLEAN, roots : {"none", "static", "bad", "dynamic"}, elicits : BOOLEAN,
                               option : {0, 2}]
        <4>1. Quiet \in Configs /\ Quiet.option = 0
          BY DEF Quiet
        <4>2. h \in Configs /\ h.option = 0
          BY <4>1
        <4>3. Hosts = {k \in Configs : k.option > 0 => k.sampling = "llm" /\ k.roots = "none"}
          BY Zenon DEF Hosts
        <4> HIDE DEF h, Configs
        <4> QED
          BY <4>2, <4>3
      <3>2. host = [NewHost(h) EXCEPT !.life = "ready"]
        BY <2>2
      <3>3. host.sampling = "none" /\ host.roots = "none" /\ ~host.elicits
        BY <2>2 DEF NewHost, Quiet
      <3>4. ServedMethods(host) = {} /\ Built(host)
        BY <3>3 DEF ServedMethods, Built
      <3> QED
        BY <3>1, <3>2, <3>4
    <2> QED
      BY <2>1, <2>2 DEF ClientInit
  <1>3. Parts
    <2>1. host \in HostRecords
      <3>1. /\ h.transport \in {"stdio", "http"} /\ h.sampling \in {"none", "handler", "llm"}
            /\ h.approver \in BOOLEAN /\ h.roots \in {"none", "static", "bad", "dynamic"}
            /\ h.elicits \in BOOLEAN /\ h.option \in {0, 2}
        BY DEF Hosts
      <3>2. NewHost(h) \in HostRecords
        BY <3>1 DEF NewHost, HostRecords
      <3>3. [NewHost(h) EXCEPT !.life = "ready"] \in HostRecords
        BY <3>2 DEF HostRecords
      <3> QED
        BY <1>2, <3>2, <3>3
    <2>2. \/ host.life = "new"
          \/ host.life = "ready" /\ host.advertised = {} /\ ServedMethods(host) = {} /\ Built(host)
      <3>1. CASE host = NewHost(h)
        BY <3>1 DEF NewHost
      <3>2. CASE host = [NewHost(h) EXCEPT !.life = "ready"] /\ ServedMethods(host) = {} /\ Built(host)
        BY <3>2 DEF NewHost
      <3> QED
        BY <1>2, <3>1, <3>2
    <2>3. host.deletes = 0
      BY <1>2 DEF NewHost
    <2> QED
      BY <2>1, <2>2, <2>3 DEF Parts, Promised
  <1>4. Asked
    <2>1. questions \in Seq(QuestionRecords) /\ DOMAIN questions = {} /\ Running = {}
      BY <1>1 DEF Running
    <2>2. Cardinality(Running) = 0
      BY <2>1, FS_EmptySet
    <2> QED
      BY <1>1, <2>1, <2>2, ConstantsOfClient DEF Asked
  <1>5. NoticeInv
    <2>1. Ahead = <<>>
      BY <1>1 DEF Ahead, NoNotices
    <2> QED
      BY <1>1, <2>1 DEF NoticeInv, Pumps, NoNotices, Rising
  <1>6. PagingInv
    <2>1. paging.asked = <<>> /\ paging.names = <<>> /\ paging.cursors = <<>> /\ paging.cursor = 0
      BY <1>1 DEF NoPaging
    <2>2. paging \in Pagings
      BY <1>1 DEF NoPaging, Pagings
    <2>3. Distinct(<<>>) /\ Range(<<>>) = {}
      BY DEF Distinct, Range
    <2> QED
      BY <2>1, <2>2, <2>3 DEF PagingInv
  <1> QED
    BY <1>3, <1>4, <1>5, <1>6 DEF ClientInv

LEMMA PagingStays == ASSUME PagingInv, paging' = paging, host'.transport = host.transport PROVE PagingInv'
  BY DEF PagingInv

LEMMA ClientSteps == ASSUME ClientInv, [ClientNext]_clientVars PROVE ClientInv'
  <1> USE DEF ClientInv
  <1>0. host \in HostRecords
    BY DEF Parts
  <1>1. CASE NewClient \/ CaptureSessionID \/ Initialize \/ CloseInternal \/ RootsChanged
    <2>1. notices' = notices /\ paging' = paging
      BY <1>1 DEF NewClient, CaptureSessionID, Initialize, CloseInternal, RootsChanged
    <2>2. host'.transport = host.transport
      BY <1>0, <1>1 DEF NewClient, CaptureSessionID, Initialize, CloseInternal, RootsChanged, Abandoned, HostRecords
    <2>3. NoticeInv'
      BY <2>1, NoticesStay DEF NoticeInv
    <2>4. PagingInv'
      BY <2>1, <2>2, PagingStays
    <2>5. Parts' /\ Asked'
      BY <1>1, HostSteps
    <2> QED
      BY <2>3, <2>4, <2>5
  <1>2. ASSUME NEW m \in Methods, DispatchRequest(m) PROVE ClientInv'
    <2>1. notices' = notices /\ paging' = paging /\ host' = host
      BY <1>2 DEF DispatchRequest
    <2>2. NoticeInv' /\ PagingInv'
      BY <2>1, NoticesStay, PagingStays DEF NoticeInv
    <2>3. Parts' /\ Asked'
      BY <1>2, DispatchKeepsAsked
    <2> QED
      BY <2>2, <2>3
  <1>3. ASSUME NEW i \in DOMAIN questions, ServeRequest(i) PROVE ClientInv'
    <2>1. notices' = notices /\ paging' = paging /\ host' = host
      BY <1>3 DEF ServeRequest
    <2>2. NoticeInv' /\ PagingInv'
      BY <2>1, NoticesStay, PagingStays DEF NoticeInv
    <2>3. Parts' /\ Asked'
      BY <1>3, ServeKeepsAsked
    <2> QED
      BY <2>2, <2>3
  <1>4. ASSUME host' = host, questions' = questions PROVE Parts' /\ Asked'
    <2>1. Parts'
      BY <1>4, Zenon DEF Parts, Promised
    <2>2. Asked'
      BY <1>4, Zenon DEF Asked, Promised, Running, QuestionOK
    <2> QED
      BY <2>1, <2>2
  <1>5. ASSUME NEW t \in {1, 2}, StartCall(t) \/ EndCall(t) \/ ClearProgress PROVE ClientInv'
    <2>1. host' = host /\ questions' = questions /\ paging' = paging
      BY <1>5 DEF StartCall, EndCall, ClearProgress
    <2>2. NoticeInv' /\ PagingInv'
      BY <1>5, <2>1, CallsKeepNotices, PagingStays
    <2> QED
      BY <1>4, <2>1, <2>2
  <1>6. CASE PumpTakes \/ PumpDone
    <2>1. host' = host /\ questions' = questions /\ paging' = paging
      BY <1>6 DEF PumpTakes, PumpDone
    <2>2. NoticeInv' /\ PagingInv'
      BY <1>6, <2>1, PumpKeepsNotices, PagingStays
    <2> QED
      BY <1>4, <2>1, <2>2
  <1>7. ASSUME NEW kind \in {"progress", "log"}, NEW t \in 0..2, DispatchNotification(kind, t) PROVE ClientInv'
    <2>1. host' = host /\ questions' = questions /\ paging' = paging
      BY <1>7 DEF DispatchNotification
    <2>2. NoticeInv' /\ PagingInv'
      BY <1>7, <2>1, DispatchKeepsNotices, PagingStays
    <2> QED
      BY <1>4, <2>1, <2>2
  <1>8. CASE ListTools \/ ListResources
    <2>1. host' = host /\ questions' = questions /\ notices' = notices
      BY <1>8 DEF ListTools, ListResources
    <2>2. PagingInv'
      BY <1>8, ListToolsKeeps, ListResourcesKeeps
    <2>3. NoticeInv'
      BY <2>1, NoticesStay DEF NoticeInv
    <2> QED
      BY <1>4, <2>1, <2>2, <2>3
  <1>9. CASE UNCHANGED clientVars
    <2>1. host' = host /\ questions' = questions /\ notices' = notices /\ paging' = paging
      BY <1>9 DEF clientVars
    <2>2. NoticeInv' /\ PagingInv'
      BY <2>1, NoticesStay, PagingStays DEF NoticeInv
    <2> QED
      BY <1>4, <2>1, <2>2
  <1> QED
    BY <1>1, <1>2, <1>3, <1>5, <1>6, <1>7, <1>8, <1>9 DEF ClientNext

LEMMA ClientTells == ASSUME ClientInv PROVE ClientIsTrue
  <1>1. ListingEnds
    BY DEF ClientInv, PagingInv, Distinct, ListingEnds
  <1>2. NoticesAddUp
    <2>1. /\ Rising(Ahead) /\ Len(Ahead) + notices.dropped = Len(notices.offered)
      BY DEF ClientInv, NoticeInv
    <2>2. Ahead \in Seq(Entries)
      <3>1. notices.delivered \in Seq(Entries) /\ notices.busy \in Seq(Entries) /\ notices.queue \in Seq(Entries)
        BY DEF ClientInv, NoticeInv, Pumps
      <3> QED
        BY <3>1, ConcatProperties DEF Ahead
    <2>3. \A i \in DOMAIN Ahead : Ahead[i].own <=> Ahead[i].to[1] = "call"
      <3>1. ASSUME NEW i \in DOMAIN Ahead PROVE Ahead[i].own <=> Ahead[i].to[1] = "call"
        <4>1. Ahead[i] \in Entries
          BY <2>2, ElementOfSeq, LenProperties
        <4> QED
          BY <4>1 DEF Entries
      <3> QED
        BY <3>1
    <2> QED
      BY <2>1, <2>3, Zenon DEF NoticesAddUp, Ahead, Rising
  <1>3. HostKeepsItsWord
    <2>1. host \in HostRecords /\ Parts /\ Asked
      BY DEF ClientInv, Parts
    <2>2. ASSUME host.life \in {"connecting", "ready", "closed"}
          PROVE  /\ host.advertised = ServedMethods(host)
                 /\ host.transport = "http" => host.advertised = {} /\ questions = <<>>
                 /\ host.sampling # "none" => host.approver
      BY <2>1, <2>2 DEF Parts, Asked, Promised, ServedMethods, Built
    <2>3. ASSUME NEW i \in DOMAIN questions
          PROVE  LET q == questions[i]
                 IN  /\ q.reply = "not_found" <=> q.method \notin host.advertised
                     /\ q.used > 0 => q.approved /\ host.approver /\ q.asked > 0
                                      /\ (q.cap > 0 => q.used <= Min({q.cap, q.asked}))
                                      /\ q.used <= Max({q.asked, host.option})
      <3> DEFINE q == questions[i]
      <3>1. q \in QuestionRecords
        BY <2>1, ElementOfSeq, LenProperties DEF Asked
      <3>2. QuestionOK(q)
        BY <2>1 DEF Asked
      <3> HIDE DEF q
      <3>3. q.cap \in Int /\ q.asked \in Int /\ q.used \in Int /\ host.option \in Int
        BY <2>1, <3>1 DEF QuestionRecords, HostRecords, Limits
      <3>4. q.used <= q.cap /\ q.used <= q.asked => q.used <= Min({q.cap, q.asked})
        BY <3>3, PairBounds
      <3>5. q.used <= q.asked \/ q.used <= host.option => q.used <= Max({q.asked, host.option})
        BY <3>3, PairBounds
      <3>6. /\ q.reply = "not_found" <=> q.method \notin host.advertised
            /\ q.used > 0 => q.approved /\ host.approver /\ q.asked > 0
                             /\ (q.cap > 0 => q.used <= Min({q.cap, q.asked}))
                             /\ q.used <= Max({q.asked, host.option})
        BY <3>2, <3>4, <3>5 DEF QuestionOK
      <3> QED
        BY <3>6 DEF q
    <2>4. Cardinality(Running) <= MaxInflight
      BY <2>1 DEF Asked
    <2>5. /\ host.life \in {"failed", "closed"} => ~host.open /\ ~host.pump /\ ~host.inbound
          /\ host.deletes <= 1 /\ (host.deletes = 1 => host.session)
          /\ host.life = "closed" => ~host.handlers
      BY <2>1 DEF Parts, HostRecords
    <2> QED
      BY <2>2, <2>3, <2>4, <2>5 DEF HostKeepsItsWord
  <1> QED
    BY <1>1, <1>2, <1>3 DEF ClientIsTrue

\* What the client tells its host and its server about itself is so, for any queue, any
\* number of requests at work and any number of pages: what is advertised is what is
\* served, a model is asked within what was approved, parts end with the client, notices
\* are delivered in order or counted, and a listing ends without repeating itself
\* (newClient, gateSampling, notifier.enqueue, ListTools).
THEOREM ClientIsAlwaysTrue == ClientSpec => []ClientIsTrue
  <1>1. ClientInit => ClientInv
    BY ClientStarts
  <1>2. ClientInv /\ [ClientNext]_clientVars => ClientInv'
    BY ClientSteps
  <1>3. ClientInv => ClientIsTrue
    BY ClientTells
  <1> QED
    BY <1>1, <1>2, <1>3, PTL DEF ClientSpec
=============================================================================
