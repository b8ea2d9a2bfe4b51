------------------------------ MODULE Telemetry ------------------------------
(***************************************************************************)
(* What the observability middlewares say of the requests they see:        *)
(* metrics.go with its sliding window, otel.go, otel_langfuse.go and       *)
(* logging.go.                                                             *)
(*                                                                         *)
(* Each wraps a client.  A unary request is measured around one call; a    *)
(* stream is forwarded by a goroutine, whose deferred calls settle the     *)
(* request in a fixed order: the verdict, the end of the span, the count   *)
(* of active requests, the terminal chunk if none was sent.  A verdict is  *)
(* the status of the span with the error counter, a sample of the success  *)
(* window, or the line that closes the log entry: one each, at one place.  *)
(*                                                                         *)
(* The clock: ages of the samples, up to the window.  Attributes, content  *)
(* capture and token rates are left out.                                   *)
(***************************************************************************)
EXTENDS Integers, Sequences, FiniteSets

CONSTANTS
    Requests,           \* slots, 1..n: a request uses the first free one
    MaxRequests,        \* bound on the requests
    Window,             \* windowDuration, in ticks
    Capacity            \* maxCapacity of the window

ASSUME TelemetryAssumption ==
    /\ MaxRequests \in Nat /\ IsFiniteSet(Requests) /\ Requests = 1..Cardinality(Requests)
    /\ Window \in Nat \ {0} /\ Capacity \in Nat \ {0}

Observers == {"metrics", "otel", "langfuse", "logging"}

VARIABLES
    observer,           \* the middleware under observation
    asks,               \* the requests
    activeReqsCount,    \* MetricsMiddleware.activeReqsCount
    win,                \* slidingWindow: entries, successes, failures, idle
    samples,            \* history: every sample recorded, with its age
    begun               \* requests begun

telemetryVars == <<observer, asks, activeReqsCount, win, samples, begun>>

\* told: how the request ended for its caller.  withheld: a terminal chunk that tells of a
\* failure was given up, as nobody read.  praised, blamed: its verdicts; tallies: how often
\* its usage was counted.
Fresh == [phase |-> "idle", canceled |-> FALSE, usage |-> FALSE, completed |-> FALSE,
          hadError |-> FALSE, panicked |-> FALSE, span |-> "none", told |-> "nothing", withheld |-> FALSE,
          praised |-> 0, blamed |-> 0, tallies |-> 0]

TelemetryInit ==
    /\ observer \in Observers
    /\ asks = [r \in Requests |-> Fresh]
    /\ activeReqsCount = 0
    /\ win = [entries |-> <<>>, successes |-> 0, failures |-> 0, idle |-> 0]
    /\ samples = <<>> /\ begun = 0

Phases == {"idle", "call", "generate", "leaving", "opening", "streaming", "settling",
           "settled", "ended", "inactive", "over"}
InPhase(r, phase) == asks[r].phase = phase
Free(r) == asks[r].phase \in {"idle", "over"}
Set(r, ask) == asks' = [asks EXCEPT ![r] = ask]

-----------------------------------------------------------------------------
(* The sliding window.                                                     *)

Successes(entries) == Cardinality({i \in DOMAIN entries : entries[i].ok})
Failures(entries) == Len(entries) - Successes(entries)
LiveSample(e) == e.age < Window
LiveSamples(entries) == Cardinality({i \in DOMAIN entries : LiveSample(entries[i])})
Lasts(s, n) == SubSeq(s, Len(s) - n + 1, Len(s))

\* The entries of w without the first n; the counters follow what is removed.
Drop(w, n) ==
    LET removed == SubSeq(w.entries, 1, n)
    IN [w EXCEPT !.entries = SubSeq(@, n + 1, Len(@)),
                 !.successes = @ - Successes(removed), !.failures = @ - Failures(removed)]

\* A slip: when no entry is live, none is removed, though all are discounted.
CleanupKeepingDead(w) ==
    LET dead == Len(w.entries) - LiveSamples(w.entries)
        fresh == IF dead = Len(w.entries) THEN [Drop(w, dead) EXCEPT !.entries = w.entries]
                 ELSE Drop(w, dead)
    IN [fresh EXCEPT !.idle = 0]

\* Entries are in the order of their times.  At capacity, the newer half is kept.
Cleanup(w) ==
    LET live == Drop(w, Len(w.entries) - LiveSamples(w.entries))
        kept == Capacity \div 2
        trimmed == IF Len(live.entries) >= Capacity /\ kept > 0
                   THEN Drop(live, Len(live.entries) - kept) ELSE live
    IN [trimmed EXCEPT !.idle = 0]

Record(ok) ==
    LET clean == Cleanup(win)
        room == IF Len(clean.entries) >= Capacity THEN Drop(clean, 1) ELSE clean
        sample == [ok |-> ok, age |-> 0]
    IN /\ win' = [room EXCEPT !.entries = Append(@, sample),
                              !.successes = @ + (IF ok THEN 1 ELSE 0),
                              !.failures = @ + (IF ok THEN 0 ELSE 1)]
       /\ samples' = Append(samples, sample)

SuccessRate ==
    /\ observer = "metrics" /\ 10 * win.idle > Window
    /\ win' = Cleanup(win)
    /\ UNCHANGED <<observer, asks, activeReqsCount, samples, begun>>

OneOlder(age) == IF age < Window THEN age + 1 ELSE Window
Older(s) == [i \in DOMAIN s |-> [s[i] EXCEPT !.age = OneOlder(@)]]

\* Time passes; it matters until every sample has expired.
AgeSamples ==
    /\ observer = "metrics" /\ samples # <<>> /\ samples[Len(samples)].age < Window
    /\ win' = [win EXCEPT !.entries = Older(@), !.idle = OneOlder(@)]
    /\ samples' = Older(samples)
    /\ UNCHANGED <<observer, asks, activeReqsCount, begun>>

-----------------------------------------------------------------------------
(* What every middleware does.                                             *)

HasSpan == observer # "logging"

\* One verdict on r, whose state becomes ask.
Verdict(r, ask, ok) ==
    /\ Set(r, IF ok THEN [ask EXCEPT !.praised = @ + 1] ELSE [ask EXCEPT !.blamed = @ + 1])
    /\ IF observer = "metrics" THEN Record(ok) ELSE UNCHANGED <<win, samples>>

NoVerdict(r, ask) == Set(r, ask) /\ UNCHANGED <<win, samples>>

\* The span is opened, the request counted (LogRequest), the client called.  Requests share
\* nothing but the metrics: the others have one at a time, and the metrics one stream.
Begin(r, phase) ==
    /\ Free(r) /\ begun < MaxRequests /\ \A q \in Requests : q < r => ~Free(q)
    /\ \A q \in Requests \ {r} : ~Free(q) =>
         observer = "metrics" /\ (phase = "opening" => asks[q].phase \in {"call", "generate", "leaving"})
    /\ Set(r, [Fresh EXCEPT !.phase = phase, !.span = IF HasSpan THEN "open" ELSE "none"])
    /\ activeReqsCount' = activeReqsCount + (IF observer = "metrics" THEN 1 ELSE 0)
    /\ begun' = begun + 1
    /\ UNCHANGED <<observer, win, samples>>

\* The context of a stream ends; what that does to a unary request is the client's answer.
CancelStream(r) ==
    /\ asks[r].phase \in {"streaming", "settling", "settled", "ended", "inactive"} /\ ~asks[r].canceled
    /\ Set(r, [asks[r] EXCEPT !.canceled = TRUE])
    /\ UNCHANGED <<observer, activeReqsCount, win, samples, begun>>

\* The deferred calls of a unary request, and of a stream that is not opened.
LeaveUnary(r) ==
    /\ InPhase(r, "leaving")
    /\ Set(r, [asks[r] EXCEPT !.phase = "over", !.span = IF HasSpan THEN "ended" ELSE @])
    /\ activeReqsCount' = activeReqsCount - (IF observer = "metrics" THEN 1 ELSE 0)
    /\ UNCHANGED <<observer, win, samples, begun>>

ToldOf(answer) == IF answer = "answer" THEN "success" ELSE IF answer = "panic" THEN "panic" ELSE "error"

\* A unary request is told of an error or of no answer as a failure.  A panic of the client
\* unwinds through the deferred calls, and is judged by nobody.
AnsweredUnary(r, answer, counts) ==
    LET ask == [asks[r] EXCEPT !.phase = "leaving", !.told = ToldOf(answer), !.usage = (answer = "answer"),
                               !.tallies = IF answer = "answer" /\ counts THEN 1 ELSE 0]
    IN /\ IF answer = "panic" THEN NoVerdict(r, ask) ELSE Verdict(r, ask, answer = "answer")
       /\ UNCHANGED <<observer, activeReqsCount, begun>>

\* Call of MetricsMiddleware asks for the content itself, to count the usage of every answer.
MetricsUnary(r, answer) ==
    /\ observer = "metrics" /\ (InPhase(r, "call") \/ InPhase(r, "generate"))
    /\ AnsweredUnary(r, answer, TRUE)

\* The other Calls go through llms.Call, which returns no usage.
OTelUnary(r, answer) ==
    /\ observer = "otel" /\ (InPhase(r, "call") \/ InPhase(r, "generate"))
    /\ AnsweredUnary(r, answer, InPhase(r, "generate"))

LangfuseUnary(r, answer) ==
    /\ observer = "langfuse" /\ (InPhase(r, "call") \/ InPhase(r, "generate"))
    /\ AnsweredUnary(r, answer, InPhase(r, "generate"))

\* GenerateContent of LoggingMiddleware has no case for a nil answer, and panics on it.
LoggingUnary(r, answer) ==
    /\ observer = "logging" /\ (InPhase(r, "call") \/ InPhase(r, "generate"))
    /\ AnsweredUnary(r, IF answer = "nil" /\ InPhase(r, "generate") THEN "panic" ELSE answer, InPhase(r, "generate"))

\* A slip: the call that opened the stream still counts the request out when it returns.
OpenStillOwned(r, opened) ==
    /\ InPhase(r, "opening")
    /\ IF opened THEN NoVerdict(r, [asks[r] EXCEPT !.phase = "streaming"])
       ELSE Verdict(r, [asks[r] EXCEPT !.phase = "leaving", !.told = "error"], FALSE)
    /\ activeReqsCount' = activeReqsCount - (IF opened /\ observer = "metrics" THEN 1 ELSE 0)
    /\ UNCHANGED <<observer, begun>>

\* Stream: the client refuses, has no channel, or opens one.
Open(r, opened) ==
    /\ InPhase(r, "opening")
    /\ IF opened THEN NoVerdict(r, [asks[r] EXCEPT !.phase = "streaming"])
       ELSE Verdict(r, [asks[r] EXCEPT !.phase = "leaving", !.told = "error"], FALSE)
    /\ UNCHANGED <<observer, activeReqsCount, begun>>

-----------------------------------------------------------------------------
(* The goroutine of a stream.                                              *)

\* A chunk that is forwarded.  The usage of the last chunk that has one counts.
Forward(r, usage) ==
    /\ InPhase(r, "streaming") /\ ~asks[r].completed /\ ~asks[r].canceled
    /\ NoVerdict(r, [asks[r] EXCEPT !.usage = @ \/ usage])
    /\ UNCHANGED <<observer, activeReqsCount, begun>>

\* The terminal chunk is forwarded: whatever happens now, the stream was completed.
ForwardDone(r) ==
    /\ InPhase(r, "streaming") /\ ~asks[r].completed /\ ~asks[r].canceled
    /\ NoVerdict(r, [asks[r] EXCEPT !.completed = TRUE, !.told = "success", !.usage = TRUE])
    /\ UNCHANGED <<observer, activeReqsCount, begun>>

\* An error chunk is forwarded, and judged; the rest is drained.
ForwardError(r) ==
    /\ InPhase(r, "streaming") /\ ~asks[r].completed /\ ~asks[r].canceled
    /\ Verdict(r, [asks[r] EXCEPT !.phase = "settling", !.told = "error", !.hadError = TRUE], FALSE)
    /\ UNCHANGED <<observer, activeReqsCount, begun>>

\* A chunk that cannot be sent: the context has ended, or the caller does not read in time.
\* It may read again within the timeout of the terminal chunk (DeliverTerminal); if it does
\* not, the sender may try again later.  The log line waits for the end of the goroutine.
SendFails(r, reads) ==
    LET ask == [asks[r] EXCEPT !.phase = "settling", !.hadError = TRUE,
                               !.told = IF reads THEN "error" ELSE "nothing", !.withheld = ~reads]
    IN /\ InPhase(r, "streaming") /\ ~asks[r].completed
       /\ IF HasSpan THEN Verdict(r, ask, FALSE) ELSE NoVerdict(r, ask)
       /\ UNCHANGED <<observer, activeReqsCount, begun>>

\* The goroutine panics on a chunk, and recovers in its first deferred call.
Panics(r, said) ==
    /\ InPhase(r, "streaming") /\ ~asks[r].completed /\ (said = "nothing" \/ ~asks[r].canceled)
    /\ NoVerdict(r, [asks[r] EXCEPT !.phase = "settling", !.panicked = TRUE, !.told = said])
    /\ UNCHANGED <<observer, activeReqsCount, begun>>

SourceEnds(r) ==
    /\ InPhase(r, "streaming")
    /\ NoVerdict(r, [asks[r] EXCEPT !.phase = "settling"])
    /\ UNCHANGED <<observer, activeReqsCount, begun>>

Forwards(r) ==
    \/ Open(r, TRUE) \/ Open(r, FALSE)
    \/ Forward(r, TRUE) \/ Forward(r, FALSE) \/ ForwardDone(r) \/ ForwardError(r)
    \/ SendFails(r, TRUE) \/ SendFails(r, FALSE) \/ SourceEnds(r)

\* The metrics record the time to the first token between the sending of a chunk, which may
\* be a terminal one, and noting that it was.
MetricsStream(r) ==
    observer = "metrics" /\ (Forwards(r) \/ \E said \in {"nothing", "success", "error"} : Panics(r, said))
OTelStream(r) == observer = "otel" /\ (Forwards(r) \/ Panics(r, "nothing"))
LangfuseStream(r) == observer = "langfuse" /\ (Forwards(r) \/ Panics(r, "nothing"))
\* The logger does not recover: a panic in its goroutine ends the program.
LoggingStream(r) == observer = "logging" /\ Forwards(r)

Failing(ask) == ask.panicked \/ (ask.canceled /\ ~ask.completed)

\* The terminal chunk of a recovered panic is delivered unless one was before, or nobody reads.
AfterPanic(r, reads) ==
    LET owed == asks[r].panicked /\ asks[r].told = "nothing"
    IN [asks[r] EXCEPT !.phase = "settled", !.told = IF owed /\ reads THEN "error" ELSE @,
                       !.withheld = @ \/ (owed /\ ~reads),
                       !.tallies = IF asks[r].usage THEN @ + 1 ELSE @]

\* A slip: the error that was judged in the loop is not remembered.
SettlesForgetful(r, reads) ==
    LET ask == AfterPanic(r, reads)
    IN /\ InPhase(r, "settling") /\ (reads \/ asks[r].panicked)
       /\ Verdict(r, ask, ~Failing(ask))
       /\ UNCHANGED <<observer, activeReqsCount, begun>>

\* The first deferred call: a panic is told to the caller, the usage is counted, and what is
\* not judged yet is a failure if it panicked or was canceled before it was completed.
Settles(r, reads) ==
    LET ask == AfterPanic(r, reads)
    IN /\ InPhase(r, "settling") /\ (reads \/ asks[r].panicked)
       /\ IF ask.hadError THEN NoVerdict(r, ask) ELSE Verdict(r, ask, ~Failing(ask))
       /\ UNCHANGED <<observer, activeReqsCount, begun>>

\* The span of a recovered panic or of a cancellation has its error counted with it.
MetricsSettles(r) == observer = "metrics" /\ \E reads \in BOOLEAN : Settles(r, reads)
OTelSettles(r) == observer = "otel" /\ \E reads \in BOOLEAN : Settles(r, reads)
LangfuseSettles(r) == observer = "langfuse" /\ \E reads \in BOOLEAN : Settles(r, reads)

\* The logger has judged error chunks only, without their usage; an interruption is judged
\* here, and the usage is part of the line.
LoggingSettles(r) ==
    LET ask == [asks[r] EXCEPT !.phase = "settled"]
    IN /\ observer = "logging" /\ InPhase(r, "settling")
       /\ IF ask.praised + ask.blamed > 0 THEN NoVerdict(r, ask)
          ELSE Verdict(r, [ask EXCEPT !.tallies = IF ask.usage THEN 1 ELSE 0], ~Failing(ask) /\ ~ask.hadError)
       /\ UNCHANGED <<observer, activeReqsCount, begun>>

\* The span ends, then the request is no longer active.
EndSpan(r) ==
    /\ InPhase(r, "settled")
    /\ NoVerdict(r, [asks[r] EXCEPT !.phase = "ended", !.span = IF HasSpan THEN "ended" ELSE @])
    /\ UNCHANGED <<observer, activeReqsCount, begun>>

DecrementActive(r) ==
    /\ InPhase(r, "ended")
    /\ NoVerdict(r, [asks[r] EXCEPT !.phase = "inactive"])
    /\ activeReqsCount' = activeReqsCount - (IF observer = "metrics" THEN 1 ELSE 0)
    /\ UNCHANGED <<observer, begun>>

\* EnsureTerminal: where no terminal chunk was delivered one is, if the caller reads, as its
\* context is.  It knows nothing of the verdict: a failure that was withheld may end as Done.
Close(r, reads) ==
    LET owed == asks[r].told = "nothing"
    IN /\ InPhase(r, "inactive") /\ (reads \/ owed)
       /\ NoVerdict(r, [asks[r] EXCEPT !.phase = "over",
                          !.told = IF ~owed \/ ~reads THEN @
                                   ELSE IF asks[r].canceled THEN "error" ELSE "success"])
       /\ UNCHANGED <<observer, activeReqsCount, begun>>

TelemetryNext ==
    \/ \E r \in Requests :
        \/ Begin(r, "call") \/ Begin(r, "generate") \/ Begin(r, "opening") \/ CancelStream(r) \/ LeaveUnary(r)
        \/ \E answer \in {"answer", "nil", "error", "panic"} :
            \/ MetricsUnary(r, answer) \/ OTelUnary(r, answer)
            \/ LangfuseUnary(r, answer) \/ LoggingUnary(r, answer)
        \/ MetricsStream(r) \/ OTelStream(r) \/ LangfuseStream(r) \/ LoggingStream(r)
        \/ MetricsSettles(r) \/ OTelSettles(r) \/ LangfuseSettles(r) \/ LoggingSettles(r)
        \/ EndSpan(r) \/ DecrementActive(r) \/ Close(r, TRUE) \/ Close(r, FALSE)
    \/ SuccessRate \/ AgeSamples

TelemetrySpec == TelemetryInit /\ [][TelemetryNext]_telemetryVars

-----------------------------------------------------------------------------
\* What is recorded of a request is what became of it.  A request that is over has one
\* verdict, unless a panic went through the middleware.  A caller is told of a success that was
\* judged a failure only after a panic, or where the failure was withheld from it and its
\* context still lives; of a failure that was judged a success only if it canceled between the
\* verdict and the terminal chunk of a stream that ended without one.  A failure that was
\* withheld is judged one, a completed stream is a success, and the usage is never counted
\* twice, nor missed by the metrics that are billed.  (The deferred functions of the Stream
\* methods; EnsureTerminal runs after them.)
VerdictsAreTrue ==
    \A r \in Requests : LET ask == asks[r] IN InPhase(r, "over") =>
        /\ ask.praised + ask.blamed = (IF ask.told = "panic" THEN 0 ELSE 1)
        /\ ask.told = "success" => ask.praised = 1 \/ ask.panicked \/ (ask.withheld /\ ~ask.canceled)
        /\ ask.told = "error" => ask.blamed = 1 \/ (ask.canceled /\ ~ask.completed)
        /\ ask.withheld \/ ask.panicked => ask.blamed = 1
        /\ ask.completed => ask.praised = 1 /\ ask.told = "success"
        /\ ask.tallies <= 1 /\ (observer = "metrics" => (ask.usage <=> ask.tallies = 1))

\* Who sees no request active may read every span: none is still open, as the comment in
\* MetricsMiddleware.Stream promises.
IdleMeansEnded ==
    observer = "metrics" /\ activeReqsCount = 0 => \A r \in Requests : asks[r].span # "open"

\* The window holds the latest samples: never more than its capacity, never fewer of those
\* that are live than half of it allows, and its counters count its entries.
WindowIsHonest ==
    LET n == Len(win.entries)
    IN /\ win.entries = Lasts(samples, n)
       /\ win.successes = Successes(win.entries) /\ win.failures = Failures(win.entries)
       /\ n <= Capacity /\ n >= (IF LiveSamples(samples) < Capacity \div 2 THEN LiveSamples(samples) ELSE Capacity \div 2)

\* What is recorded of the requests is so: verdicts, spans and the window.
RecordsAreTrue == VerdictsAreTrue /\ IdleMeansEnded /\ WindowIsHonest
=============================================================================
