------------------------------ MODULE VideoJobs ------------------------------
(***************************************************************************)
(* A video job: what the caller orders is checked and submitted, and then  *)
(* any number of goroutines Wait for it, each polling the service until    *)
(* the job ends and then fetching the result.  The job lives at the        *)
(* service and goes on meanwhile: an asset may even expire between the     *)
(* poll that saw it and the request that fetches it.  Replies travel, so   *)
(* what a poll hears is what was true when the service answered.           *)
(* "flow" is the ElevenLabs image, polled and fetched inside one call.     *)
(***************************************************************************)
EXTENDS Integers, FiniteSets

CONSTANTS Waiters, Orders
ASSUME VideoAssumption ==
    /\ IsFiniteSet(Waiters) /\ 0 \notin Waiters /\ Orders \subseteq Int \X Int

VARIABLES service,  \* whose job it is
          order,    \* the seconds of the typed option and of Extra (0: unset); <<>>: refused
          film,     \* the job, as the service knows it
          watched,  \* observedRunning: some poll saw the job running
          kept,     \* Gemini: the first terminal operation
          holder,   \* Gemini: who holds the mutex across its request
          waits, left, late  \* the Wait calls; those whose caller, whose policy gave up

filmVars == <<service, order, film, watched, kept, holder, waits, left, late>>

Services == {"openai", "openrouter", "togetherai", "zai", "gemini", "elevenlabs", "flow"}
NoFilm == [state |-> "none", moderated |-> FALSE, assets |-> FALSE, paid |-> FALSE, ran |-> FALSE]
Flows == {"elevenlabs", "flow"}
TerminalStates == {"succeeded", "failed", "cancelled", "moderated"}

\* A slip: only the typed option is looked at.
FlowAcceptsTyped(typed, extra) == typed \in 0 .. 15

\* The seconds a request carries (0: the service's choice) and what passes, service by
\* service.  A typed option beats Extra in the body, but for ElevenLabs, where Extra is
\* merged last; OpenAI sends no Extra and OpenRouter none that names a typed option.
OpenAISeconds(typed, extra) == typed
OpenAIAccepts(typed, extra) == typed \in {0, 4, 8, 12}
OpenRouterAccepts(typed, extra) == typed >= 0
EffectiveSeconds(typed, extra) == IF typed # 0 THEN typed ELSE extra
TogetherAccepts(typed, extra) == typed >= 0 /\ EffectiveSeconds(typed, extra) >= 0
ZaiAccepts(typed, extra) == {typed, EffectiveSeconds(typed, extra)} \subseteq {0, 5, 10}
GeminiSeconds(typed, extra) == IF typed = 0 THEN 8 ELSE typed
GeminiAccepts(typed, extra) == GeminiSeconds(typed, extra) \in {4, 6, 8} /\ extra = 0
FlowSeconds(typed, extra) == IF extra # 0 THEN extra ELSE typed
FlowAccepts(typed, extra) == FlowSeconds(typed, extra) \in 0 .. 15
ImageAccepts(typed, extra) == TRUE  \* an image has no seconds

WireSeconds(typed, extra) ==
    CASE service \in {"openai", "openrouter"} -> OpenAISeconds(typed, extra)
      [] service = "gemini" -> GeminiSeconds(typed, extra)
      [] service \in {"togetherai", "zai"} -> EffectiveSeconds(typed, extra)
      [] OTHER -> FlowSeconds(typed, extra)

Accepts(typed, extra) ==
    CASE service = "openai" -> OpenAIAccepts(typed, extra)
      [] service = "openrouter" -> OpenRouterAccepts(typed, extra)
      [] service = "togetherai" -> TogetherAccepts(typed, extra)
      [] service = "zai" -> ZaiAccepts(typed, extra)
      [] service = "gemini" -> GeminiAccepts(typed, extra)
      [] service = "elevenlabs" -> FlowAccepts(typed, extra)
      [] OTHER -> ImageAccepts(typed, extra)

\* What the service renders, given no seconds its default.
DefaultSeconds == 5
Wire == WireSeconds(order[1], order[2])
Rendered == IF Wire = 0 THEN DefaultSeconds ELSE Wire

VideoInit ==
    /\ service \in Services /\ order \in Orders
    /\ film = NoFilm /\ watched = FALSE /\ kept = NoFilm /\ holder = 0
    /\ waits = [w \in Waiters |-> [at |-> "idle", heard |-> NoFilm, answer |-> "", seconds |-> 0,
                                   stage |-> "", charged |-> FALSE]]
    /\ left = {} /\ late = {}

\* GenerateVideo: a refused order never reaches the service, and the answer to the
\* submission already counts as an observation.
SubmitVideo ==
    /\ film = NoFilm /\ order # <<>>
    /\ IF Accepts(order[1], order[2])
       THEN \E s \in {"pending", "in_progress"} :
                /\ service \in {"zai", "gemini"} => s = "in_progress"
                /\ film' = [NoFilm EXCEPT !.state = s, !.ran = s = "in_progress"]
                /\ watched' = (s = "in_progress") /\ UNCHANGED order
       ELSE order' = <<>> /\ UNCHANGED <<film, watched>>
    /\ UNCHANGED <<service, kept, holder, waits, left, late>>

\* The service goes on with the job.
Go ==
    /\ \/ film.state = "pending" /\ film' = [film EXCEPT !.state = "in_progress", !.ran = TRUE]
       \/ film.state = "in_progress"
          /\ \E a \in BOOLEAN : film' = [film EXCEPT !.state = "completed", !.assets = a]
       \/ film.state \in {"pending", "in_progress"}
          /\ \E m, p \in BOOLEAN :
                /\ m => service \notin {"togetherai", "zai"}
                /\ p => m /\ service = "openrouter"
                /\ film' = [film EXCEPT !.state = "failed", !.moderated = m, !.paid = p]
       \/ film.state \in {"pending", "in_progress"} /\ service \in {"openrouter", "togetherai"}
          /\ film' = [film EXCEPT !.state = "cancelled"]
       \/ film.state = "in_progress" /\ service # "gemini" /\ film' = [film EXCEPT !.state = "strange"]
       \/ film.state = "completed" /\ service \in {"openrouter", "gemini"}
          /\ film' = [film EXCEPT !.state = "expired"]
    /\ UNCHANGED <<service, order, watched, kept, holder, waits, left, late>>

\* What each service's words are to the SDK.  A word it does not know is a failure, but
\* for Together, where the job goes on; a moderated job is told by the reason it failed.
Failure(f) == IF f.moderated THEN "moderated" ELSE "failed"
OpenAIStatus(f) ==
    CASE f.state = "pending" -> "queued" [] f.state = "in_progress" -> "running"
      [] f.state = "completed" -> "succeeded" [] OTHER -> Failure(f)
OpenRouterStatus(f) ==
    IF f.state = "cancelled" THEN "cancelled" ELSE OpenAIStatus(f)  \* expired: failed
TogetherStatus(f) ==
    CASE f.state = "pending" -> "queued" [] f.state = "completed" -> "succeeded"
      [] f.state \in {"cancelled", "failed"} -> f.state [] OTHER -> "running"
ZaiStatus(f) ==
    CASE f.state = "in_progress" -> "running" [] f.state = "completed" -> "succeeded"
      [] OTHER -> "failed"
OperationStatus(f) ==
    CASE f.state = "in_progress" -> "running"
      [] f.state = "completed" /\ f.assets -> "succeeded"
      [] f.state = "failed" -> Failure(f) [] OTHER -> "failed"
FlowStatus(f) == OpenAIStatus(f)

Status(f) ==
    CASE service = "openai" -> OpenAIStatus(f) [] service = "openrouter" -> OpenRouterStatus(f)
      [] service = "togetherai" -> TogetherStatus(f) [] service = "zai" -> ZaiStatus(f)
      [] service = "gemini" -> OperationStatus(f) [] OTHER -> FlowStatus(f)

Stage(seen) == IF service \in {"openai", "gemini"} \/ seen THEN "output" ELSE "input"

CallerLeaves(w) ==
    /\ waits[w].at \notin {"idle", "done"} /\ left' = left \cup {w}
    /\ UNCHANGED <<service, order, film, watched, kept, holder, waits, late>>

\* Only these services let a caller configure the poll policy's own timeout.
PolicyExpires(w) ==
    /\ service \in {"gemini"} \cup Flows /\ waits[w].at \in {"start", "locking", "asking", "heard"}
    /\ late' = late \cup {w}
    /\ UNCHANGED <<service, order, film, watched, kept, holder, waits, left>>

AnsweredWait(w, answer) == waits' = [waits EXCEPT ![w].at = "done", ![w].answer = answer]
Moves(w, at) == waits' = [waits EXCEPT ![w].at = at]

\* A slip: the policy's timeout is told although the caller had left.
GivesUpLate(w) == AnsweredWait(w, IF w \in late THEN "timeout" ELSE "left")

\* pollContextError: the caller's reason to give up comes first.
GivesUp(w) == AnsweredWait(w, IF w \in left THEN "left" ELSE "timeout")

\* An image flow is waited for by the call that submitted it alone.
Wait(w) ==
    /\ film # NoFilm /\ waits[w].at = "idle" /\ Moves(w, "start")
    /\ service = "flow" => \A v \in Waiters : waits[v].at = "idle"
    /\ UNCHANGED <<service, order, film, watched, kept, holder, left, late>>

\* A round of Poll, at once or when its timer fires: the two contexts are looked at
\* before the callback, which for Gemini then waits for the mutex whatever they say.
Ask(w) ==
    /\ waits[w].at = "start"
    /\ IF w \in left \cup late THEN GivesUp(w)
       ELSE Moves(w, IF service = "gemini" THEN "locking" ELSE "asking")
    /\ UNCHANGED <<service, order, film, watched, kept, holder, left, late>>

Lock(w) ==
    /\ waits[w].at = "locking" /\ holder = 0
    /\ IF kept # NoFilm
       THEN waits' = [waits EXCEPT ![w].at = "heard", ![w].heard = kept] /\ UNCHANGED holder
       ELSE Moves(w, "asking") /\ holder' = w
    /\ UNCHANGED <<service, order, film, watched, kept, left, late>>

Unlock(w) == IF holder = w THEN 0 ELSE holder

\* The service answers, and the callback notes what it must share with the others.
Serve(w) ==
    /\ waits[w].at = "asking"
    /\ waits' = [waits EXCEPT ![w].at = "heard", ![w].heard = film]
    /\ kept' = IF service = "gemini" /\ Status(film) \in TerminalStates THEN film ELSE kept
    /\ holder' = Unlock(w)
    /\ UNCHANGED <<service, order, film, watched, left, late>>

\* The request fails, as one whose context has ended does.
AskFails(w) ==
    /\ waits[w].at = "asking"
    /\ IF w \in left \cup late THEN GivesUp(w) ELSE AnsweredWait(w, "error")
    /\ holder' = Unlock(w)
    /\ UNCHANGED <<service, order, film, watched, kept, left, late>>

\* The poll's callback returns: an end that is not a success is told at once, unless the
\* caller has left; Together and Z.AI may describe a failure as an API error instead.
HearPoll(w) ==
    LET f == waits[w].heard
        seen == watched \/ f.state = "in_progress"
        status == Status(f)
        told == [waits[w] EXCEPT !.at = "done", !.answer = status,
                    !.stage = IF status = "moderated" THEN Stage(seen) ELSE "",
                    !.charged = status = "moderated" /\ f.paid]
    IN /\ waits[w].at = "heard" /\ watched' = seen
       /\ IF status \in TerminalStates /\ w \notin left
          THEN \/ status = "succeeded" /\ Moves(w, "result")
               \/ status # "succeeded" /\ waits' = [waits EXCEPT ![w] = told]
               \/ status = "failed" /\ service \in {"togetherai", "zai"} /\ AnsweredWait(w, "error")
          ELSE IF w \in left \/ (status \notin TerminalStates /\ w \in late) THEN GivesUp(w)
          ELSE Moves(w, "start")
       /\ UNCHANGED <<service, order, film, kept, holder, left, late>>

\* Wait looks at the caller's context once more; the policy's no longer counts.
Result(w) ==
    /\ waits[w].at = "result"
    /\ IF w \in left THEN AnsweredWait(w, "left") ELSE Moves(w, "fetching")
    /\ UNCHANGED <<service, order, film, watched, kept, holder, left, late>>

\* What the ResultFns make of the job, asked for anew but for Gemini's kept operation and
\* for the image, whose last poll is used.  The usage names the seconds the service reports,
\* where it does, or the request's, or Z.AI's default; 0 is unknown.  OpenAI's does not look
\* at the state: without content, the service's error is told.
Video(seconds) == [answer |-> "video", seconds |-> seconds]
NoVideo(answer) == [answer |-> answer, seconds |-> 0]
IfThere(there, seconds) == IF there THEN Video(seconds) ELSE NoVideo("failed")

OpenAIResult(w, reported) ==
    IF film.assets THEN Video(IF reported THEN Rendered ELSE Wire) ELSE NoVideo("error")
OpenRouterResult(w, reported) == IfThere(OpenRouterStatus(film) = "succeeded" /\ film.assets, Wire)
TogetherResult(w, reported) == IfThere(TogetherStatus(film) = "succeeded" /\ film.assets,
                                       IF reported THEN Rendered ELSE Wire)
ZaiResult(w, reported) == IfThere(ZaiStatus(film) = "succeeded" /\ film.assets,
                                  IF Wire = 0 THEN DefaultSeconds ELSE Wire)
GeminiResult(w, reported) == IfThere(OperationStatus(kept) = "succeeded", Wire)
FlowResult(w, reported) ==
    IF FlowStatus(film) = "succeeded" /\ ~film.assets THEN NoVideo("error")
    ELSE IfThere(FlowStatus(film) = "succeeded", Wire)
ImageResult(w, reported) == IF waits[w].heard.assets THEN Video(0) ELSE NoVideo("error")

Fetched(w, reported) ==
    CASE service = "openai" -> OpenAIResult(w, reported)
      [] service = "openrouter" -> OpenRouterResult(w, reported)
      [] service = "togetherai" -> TogetherResult(w, reported)
      [] service = "zai" -> ZaiResult(w, reported)
      [] service = "gemini" -> GeminiResult(w, reported)
      [] service = "elevenlabs" -> FlowResult(w, reported)
      [] OTHER -> ImageResult(w, reported)

\* The requests and the downloads, any of which may fail.
Fetch(w) ==
    /\ waits[w].at = "fetching"
    /\ \/ AnsweredWait(w, IF w \in left THEN "left" ELSE "error")
       \/ \E reported \in BOOLEAN : LET r == Fetched(w, reported) IN
            waits' = [waits EXCEPT ![w].at = "done", ![w].answer = r.answer, ![w].seconds = r.seconds]
    /\ UNCHANGED <<service, order, film, watched, kept, holder, left, late>>

\* Waits share the service, Gemini's operation and whether the job was seen running.
VideoNext ==
    \/ SubmitVideo \/ Go
    \/ \E w \in Waiters :
        \/ CallerLeaves(w) \/ PolicyExpires(w) \/ Wait(w) \/ Ask(w) \/ Lock(w) \/ Serve(w)
        \/ AskFails(w) \/ HearPoll(w) \/ Result(w) \/ Fetch(w)

VideoSpec == VideoInit /\ [][VideoNext]_filmVars

-----------------------------------------------------------------------------
\* A Wait says what became of the job: no video without one, moderated, canceled and
\* charged only if the job was, its stage "output" only if it ran (OpenAI always says
\* so), a caller's leaving before the policy's timeout, and the usage the seconds rendered.
AnswersFollowTheJob ==
    \A w \in Waiters : LET a == waits[w] IN a.at = "done" =>
        /\ a.answer = "video" => film.assets /\ a.seconds \in {0, Rendered}
        /\ a.answer = "moderated" =>
            film.moderated /\ (a.stage = "output" => film.ran \/ service \in {"openai", "gemini"})
        /\ a.charged => film.paid
        /\ a.answer = "cancelled" => film.state = "cancelled"
        /\ a.answer = "failed" => film.state \notin {"pending", "in_progress"} /\ ~film.moderated
        /\ a.answer = "left" => w \in left
        /\ a.answer = "timeout" => w \in late \ left
        /\ (w \in left /\ a.heard.state \notin {"completed", "expired"}) => a.answer # "video"

\* Gemini's waits agree, although its operation may end differently when asked again.
WaitsAgree ==
    service = "gemini" =>
        \A w, v \in Waiters :
            {waits[w].answer, waits[v].answer} \subseteq {"video", "failed", "moderated"}
                => waits[w].answer = waits[v].answer

\* Whatever the options and the extras, the service is sent seconds it takes.
SecondsAreTaken ==
    film # NoFilm =>
        LET s == WireSeconds(order[1], order[2]) IN
        CASE service = "openai" -> s \in {0, 4, 8, 12} [] service = "gemini" -> s \in {4, 6, 8}
          [] service = "zai" -> s \in {0, 5, 10} [] service = "elevenlabs" -> s \in 0 .. 15
          [] service = "flow" -> TRUE [] OTHER -> s >= 0

\* However waits and replies interleave, each wait ends as the job did, and the job is of
\* a length its service takes.
JobsAreAnswered == AnswersFollowTheJob /\ WaitsAgree /\ SecondsAreTaken
=============================================================================
