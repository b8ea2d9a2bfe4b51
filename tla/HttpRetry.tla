------------------------------ MODULE HttpRetry ------------------------------
(***************************************************************************)
(* One request of the HTTP client (internal/httpclient/client.go): DoJSON, *)
(* DoRaw and DoMultipart, which retry with backoff and read the response   *)
(* whole, and DoStream, which does neither.                                *)
(*                                                                         *)
(* A response has a body, and a connection is lost with every body nobody  *)
(* closes.  Bodies are named by the attempt that got them.  All requests   *)
(* of the SDK can be sent again (GetBody is set).  Time is in ticks.       *)
(***************************************************************************)
EXTENDS Integers, FiniteSets, FiniteSetsExt

CONSTANTS
    MaxRetries, InitialDelay, MaxDelay,     \* RetryPolicy; the Multiplier is 2
    RetryAfters                             \* values of the Retry-After header, 0 for none

ASSUME RetryAssumption ==
    /\ MaxRetries \in Nat /\ InitialDelay \in Nat /\ MaxDelay \in Nat
    /\ 0 \in RetryAfters /\ RetryAfters \subseteq Nat

VARIABLES
    kind,               \* "whole" or "stream"
    ctxDone,            \* the caller's context has ended
    stage,              \* "check", "sleep", "send", "response" or "returned"
    attempt,            \* from 0
    retryAfter, delay, slept,
    lastErr,            \* "none", "transport" or "status"
    open,               \* attempts whose response body is not closed
    status,             \* of the last response: "ok", "retryable", "refused"; or "none"
    told,               \* history: Retry-After of the last answer
    answer              \* what the request returned

waitVars == <<retryAfter, delay, slept>>
responseVars == <<open, status, told>>
requestVars == <<kind, ctxDone, stage, attempt, waitVars, lastErr, responseVars, answer>>

\* DoJSON, DoRaw, DoBinary and DoMultipart read a response whole, DoStream does not.
Kinds == {"whole", "stream"}

\* The status of a response: below 400, one of the policy's that IsRetryable also
\* takes for transient, or another error.
Statuses == {"ok", "retryable", "refused"}

Init ==
    /\ kind \in Kinds
    /\ stage = IF kind = "whole" THEN "check" ELSE "send"
    /\ ctxDone = FALSE /\ attempt = 0
    /\ retryAfter = 0 /\ delay = 0 /\ slept = 0 /\ told = 0
    /\ lastErr = "none" /\ open = {} /\ status = "none" /\ answer = "none"

Return(with) ==
    /\ stage' = "returned" /\ answer' = with

-----------------------------------------------------------------------------
(* Backoff.                                                                *)

GetDelay(n) == Min({InitialDelay * 2^(n - 1), MaxDelay})

\* jitterDelay: half is fixed, half is random.
Jittered(d) == (d \div 2)..(2 * (d \div 2))

\* The longer of the backoff and what the server asks for, but not over MaxDelay.
Delays ==
    {LET wanted == Max({backoff, retryAfter})
     IN  IF MaxDelay > 0 THEN Min({wanted, MaxDelay}) ELSE wanted
        : backoff \in Jittered(GetDelay(attempt))}

\* A slip: the Retry-After of an answer is used for all later attempts.
CheckKeepingRetryAfter ==
    /\ stage = "check" /\ attempt <= MaxRetries /\ ~ctxDone
    /\ IF attempt = 0 THEN stage' = "send" /\ UNCHANGED delay
       ELSE stage' = "sleep" /\ delay' \in Delays
    /\ slept' = 0
    /\ UNCHANGED <<kind, ctxDone, attempt, retryAfter, lastErr, responseVars, answer>>

\* The head of the loop.
Check ==
    /\ stage = "check" /\ attempt <= MaxRetries /\ ~ctxDone
    /\ IF attempt = 0 THEN stage' = "send" /\ UNCHANGED <<delay, retryAfter>>
       ELSE stage' = "sleep" /\ delay' \in Delays /\ retryAfter' = 0
    /\ slept' = 0
    /\ UNCHANGED <<kind, ctxDone, attempt, lastErr, responseVars, answer>>

Exhausted ==
    /\ stage = "check" /\ attempt > MaxRetries
    /\ Return("exhausted")
    /\ UNCHANGED <<kind, ctxDone, attempt, waitVars, lastErr, responseVars>>

\* The loop tests the context, and the sleep selects on it.
Canceled ==
    /\ ctxDone
    /\ (stage = "check" /\ attempt <= MaxRetries) \/ stage = "sleep"
    /\ Return("canceled")
    /\ UNCHANGED <<kind, ctxDone, attempt, waitVars, lastErr, responseVars>>

Sleep ==
    /\ stage = "sleep" /\ slept < delay
    /\ slept' = slept + 1
    /\ UNCHANGED <<kind, ctxDone, stage, attempt, retryAfter, delay, lastErr, responseVars, answer>>

Wake ==
    /\ stage = "sleep" /\ slept = delay
    /\ stage' = "send"
    /\ UNCHANGED <<kind, ctxDone, attempt, waitVars, lastErr, responseVars, answer>>

-----------------------------------------------------------------------------
(* One attempt.                                                            *)

\* A slip: an attempt without a response is not counted.
NoResponseUncounted ==
    /\ stage = "send"
    /\ status' = "none" /\ told' = 0
    /\ \/ (ctxDone \/ kind = "whole") /\ Return("canceled") /\ UNCHANGED lastErr
       \/ ~ctxDone /\ kind = "stream" /\ Return("transportError") /\ UNCHANGED lastErr
       \/ ~ctxDone /\ kind = "whole" /\ lastErr' = "transport" /\ stage' = "check"
          /\ UNCHANGED answer
    /\ UNCHANGED <<kind, ctxDone, attempt, waitVars, open>>

\* No response: the context has ended, the client's own timeout has, or the
\* network failed, which alone is worth another attempt.
NoResponse ==
    /\ stage = "send"
    /\ status' = "none" /\ told' = 0
    /\ \/ (ctxDone \/ kind = "whole") /\ Return("canceled")
          /\ UNCHANGED <<attempt, lastErr>>
       \/ ~ctxDone /\ kind = "stream" /\ Return("transportError")
          /\ UNCHANGED <<attempt, lastErr>>
       \/ ~ctxDone /\ kind = "whole"
          /\ lastErr' = "transport" /\ attempt' = attempt + 1 /\ stage' = "check"
          /\ UNCHANGED answer
    /\ UNCHANGED <<kind, ctxDone, waitVars, open>>

\* A slip: an answer that is not used is not closed.
RespondLeavingOpen(code, after) ==
    /\ stage = "send"
    /\ status' = code /\ told' = after
    /\ open' = open \cup {attempt}
    /\ IF kind = "whole" /\ code = "retryable" /\ attempt < MaxRetries
       THEN /\ retryAfter' = after /\ lastErr' = "status"
            /\ attempt' = attempt + 1 /\ stage' = "check"
       ELSE /\ stage' = "response"
            /\ UNCHANGED <<retryAfter, lastErr, attempt>>
    /\ UNCHANGED <<kind, ctxDone, delay, slept, answer>>

\* A response.  One worth retrying is drained and closed, but the last is kept,
\* so that the caller learns what the provider said.
Respond(code, after) ==
    /\ stage = "send"
    /\ status' = code /\ told' = after
    /\ IF kind = "whole" /\ code = "retryable" /\ attempt < MaxRetries
       THEN /\ retryAfter' = after /\ lastErr' = "status"
            /\ attempt' = attempt + 1 /\ stage' = "check"
            /\ UNCHANGED open
       ELSE /\ open' = open \cup {attempt} /\ stage' = "response"
            /\ UNCHANGED <<retryAfter, lastErr, attempt>>
    /\ UNCHANGED <<kind, ctxDone, delay, slept, answer>>

\* An error response is read for what the provider says, and closed.
ApiError ==
    /\ stage = "response" /\ status # "ok"
    /\ Return("apiError")
    /\ open' = open \ {attempt}
    /\ UNCHANGED <<kind, ctxDone, attempt, waitVars, lastErr, status, told>>

\* A body read whole is closed, also if it breaks off, is too large or empty.
ReadWhole ==
    /\ stage = "response" /\ status = "ok" /\ kind = "whole"
    /\ \E read \in {"ok", "unreadable"} : Return(read)
    /\ open' = open \ {attempt}
    /\ UNCHANGED <<kind, ctxDone, attempt, waitVars, lastErr, status, told>>

\* The body of a stream is the caller's.
HandOver ==
    /\ stage = "response" /\ status = "ok" /\ kind = "stream"
    /\ Return("ok")
    /\ UNCHANGED <<kind, ctxDone, attempt, waitVars, lastErr, responseVars>>

Cancel ==
    /\ ~ctxDone /\ stage # "returned"
    /\ ctxDone' = TRUE
    /\ UNCHANGED <<kind, stage, attempt, waitVars, lastErr, responseVars, answer>>

RequestStep ==
    \/ Check \/ Exhausted \/ Canceled \/ Sleep \/ Wake \/ NoResponse
    \/ ApiError \/ ReadWhole \/ HandOver
    \/ \E code \in Statuses, after \in RetryAfters : Respond(code, after)

Next == RequestStep \/ Cancel

\* The client's goroutine runs, timers expire, and a server answers some day.
Fairness == WF_requestVars(RequestStep)

Spec == Init /\ [][Next]_requestVars /\ Fairness

-----------------------------------------------------------------------------
(* Properties                                                              *)

\* A wait is neither shorter than the server asks for (up to MaxDelay) nor longer
\* than it and the backoff: the header of an earlier answer does not count.
WaitsAsTold ==
    stage = "sleep" =>
        /\ delay >= Min({told, MaxDelay})
        /\ delay <= Max({told, GetDelay(attempt)})

\* However a request ends, the one body left open is that of a stream handed to
\* the caller; and a request whose last attempt was answered reports the answer.
RequestEndsClean ==
    stage = "returned" =>
        /\ open = (IF kind = "stream" /\ answer = "ok" THEN {attempt} ELSE {})
        /\ answer = "exhausted" => lastErr = "transport" /\ status = "none"

\* Between its attempts a request waits for the last answer, and after them it has left
\* nothing behind.
AttemptsAreOrderly == WaitsAsTold /\ RequestEndsClean

\* The request ends, whether or not anybody cancels it.
RequestEnds == <>(stage = "returned")
=============================================================================
