----------------------------- MODULE ErrorKinds -----------------------------
(***************************************************************************)
(* What a failure means, however it is wrapped on its way to the caller.   *)
(* A failure becomes an error at the transport, is converted by a wire     *)
(* client or a provider, and is wrapped by streams, middleware and callers;*)
(* then the retry, the breaker, the fallback chain, the metrics and the    *)
(* caller each judge it.  An error stands for what errors.Is and errors.As *)
(* find in its tree: the sentinels, the API error, the HTTP client's own   *)
(* error, and the providers named outside the API error, outermost first.  *)
(***************************************************************************)
EXTENDS Integers, Sequences, FiniteSets

CONSTANTS MaxLayers    \* how often an error is wrapped after its provider let it go
ErrorAssumption == MaxLayers \in Nat

VARIABLE failure       \* what happened, the client it happened in, its error and the wrappings

None == [status |-> -1, code |-> "", type |-> "", provider |-> "", hint |-> 0]
Plain(sentinels) == [marks |-> sentinels, api |-> None, raw |-> None, owners |-> <<>>]
Has(answer) == answer # None

Statuses == {400, 401, 402, 403, 404, 408, 413, 422, 429, 500, 502, 503, 504, 529}
Codes == {"insufficient_quota", "context_length_exceeded", "content_filter", "model_not_found",
          "rate_limit_exceeded", "1113", "overloaded"}
Types == {"authentication_error", "permission_error", "rate_limit_error", "invalid_request_error",
          "server_error", "overloaded_error"}
\* The labels of one answer: either may be missing, and quota comes with a type of its own.
Labels == {<<"", "">>, <<"insufficient_quota", "rate_limit_error">>, <<"model_not_found", "server_error">>}
          \cup {<<c, "">> : c \in Codes} \cup {<<"", t>> : t \in Types}

\* parseAPIErrorBody, decodeErrorCode: a nested error keeps code and type, a flat one its type
\* only, and text, or a body too large to read, neither.
Bodies == {"nested", "flat", "text"}
Labelled(body, label) ==
    [code |-> IF body = "nested" THEN label[1] ELSE "", type |-> IF body = "text" THEN "" ELSE label[2]]

\* handleErrorResponse: the error the HTTP client itself makes of an answer.
Answered(status, body, label, hint) ==
    [Plain({}) EXCEPT !.raw = [None EXCEPT !.status = status, !.hint = hint, !.provider = "",
                                           !.code = Labelled(body, label).code, !.type = Labelled(body, label).type]]

\* The events that end a stream with an API error and no status: Anthropic's names its provider
\* and has a type, that of the Responses API has a code.
ErrorEvent(label) == [Plain({}) EXCEPT !.api = [None EXCEPT !.status = 0, !.type = label, !.provider = "anthropic"]]
ResponsesError(label) == [Plain({}) EXCEPT !.api = [None EXCEPT !.status = 0, !.code = label]]

-----------------------------------------------------------------------------
(* The classification of API errors. *)

QuotaCodes == {"quota_exceeded", "insufficient_quota"}
\* apiStatusClassifications.
StatusClass(status) ==
    CASE status = 401 -> "ErrAuthenticationFailed" [] status = 402 -> "ErrPlanRequired"
      [] status = 403 -> "ErrPermissionDenied" [] status = 404 -> "ErrModelNotFound"
      [] status = 408 -> "ErrTimeout" [] status = 429 -> "ErrRateLimited" [] status = 500 -> "ErrServerError"
      [] status \in {502, 503, 504, 529} -> "ErrServiceUnavailable" [] OTHER -> ""
RetryableStatuses == {408, 429, 500, 502, 503, 504, 529}

CodeClass(code) ==
    CASE code = "context_length_exceeded" -> "ErrContextLengthExceeded"
      [] code = "model_not_found" -> "ErrModelNotFound"
      [] code = "content_filter" -> "ErrContentFiltered"
      [] code = "rate_limit_exceeded" -> "ErrRateLimited"
      [] OTHER -> ""
TypeClass(type) ==
    CASE type = "authentication_error" -> "ErrAuthenticationFailed"
      [] type = "permission_error" -> "ErrPermissionDenied"
      [] type = "rate_limit_error" -> "ErrRateLimited"
      [] type = "invalid_request_error" -> "ErrInvalidParameters"
      [] type = "server_error" -> "ErrServerError"
      [] OTHER -> ""

\* A slip: the status is asked before the code, and quota looks like a rate limit.
StatusFirst(api) ==
    IF StatusClass(api.status) # "" THEN StatusClass(api.status)
    ELSE IF api.code \in QuotaCodes THEN "ErrQuotaExceeded"
    ELSE IF CodeClass(api.code) # "" THEN CodeClass(api.code) ELSE TypeClass(api.type)

\* underlyingError: quota wins over the status, the status over the code, the code over the type.
Underlying(api) ==
    IF api.code \in QuotaCodes THEN "ErrQuotaExceeded"
    ELSE IF StatusClass(api.status) # "" THEN StatusClass(api.status)
    ELSE IF CodeClass(api.code) # "" THEN CodeClass(api.code) ELSE TypeClass(api.type)

Transients == {"ErrRateLimited", "ErrServerError", "ErrServiceUnavailable", "ErrTimeout"}
IsRetryable(api) ==
    /\ api.code \notin QuotaCodes
    /\ IF StatusClass(api.status) # "" THEN api.status \in RetryableStatuses
       ELSE Underlying(api) \in Transients

\* errors.Is.
Sentinels(err) == err.marks \cup (IF Has(err.api) THEN {Underlying(err.api)} ELSE {})
Is(err, sentinels) == Sentinels(err) \cap sentinels # {}
Ended == {"Canceled", "DeadlineExceeded"}

\* providerInTree: the first provider named, outermost first.
ProviderFromError(err) ==
    LET named == SelectSeq(err.owners \o (IF Has(err.api) THEN <<err.api.provider>> ELSE <<>>), LAMBDA p : p # "")
    IN IF named = <<>> THEN "" ELSE Head(named)

-----------------------------------------------------------------------------
(* Wrapping. *)

Join(outer, err) ==   \* errors.Join and "%w: %w": everything in either is found, the first first
    [marks |-> outer.marks \cup err.marks, api |-> IF Has(outer.api) THEN outer.api ELSE err.api,
     raw |-> IF Has(outer.raw) THEN outer.raw ELSE err.raw, owners |-> outer.owners \o err.owners]

WrapProviderError(provider, err) == [err EXCEPT !.owners = <<provider>> \o @]

\* WrapError of the OpenAI-compatible client: the HTTP client's error becomes an API error of
\* the provider; an API error comes out bare, with its provider filled in.
Owned(api, provider) == IF api.provider = "" THEN [api EXCEPT !.provider = provider] ELSE api
Bare(api) == [Plain({}) EXCEPT !.api = api]
WrapError(provider, err) ==
    IF Has(err.raw) THEN Bare([err.raw EXCEPT !.provider = provider])
    ELSE IF Has(err.api) THEN Bare(Owned(err.api, provider))
    ELSE WrapProviderError(provider, err)
AnthropicWrap(err) == WrapError("anthropic", err)
GeminiWrap(err) == WrapError("gemini", err)
\* Those of the local servers leave out the wait the server asked for.
OllamaWrap(err) == WrapError("ollama", [err EXCEPT !.raw.hint = 0])
LlamaCppWrap(err) == WrapError("llamacpp", [err EXCEPT !.raw.hint = 0])

\* ElevenLabs adds a sentinel to the HTTP client's error and leaves that as it is.
ElevenLabsSentinel(status) ==
    CASE status = 401 -> {"ErrAuthenticationFailed"} [] status = 402 -> {"ErrPlanRequired"}
      [] status \in {400, 422} -> {"ErrInvalidParameters"} [] status = 429 -> {"ErrRateLimited"}
      [] status = 404 -> {"ErrModelNotFound"} [] status \in {500, 502, 503, 504} -> {"ErrServiceUnavailable"}
      [] OTHER -> {}
ElevenLabsWrap(err) == IF Has(err.raw) THEN Join(Plain(ElevenLabsSentinel(err.raw.status)), err) ELSE err

\* mediaError: the converted error beside the original, and what the provider's codes say.
Media(provider, said, err) == Join(Join(WrapError(provider, err), Plain(said)), err)
GroqMedia(err) == Media("groq", {}, err)
TogetherMedia(err) == Media("togetherai", {}, err)
MistralMedia(err) == Media("mistral", IF err.raw.code = "content_filter" THEN {"ErrContentFiltered"} ELSE {}, err)
ZAIMedia(err) == Media("zai", IF err.raw.code = "1113" THEN {"ErrQuotaExceeded"} ELSE {}, err)

Providers == {"openai", "anthropic", "gemini", "ollama", "llamacpp", "elevenlabs", "groq", "togetherai", "mistral", "zai"}
Wrapped(provider, err) ==
    CASE provider = "openai" -> WrapError("openai", err) [] provider = "anthropic" -> AnthropicWrap(err)
      [] provider = "gemini" -> GeminiWrap(err) [] provider = "ollama" -> OllamaWrap(err)
      [] provider = "llamacpp" -> LlamaCppWrap(err) [] provider = "elevenlabs" -> ElevenLabsWrap(err)
      [] provider = "groq" -> GroqMedia(err) [] provider = "togetherai" -> TogetherMedia(err)
      [] provider = "mistral" -> MistralMedia(err) [] provider = "zai" -> ZAIMedia(err)

\* firstContextError.
FirstContextError(err) ==
    IF Is(err, {"Canceled"}) THEN {"Canceled"} ELSE IF Is(err, {"DeadlineExceeded"}) THEN {"DeadlineExceeded"} ELSE {}
\* A slip: the API error comes out bare, and takes the caller's cancellation with it.
WrapBare(provider, err) ==
    IF Has(err.api) THEN Bare(Owned(err.api, provider)) ELSE WrapProviderError(provider, err)

\* WrapHTTPError: an API error comes out bare too, but for the end of a context beside it.
WrapHTTPError(provider, err) ==
    IF Has(err.api) THEN [Bare(Owned(err.api, provider)) EXCEPT !.marks = FirstContextError(err)]
    ELSE WrapProviderError(provider, err)

Layers == {"stream", "chain", "circuit", "operation", "rewrap", "cancel"}
\* StreamError, allClientsFailedError, a retry the breaker refuses, an operation without a
\* provider, another client's WrapHTTPError, a caller that left.
Layered(layer, err) ==
    CASE layer = "stream" -> Join(Plain({"ErrStreamInterrupted"}), err)
      [] layer = "chain" -> Join(Plain({"ErrAllClientsFailed"}), err)
      [] layer = "circuit" -> Join(Plain({"ErrCircuitOpen"}), err)
      [] layer = "operation" -> WrapProviderError("", err)
      [] layer = "rewrap" -> WrapHTTPError("proxy", err)
      [] layer = "cancel" -> Join(Plain({"Canceled"}), err)

\* waitFailure: the caller's end is told as it is, its deadline beside the limiter's sentinel.
WaitFailure(ended, binding) ==
    IF ended = "Canceled" THEN {"Canceled"}
    ELSE {"ErrRateLimitTimeout"} \cup (IF ended = "DeadlineExceeded" \/ binding THEN {"DeadlineExceeded"} ELSE {})

-----------------------------------------------------------------------------
(* The judges. *)

Transport == {"EOF", "UnexpectedEOF", "ECONNREFUSED", "ECONNRESET"}
\* isTransientProviderError, for the retry and the breaker alike.
Transient(err) ==
    /\ ~Is(err, Ended \cup {"ErrCircuitOpen"})
    /\ IF Has(err.api) THEN IsRetryable(err.api) ELSE Is(err, Transients \cup Transport \cup {"SocketTimeout"})

\* IsTemporary, for callers.
IsTemporary(err) ==
    /\ ~Is(err, Ended)
    /\ IF Has(err.api) THEN IsRetryable(err.api)
       ELSE Is(err, Transients \cup {"ErrConnectionFailed", "ErrStreamInterrupted"})

\* DefaultFallbackSelector.
ShouldFallback(err) ==
    \/ Transient(err)
    \/ Has(err.api) /\ (err.api.status = 529 \/ err.api.type \in {"rate_limit_error", "overloaded_error", "server_error"})
    \/ Is(err, {"ErrCircuitOpen"})

\* The statuses the HTTP client tries again by itself.
HttpRetries == {408, 429, 500, 502, 503, 504, 529}

\* retryDelayForError: a wait of 2 is due, the server may ask for more, and 5 is the most.
RetryDelay(err) == IF err.api.hint > 5 THEN 5 ELSE IF err.api.hint > 2 THEN err.api.hint ELSE 2

\* GetErrorDetails.
ErrorDetails(err) ==
    [provider |-> ProviderFromError(err), status |-> IF Has(err.api) THEN err.api.status ELSE 0,
     retryAfter |-> err.api.hint, retryable |-> IsTemporary(err)]

\* normalizeErrorType: the first of these an error is makes its category,
Categories == <<
    <<{"Canceled"}, "canceled">>, <<{"DeadlineExceeded", "ErrTimeout"}, "timeout">>,
    <<{"ErrRateLimited"}, "rate_limited">>, <<{"ErrQuotaExceeded"}, "quota_exceeded">>,
    <<{"ErrAuthenticationFailed"}, "authentication">>, <<{"ErrPermissionDenied"}, "permission_denied">>,
    <<{"ErrModelNotFound"}, "model_not_found">>, <<{"ErrContextLengthExceeded"}, "context_length_exceeded">>,
    <<{"ErrContentFiltered"}, "content_filtered">>, <<{"ErrServiceUnavailable"}, "service_unavailable">>,
    <<{"ErrServerError"}, "server_error">>, <<{"ErrInvalidParameters"}, "invalid_request">>>>
\* and what its labels or its status say the rest.
LabelCategory(label) ==
    CASE label = "rate_limit_error" -> "rate_limited" [] label = "authentication_error" -> "authentication"
      [] label = "permission_error" -> "permission_denied" [] label \in QuotaCodes -> "quota_exceeded"
      [] label = "content_filter" -> "content_filtered" [] label = "model_not_found" -> "model_not_found"
      [] label = "context_length_exceeded" -> "context_length_exceeded" [] label = "server_error" -> "server_error"
      [] label = "invalid_request_error" -> "invalid_request" [] label = "overloaded" -> "service_unavailable"
      [] OTHER -> ""
StatusCategory(api) ==
    CASE api.status = 400 -> "invalid_request" [] api.status = 413 -> "context_length_exceeded"
      [] OTHER -> IF api.type # "" \/ api.code # "" THEN "other" ELSE "unknown"
Category(err) ==
    LET mine == Sentinels(err)  hits == {i \in DOMAIN Categories : mine \cap Categories[i][1] # {}}
    IN IF hits # {} THEN Categories[CHOOSE i \in hits : \A j \in hits : i <= j][2]
       ELSE IF ~Has(err.api) THEN "unknown"
       ELSE IF LabelCategory(err.api.type) # "" THEN LabelCategory(err.api.type)
       ELSE IF LabelCategory(err.api.code) # "" THEN LabelCategory(err.api.code)
       ELSE StatusCategory(err.api)

-----------------------------------------------------------------------------
Init == failure = [why |-> "", what |-> None, client |-> "", err |-> Plain({}), layers |-> {}]

Failed(why, what, client, err) ==
    /\ failure.why = ""
    /\ failure' = [failure EXCEPT !.why = why, !.what = what, !.client = client, !.err = err]

\* An answer with an error status: a wait is asked for with 429 and 503.
Refuse ==
    /\ failure.why = ""
    /\ \E status \in Statuses, body \in Bodies, label \in Labels, hint \in {0, 3, 9}, client \in Providers :
           LET err == Answered(status, body, label, hint)
           IN /\ hint > 0 => status \in {429, 503} /\ label = <<"", "">>
              /\ Failed("answer", err.raw, client, Wrapped(client, err))
\* An error event in a stream.
Interrupt ==
    \/ \E type \in Types : Failed("event", ErrorEvent(type).api, "anthropic",
                                  Layered("stream", AnthropicWrap(ErrorEvent(type))))
    \/ \E code \in Codes : Failed("event", ResponsesError(code).api, "openai", WrapError("openai", ResponsesError(code)))
\* The connection fails; the caller leaves, perhaps after attempts that failed.
Break == \E mark \in Transport \cup {"SocketTimeout", "NoSuchHost", "Malformed"}, client \in Providers :
             Failed("transport", None, client, Wrapped(client, Plain({mark})))
Leave == \E mark \in Ended, before \in {{}, {"ECONNRESET"}}, client \in Providers :
             Failed("caller", None, client, Wrapped(client, Plain({mark} \cup before)))
\* The rate limiter lets nobody in; a request is not valid.
Wait == \E ended \in Ended \cup {""}, binding \in BOOLEAN :
            Failed(IF ended # "" \/ binding THEN "caller" ELSE "limiter", None, "", Plain(WaitFailure(ended, binding)))
Reject == \E n \in 0..1 : Failed("request", None, "", Plain(IF n = 0 THEN {} ELSE {"ErrInvalidParameters"}))

Wrap ==
    \E layer \in Layers \ failure.layers :
        /\ failure.why # "" /\ Cardinality(failure.layers) < MaxLayers
        /\ failure' = [failure EXCEPT !.err = Layered(layer, @), !.layers = @ \cup {layer}]

Next == Refuse \/ Interrupt \/ Break \/ Leave \/ Wait \/ Reject \/ Wrap

-----------------------------------------------------------------------------
(* Properties. *)

Left == failure.why = "caller" \/ "cancel" \in failure.layers

\* The end of the caller's context stays visible through every wrapping, so that nothing is
\* retried, counted against a breaker, or told to be temporary after it.
CallersEndIsFinal ==
    Left => ~Transient(failure.err) /\ ~IsTemporary(failure.err) /\ Category(failure.err) \in {"canceled", "timeout"}

\* One verdict on an answer of the service, in whatever order the sources of it are asked and
\* however it is wrapped: the retries above the HTTP client repeat the statuses that client
\* repeats, never a quota that is used up; and callers are told the same.
OneVerdict ==
    Has(failure.err.api) /\ ~Left =>
        LET api == failure.what  verdict == IsTemporary(failure.err)
        IN /\ api.code \in QuotaCodes => ~verdict
           /\ StatusClass(api.status) # "" /\ api.code \notin QuotaCodes => (verdict <=> api.status \in HttpRetries)
           /\ Transient(failure.err) => verdict
           /\ "circuit" \notin failure.layers => (Transient(failure.err) <=> verdict)
           /\ Transient(failure.err) => ShouldFallback(failure.err)

\* The metrics file under a category of transient failures exactly the answers that are retried,
\* save those told apart by a label that only the metrics know, that of a plan gate, which they
\* do not know, and what a provider joined beside the answer.
CategoryTellsTheVerdict ==
    Has(failure.err.api) /\ ~Left /\ failure.what.code # "overloaded" /\ failure.what.status # 402
    /\ failure.err.marks \cap {"ErrContentFiltered", "ErrQuotaExceeded"} = {} =>
        (IsTemporary(failure.err) <=>
            Category(failure.err) \in {"timeout", "rate_limited", "server_error", "service_unavailable"})

\* Details of the answer that the caller's handling rests on survive every wrapping: whose it
\* was, its status, and how long the server asked to wait, which the next retry does.
DetailsSurvive ==
    Has(failure.err.api) =>
        LET details == ErrorDetails(failure.err)
        IN /\ details.provider = failure.client /\ details.status = failure.what.status
           /\ failure.client \notin {"ollama", "llamacpp"} =>
                  details.retryAfter = failure.what.hint /\ RetryDelay(failure.err) >= (IF failure.what.hint > 5 THEN 5 ELSE failure.what.hint)

\* Wrapped by whatever layers, in whatever order, a failure is judged as it was when its
\* client made it, by every reader, and keeps its details.
ErrorsKeepTheirMeaning == CallersEndIsFinal /\ OneVerdict /\ CategoryTellsTheVerdict /\ DetailsSurvive
=============================================================================
