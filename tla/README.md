# llm-go-sdk: specifications, model checking and proofs

TLA+ specifications of the concurrent and stateful core of
`nocturnium/llm-go-sdk`, model-checked with TLC on small instances, and
theorems about them, proved with TLAPS for every value of the constants.

The SDK is a Go library: one interface to a score of LLM providers, with
middleware that a caller stacks on a client. Two things are hard in it. One is
concurrent: who holds a permit when a call is abandoned, what a reader sees of
a stream that is cut short, which tokens a canceled wait gives back. The other
is that the same thing is said in several ways: one answer in four wire
formats, streamed or not; one conversation for providers with different rules;
one failure to the retry loop, the fallback chain and the metrics. The first
is specified component by component; of the second it is checked that the
ways agree.

Contents: [inventory](#the-system), [modules](#modules),
[runs](#runs), [time and fairness](#time-fairness-and-other-assumptions),
[proofs](#proofs), [findings](#findings), [not modelled](#what-is-not-modelled),
[plan](#plan).

To check a run: `tlc -config X.cfg M.tla`, with the names in `PROJECT.json`; to check the proofs:
`tlapm` on each `*Proofs.tla`.
`PROJECT.json` lists components, runs, hazards and theorems, and maps every
definition that models code to the lines it models. A comment that begins with
"A slip" introduces a deliberately wrong variant of a definition, the kind of
bug the code could have: it shows that a property can fail.

## The system

Paths are relative to `src/`; `resilience/` is `pkg/middleware/resilience/`.

How components interact: every middleware implements the client interface
(`GenerateContent`, `Stream`) and wraps another one, so that a call descends
through cache, tool loop, fallback chain, rate limiter and resilient client to
a provider, which goes through the HTTP client to the network. A stream is a
channel. Each middleware reads the one below and feeds its own, in a goroutine
of its own. Shared state is always behind a mutex of the component; callbacks
of the user (`onStateChange`, `onRetry`, `onFallback`, progress, tool
handlers, MCP request handlers) run off the locks. Nothing is persisted: there
is no recovery to specify, only cancellation, abandonment and Close.

### Components modelled

**Circuit breaker** (`resilience/resilience_circuit_breaker.go`).
State: closed, open or half-open, a failure count, counters of probes and of
their successes, marks of closed-state requests in flight per generation, the
times of the last failure and change, the queue of permits granted by the
public API. Operations: acquire, settle with success or failure, release,
`Allow`/`RecordSuccess`/`RecordFailure`, `Reset`. Hard: requests settle long
after the state, or the generation, they were admitted in is gone. Correct
when marks and slots belong to live requests, a Reset cuts off the past, and
neither a trial nor an open state lasts for ever.

**Callback queue** (same file). State: queued transitions, whether a drain
goroutine runs. Operations: enqueue under the breaker's lock, drain. Hard:
the goroutine decides to leave while a transition arrives. Correct when
transitions are called back once, in order, without overlap, and all of them.

**Resilient client** (`resilience/resilience.go`, `resilience_retry.go`).
State per call: attempt number and permit. Operations: `execute` and `Stream`
with their retry loops. Hard: eight ways out of an attempt, each of which must
settle the permit and report to the breaker at most once per call.

**Streaming** (`streaming.go`). State: channels, the terminal guard of
`StreamSender`. Operations: `Send`, `DeliverTerminal`, the deferred helpers,
`WrapStream`, `WrapStreamWithFinalizer`, `DrainStream`, `CollectStream`. Hard:
readers that pause or leave, sends that time out, a context that ends between
any two steps. Correct when the reader sees the chunks in order, then exactly
one terminal; when finalizers (the breaker's among them) are told the truth;
and when every goroutine ends.

**Fallback chain** (`resilience/fallback.go`). State: clients with stable ids,
health and cooldown per id, weights. Operations: `Call`, `Stream`,
`AddClient`, `RemoveClient`, `SetClientHealthy`, `ResetHealth`. Hard: calls
work on snapshots of a chain that changes. Correct when health follows the
client and not its position, and the error a call returns fits its attempts.

**Rate limiter** (`resilience/ratelimit.go`). State: two token buckets (of
`golang.org/x/time/rate`), credit, debt, generation. Operations: `WaitN`
(blocking, or refusing at once), `RecordTokens`, `Reset`. Hard: reservations, credit and debt are
taken and given back in separate critical sections, with Resets in between.
Correct when the books balance.

**Concurrent batcher** (`batch.go`). State: the results table, progress
counters under a lock of their own, a cancelable context. Hard: the first
failure stops a batch that other workers are still filling. Correct when the
returned counts, cost and progress are those of the entries, and it returns.

**Tool loop** (`runtools.go`, `tools.go`). State: the transcript, a semaphore,
a channel of results. Hard: tools outlive a canceled turn. Correct when every
tool call is answered, in order, before the model is asked again, and no
goroutine stays blocked.

**Response cache** (`caching_middleware.go`). State: entries with expiry, a
size limit. Hard: aliasing of responses that their receivers may change,
expiry at the very instant of an eviction, two callers storing one key.

**MCP session** (`pkg/mcp/stdio.go`, `inbound.go`, `client.go`). State: the
pending table, a bounded write queue, two pipes, handler slots, the stages of
Close. Hard: a server that neither reads nor writes nor exits, frames of calls
already given up, responses that race the end of the transport. Correct when
an answered call is never reported unanswered, a call that fails while its
frame is still queued is never executed later, and Close ends everything.

**HTTP client** (`internal/httpclient/client.go`, `retry.go`, `sse.go`).
State per request: attempt, backoff, open response bodies; per event stream:
an unfinished line and event. Hard: every way out of an attempt must close its
body, waits mix the policy's backoff with what the server asks for, and the
bytes of an event come in any pieces. Correct when no body is leaked, waits
follow the last answer, and the events read are those of the text.

**Streams of the wire formats** (`pkg/openaicompat/converters.go`,
`responses_stream.go`, `pkg/providers/anthropic`, `gemini`). State: what the
reader of a stream has accumulated. Hard: fragments of tool calls without ids
or numbers, blocks, refusals, errors and dropped connections between any two
frames. Correct when a stream that succeeds, collected, is the answer the
request would have got without streaming, and what is not whole does not succeed.

**Conversations** (`message.go`, `provenance.go`, the message converters).
State: the caller's messages. Operations: merge, validate, strip what another
provider issued, convert. Hard: answers come from a different provider each
turn. Correct when every provider accepts the whole conversation, and nothing
that can be said is lost.

**Requests** (`options.go`, `reasoning.go`, the request builders). Hard: each
generation of models refuses other combinations of options, and the caller's
map of extra fields is shared by calls. Correct when the request is accepted
and asks for what this call's options do.

**Structured output** (`structured.go`). State: the repair loop. Hard: schema,
validation and `encoding/json` each have rules of their own for embedded
structs. Correct when no field the schema requires is left at zero, and a
reply is refused only if nothing in it fits.

**Costs** (`cost.go`, `cost_media.go`, `modes.go`). State: cards, usage per
model, cost per mode and unit, under one mutex. Hard: streams billed when they
end, over resets and price changes; tiers, cache reads and writes, unpriced
models. Correct when the books hold each call once, at the price its caller
was told, and more tokens never cost less.

**Observability** (`pkg/observability`). State: the count of active requests,
the sliding window, spans. Hard: the order of the deferred calls of a stream,
panics, cancellation between verdict and last chunk, a failure that the caller
could not be told in time. Correct when each request is judged once, what is
recorded is what became of it but in those cases, and the window counts its entries.

**Video jobs** (`videogen.go`, `internal/httpclient/poll.go`, and those of
six providers, with the ElevenLabs flow). State: the job at the service, the
first terminal operation kept by Gemini. Hard: several waits, replies that
arrive late, assets that expire. Correct when each wait is told the job's end,
and waits agree.

**Native batches** (`pkg/providers/openrouter`). State: the builder, the
batch at the service, the results. Hard: the batch exists before it can be
read, is purged, or answers some requests twice and others not; callers choose
the interval of the polls. Correct when each request has one result, the counts
and the usage are those of the results, and the next poll is never too far away.

**Agent adapter** (`llmadk`). State: the session the kit keeps. Hard: pairing
calls with results by identifiers that providers repeat; signatures that are
one provider's; partial answers. Correct when each result is its call's, and
a turn is whole.

**MCP client** (`pkg/mcp/client.go`, `notifications.go`, `http.go`, `roots.go`,
`sampling.go`, `elicitation.go`, `resources.go`). State: what was advertised,
handlers in flight, the notification pump, paging. Hard: a failed handshake, a
full queue under a blocked callback, servers that repeat cursors. Correct when
the host serves exactly what it advertised, every notification is delivered
or counted, and listing ends.

**Model catalogues** (`capabilities_registry.go`, `models_util.go`, the
`models.go` of nineteen providers). State: registrations. Hard: three kinds of
tables that name each other; pages cut by the caller's limit. Correct when a
listing goes on where it stopped, lookups agree, and a caller changes only its copy.

**Error kinds** (`errors.go`, each client's `WrapError`, `resilience_retry.go`,
`normalizeErrorType`). Hard: an error is joined and wrapped by up to four
layers, and judged by five readers that each look at another part. Correct
when wrapping changes no verdict and loses no detail.

**Speech streams** (`pkg/openaicompat/client.go`, `media_provider.go`,
`featherless`, `togetherai`, `elevenlabs`). State: one or two goroutines and
their channels. Hard: an error when the channel is full, a caller that leaves,
a timeout of the provider's own. Correct when audio is in order, the end is
told truly, and no goroutine is left waiting.

**Embeddings and reranking** (`embeddings.go`, `infinity`, `gemini`,
`huggingface`, `pkg/openaicompat`). State: the route of each client. Correct
when vectors keep their texts however the service lists them, what a service
leaves out is an error, and the task is that of the caller's options.

### Components not modelled

| component | why |
|---|---|
| Images, unary speech, transcription, vision | option structs, validation and one request each |
| Management calls and options of the providers | option structs; single calls that keep no state |
| Core types, provider registry | values and accessors; registration under a mutex |
| Token estimation, tokenizer, log sanitizing, test utilities | computations over text |
| Command-line tool, examples, release automation | outside the library |

## Modules

| module | models | role |
|---|---|---|
| `CircuitBreaker` | the breaker, one action per locked operation | component, extended by `ResilientClient` |
| `CircuitBreakerProofs` | | four theorems |
| `CallbackQueue` | the drain goroutines of `onStateChange` | component |
| `OrderedCallbacks` | what the owner of `onStateChange` is promised | abstract specification of `CallbackQueue` |
| `ResilientClient` | `execute` and `Stream` retrying through the breaker | composes `CircuitBreaker` |
| `ResilientClientProofs` | | five theorems, one of them the refinement of `CircuitBreaker`; one about `VideoJobs` |
| `StreamPipeline` | a provider goroutine and any number of wrappers | component |
| `StreamContract` | what the reader of a stream is promised | abstract specification of `StreamPipeline` |
| `StreamPipelineProofs` | | four invariants and the refinement, for any depth |
| `FallbackChain` | plain and weighted chain, with concurrent changes | component |
| `FallbackChainProofs` | | two theorems |
| `RateLimiter` | limiter and rate-limited client | component |
| `RateLimiterProofs` | | sums over the calls; two theorems about the limiter's books, one about those of `CostTracking` |
| `ConcurrentBatcher`, `RunTools` | one small component each | in `MCWorkers`, with `CallbackQueue` |
| `WorkersProofs` | | theorems about the three components of `MCWorkers` |
| `ResponseCache`, `HttpRetry`, `SseReader` | one small component each | in `MCRequestPath` |
| `RequestPathProofs` | | theorems about `HttpRetry`, `ResponseCache`, `Telemetry`, `NativeBatch` and `Embeddings` |
| `ModelAnswer` | chunks, their collection, usable tool calls | extended by the four stream modules |
| `ChatStream`, `AnthropicStream`, `GeminiStream`, `ResponsesStream` | the reader of one wire format each, and its conversion without streaming | in `MCRequestPath` |
| `Conversation`, `ModelRequest` | messages and options on their way to each provider | in `MCRequestPath` |
| `StructuredOutput` | schema, decoding, validation, repair | in `MCRequestPath` |
| `CostTracking`, `Telemetry` | the books, and the observers | in `MCRequestPath` |
| `VideoJobs`, `NativeBatch`, `SpeechStream`, `Embeddings` | work that goes on at a service | in `MCRequestPath` |
| `AgentModel` | a session of the Agent Development Kit | in `MCRequestPath` |
| `McpClient` | the surface of the MCP client | in `MCRequestPath`, beside `McpSession` |
| `ModelTables`, `ModelListing` | the tables; listings, lookups and the registry | in `MCRequestPath` |
| `ErrorKinds` | errors, their wrappings and their judges | in `MCRequestPath` |
| `McpSession` | stdio transport, inbound handlers, Close | component |
| `McpSessionProofs` | | two theorems about the session, one about `McpClient` |
| `MC*` | | instances for TLC, where the module of the component is not one |

How state and actions correspond to the code:

* **`CircuitBreaker`.** The variables are the fields of the struct, the two
  timestamps turned into ages saturated at the longer timeout. Every operation
  holds `cb.mu` from beginning to end, so each is one action: `Acquire` (with
  the disjuncts of `acquireLocked`: `AdmitClosed`, `AdmitFirstProbe`,
  `AdmitProbe`, `RefuseStalledTrial`), `RecordSuccess`, `RecordFailure`,
  `ReleasePermit`, the public pair with its first-in first-out queue of grants,
  `ExternalSuccess`/`ExternalFailure` (a report without a grant, which the code
  turns into a synthetic permit) and `Reset`. A permit is a record with the
  fields of the Go struct.
* **`ResilientClient`.** Per call a program counter through one attempt: ask
  the breaker, work, settle, back off. An error has two independent bits,
  whether the breaker's classifier counts it as ill-health and whether
  `ShouldRetry` retries it, because both are configurable. The length of the
  backoff (jitter, factor, Retry-After) is "any time".
* **`StreamPipeline`.** Stage 0 is a provider goroutine in the form they all
  share (the map names Gemini's); stages 1 to `Depth` are
  `WrapStreamWithFinalizer`. One action per channel operation; `Send` splits
  into the attempt, the blocked wait and the timeout. The deferred calls run
  as steps in the code's order: drain, ensure a terminal, finalize, close.
* **`FallbackChain`.** One action per locked section and one per answer of a
  client. `Snapshot` copies what the code copies, the ids with it.
* **`RateLimiter`.** One action per locked section or library call of `WaitN`:
  settle an installment of debt, reserve a request, consume credit, reserve
  tokens, sleep, admit or give up. Buckets are integers that fill by one a
  tick. `charged`, `used` and `lost` are history variables, for the ledger.
* **`ConcurrentBatcher`**: the caller that feeds, the workers, the two locks.
  **`RunTools`**: the loop, and the goroutine of each call with its semaphore
  slot and channel. **`ResponseCache`**: lookup, provider, store; responses
  are objects with an identity so that a shared pointer shows.
* **`HttpRetry`.** One request: the loop of `doWithRetry` and the ways its
  callers use the response. A body is named by its attempt, so that `open`
  tells which ones nobody has closed. All requests of the SDK have `GetBody`,
  so the branch for bodies that cannot be sent again is left out.
* **`SseReader`.** One action per byte, which is what `readLine` reads. The
  first byte of a line stands for its field name. `EventsOf` is a reference
  definition that looks at the whole text and shares nothing with the reader.
* **`McpSession`.** One action per step of the call goroutines, the writer,
  the read loop, the handlers and Close; the server is an environment without
  restrictions over two bounded pipes.
* **`CallbackQueue`.** One action per round of `drain` under `q.mu`, one per
  return of a callback. `OrderedCallbacks` is its abstraction under
  `active == \E d : drain[d] = "callback"`.
* **The four stream modules.** The server says one frame per action; the
  reader's whole handling of it is one step; how chunks reach a slow caller is
  in `StreamPipeline`. Text is a sequence of pieces. `ConvertResponse` is the
  code's conversion of the same answer unstreamed, so streaming is checked
  against other code and not against a wish.
* **`Conversation`.** A turn is one action: a user speaks, a model of some
  provider answers, a result arrives. Every state is converted for every
  provider by the chain of calls of the code (`Prepared`, `WireOf`), and the
  providers' rules are stated over the result.
* **`ModelRequest`.** One action per request built; `extra` is the caller's
  map, which the next build finds as the last one left it.
* **`StructuredOutput`.** Types of up to two levels with embedded structs;
  the schema, the validation and the rules of `encoding/json` are written
  separately, as they are in the code, and compared on every reply.
* **`CostTracking`.** One action per critical section: price, enter, reset,
  register. Prices of ordered usages are compared pairwise.
* **`Telemetry`.** One action per deferred call of a stream's goroutine, in
  the order Go runs them. `win` is the sliding window as a ring with counters,
  `samples` the history it is compared with. A terminal chunk may be given up
  when nobody reads (`SendFails`, `AfterPanic`: `withheld`); `Close` is
  `EnsureTerminal`, which then tries again and knows nothing of the verdict.
* **`VideoJobs`.** The job moves at the service by itself; a poll has a
  request and a reply, so that a reply may be old. Any number of waits run beside
  each other for every service; an image flow, polled by the call that
  submitted it, has one.
* **`NativeBatch`.** Adding, submitting, each poll, and the mapping of the
  lines. The caller asks for any interval, which the code cuts (`StartInterval`)
  and doubles, and sleeps for up to a tenth more (`Spread`).
* **`AgentModel`.** One action per turn of the kit, with the conversion of
  contents to messages and of answers, whole or streamed, to contents.
* **`McpClient`.** Three scenes: connecting, notifications, listing. The
  pump's enqueue, run and stop are actions of their own.
* **`ModelListing`.** One page, lookup, registration or caller's change per
  action; `ModelTables` holds the names, kinds and limits the code's tables hold.
* **`ErrorKinds`.** An error is what `errors.Is` and `errors.As` find in its
  tree. A failure is made, converted by its client, and then wrapped a layer
  per action.
* **`SpeechStream`.** One action per read, send and receive of each goroutine.
* **`Embeddings`.** Request, answer and conversion; the routes are cells, so
  that a shared one would show, and the task is what the caller's options leave
  after the provider has appended its default.

## Runs

Twelve runs, of which eight pass and four exhibit a disagreement; `PROJECT.json`
gives for every property of a passing run a variant of the code that violates it.

| run | instance | properties, and what they say of the code |
|---|---|---|
| `breaker` | 3 requests, threshold 2, 2 probes, timeouts 2 and 3, one Reset, both APIs | `CountersMatchState`: closed exactly below the threshold, no trial inherits progress. `NothingOutlivesItsRequest`: no mark (`MarksBelongToRequests`), no slot (`SlotsBelongToProbes`), so nothing blocks the breaker for ever. `OpenLastsResetTimeout`: also after the watchdog reopened it. `PreResetRequestTakesNothing`. `NeitherStateIsForEver`: `HalfOpenEnds` and `OpenEnds` |
| `breaker_waits` | 4 requests, middleware path | violation of `TrialWaitsForClosedRequests`, see findings |
| `resilient` | 2 calls, 1 stream, 2 attempts, threshold 1 | `CallsSettleOnce`: no way out of an attempt leaks a permit, none holds one over a backoff (`PermitHeldWhileWorking`), and a call is one piece of evidence (`OneReportPerCall`). `OpensOnFinalEvidence`: an error that is retried is no evidence. `CallsReturn` |
| `stream` | provider and 2 wrappers, 5 chunks, channels of 1 | `InOrderThenOneTerminal`, `KeepsContract` (refinement of `StreamContract`): what a reader sees. `InnerStagesEndTheirStream`, `NoSilentClose`: terminals get across. `SuccessIsComplete`: a finalizer that saw no error passed on every chunk. `AllStop` |
| `stream_truncated` | 1 wrapper | violation of `DoneMeansComplete`, see findings |
| `fallback` | a call and a stream, 2 weighted clients, ids up to 3 | `HealthAndWeightFollowTheClient`: blame and weight follow the client, not its position (`CooldownIsEarned`, `WeightsAligned`). `CallsFollowTheirChain`: a call goes down its snapshot (`TriedOnceInOrder`) and ends as its attempts say (`AnswerIsExplained`). `CallsReturn` |
| `ratelimit` | 2 calls with a Reset between any two steps, 3 without (the third uses more than its estimate); bursts 1 and 2, estimate 3, uses 0, 1, 6 | `LedgerBalances`: bucket, debt and credit against use, to the token. `NeverUndercharged`: also across a Reset. `CallsReturn` |
| `ratelimit_late` | 2 calls | violation of `LateReportsSettleNothing`, see findings |
| `workers` | 8 transitions and 3 drainers; a batch of 3 and 2 workers; 3 tool calls at 2 at a time, 2 turns | `OrderedDelivery` (refinement of `OrderedCallbacks` with its liveness): transitions called back once, in order, without overlap, all of them; `BatchIsExact`: entries, counts, cost and progress agree however workers interleave; `TranscriptAnswersEveryCall`; `WorkersEnd`: batch and tool loop return, and no goroutine stays |
| `request_path` | twenty components, one per execution | see the next table |
| `mcp` | 2 calls, or a call and a server request; queue and pipes of 1 frame | `ClosedMeansUnanswered`. `FailedCallsAreNotBegun`: a call that failed before the writer had begun its frame never reaches the server; a frame whose write had begun may, after its caller was told of the failure. `SessionNeverHangs` |
| `mcp_null_id` | the same | violation of `NullIdErrorIsItsAnswer`, see findings |

`MCWorkers` and `MCRequestPath` check several components in one run without
multiplying their states: the variable `which` chooses one component when an
execution begins, and the others never move. Fairness is conditional on
`which` in the same way.

The properties of `request_path`, each with a variant of the code per conjunct
that violates it:

| component | properties, and what they say |
|---|---|
| HTTP | `AttemptsAreOrderly`: not sooner than the server asks and not longer for an answer of the past (`WaitsAsTold`); no body is left open and the provider's last answer is reported (`RequestEndsClean`). `HttpEnds` |
| cache | `HitsAreFreshAnswers`: unchanged by whoever holds a response. `EvictsDeadFirst` |
| costs | `BooksBalance`: under each model exactly the calls billed since the last reset, at the price told; the splits add up |
| telemetry | `RecordsAreTrue`: one verdict for each request, which its caller is told otherwise only after a panic, a failure it did not read in time, or a late cancellation (`VerdictsAreTrue`); who sees no request active finds every span ended (`IdleMeansEnded`); the latest samples, counted (`WindowIsHonest`) |
| video | `JobsAreAnswered`: each wait is told the job's end, waits agree, and the length ordered is one the service takes |
| batches | `BatchIsAnswered`: one result for each request; counts and usage are theirs; whatever interval is asked for, a poll is at most the longest and a tenth of it away |
| speech | `SpeechEndsAsTold`: audio in order, complete with its usage or an error; no goroutine waits for a caller who left |
| MCP client | `ClientIsTrue`: what is advertised is served; notifications are delivered in order or counted; listing ends |
| embeddings | `EmbeddingsMatch`: vectors keep their texts, rankings are sorted, unfinished jobs are no results, routes are one's own, and the task is the one asked for |
| conversations | `RequestsAreAccepted`, which is `AnyProviderCanGoOn`: whoever answered before, each provider accepts what it is sent, and it says what the caller's says |
| requests | `RequestsAreAccepted`: the model accepts it; nothing of an earlier call is in it (`RequestSaysWhatTheOptionsSay`) |
| agent | `RequestsAreAccepted`: every call has one result, the config is kept (`SessionIsAccepted`). `AnswersAreWhole`: a result is its call's, reasoning returns to who may have it, partials and the whole turn agree (`SessionIsWhole`) |

`AnswersAreWhole` is the conjunction of what is said of the answers of the others:

| component | conjunct of `AnswersAreWhole`, and what it says |
|---|---|
| event streams | `EventsAreExact`: reader against reference, at every byte |
| four wire formats | `StreamedChatIsTheAnswer` and its like: a stream that ends without an error had come to its end and is the answer without streaming. `DeliveredCallsAreUsable`: also of a server that breaks the rules. `UsageAddsUp`: Gemini's parts of usage and its total |
| typed output | `TypedAnswersAreWhole`: what is returned fills the type; what is given up held nothing that does |
| catalogues | `CatalogueIsTrue`: pages join without gap or repetition; lookups agree; what one caller changes no other sees; tables name each other's models |
| errors | `ErrorsKeepTheirMeaning`: the caller's end is final; retry, breaker, fallback and metrics agree on a failure whatever wraps it; provider, status and hints survive |
| MCP over HTTP | `BodiesAreSplit`: the response of a body is found, its notifications kept, the server's requests dropped |
| costs | `PricesAreFair`: more tokens never cost less, and what is read from a cache without a rate of its own costs what the prompt does |

### Why the bounds are enough

* Two probes with three requests let a trial succeed, fail, and be joined by a
  leftover of an earlier state; the finding needs a fourth request. `Reset`
  only compares generations for equality, and one already makes two.
* In a pipeline each stage only knows its neighbours, so two wrappers show the
  first, an inner and the last stage. Five chunks over channels of one let every
  channel be full with a sender blocked, and an inner stage then hold the
  terminal chunk, whose loss `InnerStagesEndTheirStream` has to allow for. The
  number of send timeouts is not bounded.
* Ids up to 3 over a chain of 2 give one addition after a removal: the
  situation in which a position changes its owner.
* The estimate (3) exceeds the token burst (2), so it splits into a
  reservation and a debt; uses of 0 (not reported), 1 and 6 give a missing, a
  negative and a positive correction. `MaxInstallments = 1` ends settlement in
  the middle of a debt. Saturation of the debt is in the operators;
  `MaxInt = 27` is the most that three calls can add to a debt (3 times 3 + 6),
  so the saturated ledger, which the code itself gives up, is not checked. The
  theorems make the same assumption.
* Two workers and three requests let one worker fail while the other is in
  flight and a third request is waiting to be handed over.
* Three attempts have a first, a middle and a last one, and two waits, the
  second of which could still follow the first answer. Six bytes make two
  data lines, one of them ended by a CRLF, and an event one byte too long.
* In the stream modules two calls in flight can be mistaken for each other, and
  eight events hold both with text and usage between them. Five messages in a
  conversation are two turns with a tool call in one of them, of two providers.
* Two builds from one map show what the first leaves to the second. Types of
  two levels with an embedded struct have every kind of hidden field the code
  distinguishes. One repair has a first and a last reply.
* Two concurrent calls suffice for the books, as each entry is one critical
  section; two requests of an observer overlap as `Begin` allows. A window of
  capacity 2 trims at every other sample.
* Two waits have one that learns of the end first. The longest interval of a
  batch is 10 ticks, the shortest jitter that shows; callers ask for none, which
  is 6 and doubles beyond the longest, or for 30, which is cut. A grace of 7
  has a second read in it, and a clock of 12 the poll after the longest
  sleep. Six contents are two turns of the kit with calls.
* Pages of two models over a list of three are cut before and after a page's
  end. Two layers on top of the client's own wrapping put each layer inside
  and outside each other one.
* A channel of one chunk is full after one. Three texts have all orders that
  matter.
* The three parties of `mcp` never need to act together: each property speaks
  of one call, and of what one other party does to it.
* Queue and pipes of one frame make every send block at once; a second frame
  only delays the situation. One server request suffices to fill the pipe the
  server must read from while it writes.

### Deadlock checking

Off where the system comes to rest by design: a pipeline whose goroutines have
ended, a limiter whose calls have returned, a session that is closed, workers
that are done, a request that has returned. In these runs a liveness property
(`AllStop`, `CallsReturn`, `WorkersEnd`, `HttpEnds`, `SessionNeverHangs`) says that only such a state is a rest.

## Time, fairness and other assumptions

Fairness is only put on what the Go runtime and the code's own timeouts
guarantee: a goroutine that can run does, a timer that is set expires. Nobody
is obliged to cancel, to keep reading, or to come back.

* **`CircuitBreaker`** (`FairSpec`). Time passes; some caller keeps calling
  (the breaker has no timer of its own, a state only ends when someone asks);
  a request admitted *closed* reports its outcome, as `execute` does for every
  permit. A probe need never report: `HalfOpenEnds` is about that. `OpenEnds`
  holds as long as no more failures are reported, since each of them restarts
  `resetTimeout`; the exception is part of the property.
* **`ResilientClient`**, **`FallbackChain`**. Each caller's goroutine runs and
  its provider answers some day. The wait for a first chunk may be canceled
  and need not be.
* **`StreamPipeline`**. A tick is one send timeout. The timeout is seconds, so
  goroutines that can run do so before a tick; the caller need not. Each stage
  is weakly fair, the response ends some day (the HTTP client bounds it), and
  the caller owes nothing. The `timedOut` short-circuit of `Send` is left out:
  no sender in the SDK sends again after a send has failed.
* **`RateLimiter`**. A reservation takes from a bucket at once and is due when
  the bucket is back at zero, as the library defines it. What a canceled
  reservation gives back depends on later reservations in the library; it is a
  free choice here, and `lost` records what it did not give back.
* **`RunTools`**. A goroutine that has sent its result, and has not yet
  released its slot, is forgotten at the next turn: that turn has a semaphore
  of its own, so nobody can be affected.
* **`McpSession`**. Waits are not timed: one that the code bounds may end at
  any time, and must end some time. Each call, frame and request of the server
  occurs once, so executions are finite and a single weak fairness condition
  on all steps of the client is as strong as one for each goroutine. The
  server has no fairness: it may never read, write or exit. Whether a handler
  slot is free is a free choice, which covers every number of slots.
* **`HttpRetry`**. The request's goroutine runs, timers expire, the server
  answers or the client's timeout ends the attempt.
* **`ResponseCache`** and the components added to `MCRequestPath` after it are
  checked for safety only. Hashes of different requests differ.
* **`SpeechStream`** says without fairness that nobody is left waiting: in a
  state where the caller has gone, the goroutines can take a step or have ended.

## Proofs

The theorems below and their lemmas are in eight modules, and tlapm discharges every
obligation. What is proved holds for every value of the constants under the `ASSUME` of the module
(positive thresholds and timeouts, finite sets of calls, natural bounds), and
for behaviours without fairness: `Spec` or `SafeSpec`, and where a run starts
from a narrower specification (`InstanceSpec`, `SuiteSpec`, `CastSpec`,
`PathSpec`) the theorem is about the component's own, wider one.

| theorem | states |
|---|---|
| `CircuitBreakerProofs!Typing` | types, ranges of the counters, and `CountersMatchState` |
| `CircuitBreakerProofs!NothingIsLeaked` | `NothingOutlivesItsRequest` |
| `CircuitBreakerProofs!OpenLasts` | `OpenLastsResetTimeout` |
| `CircuitBreakerProofs!ResetIsolates` | `PreResetRequestTakesNothing` |
| `ResilientClientProofs!CallsAlwaysSettleOnce` | `CallsSettleOnce` |
| `ResilientClientProofs!FinalEvidence` | `OpensOnFinalEvidence` |
| `ResilientClientProofs!DrivesTheBreaker` | every step of the retry loops is a step of `CircuitBreaker` or a stutter |
| `ResilientClientProofs!BreakerStaysSound` | the breaker's counters, marks and slots are sound in this composition |
| `ResilientClientProofs!JobsAreAlwaysAnswered` | `JobsAreAnswered` |
| `StreamPipelineProofs!OrderIsKept` | `InOrderThenOneTerminal` |
| `StreamPipelineProofs!InnerStagesKeepTheirTerminal` | `InnerStagesEndTheirStream` |
| `StreamPipelineProofs!NoFalseSuccess` | `SuccessIsComplete` |
| `StreamPipelineProofs!StreamsEndAloud` | `NoSilentClose` |
| `StreamPipelineProofs!PipelineKeepsContract` | `KeepsContract`: the pipeline implements `StreamContract` |
| `FallbackChainProofs!ClientsKeepWhatIsTheirs` | `HealthAndWeightFollowTheClient` |
| `FallbackChainProofs!CallsAlwaysFollowTheirChain` | `CallsFollowTheirChain` |
| `RateLimiterProofs!DebtsAddUp` | `LedgerBalances`, if no debt is larger than an int |
| `RateLimiterProofs!NothingIsFree` | `NeverUndercharged`, if no debt is larger than an int |
| `RateLimiterProofs!LedgerAlwaysBalances` | `BooksBalance` of `CostTracking` |
| `WorkersProofs!OneDrainerSafe` | `OneDrainer`: never a second drain goroutine, nor a queued transition without one |
| `WorkersProofs!QueueKeepsOrder` | every step of the queue is a step of `OrderedCallbacks` or a stutter |
| `WorkersProofs!BatchExact` | `BatchIsExact` |
| `WorkersProofs!CallsAreAnswered` | `TranscriptAnswersEveryCall` |
| `RequestPathProofs!AttemptsAreAlwaysOrderly` | `AttemptsAreOrderly` |
| `RequestPathProofs!HitsAreFresh` | `HitsAreFreshAnswers` |
| `RequestPathProofs!DeadGoFirst` | `EvictsDeadFirst` |
| `RequestPathProofs!RecordsAreAlwaysTrue` | `RecordsAreTrue` |
| `RequestPathProofs!BatchIsAlwaysAnswered` | `BatchIsAnswered` |
| `RequestPathProofs!EmbeddingsAlwaysMatch` | `EmbeddingsMatch` |
| `McpSessionProofs!ClosedCallsUnanswered` | `ClosedMeansUnanswered` |
| `McpSessionProofs!FailedCallsNeverBegun` | `FailedCallsAreNotBegun` |
| `McpSessionProofs!ClientIsAlwaysTrue` | `ClientIsTrue` |

Proof modules hold what fits together, not one component each: the theorems on
`Telemetry`, `NativeBatch` and `Embeddings` are beside those on the request path,
`CostTracking` beside the other books, `VideoJobs` beside the other loop that
retries, `McpClient` beside its session.

TLC checked each inductive invariant below on the instance of the component's
run before it was proved.

**Circuit breaker.** `MarksBelongToRequests` and `SlotsBelongToProbes` are not
inductive. `IInv` adds the types and counter ranges; `PublicGrantsHeld`
(a queued public grant is an outstanding permit, and queued once: otherwise
one public report would settle a permit twice); and `FailureNotBeforeOpening`
(while open, the last failure is not older than the opening), without which
`OpenLastsResetTimeout` does not follow: the code compares with
the last failure, the property with the opening. A report acts
on the breaker in a way that does not depend on who reports, and acts on the
set of outstanding permits in a way that does not depend on the breaker. The
proof follows that: `ReportShape` for the first half, `GrantHolders` and
`GiveUpHolders` (one cardinality step each) for the second, and `AdmitStep`,
`SettleStep`, `PermitFreeStep` to join them per action of `Next`.

**Resilient client.** `RetriesAreEarned` (a call that has not returned has
reported nothing, and one that waits has an attempt left) makes the two
invariants inductive. `AcquireShape` and `SettleShape` say what a call does to
the breaker whatever the breaker's state. `DrivesTheBreaker` maps every action
of the retry loop to one of the breaker's, and `BreakerStaysSound` concludes what
`CircuitBreakerProofs` shows of any caller for this one.

**Stream pipeline.** Two halves. `Order` follows each chunk: what is in a
channel continues, without a gap, what was taken from it (`QueueInOrder`), a
stage has passed on what it took except the chunk in its hands
(`FollowsItsSource`), and a terminal is in the channel last and for good
(`HoldsWhatItOwes`). `Losses` says that a stage which is short of a chunk has an
error to show for it or a caller to blame (`LossHasACause`, `DoneIsMeant`,
`FailureIsShown`), where `CallerToBlame` must already hold while the last stage
is still blocked: a caller who left is to blame before anybody's timeout. A stage
that is full and sees no reader blames the next, and the last one the caller;
`TickBlame` takes that
from any blocked stage to the last one, with the least-number principle. Most actions move one stage and its neighbour, so
`SomeStagesMove` reduces each to the parts about those. The refinement then is
a case per action.

**Fallback chain.** Ids are given out in ascending order and never again
(`IdsAscend`), and so are those of a snapshot: a sorted copy of a set of
entries, whose order `OrderExists` and `InOrderAscends` establish for any
length. A call's attempts are the beginning of its snapshot
(`FollowsItsSnapshot`), and each program counter fixes how long that
beginning is (`KnowsItsPlace`). `RemoveAtShape` is about the entry at an index
that a removal shifts, where blame and weight could change their owner.

**Rate limiter.** The ledger is a sum over the calls: what each holds
(`Held`) and what each owes (`Owed`). `SumUpdate` says what a sum does when one
call changes, and every action is then one equation between numbers; the
equation of `MoveKeeps` serves all of them. `CallsAreConsistent` ties the terms
of a call to its program counter; `DebtIsShared` bounds the debt by what the
calls can have put there, so that the additions do not saturate. That needs
`DebtFits`: the number of calls times estimate and largest use is an int of the
machine. Without it the code's saturation (`ratelimit.go`) forgives debt, and the ledger
does not hold; the bounds of the runs satisfy it. `LedgerHolds` has the
inequality with what canceled reservations lost, which `NeverUndercharged` leaves out.

**Workers.** Callback queue: typing, `OneDrainer`, and `QueueFollowsCalls`: what
is queued continues what has been called back. Batcher: results are entered by
the worker that holds the request (`JobsApart`, `ResultsFollowBegun`); each entry
is counted a little later, and each count is called back by the worker that took
it (`ProgressFollows`: the entries not counted yet and the counts not reported
yet are the workers between the two locks); `StoppedForAReason` explains what is
left out. Tool loop: `ResultsFollowTheirTurn`, and `TurnsAreAnswered`, which
needs that nothing but results is between a message and the last of its answers:
without that a message could claim the answers of the next.

**Request path.** HTTP: `OneBody` says which body is open at each stage, and
`LastAnswerKept` that the loop is out of attempts only after one without an
answer; the second needs the bound `attempt <= MaxRetries` wherever an attempt
is made. `HeaderUsedOnce` says that the Retry-After kept is that of the last
answer whenever a wait is chosen. Cache: an entry is the answer to its key
(`EntriesAreAnswers`), nobody holds the object of an entry or of another call
(`CopiesAreApart`), so a change by a receiver reaches nobody. `DeadGoFirst` adds
that entries of one cache all expire or none does, so the earliest of them to expire
being alive makes all of them alive.

**MCP session.** The frame of a call is in one place: with its caller, in the
queue once, with the writer, or sent (`KnowsItsFrame`, `QueuedOnce`); what the
server knows of a call, it knows of one that was sent (`KnownWereSent`). A queued frame
of a call that has returned belongs to a caller who has given up, or the writer has
left, so that it is never begun. Nothing is proved of a frame that was begun before.

**Telemetry.** `VerdictInv` says for each phase of a request which verdicts it can
have, and what its caller was told: none while a stream is open unless an error was
judged in the loop, one when the first deferred call is through, or none at all if a
panic of a unary call passed. A failure that was withheld is judged one; what
`EnsureTerminal` says after it depends on the context alone. `ActiveInv`: the count is
that of the requests not counted out yet (one cardinality step per request that
enters or leaves), and an open span belongs to one of them. `WindowInv`: samples are in the order of
their ages, so the live ones are the last ones and dropping the first entries drops
the dead; `Enough` bounds what trimming to half of the capacity may take.

**Native batches.** `BatchInv`: identifiers are taken once (`OneEach`), what is at the
service could be submitted, and what was collected is what the lines say
(`Collected`). `pollInterval` is between 1 and the longest, and `JitterIsBounded` adds a tenth
(`Furthest`). The last line of a request exists because places are numbers
(`LastOfSome`), and a count of requests is one of identifiers because `OneEach`
is a bijection.

**Embeddings.** `EmbedInv` follows a vector: the order posted, the list of the service with
its indices (`ListedOK`), the conversion by index. `WithDefaultOfTasks` says what task is left
when a default is appended to options that name none (`AppendedIsLast`).

**Video jobs.** `WaitOK` says of each place in a poll what the reply in hand can still
be compared with the job (`Earlier`): a state seen is one the job had, and with
Gemini the operation kept under the lock is the one all waits are answered from.

**Costs.** `Booked` is the balance of one model, and a call's bill moves one summand
of `CostsOf` and `InputOf` and one element of two sets. `ModesAddUp` holds because every
entry adds its price once to a model and once to a mode. No fact about the
prices is needed but that they are not negative (`CardsOK`).

**MCP client.** `Parts`: at each stage of the handshake, which parts run and what was
advertised; `Asked`: what each question was judged by. `NoticeInv`: numbers ascend
from delivered through busy to queued, and every one of the rest was counted as
dropped. `PagingInv`: the cursors asked for are those remembered, shifted by one,
so that none repeats.

**How induction is done.** The library's induction rules take a predicate as
parameter, which the provers cannot instantiate. Where a proof needs induction
(the order of a snapshot, sums, the row of blocked stages) it uses the
least element of a set of counterexamples, from the well-foundedness of
the natural numbers (`LeastOne`), or a set of subsets in the predicate's place
(`SubsetInduction`).

**Only model-checked.** All liveness (`HalfOpenEnds`, `OpenEnds`, `CallsReturn`,
`AllStop`, `WorkersEnd`, `HttpEnds`, `SessionNeverHangs`, the liveness half of
`OrderedDelivery`): TLAPS does not treat fairness and ENABLED.
`SpeechEndsAsTold`: a conjunct speaks of ENABLED. `AnswersAreWhole` and `RequestsAreAccepted`: most
of their components hold data in sequences converted by recursive operators, or whole
tables; `EventsAreExact` compares what is read with a reference over the whole text,
which needs induction over it; `PricesAreFair` and `BodiesAreSplit` depend neither on
the constants nor on what has happened: they compare finitely many prices and bodies,
and TLC computes all of them.


## Findings

Each is exhibited by a run that TLC ends with a counterexample.

1. **A trial starts with closed-state requests in flight** (`breaker_waits`).
   A probe left over from an earlier trial settles while the breaker is
   closed; lines 352, 383, 433 and 455 retire a closed-state mark without
   looking at `p.halfOpen`, so it takes that of another request. The
   breaker then enters half-open with that request outstanding, which the
   comment at line 261 says it waits for.
2. **`Done` for a truncated stream** (`stream_truncated`). `DeliverTerminal`
   gives up on a full channel and re-arms the guard (`streaming.go:323`); the
   deferred helper then sends `Done: true` if the context is alive. A caller
   who resumes after two send timeouts reads a clean end of a stream that lost
   chunks, or whose provider failed. The observers have judged such a request a
   failure by then (`metrics.go:406`), and `VerdictsAreTrue` excepts it.
3. **A late `RecordTokens` settles against the limiter after a Reset**
   (`ratelimit_late`). The generation is read when the report is made, not
   when the request was admitted (`ratelimit.go:549`); the comment at 544
   excludes this.
4. **An error without an id answers the wrong call** (`mcp_null_id`). With one
   call pending the error is delivered to it, though it can be about a frame
   whose caller has given up (`stdio.go:283`); the comment at 275 calls it
   unambiguous.

Smaller disagreements of text and code, met while modelling and reflected in
the models without a run of their own:

* a probe may settle into a later half-open window than its own, both being
  of one generation (`docs/guides/resilience.md:201`; `releasePermit` and
  `recordSuccessLocked` compare generations only);
* with no wrapper, a provider stream closes without a terminal chunk when the
  caller was paused throughout (`pkg/providers/gemini/gemini.go:200` against
  `docs/ARCHITECTURE.md:541`); `NoSilentClose` therefore excepts paused readers;
* a wrapper may lose the terminal chunk of its source after a single timeout of
  a caller who is still there: an inner stage blocked on the terminal and the
  next stage blocked in `Send` expire together, and the next stage drains the
  inner one's channel, which then ends without a terminal; the comment at
  `streaming.go:288` has the consumer gone in that case. The
  exception in `InnerStagesEndTheirStream` is this one;
* a final chunk received is dropped by `Send` when the context has ended since
  (`streaming.go:122` against 528-530);
* `WeightedFallbackChain.AddClient` gives weight 1 to a client added after one
  of weight 0 (`fallback.go:664`);
* `FallbackChain.Stream` returns on the end of the context without draining
  the stream it opened (`fallback.go:299` against `streaming.go:213`);
* a blank line after lines without data does not reset the event name in
  `SSEReader.Read` (`sse.go:133`), as the standard for server-sent events has
  it: the name is given to the next event;
* a wait that a Reset has overtaken takes credit of the new generation
  (`ratelimit.go:273` against 49-52) and sleeps for its debt (264 against
  232-233); a full burst and credit can be used at once (625 against 144);
* a frame whose write has begun may be sent after its caller was told that the
  call failed (`stdio.go:467` looks at the caller's context once, before the write;
  497), so that a retry can execute a call twice; the comment at 412 speaks of
  frames in the queue, and `FailedCallsAreNotBegun` of those;
* `write` may return the context's error with a response buffered
  (`stdio.go:497` against 360-362); a refusal of a server request is dropped
  when its write times out (`inbound.go:137`); a progress handler may run after
  its call has returned (`client.go:480`).

Further observations, from the components of `request_path`:

* *Requests.* `WithExtraBody` keeps the caller's map and `WithExtraBodyParam`
  writes into it (`options.go:332`, 340). Gemini's builder ignores `ToolChoice`.
  With merging disabled the Responses builder drops the parts of a system message.
* *Embeddings.* Gemini's `EmbedQuery` and `EmbedDocuments` append their task to
  the caller's option slice: two concurrent calls that share a slice with spare
  capacity write one cell (`gemini.go:597`, 608). `EmbedDocuments` promises
  vectors in response order, not in that of the texts (`embeddings.go:51`).
  RunPod's answers in base64 do not decode (`infinity.go:423`); `null` is an
  empty vector everywhere. Gemini ignores dimensions and encoding.
* *Structured output.* Two fields that differ only by case are not validated
  inside (`structFieldByJSONNameDepth` folds case); ambiguity is resolved per
  embedding level, and the tagged-over-untagged rule of `encoding/json` is not mirrored.
* *Costs.* A mode without a card on a priced model adds its standard cost and
  counts as unpriced, which the comment on `ModelUsage` excludes; a reported
  media charge is not clamped as token counts are. Sonnet 5 is priced at 2/10
  where a comment says it is recorded at 3/15.
* *Observability.* The unary path of the logging middleware has no guard for a
  nil response; a panic in a unary call is judged by nobody; `Call` records
  no usage in the tracers; a stream that closes without a terminal chunk on a
  live context counts as a success; Langfuse counts tool calls by the largest
  chunk.
* *Video.* OpenAI's moderation stage is always "output", and its result
  request does not look at the job's state; a job canceled at the service and a
  caller's cancellation are both `context.Canceled`; the policy's timeout does
  not cover the result request; Together takes unknown states for running.
* *Agent adapter.* An unsigned Gemini thought loses its provider through the
  session; a forced tool that is not offered is pinned; a caller's own tool
  named `set_model_response` passes the allowlist.
* *MCP client.* Progress handlers queued before a call returns run after it
  (the comment says they stop); a failed handshake does not cancel inbound
  handlers; the approver's cap can raise a host's smaller limit; the HTTP
  transport never deletes a session id captured by a call that outlives Close.
* *Catalogues.* Eight providers report `HasMore` without a cursor
  (`models.go:196`), three cut silently, Z.AI ignores the limit; OpenAI does
  page by cursors, which a comment denies, and a cycle of two cursors would not
  end; limits of `gpt-4.1` and `gpt-4` differ between tables; some priced names
  are in no catalogue; Gemini shares its pricing pointer with the table.
* *Errors.* A quota answer does not fall back unless typed as a rate limit
  (`fallback.go:28` says it does); Z.AI's quota code keeps a retryable API
  error beside it; `ErrPlanRequired` has no metrics category; ElevenLabs gives
  403, 408 and 529 no sentinel; the Ollama and llama.cpp clients drop
  Retry-After; `IsTemporary` and `DefaultShouldRetry` differ on interrupted
  streams and on socket errors; an overloaded error in an Anthropic stream is
  not retried though the fallback chain knows it.
* *Speech.* ElevenLabs' error evicts the oldest chunk, leaving a gap in the
  audio before the error; its timeout can close the channel with neither usage
  nor error when the usage waits for a slow caller. The compatible client ends
  silently on `[DONE]` without a done event, and when canceled.

## What is not modelled

* **Payloads.** Text is a sequence of pieces or a name. Prompt formatting,
  wording, redaction and field mapping without decisions are left out.
* **I/O.** Sockets, processes and files appear as environments that do
  anything in any order. The reaping of the MCP subprocess, its environment
  and the splitting of its output into lines are left out, and so is the reply
  sent when no handler slot is free other than as one refusal among others.
* **Panics** of user callbacks that the SDK does not recover. Those it
  recovers (tools, batch workers) are failures in the models.
* In components listed as *partly* modelled in `PROJECT.json`: the
  address checks and redirects of the HTTP client, and concurrent readers of
  one `SSEReader`; the keyed map of `SharedRateLimiter` and `WaitN` with
  explicit counts; `ToolRegistry.HandleAll`; prompts of the MCP client.

Restrictions of the components of `request_path`, beyond their constants:

* **Streams.** Anthropic: at most one signed thinking block, and a start event
  with a count of input tokens. Gemini: the unary answer's own signature of a
  thought is left out, as its stream drops it. Responses: reasoning summaries
  are streamed; the terminal event holds a response.
* **`Conversation`.** Call ids are unique, a message has content or parts, and
  models answer after a user or a tool. **`ModelRequest`.** A system message
  and sampling parameters are always there.
* **`StructuredOutput`.** No fields that differ by case only, embedding cycles,
  custom marshalers or the `string` option; replies that repeat a key by case
  are excepted from the second half of the property.
* **`CostTracking`.** Integer rates, one card of each form. **`Telemetry`.**
  Panics on a chunk that is not the last; attributes, token rates and content
  capture are left out.
* **`VideoJobs`.** No delays, prices, direct `Poll` or `Cancel`. **`NativeBatch`.** Errors of a line are alike;
  listing and deletion hold no state; a submission repeated by the transport
  may leave a batch nobody names, as the code documents.
* **`AgentModel`.** One thought and one text per content; usage, schemas, HTTP
  options and the bridge of `ToolRegistry` are left out; the hash of a
  synthesized id collides at first.
* **`McpClient`.** No encoding, batches, prompts or mounting of tools; host
  options only with sampling by an LLM.
* **`ModelListing`.** Honest servers (external), names in lower case; rates,
  display names, sorting helpers and the cached tables of four providers left out.
* **`ErrorKinds`.** No messages, `FormatError`, root causes or redaction; each
  kind of layer once.
* **`SpeechStream`, `Embeddings`.** Building of the request, formats and
  alignment; dimensions and user labels; two calls that share an option slice.

## Plan

Modelled: all that the inventory lists as such. Every invariant and safety
property of the passing runs is proved except those named under
[proofs](#proofs). Next, in this order:

1. Proofs: the parts of `AnswersAreWhole` whose data are not recursive
   (`UsageAddsUp` of `GeminiStream`, pages of `ModelListing`).
2. The stream watchdog (`streaming.go:643`) as a stage of `StreamPipeline`;
   panics of `onRetry` in `ResilientClient`.
3. Transcription and its formats; the provider registry; address checks of the
   HTTP client.
