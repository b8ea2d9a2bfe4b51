---------------------------- MODULE MCRequestPath ----------------------------
(***************************************************************************)
(* One run for what a single request goes through below the middleware:    *)
(* the conversation a caller keeps is prepared for a provider, the options *)
(* become a request, the response cache is asked, the HTTP client attempts *)
(* the request, its answer is read event by event, put together as the     *)
(* wire format has it, decoded if it is typed, billed and observed; and    *)
(* for what goes on beside it: video jobs, native batches, embeddings,     *)
(* spoken audio, the agent adapter, the MCP client, the model catalogues   *)
(* and the kinds of errors.  These have no state in common; an execution   *)
(* is one of one of them, chosen at the start, while the variables of the  *)
(* others stay as they were created.  The streams share their variables.   *)
(***************************************************************************)
EXTENDS HttpRetry, ResponseCache, SseReader, CostTracking, Telemetry, VideoJobs,
        NativeBatch, SpeechStream, McpClient, Embeddings

CONSTANTS MaxFrames, MaxCalls, MaxEvents, MaxItems
CONSTANTS MaxMessages, Families, MaxBuilds, MaxRepairs
CONSTANTS MaxContents
CONSTANTS MaxModels, PageSize, MaxRegistered
CONSTANTS MaxLayers

VARIABLES which
VARIABLES server, reader, chunks
VARIABLES messages, merging
VARIABLES family, options, extra, built, builds
VARIABLES target, repairs, asked, reply, phase
VARIABLES config, contents, shown
VARIABLES shelf, registry
VARIABLES failure

Chat == INSTANCE ChatStream
Anthropic == INSTANCE AnthropicStream
Gemini == INSTANCE GeminiStream
Responses == INSTANCE ResponsesStream
Talk == INSTANCE Conversation
Asking == INSTANCE ModelRequest WITH request <- built
Typed == INSTANCE StructuredOutput
Agent == INSTANCE AgentModel
Catalogue == INSTANCE ModelListing
Meanings == INSTANCE ErrorKinds

ASSUME Chat!ChatAssumption /\ Anthropic!AnthropicAssumption
ASSUME Gemini!GeminiAssumption /\ Responses!ResponsesAssumption
ASSUME Talk!ConversationAssumption /\ Asking!RequestAssumption /\ Typed!StructuredAssumption
ASSUME Agent!AgentAssumption
ASSUME Catalogue!ListingAssumption
ASSUME Meanings!ErrorAssumption

\* Orders by the typed option, by both, and by an extra that no service takes.
SomeOrders == {<<0, 0>>, <<8, 99>>, <<0, 99>>}

\* None, and one above the cap.
SomeIntervals == {0, 30}

streamVars == <<server, reader, chunks>>
talkVars == <<messages, merging>>
modelVars == <<family, options, extra, built, builds>>
typedVars == <<target, repairs, asked, reply, phase>>
agentVars == <<config, contents, shown>>
shelfVars == <<shelf, registry>>
failureVars == <<failure>>
pathVars == <<which, requestVars, cacheVars, readerVars, streamVars, talkVars, modelVars, typedVars,
              costVars, telemetryVars, filmVars, batchVars, agentVars, clientVars, shelfVars,
              failureVars, speechVars, embedVars>>

\* Components not under test are created one way only, and of the requests that
\* differ only in the names of their keys there is one.
PathInit ==
    /\ which \in {"http", "cache", "events", "chat", "anthropic", "gemini", "responses", "talk", "model", "typed",
                  "costs", "telemetry", "video", "batch", "agent", "client", "catalogue", "failure", "speech",
                  "vectors"}
    /\ Init /\ CacheInit /\ ReaderInit /\ CostInit
    /\ TelemetryInit /\ (which # "telemetry" => observer = "metrics")
    /\ which # "http" => kind = "whole"
    /\ \A c \in Callers : request[c] <= c
    /\ which # "cache" => ttl = 0 /\ \A c \in Callers : request[c] = 1
    /\ CASE which = "chat" -> Chat!Init [] which = "anthropic" -> Anthropic!Init
         [] which = "gemini" -> Gemini!Init [] which = "responses" -> Responses!Init
         [] OTHER -> server = <<>> /\ reader = <<>> /\ chunks = <<>>
    /\ Talk!Init /\ (which # "talk" => merging)
    /\ IF which = "model" THEN Asking!Init
       ELSE family = "" /\ options = <<>> /\ extra = "" /\ built = <<>> /\ builds = 0
    /\ IF which = "typed" THEN Typed!Init
       ELSE target = <<>> /\ repairs = 0 /\ asked = 0 /\ reply = <<>> /\ phase = ""
    /\ VideoInit /\ (which # "video" => service = "zai" /\ order = <<0, 0>>)
    /\ BatchInit /\ (which # "batch" => pollInterval = DefaultInterval)
    /\ Agent!Init
    /\ Catalogue!Init
    /\ Meanings!Init
    /\ IF which = "client" THEN ClientInit
       ELSE /\ scene = "list" /\ host = [NewHost(Quiet) EXCEPT !.life = "ready"]
            /\ questions = <<>> /\ notices = NoNotices /\ paging = NoPaging
    /\ IF which = "speech" THEN SpeechInit
       ELSE SpeechStarts("togetherai", 0, <<Item("cut", 0)>>)
    /\ IF which = "vectors" THEN EmbedInit
       ELSE EmbedStarts("chat", "compat", "embed", <<1>>, "", <<>>, "", "")

StreamNext ==
    \/ which = "chat" /\ Chat!Next
    \/ which = "anthropic" /\ Anthropic!Next
    \/ which = "gemini" /\ Gemini!Next
    \/ which = "responses" /\ Responses!Next

PathNext ==
    \/ which = "http" /\ Next
       /\ UNCHANGED <<which, cacheVars, readerVars, streamVars, talkVars, modelVars, typedVars,
                       costVars, telemetryVars, filmVars, batchVars, agentVars, clientVars, shelfVars,
                       failureVars, speechVars, embedVars>>
    \/ which = "cache" /\ CacheNext
       /\ UNCHANGED <<which, requestVars, readerVars, streamVars, talkVars, modelVars, typedVars,
                       costVars, telemetryVars, filmVars, batchVars, agentVars, clientVars, shelfVars,
                       failureVars, speechVars, embedVars>>
    \/ which = "events" /\ ReaderNext
       /\ UNCHANGED <<which, requestVars, cacheVars, streamVars, talkVars, modelVars, typedVars,
                       costVars, telemetryVars, filmVars, batchVars, agentVars, clientVars, shelfVars,
                       failureVars, speechVars, embedVars>>
    \/ StreamNext
       /\ UNCHANGED <<which, requestVars, cacheVars, readerVars, talkVars, modelVars, typedVars,
                       costVars, telemetryVars, filmVars, batchVars, agentVars, clientVars, shelfVars,
                       failureVars, speechVars, embedVars>>
    \/ which = "talk" /\ Talk!Next
       /\ UNCHANGED <<which, requestVars, cacheVars, readerVars, streamVars, modelVars, typedVars,
                       costVars, telemetryVars, filmVars, batchVars, agentVars, clientVars, shelfVars,
                       failureVars, speechVars, embedVars>>
    \/ which = "model" /\ Asking!Next
       /\ UNCHANGED <<which, requestVars, cacheVars, readerVars, streamVars, talkVars, typedVars,
                       costVars, telemetryVars, filmVars, batchVars, agentVars, clientVars, shelfVars,
                       failureVars, speechVars, embedVars>>
    \/ which = "typed" /\ Typed!Next
       /\ UNCHANGED <<which, requestVars, cacheVars, readerVars, streamVars, talkVars, modelVars,
                       costVars, telemetryVars, filmVars, batchVars, agentVars, clientVars, shelfVars,
                       failureVars, speechVars, embedVars>>
    \/ which = "costs" /\ CostNext
       /\ UNCHANGED <<which, requestVars, cacheVars, readerVars, streamVars, talkVars, modelVars,
                       typedVars, telemetryVars, filmVars, batchVars, agentVars, clientVars, shelfVars,
                       failureVars, speechVars, embedVars>>
    \/ which = "telemetry" /\ TelemetryNext
       /\ UNCHANGED <<which, requestVars, cacheVars, readerVars, streamVars, talkVars, modelVars,
                       typedVars, costVars, filmVars, batchVars, agentVars, clientVars, shelfVars,
                       failureVars, speechVars, embedVars>>
    \/ which = "video" /\ VideoNext
       /\ UNCHANGED <<which, requestVars, cacheVars, readerVars, streamVars, talkVars, modelVars,
                       typedVars, costVars, telemetryVars, batchVars, agentVars, clientVars, shelfVars,
                       failureVars, speechVars, embedVars>>
    \/ which = "batch" /\ BatchNext
       /\ UNCHANGED <<which, requestVars, cacheVars, readerVars, streamVars, talkVars, modelVars,
                       typedVars, costVars, telemetryVars, filmVars, agentVars, clientVars, shelfVars,
                       failureVars, speechVars, embedVars>>
    \/ which = "agent" /\ Agent!Next
       /\ UNCHANGED <<which, requestVars, cacheVars, readerVars, streamVars, talkVars, modelVars,
                       typedVars, costVars, telemetryVars, filmVars, batchVars, clientVars, shelfVars,
                       failureVars, speechVars, embedVars>>
    \/ which = "client" /\ ClientNext
       /\ UNCHANGED <<which, requestVars, cacheVars, readerVars, streamVars, talkVars, modelVars,
                       typedVars, costVars, telemetryVars, filmVars, batchVars, agentVars, shelfVars,
                       failureVars, speechVars, embedVars>>
    \/ which = "catalogue" /\ Catalogue!Next
       /\ UNCHANGED <<which, requestVars, cacheVars, readerVars, streamVars, talkVars, modelVars,
                       typedVars, costVars, telemetryVars, filmVars, batchVars, agentVars, clientVars,
                       failureVars, speechVars, embedVars>>
    \/ which = "failure" /\ Meanings!Next
       /\ UNCHANGED <<which, requestVars, cacheVars, readerVars, streamVars, talkVars, modelVars,
                       typedVars, costVars, telemetryVars, filmVars, batchVars, agentVars, clientVars,
                       shelfVars, speechVars, embedVars>>
    \/ which = "speech" /\ SpeechNext
       /\ UNCHANGED <<which, requestVars, cacheVars, readerVars, streamVars, talkVars, modelVars,
                       typedVars, costVars, telemetryVars, filmVars, batchVars, agentVars, clientVars,
                       shelfVars, failureVars, embedVars>>
    \/ which = "vectors" /\ EmbedNext
       /\ UNCHANGED <<which, requestVars, cacheVars, readerVars, streamVars, talkVars, modelVars,
                       typedVars, costVars, telemetryVars, filmVars, batchVars, agentVars, clientVars,
                       shelfVars, failureVars, speechVars>>

PathSpec == PathInit /\ [][PathNext]_pathVars /\ (which = "http" => Fairness)

-----------------------------------------------------------------------------
\* Whatever the conversation before it and the options, the request is one the provider
\* accepts, and says what the caller's messages and options say.
RequestsAreAccepted ==
    /\ which = "talk" => Talk!AnyProviderCanGoOn
    /\ which = "model" => Asking!RequestSaysWhatTheOptionsSay
    /\ which = "agent" => Agent!SessionIsAccepted

\* What a call returns is the whole answer.  The events read are those of the text.  Whatever
\* the wire format, what a stream that succeeded says is the answer the same request would have
\* got without streaming, and its calls can be dispatched; a typed value leaves no field of its
\* type unset; a session, a listing or the body of an answer is whole; what is told of a failure
\* survives its wrappings; and what an answer costs grows with it.
AnswersAreWhole ==
    /\ which = "events" => EventsAreExact
    /\ which = "chat" => Chat!StreamedChatIsTheAnswer /\ Chat!DeliveredCallsAreUsable
    /\ which = "anthropic" => Anthropic!StreamedMessageIsTheAnswer
    /\ which = "gemini" => Gemini!StreamedAnswerIsTheAnswer /\ Gemini!UsageAddsUp
    /\ which = "responses" => Responses!StreamedResponseIsTheResponse
    /\ which = "typed" => Typed!TypedAnswersAreWhole
    /\ which = "agent" => Agent!SessionIsWhole
    /\ which = "client" => BodiesAreSplit
    /\ which = "catalogue" => Catalogue!CatalogueIsTrue
    /\ which = "failure" => Meanings!ErrorsKeepTheirMeaning
    /\ which = "costs" => PricesAreFair

\* A request returns, whether or not anybody cancels it.
HttpEnds == which = "http" => RequestEnds
=============================================================================
