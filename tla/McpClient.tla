------------------------------ MODULE McpClient ------------------------------
(***************************************************************************)
(* The surface of an MCP client, over either transport.  Connecting: what  *)
(* the host configured decides what is advertised, served and refused, and *)
(* what a failed handshake or a Close leaves behind.  Notifications: the   *)
(* bounded pump that runs the host's callbacks.  Listing: pages behind     *)
(* cursors the server chooses.  The three share no state but the client,   *)
(* so an execution is of one of them, its scene.                           *)
(***************************************************************************)
EXTENDS Integers, Sequences, SequencesExt, FiniteSetsExt

CONSTANTS NotifyQueue,    \* notifyQueueSize
          MaxInflight,    \* maxInflightRequests
          MaxNotices, MaxQuestions, MaxPages     \* bounds
ASSUME McpClientAssumption ==
    /\ {NotifyQueue, MaxInflight} \subseteq Nat \ {0} /\ {MaxNotices, MaxQuestions, MaxPages} \subseteq Nat

VARIABLES scene,          \* what the execution is about
          host,           \* the configuration and the state of the client's parts
          questions,      \* the server's requests, with what became of each
          notices,        \* the pump, and what was told
          paging          \* a listing in progress

clientVars == <<scene, host, questions, notices, paging>>

Scenes == {"connect", "notify", "list"}
Methods == {"sampling", "roots", "elicitation", "other"}

\* buildRequestHandlers: sampling needs an approver, and fixed roots are checked at once.
Built(h) == (h.sampling # "none" => h.approver) /\ h.roots # "bad"

\* What is served; a transport that delivers no requests serves none.
ServedMethods(h) ==
    IF h.transport = "http" THEN {}
    ELSE {m \in Methods : \/ m = "sampling" /\ h.sampling # "none"
                          \/ m = "roots" /\ h.roots # "none"
                          \/ m = "elicitation" /\ h.elicits}

CapabilitiesFor(served) == served
SupportsInbound(h) == h.transport = "stdio"

\* up, the transport, the pump and the inbound side; handlers, whether the context of the
\* handlers lives; a session the server opened, and how often it was ended.
Hosts == {h \in [transport : {"stdio", "http"}, sampling : {"none", "handler", "llm"}, approver : BOOLEAN,
                  roots : {"none", "static", "bad", "dynamic"}, elicits : BOOLEAN, option : {0, 2}] :
            h.option > 0 => h.sampling = "llm" /\ h.roots = "none"}

NewHost(h) ==
    [transport |-> h.transport, sampling |-> h.sampling, approver |-> h.approver, roots |-> h.roots,
     elicits |-> h.elicits, option |-> h.option, life |-> "new", open |-> TRUE, pump |-> TRUE, inbound |-> TRUE,
     handlers |-> TRUE, advertised |-> {}, session |-> FALSE, deletes |-> 0, caps |-> {}, rootsTold |-> 0]

NoNotices == [queue |-> <<>>, busy |-> <<>>, delivered |-> <<>>, dropped |-> 0, offered |-> <<>>,
              tokens |-> {}, used |-> {}, progressFn |-> TRUE, logFn |-> TRUE]
NoPaging == [cursor |-> 0, names |-> <<>>, cursors |-> <<>>, asked |-> <<>>, done |-> "none"]
Quiet == [transport |-> "stdio", sampling |-> "none", approver |-> FALSE, roots |-> "none", elicits |-> FALSE, option |-> 0]

ClientInit ==
    /\ scene \in Scenes
    /\ \/ scene = "connect" /\ \E h \in Hosts : host = NewHost(h)
       \/ scene # "connect" /\ \E t \in IF scene = "list" THEN {"stdio", "http"} ELSE {"stdio"} :
                host = [NewHost([Quiet EXCEPT !.transport = t]) EXCEPT !.life = "ready"]
    /\ questions = <<>> /\ notices = NoNotices /\ paging = NoPaging

-----------------------------------------------------------------------------
(* Connecting and closing.                                                 *)

\* What the parts are when the handshake is over without a client.
Abandoned == [host EXCEPT !.life = "failed", !.open = FALSE, !.pump = FALSE, !.inbound = FALSE,
                          !.deletes = @ + IF host.session THEN 1 ELSE 0]

\* newClient: the handlers are there before the server hears of them.
NewClient ==
    /\ host.life = "new"
    /\ host' = IF Built(host) THEN [host EXCEPT !.life = "connecting", !.advertised = CapabilitiesFor(ServedMethods(host))]
               ELSE Abandoned
    /\ UNCHANGED <<scene, questions, notices, paging>>

\* captureSessionID: any answer may carry one, that of a call that outlives the client too.
CaptureSessionID ==
    /\ host.transport = "http" /\ host.life \notin {"new", "failed"} /\ ~host.session /\ scene = "connect"
    /\ host' = [host EXCEPT !.session = TRUE]
    /\ UNCHANGED <<scene, questions, notices, paging>>

\* initialize: another version fails the handshake, unreadable capabilities are none at all.
Initialize ==
    /\ scene = "connect" /\ host.life = "connecting"
    /\ \/ \E caps \in {{}, {"tools"}} : host' = [host EXCEPT !.life = "ready", !.caps = caps]
       \/ host' = Abandoned
    /\ UNCHANGED <<scene, questions, notices, paging>>

\* closeInternal, of Close or of the context's end, as often as they like; the session is
\* ended once.
CloseInternal ==
    /\ host.life \in {"ready", "closed"} /\ scene # "list"
    /\ host' = [host EXCEPT !.life = "closed", !.open = FALSE, !.pump = FALSE, !.inbound = FALSE, !.handlers = FALSE,
                            !.deletes = @ + IF host.session /\ host.open THEN 1 ELSE 0]
    /\ UNCHANGED <<scene, questions, notices, paging>>

\* RootsChanged: told only to a server that knows the roots can change.
RootsChanged ==
    /\ scene = "connect" /\ host.life = "ready" /\ host.rootsTold = 0
    /\ host' = IF "roots" \in host.advertised /\ host.roots = "dynamic" THEN [host EXCEPT !.rootsTold = 1] ELSE host
    /\ UNCHANGED <<scene, questions, notices, paging>>

-----------------------------------------------------------------------------
(* The server's requests.                                                  *)

Running == {i \in DOMAIN questions : questions[i].reply = "none"}
Question(m) == [method |-> m, reply |-> "none", asked |-> 0, cap |-> 0, used |-> 0, approved |-> FALSE]
RefusedQuestion(m, why) == questions' = Append(questions, [Question(m) EXCEPT !.reply = why])

\* dispatchRequest: refused at once, or given a slot.  Over HTTP it is not even seen.
DispatchRequest(m) ==
    /\ scene = "connect" /\ SupportsInbound(host) /\ host.life \in {"connecting", "ready", "closed"}
    /\ Len(questions) < MaxQuestions
    /\ IF m \notin ServedMethods(host) THEN RefusedQuestion(m, "not_found")
       ELSE IF ~host.inbound THEN RefusedQuestion(m, "shutting_down")
       ELSE IF Cardinality(Running) = MaxInflight THEN RefusedQuestion(m, "busy")
       ELSE questions' = Append(questions, Question(m))
    /\ UNCHANGED <<scene, host, notices, paging>>

AnsweredQuestion(i, q) == questions' = [questions EXCEPT ![i] = q]

\* A slip: what the server asked for is the limit, whatever was approved.
GateLoosely(q, tokens, cap) == [q EXCEPT !.asked = tokens, !.cap = cap, !.approved = TRUE]

\* gateSampling: nobody is asked to approve nonsense, and an approver can only lower.
GateSampling(q, tokens, cap) ==
    [q EXCEPT !.asked = tokens, !.approved = TRUE, !.cap = IF cap > 0 /\ cap < tokens THEN cap ELSE 0]

\* samplingFromLLM: the host's option overrides the server, the approver's cap the option.
MaxTokens(q) == IF q.cap > 0 THEN q.cap ELSE IF host.option > 0 THEN host.option ELSE q.asked

\* samplingMessages: one that cannot be carried fails the request.
SamplingMessages(kinds) == kinds \subseteq {"text", "image"}

ServeSampling(i) ==
    \/ \E tokens \in {-1, 0} : AnsweredQuestion(i, [questions[i] EXCEPT !.reply = "invalid", !.asked = tokens])
    \/ AnsweredQuestion(i, [questions[i] EXCEPT !.reply = "denied"])
    \/ \E tokens \in {1, 3}, cap \in {0, 1, 4}, kinds \in {{"text"}, {"text", "audio"}} :
         LET q == GateSampling(questions[i], tokens, cap)
         IN  IF host.sampling = "llm" /\ ~SamplingMessages(kinds) THEN AnsweredQuestion(i, [q EXCEPT !.reply = "invalid"])
             ELSE AnsweredQuestion(i, [q EXCEPT !.reply = "result",
                                        !.used = IF host.sampling = "llm" THEN MaxTokens(q)
                                                 ELSE IF q.cap > 0 THEN q.cap ELSE q.asked])

\* buildRootsHandler: changing roots are checked each time.
ServeRoots(i) == \E r \in IF host.roots = "dynamic" THEN {"result", "invalid_roots", "error"} ELSE {"result"} :
                    AnsweredQuestion(i, [questions[i] EXCEPT !.reply = r])
\* buildElicitationHandler: an action nobody knows is not passed on.
ServeElicitation(i) == \E r \in {"result", "invalid", "unsupported"} : AnsweredQuestion(i, [questions[i] EXCEPT !.reply = r])

\* invokeGuarded: a handler may fail or panic too, which is an answer.
ServeRequest(i) ==
    /\ i \in Running
    /\ \/ questions[i].method = "sampling" /\ ServeSampling(i)
       \/ questions[i].method = "roots" /\ ServeRoots(i)
       \/ questions[i].method = "elicitation" /\ ServeElicitation(i)
       \/ AnsweredQuestion(i, [questions[i] EXCEPT !.reply = "error"])
    /\ UNCHANGED <<scene, host, notices, paging>>

-----------------------------------------------------------------------------
(* Notifications.                                                          *)

\* registerCallProgress, until the call returns.
StartCall(token) ==
    /\ scene = "notify" /\ host.life = "ready" /\ token \notin notices.used
    /\ notices' = [notices EXCEPT !.tokens = @ \cup {token}, !.used = @ \cup {token}]
    /\ UNCHANGED <<scene, host, questions, paging>>
EndCall(token) ==
    /\ token \in notices.tokens
    /\ notices' = [notices EXCEPT !.tokens = @ \ {token}]
    /\ UNCHANGED <<scene, host, questions, paging>>

\* OnProgress(nil).
ClearProgress ==
    /\ scene = "notify" /\ notices.progressFn
    /\ notices' = [notices EXCEPT !.progressFn = FALSE]
    /\ UNCHANGED <<scene, host, questions, paging>>

\* Whose callback a notification is for, if anyone's.
Route(kind, token) ==
    CASE kind = "progress" /\ token \in notices.tokens -> <<"call", token>>
      [] kind = "progress" /\ token \notin notices.tokens /\ notices.progressFn -> <<"client", 0>>
      [] kind = "log" /\ notices.logFn -> <<"log", 0>>
      [] OTHER -> <<>>

\* A slip: a full queue gives up its oldest entry, and counts nothing.
EnqueueNewest(entry) ==
    notices' = [notices EXCEPT !.queue = IF Len(@) < NotifyQueue THEN Append(@, entry) ELSE Append(Tail(@), entry),
                               !.offered = Append(@, entry)]

\* enqueue never waits: it drops, and counts.
EnqueueNotice(entry) ==
    notices' = IF ~host.pump THEN notices
               ELSE IF Len(notices.queue) < NotifyQueue
                    THEN [notices EXCEPT !.queue = Append(@, entry), !.offered = Append(@, entry)]
                    ELSE [notices EXCEPT !.dropped = @ + 1, !.offered = Append(@, entry)]

DispatchNotification(kind, token) ==
    /\ scene = "notify" /\ Len(notices.offered) < MaxNotices
    /\ LET to == Route(kind, token)
       IN  IF to = <<>> THEN UNCHANGED notices
           ELSE EnqueueNotice([to |-> to, n |-> Len(notices.offered) + 1, own |-> kind = "progress" /\ token \in notices.tokens])
    /\ UNCHANGED <<scene, host, questions, paging>>

\* run: one callback at a time, whatever it does; after a stop it may still take one.
PumpTakes ==
    /\ notices.busy = <<>> /\ notices.queue # <<>>
    /\ notices' = [notices EXCEPT !.busy = <<Head(notices.queue)>>, !.queue = Tail(@)]
    /\ UNCHANGED <<scene, host, questions, paging>>
PumpDone ==
    /\ notices.busy # <<>>
    /\ notices' = [notices EXCEPT !.busy = <<>>, !.delivered = Append(@, notices.busy[1])]
    /\ UNCHANGED <<scene, host, questions, paging>>

\* A slip: a request of the server, too, passes for the response.
ExtractRequestsToo(body) ==
    [notes |-> SelectSeq(body, LAMBDA f : f.kind = "note"),
     response |-> LET rest == SelectSeq(body, LAMBDA f : f.kind # "note") IN IF rest = <<>> THEN <<>> ELSE <<Last(rest)>>]

\* extractFrames: of what a POST is answered with, the notifications are dispatched, the
\* requests dropped, and the last of the rest is the response.
ExtractFrames(body) ==
    [notes |-> SelectSeq(body, LAMBDA f : f.kind = "note"),
     response |-> LET rest == SelectSeq(body, LAMBDA f : f.kind = "response") IN IF rest = <<>> THEN <<>> ELSE <<Last(rest)>>]

-----------------------------------------------------------------------------
(* Listing.                                                                *)

\* A page, and what it has that was not listed before.
Pages == {<<>>, <<"a">>, <<"b">>, <<"a", "b">>, <<"b", "b">>}
PagesOfNew == Pages \ {<<"b", "b">>}
Unseen(page) == CHOOSE names \in PagesOfNew : Range(names) = Range(page) \ Range(paging.names)

\* ListTools, a page: names that were there and a cursor that was there are not taken again.
ListTools ==
    /\ scene = "list" /\ host.transport = "stdio" /\ paging.done = "none"
    /\ \E page \in Pages, next \in 0 .. MaxPages :
         paging' = [paging EXCEPT
            !.names = @ \o Unseen(page),
            !.asked = Append(@, paging.cursor),
            !.done = IF next = 0 \/ next \in Range(paging.cursors) THEN "listed" ELSE "none",
            !.cursors = IF next = 0 THEN @ ELSE Append(@, next), !.cursor = next]
    /\ UNCHANGED <<scene, host, questions, notices>>

\* ListResources: pages are kept as they are, a cycle is an error.
ListResources ==
    /\ scene = "list" /\ host.transport = "http" /\ paging.done = "none"
    /\ \E next \in 0 .. MaxPages :
         paging' = [paging EXCEPT
            !.names = Append(@, "r"), !.asked = Append(@, paging.cursor),
            !.done = IF next = 0 THEN "listed" ELSE IF next \in Range(paging.cursors) THEN "cycle" ELSE "none",
            !.cursors = IF next = 0 THEN @ ELSE Append(@, next), !.cursor = next]
    /\ UNCHANGED <<scene, host, questions, notices>>

ClientNext ==
    \/ NewClient \/ CaptureSessionID \/ Initialize \/ CloseInternal \/ RootsChanged
    \/ \E m \in Methods : DispatchRequest(m)
    \/ \E i \in DOMAIN questions : ServeRequest(i)
    \/ \E t \in {1, 2} : StartCall(t) \/ EndCall(t)
    \/ ClearProgress \/ PumpTakes \/ PumpDone
    \/ \E kind \in {"progress", "log"}, t \in 0 .. 2 : DispatchNotification(kind, t)
    \/ ListTools \/ ListResources

ClientSpec == ClientInit /\ [][ClientNext]_clientVars

-----------------------------------------------------------------------------
\* The host's word: what is advertised is what is served, over HTTP nothing; a model is
\* only asked with somebody's approval and for no more than was approved, nor than the
\* server or the host's own option would have; a client that failed or was closed leaves
\* no part running, and a session is ended once.
HostKeepsItsWord ==
    /\ host.life \in {"connecting", "ready", "closed"} =>
        /\ host.advertised = ServedMethods(host)
        /\ host.transport = "http" => host.advertised = {} /\ questions = <<>>
        /\ host.sampling # "none" => host.approver
    /\ \A i \in DOMAIN questions :
        LET q == questions[i]
        IN  /\ q.reply = "not_found" <=> q.method \notin host.advertised
            /\ q.used > 0 => q.approved /\ host.approver /\ q.asked > 0
                             /\ (q.cap > 0 => q.used <= Min({q.cap, q.asked}))
                             /\ q.used <= Max({q.asked, host.option})
    /\ Cardinality(Running) <= MaxInflight
    /\ host.life \in {"failed", "closed"} => ~host.open /\ ~host.pump /\ ~host.inbound
    /\ host.deletes <= 1 /\ (host.deletes = 1 => host.session)
    /\ host.life = "closed" => ~host.handlers

\* Callbacks run in the order of the notifications, none twice; each that was for somebody
\* ran, waits, or is counted as dropped; progress of a call went to that call alone.
NoticesAddUp ==
    LET ahead == notices.delivered \o notices.busy \o notices.queue
    IN  /\ \A i, j \in DOMAIN ahead : i < j => ahead[i].n < ahead[j].n
        /\ Len(ahead) + notices.dropped = Len(notices.offered)
        /\ \A i \in DOMAIN ahead : ahead[i].own <=> ahead[i].to[1] = "call"

\* A listing ends: no cursor is asked for twice, and no tool is listed twice.
ListingEnds ==
    /\ \A i, j \in DOMAIN paging.asked : i # j => paging.asked[i] # paging.asked[j]
    /\ host.transport = "stdio" => \A i, j \in DOMAIN paging.names : i # j => paging.names[i] # paging.names[j]
    /\ host.transport = "http" => Len(paging.names) = Len(paging.asked)

Bodies == UNION {[1 .. n -> {[kind |-> k, n |-> i] : k \in {"note", "request"}, i \in 1 .. 2}
                              \cup {[kind |-> "response", n |-> 0]}] : n \in 1 .. 3}

\* The one response of a body is found wherever it is, and no notification is lost.
BodiesAreSplit == scene = "list" /\ paging = NoPaging => \A body \in Bodies :
    LET frames == ExtractFrames(body)
    IN  /\ frames.response # <<>> <=> \E i \in DOMAIN body : body[i].kind = "response"
        /\ Len(frames.notes) = Cardinality({i \in DOMAIN body : body[i].kind = "note"})
        /\ frames.response # <<>> => frames.response[1].n = 0

\* What the client tells its host and its server about itself is so: capabilities,
\* notices delivered and dropped, the end of a listing.
ClientIsTrue == HostKeepsItsWord /\ NoticesAddUp /\ ListingEnds
=============================================================================
