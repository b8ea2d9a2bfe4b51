----------------------------- MODULE Embeddings -----------------------------
(***************************************************************************)
(* Embeddings and reranking: what is asked of a service, on which route,   *)
(* and how its answer is given back.  A vector stands for the text it is   *)
(* of, and a text for its place in the call; the service may list them in  *)
(* any order, leave one out, or fail.                                      *)
(***************************************************************************)
EXTENDS Integers, Sequences, SequencesExt

CONSTANTS MaxTexts    \* texts or documents in a call
ASSUME EmbedAssumption == MaxTexts \in Nat \ {0}

VARIABLES routes,     \* the URL in each route, and what the owner of each was last told to use
          quest,      \* the call
          posted,     \* the request, once sent
          listed,     \* what the service answered
          outcome     \* what the caller gets

embedVars == <<routes, quest, posted, listed, outcome>>

NoAnswer == [is |-> "nothing"]
Failed(err) == [is |-> "failed", err |-> err]
Gives(items) == [is |-> "given", items |-> items]

Compatible == {"compat", "huggingface", "infinity"}    \* OpenAI's wire format
Embedders == Compatible \cup {"runpod", "gemini"}      \* Infinity behind RunPod, and Gemini
Operations(provider) == {"embed", "query", "documents"} \cup (IF provider \in {"infinity", "runpod"} THEN {"rerank"} ELSE {})

\* A client and two providers built on it.  Each has a route of its own.
Hubs == {"client", "first", "second"}
\* A slip: NewBaseProvider copies the pointer to the route.
SharedCell == [h \in Hubs |-> "client"]
Cell == [h \in Hubs |-> h]

Texts == UNION {{[i \in 1..n |-> IF i = hole THEN 0 ELSE i] : hole \in 0..n} : n \in 0..MaxTexts}
\* The tasks that the options name, in their order: none, one, or one that is taken back.
TaskLists == {<<>>, <<"CLUSTERING">>, <<"CLUSTERING", "">>}
EmbedStarts(url, provider, op, texts, encoding, tasks, model, default) ==
    /\ routes = [url |-> [c \in {Cell[h] : h \in Hubs} |-> url], told |-> [h \in Hubs |-> url]]
    /\ quest = [provider |-> provider, op |-> op, texts |-> texts, encoding |-> encoding,
                tasks |-> tasks, model |-> model, default |-> default]
    /\ posted = NoAnswer /\ listed = NoAnswer /\ outcome = NoAnswer

EmbedInit ==
    \E url \in {"chat", "embed"}, provider \in Embedders, texts \in Texts, encoding \in {"", "base64"},
       tasks \in TaskLists, model \in {"", "asked"}, default \in {"", "default"} :
       \E op \in Operations(provider) :
           /\ op = "query" => Len(texts) = 1
           /\ tasks # <<>> => provider = "gemini"
           /\ encoding # "" => op # "rerank"
           /\ default = "" => provider \notin {"infinity", "runpod"}
           /\ url # "chat" => provider = "compat"
           /\ EmbedStarts(url, provider, op, texts, encoding, tasks, model, default)

\* SetEmbeddingBaseURL: of a client, or of the one inside a provider; "" restores the chat URL.
SetEmbeddingBaseURL(hub, url) ==
    /\ quest.provider = "compat" /\ posted = NoAnswer /\ outcome = NoAnswer
    /\ LET u == IF url = "" THEN "chat" ELSE url
       IN routes' = [url |-> [routes.url EXCEPT ![Cell[hub]] = u], told |-> [routes.told EXCEPT ![hub] = u]]
    /\ UNCHANGED <<quest, posted, listed, outcome>>

-----------------------------------------------------------------------------
(* The request. *)

ValidateEmbedInput(texts) == texts # <<>> /\ 0 \notin Range(texts)
\* Rerank looks for an empty query, here the hole, and for no documents.
Valid == ValidateEmbedInput(quest.texts)
Model == IF quest.model # "" THEN quest.model
         ELSE IF quest.default # "" \/ quest.provider # "gemini" THEN quest.default ELSE "text-embedding-004"

\* ApplyEmbedOptions: of several tasks the last counts, an empty one too.
TaskOf(tasks) == IF tasks = <<>> THEN "" ELSE Last(tasks)
DefaultTask == [query |-> "RETRIEVAL_QUERY", documents |-> "RETRIEVAL_DOCUMENT"]
\* A slip: the default is appended to the caller's options, which it overrides.
DefaultLast(tasks) == IF quest.op \in {"query", "documents"} THEN Append(tasks, DefaultTask[quest.op]) ELSE tasks
\* EmbedQuery and EmbedDocuments of Gemini append their task to options that leave none; Embed
\* has no default.
WithDefault(tasks) ==
    IF quest.op \in {"query", "documents"} /\ TaskOf(tasks) = "" THEN Append(tasks, DefaultTask[quest.op]) ELSE tasks
Task == IF quest.provider = "gemini" THEN TaskOf(WithDefault(quest.tasks)) ELSE ""

Request(encoding, route) ==
    [is |-> "posted", model |-> Model, texts |-> quest.texts, task |-> Task, encoding |-> encoding, route |-> route]
GeminiRequest == Request("", "chat")    \* it takes no encoding
CompatibleRequest == Request(quest.encoding, IF quest.provider = "compat" THEN routes.url[Cell["first"]] ELSE "chat")
\* Hugging Face's endpoints serve one model and need no name; the others have one by default.
NeedsModel == quest.provider = "compat"

Embed ==
    /\ posted = NoAnswer /\ outcome = NoAnswer
    /\ IF ~Valid THEN outcome' = Failed("ErrEmptyInput") /\ UNCHANGED posted
       ELSE IF Model = "" /\ NeedsModel THEN outcome' = Failed("ErrEmbeddingModelRequired") /\ UNCHANGED posted
       ELSE posted' = (IF quest.provider = "gemini" THEN GeminiRequest ELSE CompatibleRequest) /\ UNCHANGED outcome
    /\ UNCHANGED <<routes, quest, listed>>

-----------------------------------------------------------------------------
(* The service. *)

Jobs == {"COMPLETED", "FAILED", "IN_PROGRESS"}
Shapes == {"object", "array", "empty array", "null"}
\* The orders an answer may list its items in, where it need not keep that of the request.
ListOrders(n) == IF quest.provider = "gemini" THEN {[i \in 1..n |-> i]} ELSE SetToSeqs(1..n)
Forms == IF posted.encoding = "base64" THEN {"base64", "ragged"} ELSE {"float", "null"}

ServeTexts ==
    /\ posted # NoAnswer /\ listed = NoAnswer
    /\ \/ listed' = [is |-> "error"]
       \/ \E n \in {Len(posted.texts), Len(posted.texts) - 1}, job \in Jobs, shape \in Shapes, form \in Forms :
             /\ quest.provider # "runpod" => job = "COMPLETED" /\ shape = "object"
             /\ n < Len(posted.texts) \/ form \in {"null", "ragged"} => job = "COMPLETED" /\ shape = "object"
             /\ quest.op = "rerank" => form = "float"
             /\ \E order \in ListOrders(n), score \in [1..n -> IF quest.op = "rerank" THEN {1, 2} ELSE {0}] :
                    listed' = [is |-> "answer", job |-> job, shape |-> shape, form |-> form,
                               data |-> [i \in 1..n |-> [index |-> order[i], score |-> score[order[i]],
                                                         vector |-> posted.texts[order[i]]]]]
    /\ UNCHANGED <<routes, quest, posted, outcome>>

-----------------------------------------------------------------------------
(* The answer. *)

\* DecodeEmbeddingVector: null is an empty vector.  Behind RunPod only arrays decode.
Decodes(form) == form \in {"float", "null"} \/ (form = "base64" /\ quest.provider # "runpod")
Vector(item) == IF listed.form = "null" THEN 0 ELSE item.vector

\* A slip: whatever output a job has is taken for its result.
AnyOutput == listed.shape \in {"object", "array"}
\* RunPod's answer counts once its job is completed and has an output, bare or in an array.
Payload == quest.provider = "runpod" => listed.job = "COMPLETED" /\ listed.shape \in {"object", "array"}

\* A slip: an embedding is numbered by its place in the answer.
ByPlace == [i \in DOMAIN listed.data |-> [index |-> i, vector |-> Vector(listed.data[i])]]
\* ConvertEmbeddingResponse, and the same for RunPod; Gemini numbers by place, as its API does not.
ConvertEmbeddingResponse ==
    [i \in DOMAIN listed.data |-> [index |-> IF quest.provider = "gemini" THEN i ELSE listed.data[i].index,
                                   vector |-> Vector(listed.data[i])]]

\* A slip: the number of vectors is not looked at.
AnyDocuments(embeddings) == Gives([i \in DOMAIN embeddings |-> embeddings[i].vector])
EmbedDocuments(embeddings) ==
    IF Len(embeddings) # Len(quest.texts) THEN Failed("ErrIncompleteResponse")
    ELSE Gives([i \in DOMAIN embeddings |-> embeddings[i].vector])
EmbedQuery(embeddings) ==
    IF embeddings = <<>> THEN Failed("ErrIncompleteResponse") ELSE Gives(<<embeddings[1].vector>>)

\* A slip: the results stay as the service listed them.
Unsorted(results) == {results}
\* convertRerankResponse: sort.Slice is not stable.
Sorted(results) ==
    {s \in {[i \in DOMAIN results |-> results[p[i]]] : p \in SetToSeqs(DOMAIN results)} :
        \A i \in 1..Len(s) - 1 : s[i].score >= s[i + 1].score}

Receive ==
    /\ listed # NoAnswer /\ outcome = NoAnswer
    /\ \/ listed.is = "error" /\ outcome' = Failed("service")
       \/ listed.is = "answer" /\ ~Payload /\ outcome' = Failed("job")
       \/ listed.is = "answer" /\ Payload /\ ~Decodes(listed.form) /\ outcome' = Failed("decode")
       \/ /\ listed.is = "answer" /\ Payload /\ Decodes(listed.form)
          /\ CASE quest.op = "embed" -> outcome' = Gives(ConvertEmbeddingResponse)
               [] quest.op = "query" -> outcome' = EmbedQuery(ConvertEmbeddingResponse)
               [] quest.op = "documents" -> outcome' = EmbedDocuments(ConvertEmbeddingResponse)
               [] OTHER -> \E results \in Sorted(listed.data) : outcome' = Gives(results)
    /\ UNCHANGED <<routes, quest, posted, listed>>

EmbedNext ==
    \/ \E hub \in Hubs, url \in {"", "other"} : SetEmbeddingBaseURL(hub, url)
    \/ Embed \/ ServeTexts \/ Receive

EmbedSpec == EmbedInit /\ [][EmbedNext]_embedVars

-----------------------------------------------------------------------------
(* Properties. *)

GivenItems == outcome.is = "given"
InOrder == \A i \in DOMAIN listed.data : listed.data[i].index = i

\* However the service lists them, an embedding is that of the text its index names.
VectorsKeepTheirText ==
    GivenItems /\ quest.op = "embed" => \A i \in DOMAIN outcome.items :
        outcome.items[i].vector \in {quest.texts[outcome.items[i].index], 0}

\* Where only vectors are given there is one for each text, in the answer's order: a lost one is
\* an error, and a service that keeps the order of the texts has it kept.
NoVectorIsMissing ==
    GivenItems /\ quest.op \in {"query", "documents"} =>
        /\ Len(outcome.items) = Len(quest.texts)
        /\ listed.form # "null" => Range(outcome.items) = Range(quest.texts)
        /\ listed.form # "null" /\ InOrder => outcome.items = quest.texts

\* Reranked documents come best first, each with the score and the index the service gave it.
RankingIsSorted ==
    GivenItems /\ quest.op = "rerank" =>
        /\ \A i, j \in DOMAIN outcome.items : i < j => outcome.items[i].score >= outcome.items[j].score
        /\ Range(outcome.items) = Range(listed.data) /\ Len(outcome.items) = Len(listed.data)

\* The output of a job that failed, or is not done, is never taken for its result.
OnlyResultsCount == GivenItems /\ quest.provider = "runpod" => listed.job = "COMPLETED"

\* A provider asks on the route it was given, whatever the client it was built on, or another
\* provider built on that, is told.
RouteIsOwn == posted # NoAnswer /\ quest.provider = "compat" => posted.route = routes.told["first"]

\* Gemini is asked for the task that the caller's options leave, and where they leave none for
\* that of a query or of documents.
TaskIsAsAsked ==
    posted # NoAnswer /\ quest.provider = "gemini" =>
        posted.task = (IF TaskOf(quest.tasks) # "" THEN TaskOf(quest.tasks)
                       ELSE IF quest.op = "query" THEN "RETRIEVAL_QUERY"
                       ELSE IF quest.op = "documents" THEN "RETRIEVAL_DOCUMENT" ELSE "")

\* Every vector answers its own text, computed for the task asked, a ranking is a ranking of
\* the documents asked for, and a caller who is refused, or whose job is not finished, is told so.
EmbeddingsMatch ==
    VectorsKeepTheirText /\ NoVectorIsMissing /\ RankingIsSorted /\ OnlyResultsCount /\ RouteIsOwn /\ TaskIsAsAsked
=============================================================================
