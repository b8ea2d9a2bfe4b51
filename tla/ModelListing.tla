---------------------------- MODULE ModelListing ----------------------------
(***************************************************************************)
(* Asking a provider what models it has: the listings of nineteen          *)
(* providers, page by page, the lookup of one model, what a caller can do  *)
(* to what it is given, and what the registry says of a model, with what   *)
(* the program registered over the tables.  A model of a listing is its    *)
(* place in the provider's list, with the hint in its name that tells what *)
(* it is for.                                                              *)
(***************************************************************************)
EXTENDS ModelTables

CONSTANTS MaxModels, PageSize, MaxRegistered      \* bounds; the server's page
ListingAssumption == MaxModels \in Nat /\ PageSize \in Nat \ {0} /\ MaxRegistered \in Nat

VARIABLES shelf,        \* the provider's models, and a caller reading them
          registry      \* what the program registered, and the model asked about
shelfVars == <<shelf, registry>>

-----------------------------------------------------------------------------
(* The providers: how a page is made, how a model is found, what a name    *)
(* says, and what of a model is not copied for the caller.                 *)

Lister(page, find, says, shares) == [page |-> page, find |-> find, says |-> says, shares |-> shares]
Embeds == [embed |-> {"embedding"}]
Code == [code |-> {"chat", "code"}]
Vision == [vision |-> {"chat", "vision"}]
Unread == [x \in {} |-> {}]

Cerebras == Lister("cut", "exact", Unread, {})
Azure == Lister("deployment", "exact", Unread, {})
Perplexity == Lister("cut", "exact", Unread, {})
DeepSeek == Lister("cut", "exact", Code, {})
Fireworks == Lister("cut", "exact", Embeds @@ Vision @@ Code, {})
Mistral == Lister("cut", "exact", Embeds @@ Vision @@ Code, {})
Ollama == Lister("cut", "exact", Embeds @@ Vision @@ Code, {})
LlamaCpp == Lister("cut", "exact", Embeds @@ Vision @@ Code, {})
Groq == Lister("silent", "exact", Vision @@ [audio |-> {"audio"}], {})
TogetherAI == Lister("silent", "exact", Embeds @@ Code @@ [image |-> {"image"}], {})
OpenRouter == Lister("refusing", "fold", Vision @@ [image |-> {"image"}, audio |-> {"audio"}], {})
ZAI == Lister("whole", "fold", Unread, {})
RunPod == Lister("whole", "exact", Unread, {})
Featherless == Lister("cursor", "fold", Vision @@ Code, {})
Synthetic == Lister("cursor", "fold", Vision @@ Code, {})
ElevenLabs == Lister("cursor", "fold", [plain |-> {"audio"}, image |-> {"image"}, video |-> {"video"}], {})
OpenAI == Lister("openai", "pages", Vision @@ Embeds @@ [image |-> {"image"}, audio |-> {"audio"}], {})
\* The tiers of a card, where it has any, are those of the table.
Anthropic == Lister("remote", "endpoint", Vision, {"tiers"})
\* The card is that of the table, unless the filter by type copied it.
Gemini == Lister("remote", "endpoint", Vision @@ Embeds, {"pricing", "tiers"})

Providers ==
    {Cerebras, Azure, Perplexity, DeepSeek, Fireworks, Mistral, Ollama, LlamaCpp, Groq, TogetherAI, OpenRouter, ZAI,
     RunPod, Featherless, Synthetic, ElevenLabs, OpenAI, Anthropic, Gemini}

-----------------------------------------------------------------------------
(* A page.                                                                 *)

Types(l, hint) == IF hint \in DOMAIN l.says THEN l.says[hint] ELSE {"chat"}

\* FilterModelsByType: any of the types will do, and none asks for all.
FilterModelsByType(l, all, ids, types) ==
    SelectSeq(ids, LAMBDA i : types = {} \/ Types(l, all[i]) \cap types # {})

Page(models, next, more) == [models |-> models, next |-> next, more |-> more, error |-> FALSE]
Refusal == [models |-> <<>>, next |-> 0, more |-> FALSE, error |-> TRUE]
FirstOf(limit, ids) == IF limit > 0 /\ Len(ids) > limit THEN SubSeq(ids, 1, limit) ELSE ids
After(ids, cursor) == SelectSeq(ids, LAMBDA i : i > cursor)

\* The whole list, cut: the caller is told, but not where to go on.
Cut(ids, o) == LET page == FirstOf(o.limit, ids) IN Page(page, 0, page # ids)

\* The provider's own list: the cursor is the last model of the page before.
CursorPage(ids, o) ==
    LET rest == After(ids, o.cursor)
        page == FirstOf(o.limit, rest)
    IN  IF o.cursor > 0 /\ ~\E i \in DOMAIN ids : ids[i] = o.cursor THEN Refusal
        ELSE Page(page, IF page # rest THEN Last(page) ELSE 0, page # rest)

\* External: a server's page, told by its last model.
ServerPage(all, size, cursor) ==
    LET rest == After([i \in DOMAIN all |-> i], cursor)
        page == FirstOf(size, rest)
    IN  [ids |-> page, last |-> IF page = <<>> THEN 0 ELSE Last(page), more |-> page # rest]

\* The server's pages as they come; the filter may leave one empty.
RemotePage(l, all, o) ==
    LET p == ServerPage(all, IF o.limit > 0 THEN o.limit ELSE PageSize, o.cursor)
    IN  Page(FilterModelsByType(l, all, p.ids, o.types), IF p.more THEN p.last ELSE 0, p.more)

\* A slip: the server's cursor is passed on although the page was cut before it.
OpenAIPageSkips(l, all, o) ==
    LET p == ServerPage(all, PageSize, o.cursor)
        ids == FilterModelsByType(l, all, p.ids, o.types)
        page == FirstOf(o.limit, ids)
    IN  Page(page, p.last, p.more \/ page # ids)

\* A page cut short goes on after its last model, not after the server's page.
OpenAIPage(l, all, o) ==
    LET p == ServerPage(all, PageSize, o.cursor)
        ids == FilterModelsByType(l, all, p.ids, o.types)
        page == FirstOf(o.limit, ids)
    IN  IF page # ids THEN Page(page, Last(page), TRUE) ELSE Page(page, p.last, p.more)

ListModels(l, all, o) ==
    LET ids == FilterModelsByType(l, all, [i \in DOMAIN all |-> i], o.types)
    IN  CASE l.page \in {"cut", "deployment"} -> Cut(ids, o)
          [] l.page = "silent" -> Page(FirstOf(o.limit, ids), 0, FALSE)
          [] l.page = "refusing" -> IF o.cursor > 0 THEN Refusal ELSE Page(FirstOf(o.limit, ids), 0, FALSE)
          [] l.page = "whole" -> Page(ids, 0, FALSE)
          [] l.page = "cursor" -> CursorPage(ids, o)
          [] l.page = "remote" -> RemotePage(l, all, o)
          [] l.page = "openai" -> OpenAIPage(l, all, o)

\* getCurrentDeploymentAsModel: the one model, whatever the limit.
DeploymentAsModel(l, o) == Page(FilterModelsByType(l, <<"plain">>, <<1>>, o.types), 0, FALSE)

Everything == [types |-> {}, limit |-> 0, cursor |-> 0]

\* OpenAI's ModelInfo: page by page until the model, the end, or the same cursor again.
FoundOnPages(l, all, id) ==
    LET Turn(s, n) ==
            LET p == ListModels(l, all, [Everything EXCEPT !.cursor = s.cursor])
                found == \E i \in DOMAIN p.models : p.models[i] = id
            IN  IF s.over THEN s
                ELSE [cursor |-> p.next, found |-> found, over |-> found \/ ~p.more \/ p.next \in {0, s.cursor}]
    IN  FoldLeft(Turn, [cursor |-> 0, found |-> FALSE, over |-> FALSE], [n \in 1..(Len(all) + 1) |-> n]).found

\* ModelInfo: by the name as it is, in any case, or by the server.
ModelInfo(l, all, id, sameCase) ==
    IF l.find = "pages" THEN sameCase /\ FoundOnPages(l, all, id)
    ELSE /\ sameCase \/ l.find = "fold"
         /\ id \in DOMAIN all

-----------------------------------------------------------------------------
(* A caller that follows the cursors.                                      *)

\* What the names of a provider's models can tell the library.
Hints(l) == {"plain"} \cup DOMAIN l.says
Idle == [phase |-> "", lister |-> Cerebras, all |-> <<>>, opts |-> Everything, got |-> <<>>, pages |-> 0, more |-> FALSE,
         substitute |-> FALSE, scribbled |-> {}]
NoneRegistered == [rows |-> <<>>, defaults |-> <<>>, asked |-> <<>>, told |-> Row(0, 0, {})]

Init == shelf = Idle /\ registry = NoneRegistered

\* The caller chooses the options; the deployment's server may not serve a list.
Open ==
    /\ shelf = Idle /\ registry = NoneRegistered
    /\ \E l \in Providers, n \in 0..MaxModels, types \in {{}, {"chat"}, {"vision", "embedding"}}, limit \in 0..2 :
       \E all \in [1..n -> Hints(l)], substitute \in IF l.page = "deployment" THEN BOOLEAN ELSE {FALSE} :
         shelf' = [Idle EXCEPT !.phase = "reading", !.lister = l, !.all = all, !.substitute = substitute,
                               !.opts = [types |-> types, limit |-> limit, cursor |-> 0]]
    /\ UNCHANGED registry

Answer == IF shelf.substitute THEN DeploymentAsModel(shelf.lister, shelf.opts)
          ELSE ListModels(shelf.lister, shelf.all, shelf.opts)

ReadPage ==
    /\ shelf.phase = "reading"
    /\ LET p == Answer
       IN  shelf' = [shelf EXCEPT !.got = @ \o p.models, !.pages = @ + 1, !.more = p.more, !.opts.cursor = p.next,
                                  !.phase = IF p.more /\ p.next > 0 THEN "reading" ELSE "read"]
    /\ UNCHANGED registry

\* A service may fail, and a request may be canceled.
ReadFails ==
    /\ shelf.phase = "reading" /\ shelf.lister # RunPod /\ shelf.lister # Featherless
    /\ shelf' = [shelf EXCEPT !.phase = "failed"]
    /\ UNCHANGED registry

\* A cursor that names no model the caller could have been given.
ReadAstray ==
    /\ shelf.phase = "read" /\ shelf.lister.page \in {"cursor", "refusing"}
    /\ shelf' = [shelf EXCEPT !.phase = IF ListModels(shelf.lister, shelf.all,
                                                      [shelf.opts EXCEPT !.cursor = MaxModels + 1]).error
                                        THEN "refused" ELSE "astray"]
    /\ UNCHANGED registry

\* A slip: a filtered model is the one of the list.
CloneModelInfoNot(l, types) == {"types", "pricing", "tiers"}

\* cloneModelInfo and the copies the listers make: what the caller's copy still shares.
CloneModelInfo(l, types) == IF types # {} THEN {} ELSE l.shares

Scribble ==
    /\ shelf.phase = "read" /\ shelf.got # <<>> /\ shelf.scribbled = {}
    /\ \E field \in {"types", "pricing", "tiers"} :
         shelf' = [shelf EXCEPT !.scribbled = CloneModelInfo(shelf.lister, shelf.opts.types) \cap {field},
                                !.phase = "scribbled"]
    /\ UNCHANGED registry

-----------------------------------------------------------------------------
(* The registry.                                                           *)

Entries == NewEntries
Defaults == NewDefaults

Get(k) ==
    IF k \in DOMAIN registry.rows THEN registry.rows[k]
    ELSE IF k \in DOMAIN Entries THEN Entries[k]
    ELSE IF k[1] \in DOMAIN registry.defaults THEN registry.defaults[k[1]]
    ELSE IF k[1] \in DOMAIN Defaults THEN Defaults[k[1]]
    ELSE Row(0, 0, {})

\* GetWithDefaults: only a number that is not known is replaced.
GetWithDefaults(k, least) ==
    LET row == Get(k)
        Known(n, d) == IF n = 0 THEN d ELSE n
    IN  [row EXCEPT !.context = Known(@, least.context), !.output = Known(@, least.output)]

Own == {Row(0, 100, {"streaming"}), Row(4096, 0, Sees)}
Samples == {<<"openai", "gpt-4o">>, <<"openai", "gpt-7">>, <<"azure", "gpt-4o">>, <<"infinity", "bge">>, <<"other", "m">>}
Asked == DOMAIN Entries \cup DOMAIN KnownModels \cup Samples
Untold == shelf = Idle /\ Cardinality(DOMAIN registry.rows) + Cardinality(DOMAIN registry.defaults) < MaxRegistered

Register ==
    /\ Untold
    /\ \E k \in Samples, row \in Own : registry' = [registry EXCEPT !.rows = (k :> row) @@ @, !.asked = <<>>]
    /\ UNCHANGED shelf
RegisterDefault ==
    /\ Untold
    /\ \E k \in Samples, row \in Own : registry' = [registry EXCEPT !.defaults = (k[1] :> row) @@ @, !.asked = <<>>]
    /\ UNCHANGED shelf
Ask ==
    /\ shelf = Idle
    /\ \E k \in IF registry.rows = <<>> /\ registry.defaults = <<>> THEN Asked ELSE Samples :
         registry' = [registry EXCEPT !.asked = k, !.told = GetWithDefaults(k, Row(1000, 10, {}))]
    /\ UNCHANGED shelf

Next == Open \/ ReadPage \/ ReadFails \/ ReadAstray \/ Scribble \/ Register \/ RegisterDefault \/ Ask

-----------------------------------------------------------------------------
\* Following the cursors gives every model of the kinds asked for once and in order, in no
\* more pages than there are models; a listing without cursors gives the first of them,
\* and one that cuts says so.  A cursor nobody was given is refused, not read as the
\* beginning.
ListingsAreWhole ==
    LET l == shelf.lister
        all == FilterModelsByType(l, shelf.all, [i \in DOMAIN shelf.all |-> i], shelf.opts.types)
    IN  /\ shelf.phase # "astray"
        /\ shelf.pages <= 1 + Len(shelf.all)
        /\ shelf.phase \in {"reading", "failed"} => IsPrefix(shelf.got, all)
        /\ shelf.phase = "read" /\ ~shelf.substitute =>
             CASE l.page \in {"cursor", "remote", "openai", "whole"} -> shelf.got = all
               [] l.page \in {"silent", "refusing"} -> shelf.got = FirstOf(shelf.opts.limit, all)
               [] OTHER -> shelf.got = FirstOf(shelf.opts.limit, all) /\ (shelf.more <=> shelf.got # all)

\* A model that is listed is found by its name, and no other is.
LookupsAgree ==
    shelf.phase = "read" /\ ~shelf.substitute =>
        /\ \A i \in 1..MaxModels : ModelInfo(shelf.lister, shelf.all, i, TRUE) <=> i \in DOMAIN shelf.all
        /\ \A i \in 1..Len(shelf.got) : ModelInfo(shelf.lister, shelf.all, shelf.got[i], TRUE)

\* What a caller does to a model it was given stays with the caller: but for a Gemini card
\* and the tiers of an Anthropic one, which are those of the table.
ListingsAreOnesOwn ==
    shelf.scribbled # {} => /\ shelf.opts.types = {}
                            /\ \/ shelf.lister = Gemini /\ shelf.scribbled \subseteq {"pricing", "tiers"}
                               \/ shelf.lister = Anthropic /\ shelf.scribbled = {"tiers"}

\* What the program registered is what it is told; and else the registry never promises
\* more than the provider's own catalogue, agrees with it on what a model takes, says of
\* every model that reasons or caches that it does, and every catalogued model that is
\* billed by the token has a card.
CapabilitiesAreTrue ==
    LET k == registry.asked
        row == registry.told
        entries == Entries
        known == KnownModels
        Within(n, bound) == bound = 0 \/ n <= bound
    IN  k # <<>> =>
        /\ row.context > 0 /\ row.output > 0
        /\ IF k \in DOMAIN registry.rows THEN row.flags = registry.rows[k].flags
           ELSE /\ k \in ReasoningModels => "reasoning" \in row.flags
                /\ k \in DOMAIN entries /\ k[1] \in CachingProviders => "caching" \in row.flags
                /\ k \in DOMAIN known =>
                     /\ AsksForPricing(k) => TokenPricing(k)
                     /\ k \in DOMAIN entries =>
                          /\ Within(row.context, known[k].context) /\ Within(row.output, known[k].output)
                          /\ ModelTypes(row) = known[k].flags

\* The four at once.
CatalogueIsTrue == ListingsAreWhole /\ LookupsAgree /\ ListingsAreOnesOwn /\ CapabilitiesAreTrue
=============================================================================
