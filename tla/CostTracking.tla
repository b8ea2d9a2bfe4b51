----------------------------- MODULE CostTracking -----------------------------
(***************************************************************************)
(* cost.go, cost_media.go, modes.go: the prices of requests, and the       *)
(* CostTracker that CostMiddleware keeps over concurrent calls, some of    *)
(* them streams that are billed when they end, while the books are reset   *)
(* and prices are set.                                                     *)
(***************************************************************************)
EXTENDS Integers, Sequences, FiniteSets, Functions, FiniteSetsExt

CONSTANTS
    Calls,              \* the calls of one execution
    MaxSafe             \* maxSafeTokenCount

ASSUME CostAssumption == IsFiniteSet(Calls) /\ MaxSafe \in Nat

VARIABLES
    pricing,            \* the standard card of each model that has one
    modePricing,        \* cards registered for a model and a mode
    books,              \* what each model used
    modeCost,           \* what each mode cost
    media,              \* what media cost, by unit
    billing             \* of each call: what its stream said last, or what it was billed

costVars == <<pricing, modePricing, books, modeCost, media, billing>>

-----------------------------------------------------------------------------
(* Cards and usage. Rates are per token.                                  *)

Rates(input, output, read, write) == [input |-> input, output |-> output, read |-> read, write |-> write]
Card(rates, tiers) == [base |-> rates, tiers |-> tiers]
Tier(min, rates) == [min |-> min, rates |-> rates]

OwnModel == <<"anthropic", "m1">>        \* the model of the client
Other == <<"openai", "m2">>

DefaultPricing ==
    [model \in {OwnModel, Other} |->
        IF model = OwnModel THEN Card(Rates(80, 160, 0, 0), <<>>)
        ELSE Card(Rates(40, 80, 0, 50), <<Tier(5, Rates(160, 200, 0, 0)), Tier(3, Rates(80, 120, 0, 0))>>)]

\* The cards built in for a mode, which have tiers of their own.
PublishedModePricing == [key \in {<<Other, "fast">>} |-> Card(Rates(80, 160, 8, 0), <<>>)]

Modes == {"", "batch", "fast"}

\* The charge is what the provider says it billed, if it does.
Tokens(prompt, completion, read, creation) ==
    [prompt |-> prompt, completion |-> completion, read |-> read, creation |-> creation, charge |-> <<>>]
Usages ==
    {Tokens(1, 1, 0, 0), Tokens(1, 0, 2, 1), Tokens(-2, 1, 0, 4),
     [Tokens(1, 0, 0, 0) EXCEPT !.charge = <<7>>], [Tokens(4, 0, 0, 0) EXCEPT !.charge = <<-7>>]}

NonNegative(u) ==
    [prompt |-> Max({u.prompt, 0}), completion |-> Max({u.completion, 0}), read |-> Max({u.read, 0}),
     creation |-> Max({u.creation, 0}), charge |-> [i \in DOMAIN u.charge |-> Max({u.charge[i], 0})]]

TotalInputTokens(u) == u.prompt + u.read + u.creation

\* A slip: what was read from the cache does not count towards a tier.
EffectiveByPrompt(card, u) ==
    LET reached == {tier \in Range(card.tiers) : u.prompt >= tier.min}
    IN  IF reached = {} THEN card.base
        ELSE (CHOOSE tier \in reached : \A other \in reached : other.min <= tier.min).rates

\* The highest tier that the input reaches reprices the whole request.
Effective(card, u) ==
    LET reached == {tier \in Range(card.tiers) : TotalInputTokens(u) >= tier.min}
    IN  IF reached = {} THEN card.base
        ELSE (CHOOSE tier \in reached : \A other \in reached : other.min <= tier.min).rates

CacheReadRate(rates) == IF rates.read > 0 THEN rates.read ELSE rates.input
CacheWriteRate(rates) == IF rates.write > 0 THEN rates.write ELSE rates.input

Cost(card, usageSaid) ==
    LET u == NonNegative(usageSaid)
        rates == Effective(card, u)
    IN  u.prompt * rates.input + u.completion * rates.output
            + u.read * CacheReadRate(rates) + u.creation * CacheWriteRate(rates)

\* Half of everything; cache rates that are not given follow the input's.
Discounted(rates) ==
    LET input == rates.input \div 2 IN
    Rates(input, rates.output \div 2,
          IF rates.read = 0 THEN input \div 10 ELSE rates.read \div 2,
          IF rates.write = 0 THEN (5 * input) \div 4 ELSE rates.write \div 2)

DeriveAnthropicBatchPricing(card) ==
    Card(Discounted(card.base),
         [i \in DOMAIN card.tiers |-> Tier(card.tiers[i].min, Discounted(card.tiers[i].rates))])

\* The cards of a model in a mode: one, or none.
ResolveModePricing(model, mode) ==
    LET standard == {pricing[m] : m \in {model} \cap DOMAIN pricing} IN
    CASE mode = "" -> standard
      [] mode # "" /\ <<model, mode>> \in DOMAIN PublishedModePricing -> {PublishedModePricing[<<model, mode>>]}
      [] mode = "batch" /\ model[1] = "anthropic" ->
            {DeriveAnthropicBatchPricing(card) : card \in {card \in standard : card.base.input # 0}}
      [] OTHER -> {}

\* What it costs, and whether that is known: a reported charge, a card registered for
\* the mode, a published one, or the standard card.
CostFor(model, u, mode) ==
    LET registered == {modePricing[k] : k \in {<<model, mode>>} \cap DOMAIN modePricing}
        resolved == ResolveModePricing(model, mode)
        price(cards, known) == [cost |-> Cost(CHOOSE card \in cards : TRUE, u), known |-> known]
    IN  CASE u.charge # <<>> -> [cost |-> NonNegative(u).charge[1], known |-> TRUE]
          [] u.charge = <<>> /\ mode # "" /\ registered # {} -> price(registered, TRUE)
          [] u.charge = <<>> /\ (mode = "" \/ registered = {}) /\ resolved # {} -> price(resolved, TRUE)
          [] OTHER -> IF model \in DOMAIN pricing THEN price({pricing[model]}, FALSE)
                      ELSE [cost |-> 0, known |-> FALSE]

-----------------------------------------------------------------------------
(* The tracker.                                                            *)

NoUsage == [prompt |-> 0, completion |-> 0, read |-> 0, creation |-> 0, requests |-> 0, unpriced |-> 0, cost |-> 0]
ValueAt(function, key, default) == IF key \in DOMAIN function THEN function[key] ELSE default
Put(function, key, value) == [k \in DOMAIN function \cup {key} |-> IF k = key THEN value ELSE function[k]]

Idle == [phase |-> "idle"]

CostInit ==
    /\ pricing = DefaultPricing /\ modePricing = <<>>
    /\ books = <<>> /\ modeCost = [mode \in Modes |-> 0] /\ media = <<>>
    /\ billing = [c \in Calls |-> Idle]

WouldOverflow(total, add) == add < 0 \/ total > MaxSafe \/ add > MaxSafe - total

\* RecordMode: call c is told the price, and the books have it; a count that would
\* overflow is left out whole.
RecordMode(c, model, said, mode) ==
    LET u == NonNegative(said)
        price == CostFor(model, u, mode)
        old == ValueAt(books, model, NoUsage)
        new == [prompt |-> old.prompt + u.prompt, completion |-> old.completion + u.completion,
                read |-> old.read + u.read, creation |-> old.creation + u.creation,
                requests |-> old.requests + 1, unpriced |-> old.unpriced + IF price.known THEN 0 ELSE 1,
                cost |-> old.cost + price.cost]
        skipped == \E field \in {"prompt", "completion", "read", "creation"} : WouldOverflow(old[field], u[field])
    IN  /\ books' = Put(books, model, IF skipped THEN old ELSE new)
        /\ modeCost' = IF skipped THEN modeCost ELSE [modeCost EXCEPT ![mode] = @ + price.cost]
        /\ billing' = [billing EXCEPT ![c] =
                [phase |-> IF skipped THEN "skipped" ELSE "billed", model |-> model, mode |-> mode, cost |-> price.cost,
                 known |-> price.known, input |-> TotalInputTokens(u)]]

\* The model that served, as the answer says; else the one that was asked for.
ServedIdentity(said, option) ==
    <<IF said[1] = "" THEN OwnModel[1] ELSE said[1],
      IF said[2] # "" THEN said[2] ELSE IF option # "" THEN option ELSE OwnModel[2]>>

Provenances == {<<"", "">>, <<"openai", "">>}
ServedAs(said) == {ServedIdentity(said, option) : option \in {"", "m2"}}
Models == UNION {ServedAs(said) : said \in Provenances}

\* CostMiddleware.GenerateContent, RecordEmbedding: a call that fails is not billed.
Generate(c) ==
    /\ billing[c] = Idle
    /\ \E u \in Usages, model \in Models, mode \in Modes :
         RecordMode(c, model, u, mode)
    /\ UNCHANGED <<pricing, modePricing, media>>

Stream(c) ==
    /\ billing[c] = Idle
    /\ billing' = [billing EXCEPT ![c] = [phase |-> "streaming", used |-> {}, said |-> <<"", "">>]]
    /\ UNCHANGED <<pricing, modePricing, books, modeCost, media>>

\* The last usage counts, and who served goes with it, if a chunk says so.
ChunkWithUsage(c) ==
    /\ billing[c].phase = "streaming"
    /\ \E u \in Usages, said \in Provenances :
         billing' = [billing EXCEPT ![c] =
            [phase |-> "streaming", used |-> {u}, said |-> IF said = <<"", "">> THEN @.said ELSE said]]
    /\ UNCHANGED <<pricing, modePricing, books, modeCost, media>>

\* However a stream ends, what it used is billed.
StreamEnds(c) ==
    /\ billing[c].phase = "streaming"
    /\ IF billing[c].used = {}
       THEN billing' = [billing EXCEPT ![c] = [phase |-> "forgotten"]] /\ UNCHANGED <<books, modeCost>>
       ELSE \E u \in billing[c].used, model \in ServedAs(billing[c].said), mode \in Modes :
              RecordMode(c, model, u, mode)
    /\ UNCHANGED <<pricing, modePricing, media>>

\* MediaCost: a charge, or a rate for that very unit.
Units == {"image", "second"}
MediaRate == [unit |-> "image", usd |-> 3]
RecordMedia ==
    /\ media = <<>>
    /\ \E unit \in Units, charge \in {<<>>, <<5>>} :
         LET cost == IF charge # <<>> THEN charge[1] ELSE IF unit = MediaRate.unit THEN 2 * MediaRate.usd ELSE 0
             priced == charge # <<>> \/ unit = MediaRate.unit
         IN  media' = Put(media, unit, [quantity |-> 2, cost |-> cost, requests |-> 1,
                                        unpriced |-> IF priced THEN 0 ELSE 1])
    /\ UNCHANGED <<pricing, modePricing, books, modeCost, billing>>

\* A slip: the split by mode outlives a reset.
ResetKeepingModes ==
    /\ books # <<>> \/ media # <<>>
    /\ books' = <<>> /\ media' = <<>>
    /\ billing' = [c \in Calls |-> IF billing[c].phase \in {"billed", "skipped"} THEN [phase |-> "forgotten"] ELSE billing[c]]
    /\ UNCHANGED <<pricing, modePricing, modeCost>>

\* What was billed is forgotten; a call still to be billed is billed in the new books.
ResetCosts ==
    /\ books # <<>> \/ media # <<>>
    /\ books' = <<>> /\ media' = <<>> /\ modeCost' = [mode \in Modes |-> 0]
    /\ billing' = [c \in Calls |-> IF billing[c].phase \in {"billed", "skipped"} THEN [phase |-> "forgotten"] ELSE billing[c]]
    /\ UNCHANGED <<pricing, modePricing>>

SetPricing ==
    /\ DOMAIN pricing = {OwnModel, Other}
    /\ pricing' = Put(pricing, <<"openai", "m1">>, Card(Rates(40, 40, 0, 0), <<>>))
    /\ UNCHANGED <<modePricing, books, modeCost, media, billing>>

SetModePricing ==
    /\ modePricing = <<>>
    /\ modePricing' = Put(modePricing, <<OwnModel, "batch">>, Card(Rates(20, 40, 0, 0), <<>>))
    /\ UNCHANGED <<pricing, books, modeCost, media, billing>>

CostNext ==
    \/ \E c \in Calls : Generate(c) \/ Stream(c) \/ ChunkWithUsage(c) \/ StreamEnds(c)
    \/ RecordMedia \/ ResetCosts \/ SetPricing \/ SetModePricing

CostSpec == CostInit /\ [][CostNext]_costVars

-----------------------------------------------------------------------------
(* Properties                                                              *)

Billed(model) == {c \in Calls : billing[c].phase = "billed" /\ billing[c].model = model}
CostsOf(model) == SumFunction([c \in Calls |-> IF c \in Billed(model) THEN billing[c].cost ELSE 0])
InputOf(model) == SumFunction([c \in Calls |-> IF c \in Billed(model) THEN billing[c].input ELSE 0])

MediaCosts == SumFunction([unit \in Units |-> IF unit \in DOMAIN media THEN media[unit].cost ELSE 0])
GetTotalCost == SumFunction([model \in Models |-> ValueAt(books, model, NoUsage).cost]) + MediaCosts

\* The books hold, under the model that served it, every call billed since the last
\* reset, at the price its caller was told, and no other; the split by mode adds up.
BooksBalance ==
    /\ \A model \in DOMAIN books :
         /\ model \in Models
         /\ books[model].requests = Cardinality(Billed(model))
         /\ books[model].cost = CostsOf(model)
         /\ books[model].unpriced = Cardinality({c \in Billed(model) : ~billing[c].known})
         /\ books[model].prompt + books[model].read + books[model].creation = InputOf(model)
    /\ \A c \in Calls : billing[c].phase = "billed" => billing[c].model \in DOMAIN books /\ billing[c].cost >= 0
    /\ SumFunction(modeCost) + MediaCosts = GetTotalCost

\* More tokens never cost less, whatever tiers they reach; and where a card has no rates
\* for the cache, what is read from it is billed as if it had been in the prompt.
PricesAreFair ==
    (\A c \in Calls : billing[c] = Idle) => \A card \in Range(pricing) :
        /\ \A u, v \in Usages :
             /\ u.prompt <= v.prompt /\ u.completion <= v.completion /\ u.read <= v.read /\ u.creation <= v.creation
             => Cost(card, u) <= Cost(card, v)
        /\ card.base.read = 0 =>
             \A p, r \in 0..4 : Cost(card, Tokens(p, 0, r, 0)) = Cost(card, Tokens(p + r, 0, 0, 0))
=============================================================================
