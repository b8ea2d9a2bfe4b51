----------------------------- MODULE ModelTables -----------------------------
(***************************************************************************)
(* The tables of models the library carries: the capability registry, the  *)
(* catalogues of three providers and the names that have a price.  Names   *)
(* in one table refer to another, and a name nothing answers to is passed  *)
(* over in silence.  Rates and wording are left out.                       *)
(***************************************************************************)
EXTENDS Integers, Sequences, SequencesExt, FiniteSetsExt

Row(context, output, flags) == [context |-> context, output |-> output, flags |-> flags]
\* The rows of some models of one provider, which differ in their names only.
Rows(p, names, context, output, flags) == [k \in {p} \X names |-> Row(context, output, flags)]

Talks == {"tools", "streaming", "json"}
Sees == Talks \cup {"vision"}
SeesNoJson == {"tools", "streaming", "vision"}

OpenAIEntries ==
    Rows("openai", {"gpt-4o", "gpt-4o-mini"}, 128000, 16384, Sees)
    @@ Rows("openai", {"gpt-4-turbo"}, 128000, 4096, Sees) @@ Rows("openai", {"gpt-4"}, 8192, 4096, Talks)
    @@ Rows("openai", {"gpt-3.5-turbo"}, 16385, 4096, Talks) @@ Rows("openai", {"o1-mini"}, 128000, 65536, Talks)
    @@ Rows("openai", {"o1", "o3", "o4-mini"}, 200000, 100000, Sees) @@ Rows("openai", {"gpt-4.1"}, 1000000, 32768, Sees)
    @@ Rows("openai", {"gpt-5", "gpt-5-mini", "gpt-5-nano", "gpt-5.4", "gpt-5.4-mini", "gpt-5.4-nano", "gpt-5.4-pro",
                       "gpt-5.5", "gpt-5.5-pro"}, 400000, 128000, Sees)
    @@ Rows("openai", {"gpt-5.6-sol", "gpt-5.6-terra", "gpt-5.6-luna"}, 922000, 128000, Sees)

AnthropicEntries ==
    Rows("anthropic", {"claude-3-5-sonnet-20241022", "claude-3-5-haiku-20241022"}, 200000, 8192, SeesNoJson)
    @@ Rows("anthropic", {"claude-sonnet-4", "claude-sonnet-4-20250514", "claude-opus-4-5", "claude-opus-4-5-20251101"},
            200000, 64000, SeesNoJson)
    @@ Rows("anthropic", {"claude-3-opus-20240229", "claude-3-sonnet-20240229", "claude-3-haiku-20240307"},
            200000, 4096, SeesNoJson)
    @@ Rows("anthropic", {"claude-fable-5", "claude-opus-5", "claude-sonnet-5", "claude-opus-4-8", "claude-opus-4-7",
                          "claude-opus-4-6"}, 1000000, 128000, SeesNoJson)

GeminiEntries ==
    Rows("gemini", {"gemini-1.5-pro"}, 2097152, 8192, Sees) @@ Rows("gemini", {"gemini-1.5-flash"}, 1048576, 8192, Sees)
    @@ Rows("gemini", {"gemini-2.5-pro", "gemini-2.5-flash", "gemini-3.8-flash", "gemini-3.6-flash", "gemini-3.5-flash",
                       "gemini-3.5-flash-lite", "gemini-3.1-pro-preview", "gemini-3.1-flash-lite",
                       "gemini-3-flash-preview"}, 1048576, 65536, Sees)

OtherEntries ==
    Rows("zai", {"glm-5.2"}, 1000000, 128000, Talks \cup {"reasoning"})
    @@ Rows("zai", {"glm-5.1", "glm-5", "glm-5-turbo", "glm-4.7", "glm-4.6"}, 200000, 128000, Talks \cup {"reasoning"})
    @@ Rows("zai", {"glm-4.5", "glm-4.5-air"}, 128000, 96000, Talks \cup {"reasoning"})
    @@ Rows("fireworks", {"accounts/fireworks/models/llama-v3p1-70b-instruct"}, 131072, 16384, Talks)
    @@ Rows("synthetic", {"hf:qwen/qwen3-coder-480b-a35b-instruct"}, 256000, 8192, Talks)
    @@ Rows("synthetic", {"hf:qwen/qwen3-vl-235b-a22b-instruct"}, 250000, 8192, Sees)

RegisteredDefaults ==
    [openai |-> Row(128000, 16384, Sees), azure |-> Row(128000, 16384, Sees), gemini |-> Row(1000000, 8192, Sees),
     anthropic |-> Row(200000, 8192, SeesNoJson), groq |-> Row(131072, 8192, Talks),
     togetherai |-> Row(32768, 4096, Talks), featherless |-> Row(32768, 4096, Talks),
     deepseek |-> Row(128000, 8192, Talks), mistral |-> Row(128000, 8192, Talks), cerebras |-> Row(128000, 8192, Talks),
     perplexity |-> Row(128000, 8192, Talks \ {"tools"}), infinity |-> Row(8192, 0, {"embeddings"}),
     zai |-> Row(128000, 16384, Talks), llamacpp |-> Row(8192, 4096, Talks), fireworks |-> Row(131072, 16384, Talks),
     synthetic |-> Row(32768, 8192, Talks), runpod |-> Row(8192, 4096, Talks \ {"tools"}),
     ollama |-> Row(8192, 4096, Talks \ {"tools"})]

-----------------------------------------------------------------------------
(* What registerReasoningAndCaching adds, when the rows are there.         *)

ReasoningModels ==
    {"openai"} \X {"o1", "o1-mini", "o3", "o4-mini", "gpt-5", "gpt-5-mini", "gpt-5-nano", "gpt-5.4", "gpt-5.4-mini",
        "gpt-5.4-nano", "gpt-5.4-pro", "gpt-5.5", "gpt-5.5-pro", "gpt-5.6-sol", "gpt-5.6-terra", "gpt-5.6-luna"}
    \cup {"anthropic"} \X {"claude-sonnet-4", "claude-sonnet-4-20250514", "claude-fable-5", "claude-opus-5",
        "claude-sonnet-5", "claude-opus-4-8", "claude-opus-4-7", "claude-opus-4-6", "claude-opus-4-5",
        "claude-opus-4-5-20251101"}
    \cup {"gemini"} \X {"gemini-2.5-pro", "gemini-2.5-flash", "gemini-3.1-pro-preview", "gemini-3.8-flash",
        "gemini-3.6-flash", "gemini-3.5-flash", "gemini-3-flash-preview"}

CachingProviders == {"anthropic", "openai", "azure", "deepseek", "gemini"}

With(row, flags) == [row EXCEPT !.flags = @ \cup flags]

Reasoning(rows) == [k \in DOMAIN rows |-> IF k \in ReasoningModels THEN With(rows[k], {"reasoning"}) ELSE rows[k]]

\* A slip: an exact entry is thought to inherit what its provider's default says.
CachingByDefault(rows) == rows

\* An exact entry inherits nothing of its provider's default.
Caching(rows) == [k \in DOMAIN rows |-> IF k[1] \in CachingProviders THEN With(rows[k], {"caching"}) ELSE rows[k]]

NewDefaults ==
    [p \in DOMAIN RegisteredDefaults |->
        With(RegisteredDefaults[p], (IF p = "zai" THEN {"reasoning"} ELSE {})
                                    \cup (IF p \in CachingProviders THEN {"caching"} ELSE {}))]

NewEntries ==
    LET listed == Reasoning(OpenAIEntries @@ AnthropicEntries @@ GeminiEntries @@ OtherEntries)
        deepseek == Rows("deepseek", {"deepseek-reasoner"}, 128000, 8192, Talks \cup {"reasoning"})
    IN  Caching(listed @@ deepseek)

\* ModelTypes: what a model with these capabilities is listed as.
ModelTypes(row) ==
    (IF row.flags \cap (Talks \cup {"reasoning", "caching"}) # {} THEN {"chat"} ELSE {})
    \cup (IF "vision" \in row.flags THEN {"vision"} ELSE {})
    \cup (IF "embeddings" \in row.flags THEN {"embedding"} ELSE {})

-----------------------------------------------------------------------------
(* The catalogues: limits that are not known are 0.                        *)

Looks == {"chat", "vision"}

OpenAIChatModels ==
    Rows("openai", {"gpt-5.6-sol", "gpt-5.6-terra", "gpt-5.6-luna"}, 1050000, 128000, Looks)
    @@ Rows("openai", {"gpt-5", "gpt-5-mini", "gpt-5-nano", "gpt-5.4", "gpt-5.4-mini", "gpt-5.4-nano", "gpt-5.4-pro",
                       "gpt-5.5", "gpt-5.5-pro"}, 400000, 128000, Looks)
    @@ Rows("openai", {"gpt-4.1", "gpt-4.1-mini", "gpt-4.1-nano"}, 1047576, 32768, Looks)
    @@ Rows("openai", {"gpt-4o", "gpt-4o-mini", "gpt-4o-2024-11-20", "gpt-4o-2024-08-06", "gpt-4o-mini-2024-07-18"},
            128000, 16384, Looks)
    @@ Rows("openai", {"gpt-4-turbo"}, 128000, 4096, Looks) @@ Rows("openai", {"gpt-4-turbo-preview"}, 128000, 4096, {"chat"})
    @@ Rows("openai", {"gpt-4"}, 8192, 8192, {"chat"}) @@ Rows("openai", {"gpt-4-32k"}, 32768, 32768, {"chat"})
    @@ Rows("openai", {"gpt-3.5-turbo", "gpt-3.5-turbo-16k"}, 16385, 4096, {"chat"})

OpenAIOtherModels ==
    Rows("openai", {"o4-mini", "o3", "o1"}, 200000, 100000, Looks) @@ Rows("openai", {"o3-mini"}, 200000, 100000, {"chat"})
    @@ Rows("openai", {"o1-preview"}, 128000, 32768, {"chat"}) @@ Rows("openai", {"o1-mini"}, 128000, 65536, {"chat"})
    @@ Rows("openai", {"text-embedding-3-large", "text-embedding-3-small", "text-embedding-ada-002"}, 8191, 0, {"embedding"})
    @@ Rows("openai", {"gpt-image-2", "gpt-image-1.5", "gpt-image-1-mini", "dall-e-2"}, 0, 0, {"image"})
    @@ Rows("openai", {"gpt-4o-mini-tts", "gpt-transcribe", "gpt-4o-transcribe", "gpt-4o-mini-transcribe",
                       "gpt-4o-transcribe-diarize", "whisper-1", "tts-1", "tts-1-hd"}, 0, 0, {"audio"})
    @@ Rows("openai", {"sora-2", "sora-2-pro"}, 0, 0, {"video"})
    @@ Rows("openai", {"text-moderation-latest", "text-moderation-stable", "omni-moderation-latest"}, 0, 0, {"moderation"})

AnthropicModels ==
    Rows("anthropic", {"claude-fable-5", "claude-opus-5", "claude-sonnet-5", "claude-opus-4-8", "claude-opus-4-7",
                       "claude-opus-4-6"}, 1000000, 128000, Looks)
    @@ Rows("anthropic", {"claude-opus-4-5", "claude-opus-4-5-20251101", "claude-sonnet-4-20250514", "claude-sonnet-4-5",
            "claude-sonnet-4-5-20250929", "claude-haiku-4-5", "claude-haiku-4-5-20251001"}, 200000, 64000, Looks)
    @@ Rows("anthropic", {"claude-opus-4-1", "claude-opus-4-1-20250805"}, 200000, 32000, Looks)
    @@ Rows("anthropic", {"claude-sonnet-4-6"}, 1000000, 64000, Looks)
    @@ Rows("anthropic", {"claude-3-5-sonnet-latest", "claude-3-5-sonnet-20241022", "claude-3-5-sonnet-20240620",
            "claude-3-5-haiku-latest", "claude-3-5-haiku-20241022"}, 200000, 8192, Looks)
    @@ Rows("anthropic", {"claude-3-opus-latest", "claude-3-opus-20240229", "claude-3-sonnet-20240229",
            "claude-3-haiku-20240307"}, 200000, 4096, Looks)
    @@ Rows("anthropic", {"claude-2.1"}, 200000, 4096, {"chat"})
    @@ Rows("anthropic", {"claude-2.0", "claude-instant-1.2"}, 100000, 4096, {"chat"})

GeminiModels ==
    Rows("gemini", {"gemini-2.5-flash-image", "gemini-3.1-flash-image", "gemini-3.1-flash-lite-image",
                    "gemini-3-pro-image"}, 0, 0, {"image"})
    @@ Rows("gemini", {"veo-3.1-generate-preview", "veo-3.1-fast-generate-preview", "veo-3.1-lite-generate-preview"},
            0, 0, {"video"})
    @@ Rows("gemini", {"gemini-3.1-flash-tts-preview", "gemini-2.5-flash-preview-tts", "gemini-2.5-pro-preview-tts",
            "gemini-3.5-transcribe"}, 0, 0, {"audio"})
    @@ Rows("gemini", {"gemini-3.8-flash", "gemini-3.6-flash", "gemini-3.5-flash", "gemini-3.5-flash-lite",
            "gemini-3.1-pro-preview", "gemini-3.1-flash-lite", "gemini-3-flash-preview", "gemini-2.5-pro",
            "gemini-2.5-flash", "gemini-2.5-flash-lite", "gemini-2.0-flash-exp", "gemini-1.5-pro", "gemini-1.5-pro-latest",
            "gemini-1.5-pro-001", "gemini-1.5-pro-002", "gemini-1.5-flash", "gemini-1.5-flash-latest",
            "gemini-1.5-flash-001", "gemini-1.5-flash-002", "gemini-1.5-flash-8b", "gemini-1.0-pro-vision",
            "gemini-pro-vision"}, 0, 0, Looks)
    @@ Rows("gemini", {"gemini-1.0-pro", "gemini-1.0-pro-latest", "gemini-pro"}, 0, 0, {"chat"})
    @@ Rows("gemini", {"gemini-embedding-001", "text-embedding-004", "embedding-001"}, 0, 0, {"embedding"})

KnownModels == OpenAIChatModels @@ OpenAIOtherModels @@ AnthropicModels @@ GeminiModels

-----------------------------------------------------------------------------
(* The names with a rate card, of the providers with a catalogue.          *)

PricedOpenAI ==
    {"gpt-4o", "gpt-4o-2024-11-20", "gpt-4o-2024-08-06", "gpt-4o-mini", "gpt-4o-mini-2024-07-18", "gpt-4-turbo",
     "gpt-4-turbo-preview", "gpt-4", "gpt-4-32k", "gpt-3.5-turbo", "gpt-3.5-turbo-16k", "o1", "o1-preview", "o1-mini",
     "o3", "o3-mini", "o4-mini", "gpt-4.1", "gpt-4.1-mini", "gpt-4.1-nano", "gpt-5.6-sol", "gpt-5.6-terra",
     "gpt-5.6-luna", "gpt-6.1-sol", "gpt-6-sol", "gpt-6-astra", "gpt-6-luna", "gpt-5", "gpt-5-mini", "gpt-5-nano",
     "gpt-5.4-mini", "gpt-5.4-nano", "gpt-5.4", "gpt-5.4-pro", "gpt-5.5", "gpt-5.5-pro", "gpt-5.3-codex",
     "gpt-rosalind-research", "gpt-rosalind-discovery", "gpt-5.6-cyber", "gpt-5.2", "gpt-5.2-pro", "gpt-5.1",
     "gpt-5-pro", "o1-pro", "o3-pro", "chat-latest", "gpt-4o-2024-05-13", "gpt-4-turbo-2024-04-09", "gpt-4-0613",
     "gpt-3.5-turbo-0125", "gpt-3.5-turbo-1106", "gpt-3.5-turbo-instruct", "davinci-002", "babbage-002",
     "text-embedding-3-small", "text-embedding-3-large", "text-embedding-ada-002"}

PricedAnthropic ==
    {"claude-sonnet-4-20250514", "claude-sonnet-4", "claude-3-7-sonnet-20250219", "claude-opus-4-20250514",
     "claude-opus-4", "claude-3-5-sonnet-20241022", "claude-3-5-sonnet-20240620", "claude-3-5-haiku-20241022",
     "claude-3-opus-20240229", "claude-3-sonnet-20240229", "claude-3-haiku-20240307", "claude-fable-5",
     "claude-mythos-5", "claude-opus-5", "claude-sonnet-5", "claude-fable-5-1", "claude-opus-5-5", "claude-sonnet-5-5",
     "claude-haiku-5-5", "claude-opus-4-8", "claude-opus-4-7", "claude-opus-4-6", "claude-opus-4-5",
     "claude-opus-4-5-20251101", "claude-opus-4-1", "claude-opus-4-1-20250805", "claude-sonnet-4-6",
     "claude-sonnet-4-5", "claude-sonnet-4-5-20250929", "claude-haiku-4-5", "claude-haiku-4-5-20251001",
     "claude-3-5-sonnet-latest", "claude-3-5-haiku-latest", "claude-3-opus-latest", "claude-2.1", "claude-2.0",
     "claude-instant-1.2"}

PricedGemini ==
    {"gemini-3.8-flash", "gemini-3.6-flash", "gemini-3.7-flash", "gemini-3.5-flash", "gemini-3.5-flash-lite",
     "gemini-3.1-pro-preview", "gemini-3.1-flash-lite", "gemini-3-flash-preview", "gemini-2.5-pro", "gemini-2.5-flash",
     "gemini-2.5-flash-lite", "gemini-2.0-flash-exp", "gemini-1.5-flash", "gemini-1.5-flash-8b", "gemini-1.5-pro",
     "gemini-1.5-pro-latest", "gemini-1.5-pro-001", "gemini-1.5-pro-002", "gemini-1.5-flash-latest",
     "gemini-1.5-flash-001", "gemini-1.5-flash-002", "gemini-1.0-pro", "gemini-1.0-pro-latest", "gemini-pro",
     "gemini-1.0-pro-vision", "gemini-pro-vision", "gemini-embedding-001", "text-embedding-004", "embedding-001"}

\* ModelTokenPricing, as tokenPricing asks it when the catalogue is made.
TokenPricing(k) ==
    k \in {"openai"} \X PricedOpenAI \cup {"anthropic"} \X PricedAnthropic \cup {"gemini"} \X PricedGemini

\* The entries of a catalogue that ask for a card, and get none if there is none.
AsksForPricing(k) == KnownModels[k].flags \cap {"chat", "embedding"} # {}
=============================================================================
