----------------------------- MODULE Catalogue -----------------------------
(***************************************************************************)
(* The providers the gateway knows (providers/catalogue.py), with what     *)
(* routing reads of them: name, priority, whether they work without an API *)
(* key, the capabilities a request can ask for, and the static lists of    *)
(* models.  Lists read from the environment have their defaults.           *)
(***************************************************************************)
EXTENDS VirtualRoutes, Integers

Entry(name, priority, keyless, capabilities, non_reasoning_models, reasoning_models) ==
    [name |-> name, priority |-> priority, keyless |-> keyless,
     capabilities |-> capabilities,
     models |-> [non_reasoning |-> non_reasoning_models,
                 reasoning |-> reasoning_models]]

W(word) == Plain(word)

P(path) == Name(path, <<>>)

Groq == Entry("groq", 1, FALSE, {"tools"},
    <<W("llama-3.3-70b-versatile"), W("llama-3.1-8b-instant")>>,
    <<W("deepseek-r1-distill-70b"), W("qwen-3-32b")>>)

Google == Entry("google", 2, FALSE, {"vision", "tools"},
    <<W("gemini-2.5-flash"), W("gemini-2.5-flash-lite"), W("gemini-2.5-pro")>>,
    <<W("gemini-2.5-pro"), W("gemini-2.5-flash")>>)

Openrouter == Entry("openrouter", 3, FALSE, {"vision", "tools"},
    <<P(<<"openai", "gpt-4o-mini">>), P(<<"anthropic", "claude-3.5-haiku">>),
      P(<<"google", "gemini-2.0-flash">>),
      P(<<"meta-llama", "llama-3.3-70b-instruct">>),
      P(<<"mistralai", "devstral">>), P(<<"deepseek", "deepseek-v3-0324">>),
      P(<<"nvidia", "llama-3.3-nemotron-70b-instruct">>),
      P(<<"qwen", "qwen3-32b">>)>>,
    <<P(<<"deepseek", "deepseek-r1-0528">>), P(<<"deepseek", "deepseek-r1">>),
      P(<<"anthropic", "claude-sonnet-4">>),
      P(<<"google", "gemini-2.5-flash">>), P(<<"qwen", "qwq-32b">>),
      P(<<"mistralai", "mistral-small">>),
      P(<<"meta-llama", "llama-4-scout-17b-16e-instruct">>)>>)

Cloudflare == Entry("cloudflare", 4, FALSE, {},
    <<P(<<"@cf", "meta", "llama-3.1-8b-instruct-fp8">>),
      P(<<"@cf", "meta", "llama-3.2-11b-vision-instruct">>)>>,
    <<P(<<"@cf", "deepseek-ai", "deepseek-r1-distill-qwen-32b">>),
      P(<<"@cf", "qwen", "qwq-32b">>)>>)

Github == Entry("github", 5, FALSE, {"tools"},
    <<W("Llama-3.3-70B-Instruct"), W("gpt-4o-mini")>>,
    <<W("DeepSeek-R1"), W("o1-mini")>>)

Nvidia == Entry("nvidia", 6, FALSE, {"tools"},
    <<P(<<"meta", "llama-3.3-70b-instruct">>),
      P(<<"meta", "llama-3.1-8b-instruct">>),
      P(<<"mistralai", "mistral-7b-instruct-v0.3">>)>>,
    <<P(<<"nvidia", "llama-3.1-nemotron-ultra-253b-v1">>),
      P(<<"deepseek-ai", "deepseek-r1">>)>>)

A4f == Entry("a4f", 7, FALSE, {},
    <<P(<<"provider-3", "gpt-4o-mini">>), P(<<"provider-5", "llama-3.3-70b">>)>>,
    <<P(<<"provider-6", "deepseek-r1">>)>>)

Cerebras == Entry("cerebras", 2, FALSE, {"tools"},
    <<W("llama3.1-8b"), W("qwen-3-235b-a22b-instruct-2507")>>,
    <<W("llama3.1-8b"), W("qwen-3-235b-a22b-instruct-2507")>>)

Pollinations == Entry("pollinations", 8, TRUE, {"vision"},
    <<W("openai"), W("mistral"), W("llama"), W("gemini")>>,
    <<W("deepseek-reasoner")>>)

Ollama == Entry("ollama", 99, TRUE, {"tools"},
    <<W("llama3.2"), Name(<<"llama3.2">>, <<"3b">>), W("mistral"), W("phi4"),
      Name(<<"gemma3">>, <<"12b">>), Name(<<"qwen2.5">>, <<"7b">>),
      Name(<<"deepseek-r1">>, <<"7b">>)>>,
    <<W("deepseek-r1"), Name(<<"deepseek-r1">>, <<"14b">>),
      Name(<<"deepseek-r1">>, <<"32b">>), W("qwq"), W("phi4-reasoning")>>)

Huggingface == Entry("huggingface", 6, FALSE, {},
    <<P(<<"meta-llama", "Llama-3.3-70B-Instruct">>),
      P(<<"Qwen", "Qwen2.5-72B-Instruct">>)>>,
    <<P(<<"deepseek-ai", "DeepSeek-R1-Distill-Qwen-32B">>),
      P(<<"meta-llama", "Llama-3.3-70B-Instruct">>)>>)

Sambanova == Entry("sambanova", 2, FALSE, {},
    <<W("Meta-Llama-3.3-70B-Instruct"), W("Meta-Llama-3.1-8B-Instruct")>>,
    <<W("DeepSeek-R1-Distill-Llama-70B"), W("QwQ-32B")>>)

Together == Entry("together", 5, FALSE, {"tools"},
    <<P(<<"meta-llama", "Llama-3.3-70B-Instruct-Turbo">>),
      P(<<"meta-llama", "Llama-3.2-11B-Vision-Instruct-Turbo">>),
      P(<<"Qwen", "Qwen2.5-72B-Instruct-Turbo">>)>>,
    <<P(<<"deepseek-ai", "DeepSeek-R1">>), P(<<"Qwen", "QwQ-32B-Preview">>)>>)

Llm7 == Entry("llm7", 7, FALSE, {"vision"},
    <<W("gpt-4o-mini-2024-07-18"), W("gemini-2.5-flash-lite"),
      W("qwen2.5-coder-32b-instruct")>>,
    <<W("deepseek-r1-0528")>>)

Mistral == Entry("mistral", 3, FALSE, {"vision", "tools"},
    <<W("mistral-large-latest"), W("mistral-small-latest"),
      W("codestral-latest"), W("mistral-nemo")>>,
    <<W("magistral-medium-latest"), W("magistral-small-latest")>>)

Xai == Entry("xai", 4, FALSE, {"vision", "tools"},
    <<W("grok-3-beta")>>,
    <<W("grok-3-mini-beta")>>)

Deepseek == Entry("deepseek", 2, FALSE, {"tools"},
    <<W("deepseek-chat"), W("deepseek-v4-flash")>>,
    <<W("deepseek-reasoner"), W("deepseek-v4-pro")>>)

Perplexity == Entry("perplexity", 5, FALSE, {"search"},
    <<W("sonar"), W("sonar-pro"), W("r1-1776")>>,
    <<W("sonar-reasoning"), W("sonar-reasoning-pro"), W("sonar-deep-research")>>)

Fireworks == Entry("fireworks", 4, FALSE, {"vision", "tools"},
    <<P(<<"accounts", "fireworks", "models", "llama-v3p3-70b-instruct">>),
      P(<<"accounts", "fireworks", "models", "qwen2p5-72b-instruct">>)>>,
    <<P(<<"accounts", "fireworks", "models", "deepseek-r1-0528">>),
      P(<<"accounts", "fireworks", "models", "qwen3-235b-a22b">>)>>)

Deepinfra == Entry("deepinfra", 4, FALSE, {"tools"},
    <<P(<<"meta-llama", "Llama-3.3-70B-Instruct-Turbo">>),
      P(<<"Qwen", "Qwen2.5-72B-Instruct">>)>>,
    <<P(<<"deepseek-ai", "DeepSeek-R1">>), P(<<"Qwen", "QwQ-32B">>)>>)

Minimax == Entry("minimax", 3, FALSE, {"vision", "tools"},
    <<W("MiniMax-Text-01"), W("MiniMax-Text-01-Turbo")>>,
    <<W("MiniMax-Text-01"), W("MiniMax-Text-01-Turbo")>>)

Anthropic == Entry("anthropic", 0, FALSE, {"vision", "tools"},
    <<W("claude-3-5-haiku-20241022"), W("claude-3-5-sonnet-20241022"),
      W("claude-3-7-sonnet-20250514"), W("claude-sonnet-4-7-20250514"),
      W("claude-opus-4-7-20250514")>>,
    <<W("claude-sonnet-4-7-20250514"), W("claude-opus-4-7-20250514")>>)

OpencodeZen == Entry("opencode-zen", 5, TRUE, {"tools"},
    <<W("minimax-m2.5-free"), W("gemini-3-flash"), W("glm-5"), W("gpt-oss-20b")>>,
    <<W("minimax-m2.5-free"), W("qwq-32b")>>)

(* The entry "custom" has no URL by default, and without one it is dropped *)
PROVIDER_CATALOGUE ==
    <<Groq, Google, Openrouter, Cloudflare, Github, Nvidia, A4f, Cerebras,
      Pollinations, Ollama, Huggingface, Sambanova, Together, Llm7, Mistral,
      Xai, Deepseek, Perplexity, Fireworks, Deepinfra, Minimax, Anthropic,
      OpencodeZen>>

=============================================================================
