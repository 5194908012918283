----------------------------- MODULE MCRouting -----------------------------
(* The real catalogue, with names, keys and deployments that meet each way *)
(* a request can take.                                                     *)
EXTENDS ModelListing

C == INSTANCE Catalogue

MCCatalogue == C!PROVIDER_CATALOGUE

MCNames ==
    {NoName, Plain("auto"), Name(<<"auto">>, <<"free">>), Name(<<"auto">>, <<"quality">>),
     Name(<<"auto">>, <<"free", "reasoning">>), Plain("quality"),
     Name(<<"auto", "reasoning">>, <<>>), Plain("auto-reasoning"), Name(<<"groq", "auto">>, <<>>),
     Plain("llama-3.3-70b-versatile"), Name(<<"groq", "llama-3.3-70b-versatile">>, <<>>),
     Name(<<"deepseek", "deepseek-r1">>, <<>>),
     Name(<<"openrouter", "deepseek", "deepseek-r1">>, <<>>),
     Name(<<"qwen", "qwen4">>, <<"free">>), Name(<<"openrouter", "qwen", "qwen4">>, <<>>),
     Name(<<"cloudflare", "llama-3.1-8b-instruct-fp8">>, <<>>), Plain("deepseek-reasoner"), Plain("qwq-32b"), Plain("sonnet")}

Allow(models, providers) == [models |-> models, providers |-> providers]

MCKeys ==
    {Allow({}, {}), Allow({}, {"groq", "openrouter"}), Allow({}, {"cloudflare"}),
     Allow({Plain("qwq-32b"), Name(<<"opencode-zen", "qwq-32b">>, <<>>),
            Name(<<"deepseek", "deepseek-r1">>, <<>>), Name(<<"qwen", "qwen3-32b">>, <<>>)},
           {}),
     Allow({Plain("llama-3.1-8b-instant"), Plain("deepseek-r1-distill-70b")},
           {"groq", "pollinations"})}

(* pollinations and opencode-zen need no key, but an administrator may     *)
(* disable any provider.                                                   *)
MCReady ==
    {{"pollinations", "opencode-zen"} \cup keyed :
        keyed \in {{"groq", "openrouter"}, {"deepseek", "openrouter", "cloudflare"},
                   {"anthropic", "groq"}}}
        \cup {{"groq"}, {}}

(* Anthropic's key may be set although an administrator disabled it        *)
MCDeployments ==
    {[ready |-> ready, anthropic_key |-> "anthropic" \in ready] : ready \in MCReady}
        \cup {[ready |-> {"groq"}, anthropic_key |-> TRUE]}

MCAutoWords == {"auto", "auto-reasoning"}

MCOrderings == {"priority", "latency"}

MCNeeds == {{}, {"tools"}, {"vision"}, {"search"}}

MCReasonWords ==
    {"reasoning", "non-reasoning", "auto-reasoning", "deepseek-r1", "deepseek-reasoner", "qwq-32b"}

=============================================================================
