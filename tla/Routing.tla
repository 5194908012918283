------------------------------- MODULE Routing -------------------------------
(***************************************************************************)
(* How one request finds its provider: the part of the endpoints of        *)
(* api/routes/chat.py from the name of the model to the answer, with       *)
(* eligible_pairs(), select_model_for_provider() and sorted_pairs() of     *)
(* providers/router.py.                                                    *)
(*                                                                         *)
(* is_available() and call_provider() may answer either way: RateLimiter   *)
(* and Failover say when.                                                  *)
(***************************************************************************)
EXTENDS VirtualRoutes, Integers

CONSTANTS
    Catalogue,      \* the sequence of entries, as in Catalogue.tla
    Orderings,      \* the values ROUTE_BY may have
    Names,          \* the model names clients send, NoName for none
    Keys,           \* what keys allow: [models, providers], {} for everything
    Deployments,    \* the providers that are enabled and either have an API key
                    \* or work without one, and whether Anthropic's key is set
    Needs,          \* the sets of capabilities a body may ask for
    ReasonWords     \* the words in names that infer_reasoning() looks for

Providers == {Catalogue[i].name : i \in DOMAIN Catalogue}

Place(p) == CHOOSE i \in DOMAIN Catalogue : Catalogue[i].name = p

Provider(p) == Catalogue[Place(p)]

Endpoints == {"chat", "messages", "responses"}

(* A request and the deployment it meets; thinks: its messages hold one of *)
(* the words of infer_reasoning().                                         *)
Requests == [endpoint : Endpoints, name : Names, needs : Needs, thinks : BOOLEAN,
             key : Keys, deployment : Deployments, route_by : Orderings]

(* effective_models() falls back on the catalogue, where no list is empty  *)
ListedNames == [path : Seq(STRING) \ {<<>>}, tags : Seq(STRING)]

ASSUME RoutingConstants ==
    /\ \A i, j \in DOMAIN Catalogue : Catalogue[i].name = Catalogue[j].name => i = j
    /\ \A i \in DOMAIN Catalogue :
          /\ Catalogue[i].name \notin AutoWords \cup {"none"}
          /\ Catalogue[i].priority \in Int
          /\ Catalogue[i].keyless \in BOOLEAN
          /\ \A b \in Buckets : Catalogue[i].models[b] \in Seq(ListedNames) \ {<<>>}
    /\ Orderings \subseteq {"priority", "latency", "random"}
    /\ Deployments \subseteq [ready : SUBSET Providers, anthropic_key : BOOLEAN]
    /\ "auto" \in AutoWords

VARIABLES
    request,
    stage,      \* "arrived", "loop", "asked", or "done"
    route,
    pairs,      \* the providers of eligible_pairs()
    passed,     \* those of them the loop is through with
    resting,    \* those of them that is_available() refused
    asked,      \* the calls made: provider, model, and the name sent upstream
    answer      \* the status, or who answered

vars == <<request, stage, route, pairs, passed, resting, asked, answer>>

Init ==
    /\ request \in Requests
    /\ stage = "arrived"
    /\ route = NoRoute
    /\ pairs = {}
    /\ passed = {}
    /\ resting = {}
    /\ asked = <<>>
    /\ answer = "none"

-----------------------------------------------------------------------------
(* Names *)

Qualified(name) == Len(name.path) > 1

Under(p, name) == Name(<<p>> \o name.path, name.tags)

Unqualified(name) == Name(Tail(name.path), name.tags)

\* faulty: any first segment, which SentUnlessPrefixed would reveal
StripsAny(name) == IF Qualified(name) THEN Unqualified(name) ELSE name

(* A leading segment that names a provider is taken for a prefix *)
Prefixed(name) == Qualified(name) /\ name.path[1] \in Providers

Stripped(name) == IF Prefixed(name) THEN Unqualified(name) ELSE name

ZenModels ==
    {"minimax-m2.5-free", "minimax-m2.5", "minimax-m2", "gemini-3-flash", "glm-5",
     "gpt-oss-20b", "qwq-32b"}

ClaudeShortcuts ==
    [sonnet |-> "claude-sonnet-4-7-20250514",
     haiku |-> "claude-3.5-haiku-20241022",
     opus |-> "claude-3-7-sonnet-20250514"]

model_aliases(endpoint, name) ==
    CASE \E m \in ZenModels : name = Plain(m) -> Under("opencode-zen", name)
      [] endpoint # "chat" /\ (\E s \in DOMAIN ClaudeShortcuts : name = Plain(s)) ->
            Under("anthropic", Plain(ClaudeShortcuts[name.path[1]]))
      [] OTHER -> name

(* requested_model, and the name left in the body: /v1/messages changes    *)
(* only the first.                                                         *)
Requested == model_aliases(request.endpoint, request.name)

BodyModel ==
    CASE request.endpoint # "messages" -> Requested
      [] request.endpoint = "messages" /\ request.name = NoName -> Plain("auto")
      [] OTHER -> request.name

infer_reasoning ==
    request.thinks \/ (Range(BodyModel.path) \cup Range(BodyModel.tags)) \cap ReasonWords # {}

(* Translation to the OpenAI format leaves no images and no search *)
Needed == IF request.endpoint = "chat" THEN request.needs ELSE request.needs \cap {"tools"}

PrefixNames ==
    {"openrouter", "nvidia", "groq", "google", "cloudflare", "github", "a4f",
     "cerebras", "pollinations", "ollama", "custom", "huggingface", "sambanova",
     "together", "llm7", "mistral", "xai", "deepseek", "perplexity", "fireworks",
     "deepinfra"}

VirtualNames ==
    {Plain(w) : w \in {"auto", "fast", "quality", "balanced", "reasoning", "non-reasoning"}}
        \cup {Name(<<w>>, <<"free">>) : w \in {"auto", "fast", "reasoning", "non-reasoning"}}
        \cup {Name(<<"auto">>, tags) : tags \in {<<"reasoning">>, <<"non-reasoning">>,
                                                 <<"free", "reasoning">>,
                                                 <<"free", "non-reasoning">>}}

is_virtual_model(name) ==
    IF Qualified(name) /\ name.path[1] \in PrefixNames \cup {"auto", "anthropic"}
    THEN Unqualified(name) \in VirtualNames
    ELSE name \in VirtualNames

OpenrouterOrgs ==
    {"meta-llama", "google", "mistralai", "nvidia", "deepseek", "qwen", "arcee-ai",
     "microsoft", "openai", "nousresearch", "cognitivecomputations"}

infer_provider_affinity(name) ==
    LET m == IF Qualified(name) /\ name.path[1] \in PrefixNames THEN Unqualified(name) ELSE name
    IN  CASE Qualified(m) /\ m.path[1] = "@cf" -> "cloudflare"
          [] Len(m.path) > 2 /\ m.path[1] = "accounts" /\ m.path[2] = "fireworks" -> "fireworks"
          [] Qualified(m) /\ m.path[1] \in OpenrouterOrgs -> "openrouter"
          [] OTHER -> "none"

-----------------------------------------------------------------------------
(* eligible_pairs() *)

KeyAllows(m) == request.key.models = {} \/ m \in request.key.models

KeyAllowsProvider(p) == request.key.providers = {} \/ p \in request.key.providers

Ready == request.deployment.ready

Able(p) == p \in Ready /\ Needed \subseteq Provider(p).capabilities

(* No provider has "free" or "free_tier", so free means keyless *)
provider_is_free(p) == Provider(p).keyless

\* faulty: forgets what the key allows, which KeyRespected would reveal
UsableByAll(p, freeOnly) == Able(p) /\ (freeOnly => provider_is_free(p))

(* The checks before the loop looks at models *)
Usable(p, freeOnly) ==
    /\ Able(p)
    /\ freeOnly => provider_is_free(p)
    /\ KeyAllowsProvider(p)

effective_models(p, bucket) == Provider(p).models[bucket]

Listed(p) ==
    Range(effective_models(p, "non_reasoning")) \cup Range(effective_models(p, "reasoning"))

(* The provider's list, or the one model asked for when it has that.  With *)
(* no route and no name it is a list, but nothing is ever selected from it.*)
ModelList(p, rt) ==
    CASE rt # NoRoute -> effective_models(p, rt.bucket)
      [] rt = NoRoute /\ BodyModel = NoName ->
            effective_models(p, IF infer_reasoning THEN "reasoning" ELSE "non_reasoning")
      [] rt = NoRoute /\ BodyModel # NoName ->
            IF {BodyModel, Stripped(BodyModel)} \cap Listed(p) # {}
            THEN <<Stripped(BodyModel)>>
            ELSE <<>>

Kept(p, rt) == {i \in DOMAIN ModelList(p, rt) : KeyAllows(ModelList(p, rt)[i])}

Claims(p, rt) == Usable(p, rt.freeOnly) /\ Kept(p, rt) # {}

(* When no provider claims the model, its owner is guessed from the name;  *)
(* what the key allows is not looked at.                                   *)
Guessed(p, rt) ==
    /\ rt = NoRoute /\ BodyModel # NoName
    /\ p = infer_provider_affinity(BodyModel)
    /\ Able(p)
    /\ \A q \in Providers : ~Claims(q, rt)

eligible_pairs(rt) == {p \in Providers : Claims(p, rt) \/ Guessed(p, rt)}

(* direct_model is bound in the loop only, behind the checks of Usable;    *)
(* looking for an affinity with it unbound ends the request.               *)
Unbound(rt) == \A p \in Providers : ~Usable(p, rt.freeOnly)

-----------------------------------------------------------------------------
(* select_model_for_provider(), and the names call_provider() sends *)

\* The models of a pair
Offered(p, rt) ==
    IF Claims(p, rt) THEN {ModelList(p, rt)[i] : i \in Kept(p, rt)} ELSE {BodyModel}

\* Only the aliases "quality" and "quality:free" take the last model
Best(p, rt) ==
    {ModelList(p, rt)[i] : i \in {k \in Kept(p, rt) :
        \A j \in Kept(p, rt) : IF rt.mode = "quality" THEN j <= k ELSE k <= j}}

\* The model returned, {} for None
Selected(p, rt) ==
    IF rt # NoRoute THEN Best(p, rt) ELSE (Offered(p, rt) \ {NoName}) \cap {Stripped(Requested)}

EndsFree(name) == name.tags # <<>> /\ name.tags[Len(name.tags)] = "free"

upstream_model(p, m) ==
    LET bare == Stripped(m)
    IN  IF p = "openrouter" /\ EndsFree(bare)
        THEN Name(bare.path, SubSeq(bare.tags, 1, Len(bare.tags) - 1))
        ELSE bare

-----------------------------------------------------------------------------
(* Before the loop *)

Done(result) ==
    /\ stage' = "done"
    /\ answer' = result

(* With its API key set, Anthropic is asked without any of the following,  *)
(* even while it is disabled.                                              *)
GoesDirect ==
    /\ request.endpoint # "chat"
    /\ Qualified(Requested) /\ Requested.path[1] = "anthropic"
    /\ request.deployment.anthropic_key

AskAnthropic ==
    /\ stage = "arrived" /\ GoesDirect
    /\ Done("direct")
    /\ UNCHANGED <<request, route, pairs, passed, resting, asked>>

(* The guard of /v1/chat/completions *)
Forbidden ==
    /\ request.endpoint = "chat"
    /\ Requested # NoName /\ ~is_virtual_model(Requested) /\ ~KeyAllows(Requested)

Forbid ==
    /\ stage = "arrived" /\ Forbidden
    /\ Done("403")
    /\ UNCHANGED <<request, route, pairs, passed, resting, asked>>

Resolved == resolve_virtual_model(Requested, infer_reasoning)

\* faulty: no second try, which NoProviderMissed would reveal
NeverFallsBack == Resolved

\* faulty: a second try in any case, which FreeFirst would reveal
AlwaysFallsBack == [Resolved EXCEPT !.freeOnly = FALSE]

(* A free route without a free provider is tried again with all *)
FinalRoute ==
    IF Resolved.freeOnly /\ eligible_pairs(Resolved) = {}
    THEN [Resolved EXCEPT !.freeOnly = FALSE]
    ELSE Resolved

Plans == stage = "arrived" /\ ~GoesDirect /\ ~Forbidden

Crash ==
    /\ Plans /\ Unbound(Resolved)
    /\ Done("500")
    /\ UNCHANGED <<request, route, pairs, passed, resting, asked>>

NoneEligible ==
    /\ Plans /\ ~Unbound(Resolved)
    /\ eligible_pairs(FinalRoute) = {}
    /\ Done("503")
    /\ UNCHANGED <<request, route, pairs, passed, resting, asked>>

Start ==
    /\ Plans /\ ~Unbound(Resolved)
    /\ eligible_pairs(FinalRoute) # {}
    /\ stage' = "loop"
    /\ route' = FinalRoute
    /\ pairs' = eligible_pairs(FinalRoute)
    /\ UNCHANGED <<request, passed, resting, asked, answer>>

-----------------------------------------------------------------------------
(* The loop over sorted_pairs() *)

\* faulty: the rank of a provider outside the chain is 0, which AsksInOrder
\* would reveal
StrangersFirst(p) ==
    IF p \in Range(route.preferred)
    THEN CHOOSE i \in DOMAIN route.preferred : route.preferred[i] = p
    ELSE 0

preferred_rank(p) ==
    IF p \in Range(route.preferred)
    THEN CHOOSE i \in DOMAIN route.preferred : route.preferred[i] = p
    ELSE 999

(* Sorting is stable; latencies and a shuffle may put equal ranks in any   *)
(* order.                                                                  *)
Precedes(p, q) ==
    \/ preferred_rank(p) < preferred_rank(q)
    \/ /\ preferred_rank(p) = preferred_rank(q) /\ request.route_by = "priority"
       /\ \/ Provider(p).priority < Provider(q).priority
          \/ Provider(p).priority = Provider(q).priority /\ Place(p) < Place(q)

Remaining == pairs \ passed

InTurn(p) == stage = "loop" /\ p \in Remaining /\ \A q \in Remaining : ~Precedes(q, p)

\* faulty: the loop comes back to it, which TypeOK would reveal
ComesBack(p) ==
    /\ InTurn(p)
    /\ resting' = resting \cup {p}
    /\ UNCHANGED <<request, stage, route, pairs, passed, asked, answer>>

Unavailable(p) ==
    /\ InTurn(p)
    /\ passed' = passed \cup {p}
    /\ resting' = resting \cup {p}
    /\ UNCHANGED <<request, stage, route, pairs, asked, answer>>

(* /v1/chat/completions asks the key again, about the model selected *)
Callable(p) ==
    {m \in Selected(p, route) : request.endpoint = "chat" => KeyAllows(m)}

PassOver(p) ==
    /\ InTurn(p)
    /\ Callable(p) = {}
    /\ passed' = passed \cup {p}
    /\ UNCHANGED <<request, stage, route, pairs, resting, asked, answer>>

Ask(p) ==
    /\ InTurn(p)
    /\ \E m \in Callable(p) :
          asked' = Append(asked, [provider |-> p, model |-> m, sent |-> upstream_model(p, m)])
    /\ passed' = passed \cup {p}
    /\ stage' = "asked"
    /\ UNCHANGED <<request, route, pairs, resting, answer>>

GoOn ==
    /\ stage = "asked"
    /\ stage' = "loop"
    /\ UNCHANGED <<request, route, pairs, passed, resting, asked, answer>>

(* A request may end with 500 over an answer that the code fails to read   *)
(* or translate, and one to /v1/chat/completions over the exception of a   *)
(* call that brought none.                                                 *)
Answer ==
    /\ stage = "asked"
    /\ \/ Done("200") \/ Done("502") \/ Done("bad answer")
       \/ request.endpoint = "chat" /\ Done("500")
    /\ UNCHANGED <<request, route, pairs, passed, resting, asked>>

\* faulty: the loop is left after an answer, which KeepsFallbackPromise
\* would reveal
LeavesLoop ==
    /\ stage = "loop" /\ (Remaining = {} \/ asked # <<>>)
    /\ Done("503")
    /\ UNCHANGED <<request, route, pairs, passed, resting, asked>>

Exhausted ==
    /\ stage = "loop" /\ Remaining = {}
    /\ Done("503")
    /\ UNCHANGED <<request, route, pairs, passed, resting, asked>>

Next ==
    \/ AskAnthropic \/ Forbid \/ Crash \/ NoneEligible \/ Start
    \/ \E p \in Providers : Unavailable(p) \/ PassOver(p) \/ Ask(p)
    \/ GoOn \/ Answer \/ Exhausted

Spec == Init /\ [][Next]_vars

-----------------------------------------------------------------------------
(* Properties *)

Answers == {"none", "200", "403", "500", "502", "503", "direct", "bad answer"}

TypeOK ==
    /\ request \in Requests
    /\ stage \in {"arrived", "loop", "asked", "done"}
    /\ stage # "done" <=> answer = "none"
    /\ answer \in Answers
    /\ resting \subseteq passed /\ passed \subseteq pairs /\ pairs \subseteq Providers
    /\ \A i \in DOMAIN asked : asked[i].provider \in passed \ resting

(* Providers of the chain of a virtual name are asked first, in its order; *)
(* all others, and all of them for any other name, by their priority when  *)
(* that is configured.  None is asked twice.                               *)
AsksInOrder ==
    \A i, j \in DOMAIN asked : i < j =>
        LET p == asked[i].provider
            q == asked[j].provider
            chain == route.preferred
        IN  /\ p # q
            /\ \A n \in DOMAIN chain : chain[n] = q => \E k \in DOMAIN chain : k < n /\ chain[k] = p
            /\ p \notin Range(chain) /\ q \notin Range(chain) /\ request.route_by = "priority" =>
                  Provider(p).priority <= Provider(q).priority

(* What a key allows holds for every call of the loop, in spite of         *)
(* prefixes, aliases and the fallback of free routes, but for one guess:   *)
(* when no provider that the key allows lists the model, or the key does   *)
(* not allow the model without its prefix, the owner that its name suggests*)
(* is asked, whoever that is; only /v1/chat/completions still asks the key *)
(* about the model.                                                        *)
Unowned ==
    /\ Resolved = NoRoute
    /\ \A p \in Providers :
          Able(p) /\ KeyAllowsProvider(p) =>
              \/ {BodyModel, Stripped(BodyModel)} \cap Listed(p) = {}
              \/ ~KeyAllows(Stripped(BodyModel))

LastResort(p) == Unowned /\ p = infer_provider_affinity(BodyModel)

KeyRespected ==
    \A i \in DOMAIN asked :
        LET p == asked[i].provider
        IN  /\ KeyAllowsProvider(p) \/ LastResort(p)
            /\ KeyAllows(asked[i].model) \/ (LastResort(p) /\ request.endpoint # "chat")

(* docs/API.md:388-398: a key is scoped by its allowed_models and          *)
(* allowed_providers, without an exception.                                *)
KeyKept ==
    \A i \in DOMAIN asked :
        KeyAllowsProvider(asked[i].provider) /\ KeyAllows(asked[i].model)

(* Whom a request may expect to be served by: a provider that its key      *)
(* allows, that can do what the body needs, and that lists the model under *)
(* the name used and the name left in the body, with or without the        *)
(* provider's own name before it.  Without a name nobody is expected here: *)
(* Defaults is for those requests.                                         *)
Serves(p) ==
    /\ Able(p) /\ KeyAllowsProvider(p)
    /\ IF Resolved # NoRoute
       THEN \E m \in Range(effective_models(p, Resolved.bucket)) : KeyAllows(m)
       ELSE \E m \in Listed(p) :
               /\ {Requested, BodyModel} \subseteq {m, Under(p, m)}
               /\ KeyAllows(Stripped(Requested))

FreeServes == \E p \in Providers : Serves(p) /\ provider_is_free(p)

(* A name with "free" reaches a paid provider only when no free one serves.*)
FreeFirst ==
    \A i \in DOMAIN asked :
        Resolved.freeOnly /\ FreeServes => provider_is_free(asked[i].provider)

(* A request gives up with 503 only after every provider that serves it    *)
(* was asked or is resting, paid ones excepted if a free route has a free  *)
(* one, and with 500 before any call only on a free route that no free     *)
(* provider serves.  NotTurnedAway makes no exception for that one.        *)
Tried(p) == p \in resting \/ \E i \in DOMAIN asked : asked[i].provider = p

NoProviderMissed ==
    \A p \in Providers : Serves(p) =>
        /\ answer = "503" => Tried(p) \/ (Resolved.freeOnly /\ FreeServes /\ ~provider_is_free(p))
        /\ answer = "500" /\ asked = <<>> => Resolved.freeOnly /\ ~FreeServes

(* What the comments of chat_completions() say: a free route is retried    *)
(* with all providers (chat.py:1142), and without a model the router picks *)
(* from the providers' defaults (chat.py:1119).  So no request is turned   *)
(* away without a call while somebody serves it, or has a default for it.  *)
Defaults(p) ==
    /\ request.endpoint = "chat" /\ request.name = NoName
    /\ Able(p) /\ KeyAllowsProvider(p)
    /\ \E m \in Range(ModelList(p, NoRoute)) : KeyAllows(m)


(* The name sent upstream is one the provider lists, but for ":free", or   *)
(* the guess of an owner.  Where the provider lists a name that begins     *)
(* with the name of another, as openrouter's "deepseek/deepseek-r1" does,  *)
(* it gets the rest of it, and of that the rest, if it begins so again.    *)
SentUnlessPrefixed ==
    \A i \in DOMAIN asked :
        LET a == asked[i]
        IN  \/ a.sent \in Listed(a.provider)
            \/ a.provider = "openrouter" /\ EndsFree(a.model)
            \/ \E m \in Listed(a.provider) :
                  /\ Prefixed(m)
                  /\ \/ a.sent = Unqualified(m)
                     \/ Prefixed(Unqualified(m)) /\ a.sent = Unqualified(Unqualified(m))
            \/ LastResort(a.provider)

(* The loop over the sorted pairs keeps the promise of Fallback: it uses   *)
(* them one at a time, skips none, goes back to none, and 503 means that   *)
(* none is left; only /v1/chat/completions abandons those left without an  *)
(* answer.  A request is known by its endpoint; one that ends before the   *)
(* loop was offered nobody.                                                *)
Left == IF stage \in {"loop", "asked"} THEN Remaining ELSE {}

Using == IF stage = "asked" THEN asked[Len(asked)].provider ELSE "none"

Outcome ==
    CASE stage = "asked" \/ (stage = "loop" /\ Remaining # {}) -> "pending"
      [] answer \in {"200", "502", "bad answer"} -> "answered"
      [] answer = "500" /\ asked # <<>> -> "abandoned"
      [] OTHER -> "exhausted"

Promise == INSTANCE Fallback WITH
    Requests <- Endpoints,
    None <- "none",
    MayAbandon <- {"chat"},
    left <- [e \in Endpoints |-> IF e = request.endpoint THEN Left ELSE {}],
    using <- [e \in Endpoints |-> IF e = request.endpoint THEN Using ELSE "none"],
    outcome <- [e \in Endpoints |-> IF e = request.endpoint THEN Outcome ELSE "exhausted"]

KeepsFallbackPromise == Promise!FallbackSpec

=============================================================================
