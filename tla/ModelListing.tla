---------------------------- MODULE ModelListing ----------------------------
(***************************************************************************)
(* The ids GET /v1/models lists (api/routes/models.py), and what becomes   *)
(* of a request that uses one.                                             *)
(***************************************************************************)
EXTENDS Routing

Orgs ==
    {"qwen", "openai", "anthropic", "meta-llama", "deepseek", "google", "mistralai",
     "cohere", "microsoft", "nvidia", "01-ai", "baai", "bytedance", "ibm", "moonshotai",
     "z-ai"}

CloudflareOrgs == {"qwen", "deepseek-ai", "google", "mistralai", "meta", "openai"}

\* Of the 37 those the catalogue and the other lists have
NvidiaOrgs ==
    {"meta", "mistralai", "nvidia", "deepseek-ai", "qwen", "01-ai", "baai", "bytedance",
     "cohere", "google", "ibm", "microsoft", "moonshotai", "openai", "z-ai"}

(* All leading segments that are organisations, but never the last segment *)
Leading(name, orgs) ==
    LET runs == {n \in 0 .. Len(name.path) - 1 : \A k \in 1 .. n : name.path[k] \in orgs}
    IN  CHOOSE n \in runs : \A k \in runs : k <= n

WithoutOrgs(name, orgs) ==
    Name(SubSeq(name.path, Leading(name, orgs) + 1, Len(name.path)), name.tags)

Shown(p, m) ==
    CASE Qualified(m) /\ m.path[1] = p -> WithoutOrgs(Unqualified(m), Orgs)
      [] Qualified(m) /\ m.path[1] = "@cf" -> WithoutOrgs(Unqualified(m), CloudflareOrgs)
      [] p = "nvidia" /\ m.path[1] \notin {"nvidia", "@cf"} ->
            IF Qualified(m) /\ m.path[1] \in NvidiaOrgs THEN Unqualified(m) ELSE m
      [] p = "openrouter" /\ m.path[1] \notin {"openrouter", "@cf"} -> m
      [] OTHER -> WithoutOrgs(m, Orgs)

\* faulty: whether they have an API key or not, which ListedIsServed would
\* reveal
IdsOfAll ==
    UNION {{Under(p, Shown(p, m)) : m \in {x \in Listed(p) : KeyAllows(x)}} : p \in Providers}

(* An unrestricted virtual key is also shown the models of providers that  *)
(* have no API key; here it is the same as no key, so these are left out.  *)
ModelIds ==
    UNION {{Under(p, Shown(p, m)) : m \in {x \in Listed(p) : KeyAllows(x)}} : p \in Ready}

virtual_buckets == {Under(p, v) : p \in Ready \cup {"auto"}, v \in VirtualNames}

list_models == ModelIds \cup virtual_buckets

-----------------------------------------------------------------------------
(* Properties *)

(* A client may use any id that is listed.                                 *)
PicksFromList ==
    /\ request.name \in list_models
    /\ request.key = [models |-> {}, providers |-> {}] /\ request.needs = {}

(* No provider was even tried.                                             *)
Refused ==
    stage = "done" /\ answer # "direct" /\ asked = <<>> /\ resting = {}

(* Those work that name a model as its provider lists it, and the virtual  *)
(* names under "auto"; not a virtual name under a provider, nor a model    *)
(* whose organisation was cut from the id, nor a free route when every     *)
(* provider that is ready wants a key.                                     *)
ListedIsServed ==
    PicksFromList /\ Refused =>
        \/ \E p \in Providers, v \in VirtualNames : request.name = Under(p, v)
        \/ \E p \in Ready : \E m \in Listed(p) :
              Shown(p, m) # m /\ request.name = Under(p, Shown(p, m))
        \/ \A p \in Ready : Resolved.freeOnly /\ ~provider_is_free(p)

=============================================================================
