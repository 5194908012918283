---------------------------- MODULE VirtualRoutes ----------------------------
(***************************************************************************)
(* Virtual model names (providers/virtual_routes.py): what "auto:free" or  *)
(* "quality" stands for.                                                   *)
(*                                                                         *)
(* A model name is kept split at its slashes and colons, as the code       *)
(* splits it: "auto/fast:free" has the path <<"auto", "fast">> and the     *)
(* tags <<"free">>.  Letter case is not kept.                              *)
(***************************************************************************)
EXTENDS Sequences, Functions

CONSTANT AutoWords      \* the words that begin with "auto"

Name(path, tags) == [path |-> path, tags |-> tags]

Plain(word) == Name(<<word>>, <<>>)

NoName == Name(<<>>, <<>>)

Buckets == {"reasoning", "non_reasoning"}

(* Of mode only the word before the first colon is ever looked at *)
RouteSpec(mode, bucket, freeOnly, preferred) ==
    [mode |-> mode, bucket |-> bucket, freeOnly |-> freeOnly, preferred |-> preferred]

NoRoute == RouteSpec("none", "non_reasoning", FALSE, <<>>)

(* Except for reasoning the chains of free routes are those of the others *)
Chain(bucket, freeOnly, mode) ==
    CASE bucket = "reasoning" /\ freeOnly ->
            <<"openrouter", "nvidia", "deepseek", "cloudflare", "huggingface">>
      [] bucket = "reasoning" /\ ~freeOnly ->
            <<"openrouter", "groq", "nvidia", "deepseek", "google", "cloudflare",
              "huggingface">>
      [] bucket # "reasoning" /\ mode = "fast" ->
            <<"groq", "openrouter", "cloudflare", "nvidia", "huggingface">>
      [] bucket # "reasoning" /\ mode = "quality" ->
            <<"openrouter", "google", "groq", "cloudflare", "nvidia", "deepseek",
              "huggingface">>
      [] OTHER ->
            <<"groq", "openrouter", "cloudflare", "nvidia", "google", "deepseek",
              "huggingface">>

-----------------------------------------------------------------------------

DirectAliases == {"reasoning", "non-reasoning", "fast", "quality", "balanced"}

IsDirectAlias(name) ==
    \E a \in DirectAliases : name \in {Plain(a), Name(<<a>>, <<"free">>)}

DirectAlias(name) ==
    LET base == name.path[1]
        freeOnly == name.tags # <<>>
        bucket == IF base = "reasoning" THEN "reasoning" ELSE "non_reasoning"
    IN  RouteSpec(base, bucket, freeOnly, Chain(bucket, freeOnly, base))

(* "auto" and "auto:free" do not look at the hint and use the fast chain *)
IsShorthand(name) == name \in {Plain("auto"), Name(<<"auto">>, <<"free">>)}

(* Everything else that begins with "auto", whatever comes after it *)
IsAuto(name) == name.path # <<>> /\ name.path[1] \in AutoWords

AutoRoute(name, hint) ==
    LET tokens == Range(name.tags)
        freeOnly == "free" \in tokens
        bucket == CASE IsShorthand(name) -> "non_reasoning"
                    [] "reasoning" \in tokens -> "reasoning"
                    [] {"non-reasoning", "nonreasoning"} \cap tokens # {} -> "non_reasoning"
                    [] OTHER -> IF hint THEN "reasoning" ELSE "non_reasoning"
        mode == CASE IsShorthand(name) \/ "fast" \in tokens -> "fast"
                  [] "quality" \in tokens -> "quality"
                  [] OTHER -> "auto"
    IN  RouteSpec("auto", bucket, freeOnly, Chain(bucket, freeOnly, mode))

resolve_virtual_model(name, hint) ==
    CASE IsDirectAlias(name) -> DirectAlias(name)
      [] ~IsDirectAlias(name) /\ IsAuto(name) -> AutoRoute(name, hint)
      [] OTHER -> NoRoute

=============================================================================
