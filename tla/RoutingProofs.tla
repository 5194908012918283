---------------------------- MODULE RoutingProofs ----------------------------
(***************************************************************************)
(* Proofs for Routing and ModelListing, for every catalogue, every set of  *)
(* names and keys, and every deployment.                                   *)
(***************************************************************************)
EXTENDS ModelListing, WellFoundedInduction, TLAPS

(* What a request is resolved to depends on nothing the loop changes.      *)
LEMMA SameRequest ==
    ASSUME UNCHANGED request
    PROVE  /\ Resolved' = Resolved
           /\ FinalRoute' = FinalRoute
           /\ eligible_pairs(FinalRoute)' = eligible_pairs(FinalRoute)
           /\ \A p : LastResort(p)' = LastResort(p)
           /\ FreeServes' = FreeServes
<1>1. /\ Requested' = Requested /\ BodyModel' = BodyModel
      /\ infer_reasoning' = infer_reasoning /\ Needed' = Needed
  BY DEF Requested, BodyModel, infer_reasoning, Needed
<1>2. Resolved' = Resolved
  BY <1>1 DEF Resolved
<1>3. eligible_pairs(Resolved)' = eligible_pairs(Resolved)
  BY <1>1, <1>2 DEF eligible_pairs, Claims, Guessed, Usable, Able, Ready, KeyAllowsProvider, Kept, ModelList, KeyAllows
<1>4. FinalRoute' = FinalRoute
  BY <1>2, <1>3 DEF FinalRoute
<1>5. eligible_pairs(FinalRoute)' = eligible_pairs(FinalRoute)
  BY <1>1, <1>4 DEF eligible_pairs, Claims, Guessed, Usable, Able, Ready, KeyAllowsProvider, Kept, ModelList, KeyAllows
<1>6. ASSUME NEW p PROVE LastResort(p)' = LastResort(p)
  <2>1. Unowned' = Unowned
    BY <1>1, <1>2 DEF Unowned, Able, Ready, KeyAllowsProvider, KeyAllows
  <2>2. QED
    BY <1>1, <2>1 DEF LastResort, infer_provider_affinity
<1>7. FreeServes' = FreeServes
  BY <1>1, <1>2 DEF FreeServes, Serves, Able, Ready, KeyAllowsProvider, KeyAllows
<1>8. QED
  BY <1>2, <1>4, <1>5, <1>6, <1>7

-----------------------------------------------------------------------------
(* Routes                                                                  *)

(* A chain names a provider once, and is shorter than the rank of those it *)
(* does not name.                                                          *)
IsChain(c) ==
    /\ \A i \in DOMAIN c : i \in 1 .. 7
    /\ \A i, j \in DOMAIN c : c[i] = c[j] => i = j

LEMMA ChainsAreChains ==
    ASSUME NEW bucket, NEW freeOnly \in BOOLEAN, NEW mode
    PROVE  IsChain(Chain(bucket, freeOnly, mode))
<1> DEFINE c1 == <<"openrouter", "nvidia", "deepseek", "cloudflare", "huggingface">>
           c2 == <<"openrouter", "groq", "nvidia", "deepseek", "google", "cloudflare", "huggingface">>
           c3 == <<"groq", "openrouter", "cloudflare", "nvidia", "huggingface">>
           c4 == <<"openrouter", "google", "groq", "cloudflare", "nvidia", "deepseek", "huggingface">>
           c5 == <<"groq", "openrouter", "cloudflare", "nvidia", "google", "deepseek", "huggingface">>
<1>1. IsChain(c1) /\ IsChain(c2) /\ IsChain(c3) /\ IsChain(c4) /\ IsChain(c5)
  BY DEF IsChain
<1>2. Chain(bucket, freeOnly, mode) \in {c1, c2, c3, c4, c5}
  <2> HIDE DEF c1, c2, c3, c4, c5
  <2>1. CASE bucket = "reasoning" /\ freeOnly
    BY <2>1 DEF Chain, c1
  <2>2. CASE bucket = "reasoning" /\ ~freeOnly
    BY <2>2 DEF Chain, c2
  <2>3. CASE bucket # "reasoning" /\ mode = "fast"
    BY <2>3 DEF Chain, c3
  <2>4. CASE bucket # "reasoning" /\ mode = "quality"
    BY <2>4 DEF Chain, c4
  <2>5. CASE bucket # "reasoning" /\ mode \notin {"fast", "quality"}
    BY <2>5 DEF Chain, c5
  <2>6. QED
    BY <2>1, <2>2, <2>3, <2>4, <2>5
<1> HIDE DEF c1, c2, c3, c4, c5
<1>3. QED
  BY <1>1, <1>2

IsRoute(rt) ==
    \/ rt = NoRoute
    \/ /\ rt = RouteSpec(rt.mode, rt.bucket, rt.freeOnly, rt.preferred)
       /\ rt.mode # "none" /\ rt.bucket \in Buckets /\ IsChain(rt.preferred)

LEMMA RouteSpecIsRoute ==
    ASSUME NEW mode, mode # "none", NEW bucket \in Buckets, NEW freeOnly, NEW chain, IsChain(chain)
    PROVE  IsRoute(RouteSpec(mode, bucket, freeOnly, chain))
BY DEF IsRoute, RouteSpec

LEMMA ResolvedIsRoute ==
    ASSUME NEW name, NEW hint
    PROVE  IsRoute(resolve_virtual_model(name, hint))
<1>1. CASE IsDirectAlias(name)
  <2> DEFINE base == name.path[1]
             freeOnly == name.tags # <<>>
             bucket == IF base = "reasoning" THEN "reasoning" ELSE "non_reasoning"
  <2>1. resolve_virtual_model(name, hint)
          = RouteSpec(base, bucket, freeOnly, Chain(bucket, freeOnly, base))
    BY <1>1 DEF resolve_virtual_model, DirectAlias
  <2>2. base \in DirectAliases
    BY <1>1 DEF IsDirectAlias, Plain, Name
  <2>3. base # "none"
    BY <2>2 DEF DirectAliases
  <2>4. freeOnly \in BOOLEAN /\ bucket \in Buckets
    BY DEF Buckets
  <2>5. IsChain(Chain(bucket, freeOnly, base))
    BY <2>4, ChainsAreChains
  <2> HIDE DEF base, freeOnly, bucket
  <2>6. QED
    BY <2>1, <2>3, <2>4, <2>5, RouteSpecIsRoute
<1>2. CASE ~IsDirectAlias(name) /\ IsAuto(name)
  <2> DEFINE tokens == Range(name.tags)
             freeOnly == "free" \in tokens
             bucket == CASE IsShorthand(name) -> "non_reasoning"
                         [] "reasoning" \in tokens -> "reasoning"
                         [] {"non-reasoning", "nonreasoning"} \cap tokens # {} -> "non_reasoning"
                         [] OTHER -> IF hint THEN "reasoning" ELSE "non_reasoning"
             mode == CASE IsShorthand(name) \/ "fast" \in tokens -> "fast"
                       [] "quality" \in tokens -> "quality"
                       [] OTHER -> "auto"
  <2>1. resolve_virtual_model(name, hint)
          = RouteSpec("auto", bucket, freeOnly, Chain(bucket, freeOnly, mode))
    BY <1>2 DEF resolve_virtual_model, AutoRoute
  <2>2. freeOnly \in BOOLEAN /\ bucket \in Buckets
    BY DEF Buckets
  <2>3. IsChain(Chain(bucket, freeOnly, mode))
    BY <2>2, ChainsAreChains
  <2> HIDE DEF freeOnly, bucket, mode
  <2>4. QED
    BY <2>1, <2>2, <2>3, RouteSpecIsRoute
<1>3. CASE ~IsDirectAlias(name) /\ ~IsAuto(name)
  BY <1>3 DEF resolve_virtual_model, IsRoute
<1>4. QED
  BY <1>1, <1>2, <1>3

(* The fallback of a free route changes whom it goes to, and nothing else. *)
LEMMA FinalIsResolved ==
    /\ FinalRoute = NoRoute <=> Resolved = NoRoute
    /\ FinalRoute.preferred = Resolved.preferred /\ FinalRoute.bucket = Resolved.bucket
    /\ FinalRoute.bucket \in Buckets
    /\ IsChain(FinalRoute.preferred)
    /\ Resolved = NoRoute => FinalRoute.freeOnly = FALSE
<1>1. IsRoute(Resolved)
  BY ResolvedIsRoute DEF Resolved
<1>2. CASE Resolved = NoRoute
  <2>1. FinalRoute = NoRoute
    BY <1>2 DEF FinalRoute, NoRoute, RouteSpec
  <2>2. IsChain(NoRoute.preferred) /\ NoRoute.bucket \in Buckets
    BY DEF NoRoute, RouteSpec, IsChain, Buckets
  <2>3. QED
    BY <1>2, <2>1, <2>2 DEF NoRoute, RouteSpec
<1>3. CASE Resolved # NoRoute
  <2>1. Resolved = RouteSpec(Resolved.mode, Resolved.bucket, Resolved.freeOnly, Resolved.preferred)
    BY <1>1, <1>3 DEF IsRoute
  <2>2. Resolved.mode # "none" /\ IsChain(Resolved.preferred) /\ Resolved.bucket \in Buckets
    BY <1>1, <1>3 DEF IsRoute
  <2>3. FinalRoute \in {Resolved, [Resolved EXCEPT !.freeOnly = FALSE]}
    BY DEF FinalRoute
  <2>4. /\ FinalRoute.mode = Resolved.mode /\ FinalRoute.preferred = Resolved.preferred
        /\ FinalRoute.bucket = Resolved.bucket
    BY <2>1, <2>3 DEF RouteSpec
  <2>5. NoRoute.mode = "none"
    BY DEF NoRoute, RouteSpec
  <2>6. QED
    BY <1>3, <2>1, <2>2, <2>4, <2>5
<1>4. QED
  BY <1>2, <1>3

-----------------------------------------------------------------------------
(* Whom a call goes to                                                     *)

(* A provider of the list either claims the model or is the guessed owner  *)
(* of one that nobody can be asked for under the key.                      *)
LEMMA GuessedIsLastResort ==
    ASSUME NEW p, Guessed(p, FinalRoute)
    PROVE  LastResort(p)
<1>1. FinalRoute = NoRoute /\ Resolved = NoRoute /\ FinalRoute.freeOnly = FALSE /\ BodyModel # NoName
  BY FinalIsResolved DEF Guessed
<1> SUFFICES ASSUME NEW q \in Providers, Able(q), KeyAllowsProvider(q)
             PROVE  \/ {BodyModel, Stripped(BodyModel)} \cap Listed(q) = {}
                    \/ ~KeyAllows(Stripped(BodyModel))
  BY <1>1 DEF LastResort, Unowned, Guessed
<1>2. Kept(q, FinalRoute) = {}
  BY <1>1 DEF Guessed, Claims, Usable
<1>3. CASE {BodyModel, Stripped(BodyModel)} \cap Listed(q) # {}
  <2>1. ModelList(q, FinalRoute) = <<Stripped(BodyModel)>>
    BY <1>1, <1>3 DEF ModelList
  <2>2. 1 \in DOMAIN <<Stripped(BodyModel)>>
    OBVIOUS
  <2>3. QED
    BY <1>2, <2>1, <2>2 DEF Kept
<1>4. QED
  BY <1>3

LEMMA CallsAreAllowed ==
    ASSUME route = FinalRoute, NEW p \in eligible_pairs(FinalRoute), NEW m \in Callable(p)
    PROVE  /\ KeyAllowsProvider(p) \/ LastResort(p)
           /\ KeyAllows(m) \/ (LastResort(p) /\ request.endpoint # "chat")
<1>1. m \in Selected(p, FinalRoute) /\ (request.endpoint = "chat" => KeyAllows(m))
  BY DEF Callable
<1>2. CASE Claims(p, FinalRoute)
  <2>1. KeyAllowsProvider(p)
    BY <1>2 DEF Claims, Usable
  <2>2. \E i \in Kept(p, FinalRoute) : m = ModelList(p, FinalRoute)[i]
    BY <1>1, <1>2 DEF Selected, Best, Offered
  <2>3. QED
    BY <2>1, <2>2 DEF Kept
<1>3. CASE Guessed(p, FinalRoute)
  BY <1>1, <1>3, GuessedIsLastResort
<1>4. QED
  BY <1>2, <1>3 DEF eligible_pairs

LEMMA FreeCalls ==
    ASSUME NEW p \in eligible_pairs(FinalRoute), Resolved.freeOnly, FreeServes
    PROVE  provider_is_free(p)
<1>1. Resolved # NoRoute
  BY DEF NoRoute, RouteSpec
<1>2. PICK q \in Providers : Serves(q) /\ provider_is_free(q)
  BY DEF FreeServes
<1>3. Kept(q, Resolved) # {}
  <2>1. PICK n \in Range(effective_models(q, Resolved.bucket)) : KeyAllows(n)
    BY <1>1, <1>2 DEF Serves
  <2>2. PICK i \in DOMAIN effective_models(q, Resolved.bucket) :
           effective_models(q, Resolved.bucket)[i] = n
    BY <2>1 DEF Range
  <2>3. ModelList(q, Resolved) = effective_models(q, Resolved.bucket)
    BY <1>1 DEF ModelList
  <2>4. QED
    BY <2>1, <2>2, <2>3 DEF Kept
<1>4. q \in eligible_pairs(Resolved)
  BY <1>2, <1>3 DEF eligible_pairs, Claims, Usable, Serves
<1>5. FinalRoute = Resolved
  BY <1>4 DEF FinalRoute
<1>6. Claims(p, Resolved)
  BY <1>1, <1>5 DEF eligible_pairs, Guessed
<1>7. QED
  BY <1>6 DEF Claims, Usable

-----------------------------------------------------------------------------
(* The invariant                                                           *)

(* Once there are pairs they are those of the final route.                 *)
Planned ==
    /\ stage = "arrived" => asked = <<>> /\ pairs = {}
    /\ stage \in {"loop", "asked"} \/ asked # <<>> =>
          route = FinalRoute /\ pairs = eligible_pairs(FinalRoute)

(* Nobody was asked before one who precedes him, nor before one who        *)
(* precedes him and is still to be asked.                                  *)
InPrecedence ==
    /\ \A i \in DOMAIN asked : \A q \in Remaining : ~Precedes(q, asked[i].provider)
    /\ \A i, j \in DOMAIN asked : i < j =>
          /\ asked[i].provider # asked[j].provider
          /\ ~Precedes(asked[j].provider, asked[i].provider)

IsSequence == \E S : asked \in Seq(S)

RoutingInv == IsSequence /\ TypeOK /\ Planned /\ InPrecedence /\ KeyRespected /\ FreeFirst

LEMMA RoutingStarts == Init => RoutingInv
<1> SUFFICES ASSUME Init PROVE RoutingInv
  OBVIOUS
<1>1. asked = <<>> /\ pairs = {} /\ passed = {} /\ resting = {} /\ stage = "arrived" /\ answer = "none"
      /\ request \in Requests
  BY DEF Init
<1>2. DOMAIN asked = {}
  BY <1>1
<1>3. IsSequence
  BY <1>1 DEF IsSequence
<1>4. TypeOK
  BY <1>1, <1>2 DEF TypeOK, Answers
<1>5. Planned
  BY <1>1 DEF Planned
<1>6. InPrecedence /\ KeyRespected /\ FreeFirst
  BY <1>2 DEF InPrecedence, KeyRespected, FreeFirst
<1>7. QED
  BY <1>3, <1>4, <1>5, <1>6 DEF RoutingInv

(* A step that asks nobody keeps what is said of the calls.                *)
LEMMA QuietStep ==
    ASSUME RoutingInv, UNCHANGED <<request, asked>>, UNCHANGED route \/ asked = <<>>,
           Remaining' \subseteq Remaining \/ asked = <<>>
    PROVE  IsSequence' /\ InPrecedence' /\ KeyRespected' /\ FreeFirst'
<1>1. IsSequence' /\ KeyRespected' /\ FreeFirst'
  BY SameRequest DEF RoutingInv, IsSequence, KeyRespected, FreeFirst, KeyAllowsProvider, KeyAllows
<1>2. CASE asked = <<>>
  <2>1. DOMAIN asked' = {}
    BY <1>2
  <2>2. QED
    BY <1>1, <2>1 DEF InPrecedence
<1>3. CASE asked # <<>>
  <2>1. UNCHANGED <<request, route>> /\ Remaining' \subseteq Remaining
    BY <1>3
  <2>2. \A p, q : Precedes(p, q)' = Precedes(p, q)
    BY <2>1 DEF Precedes, preferred_rank
  <2>3. QED
    BY <1>1, <2>1, <2>2 DEF RoutingInv, InPrecedence
<1>4. QED
  BY <1>2, <1>3

LEMMA BeforeTheLoop ==
    ASSUME RoutingInv, AskAnthropic \/ Forbid \/ Crash \/ NoneEligible \/ Start
    PROVE  RoutingInv'
<1>1. asked = <<>> /\ pairs = {} /\ passed = {} /\ resting = {} /\ answer = "none"
  BY DEF RoutingInv, Planned, TypeOK, AskAnthropic, Forbid, Crash, NoneEligible, Start, Plans
<1>2. UNCHANGED <<request, passed, resting, asked>>
  BY DEF AskAnthropic, Forbid, Crash, NoneEligible, Start
<1>3. IsSequence' /\ InPrecedence' /\ KeyRespected' /\ FreeFirst'
  BY <1>1, <1>2, QuietStep
<1>4. TypeOK' /\ Planned'
  <2>1. CASE Start
    <3>1. pairs' \subseteq Providers /\ stage' = "loop" /\ answer' = answer
      BY <2>1 DEF Start, eligible_pairs
    <3>2. route' = FinalRoute' /\ pairs' = eligible_pairs(FinalRoute)'
      BY <2>1, <1>2, SameRequest DEF Start
    <3>3. QED
      BY <1>1, <1>2, <3>1, <3>2 DEF TypeOK, Planned, RoutingInv, Answers
  <2>2. CASE ~Start
    <3>1. stage' = "done" /\ answer' \in Answers \ {"none"} /\ pairs' = pairs
      BY <2>2 DEF AskAnthropic, Forbid, Crash, NoneEligible, Done, Answers
    <3>2. QED
      BY <1>1, <1>2, <3>1 DEF TypeOK, Planned, RoutingInv
  <2>3. QED
    BY <2>1, <2>2
<1>5. QED
  BY <1>3, <1>4 DEF RoutingInv

LEMMA PassesOver ==
    ASSUME RoutingInv, NEW p \in Providers, Unavailable(p) \/ PassOver(p)
    PROVE  RoutingInv'
<1>1. /\ InTurn(p) /\ passed' = passed \cup {p} /\ resting' \in {resting, resting \cup {p}}
      /\ UNCHANGED <<request, stage, route, pairs, asked, answer>>
  BY DEF Unavailable, PassOver
<1>2. Remaining' \subseteq Remaining /\ p \in pairs \ passed
  BY <1>1 DEF Remaining, InTurn
<1>3. IsSequence' /\ InPrecedence' /\ KeyRespected' /\ FreeFirst'
  BY <1>1, <1>2, QuietStep
<1>4. TypeOK'
  BY <1>1, <1>2 DEF RoutingInv, TypeOK
<1>5. Planned'
  BY <1>1, SameRequest DEF RoutingInv, Planned
<1>6. QED
  BY <1>3, <1>4, <1>5 DEF RoutingInv

LEMMA AfterTheLoop ==
    ASSUME RoutingInv, GoOn \/ Answer \/ Exhausted
    PROVE  RoutingInv'
<1>1. UNCHANGED <<request, route, pairs, passed, resting, asked>>
  BY DEF GoOn, Answer, Exhausted
<1>2. IsSequence' /\ InPrecedence' /\ KeyRespected' /\ FreeFirst'
  BY <1>1, QuietStep DEF Remaining
<1>3. /\ stage \in {"loop", "asked"} /\ stage' \in {"loop", "done"}
      /\ \/ stage' = "loop" /\ answer' = answer
         \/ stage' = "done" /\ answer' \in Answers \ {"none"}
  BY DEF GoOn, Answer, Exhausted, Done, Answers
<1>4. TypeOK'
  BY <1>1, <1>3 DEF RoutingInv, TypeOK
<1>5. Planned'
  BY <1>1, <1>3, SameRequest DEF RoutingInv, Planned
<1>6. QED
  BY <1>2, <1>4, <1>5 DEF RoutingInv

LEMMA OneMore ==
    ASSUME NEW S, NEW s \in Seq(S), NEW e
    PROVE  LET t == Append(s, e) IN
           /\ t \in Seq(S \cup {e})
           /\ Len(s) \in Nat /\ DOMAIN s = 1 .. Len(s) /\ DOMAIN t = 1 .. Len(s) + 1
           /\ \A i \in 1 .. Len(s) : t[i] = s[i]
           /\ t[Len(s) + 1] = e
<1>1. s \in Seq(S \cup {e})
  OBVIOUS
<1>2. QED
  BY <1>1

LEMMA Asks ==
    ASSUME RoutingInv, NEW p \in Providers, Ask(p)
    PROVE  RoutingInv'
<1>1. PICK m \in Callable(p) :
         asked' = Append(asked, [provider |-> p, model |-> m, sent |-> upstream_model(p, m)])
  BY DEF Ask
<1> DEFINE e == [provider |-> p, model |-> m, sent |-> upstream_model(p, m)]
           n == Len(asked) + 1
<1>2. e.provider = p /\ e.model = m
  OBVIOUS
<1> HIDE DEF e
<1>3. PICK S : asked \in Seq(S)
  BY DEF RoutingInv, IsSequence
<1>4. /\ asked' \in Seq(S \cup {e})
      /\ Len(asked) \in Nat /\ DOMAIN asked = 1 .. Len(asked) /\ DOMAIN asked' = 1 .. n
      /\ \A i \in 1 .. Len(asked) : asked'[i] = asked[i]
      /\ asked'[n] = e
  BY <1>1, <1>3, OneMore DEF e
<1> HIDE DEF n
<1>5. \A i \in DOMAIN asked' : (i \in DOMAIN asked /\ asked'[i] = asked[i] /\ i < n) \/ (i = n /\ asked'[i] = e)
  BY <1>4 DEF n
<1>6. /\ InTurn(p) /\ passed' = passed \cup {p} /\ stage' = "asked"
      /\ UNCHANGED <<request, route, pairs, resting, answer>>
  BY DEF Ask
<1>7. p \in Remaining /\ p \notin passed /\ p \in pairs /\ stage = "loop"
      /\ \A q \in Remaining : ~Precedes(q, p)
  BY <1>6 DEF InTurn, Remaining
<1>8. route = FinalRoute /\ pairs = eligible_pairs(FinalRoute)
  BY <1>7 DEF RoutingInv, Planned
<1>9. IsSequence'
  BY <1>4 DEF IsSequence
<1>10. TypeOK'
  BY <1>2, <1>5, <1>6, <1>7 DEF RoutingInv, TypeOK
<1>11. Planned'
  BY <1>6, <1>8, SameRequest DEF Planned
<1>12. InPrecedence'
  <2>1. \A a, b : Precedes(a, b)' = Precedes(a, b)
    BY <1>6 DEF Precedes, preferred_rank
  <2>2. Remaining' \subseteq Remaining
    BY <1>6 DEF Remaining
  <2>3. \A i \in DOMAIN asked' : \A q \in Remaining' : ~Precedes(q, asked'[i].provider)
    BY <1>2, <1>5, <1>7, <2>2 DEF RoutingInv, InPrecedence
  <2>4. ASSUME NEW i \in DOMAIN asked', NEW j \in DOMAIN asked', i < j
        PROVE  /\ asked'[i].provider # asked'[j].provider
               /\ ~Precedes(asked'[j].provider, asked'[i].provider)
    <3>1. i \in DOMAIN asked /\ asked'[i] = asked[i]
      BY <1>4, <1>5, <2>4 DEF n
    <3>2. asked[i].provider \in passed
      BY <3>1 DEF RoutingInv, TypeOK
    <3>3. CASE j = n
      BY <1>2, <1>4, <1>7, <3>1, <3>2, <3>3 DEF RoutingInv, InPrecedence
    <3>4. CASE j # n
      BY <1>5, <2>4, <3>1, <3>4 DEF RoutingInv, InPrecedence
    <3>5. QED
      BY <3>3, <3>4
  <2>5. QED
    BY <2>1, <2>3, <2>4 DEF InPrecedence
<1>13. KeyRespected'
  <2>1. \A i \in DOMAIN asked' :
           /\ KeyAllowsProvider(asked'[i].provider) \/ LastResort(asked'[i].provider)
           /\ \/ KeyAllows(asked'[i].model)
              \/ LastResort(asked'[i].provider) /\ request.endpoint # "chat"
    BY <1>2, <1>5, <1>7, <1>8, CallsAreAllowed DEF RoutingInv, KeyRespected
  <2>2. QED
    BY <1>6, <2>1, SameRequest DEF KeyRespected, KeyAllowsProvider, KeyAllows
<1>14. FreeFirst'
  <2>1. \A i \in DOMAIN asked' :
           Resolved.freeOnly /\ FreeServes => provider_is_free(asked'[i].provider)
    BY <1>2, <1>5, <1>7, <1>8, FreeCalls DEF RoutingInv, FreeFirst
  <2>2. QED
    BY <1>6, <2>1, SameRequest DEF FreeFirst
<1>15. QED
  BY <1>9, <1>10, <1>11, <1>12, <1>13, <1>14 DEF RoutingInv

LEMMA RoutingInvKept == RoutingInv /\ [Next]_vars => RoutingInv'
<1> SUFFICES ASSUME RoutingInv, [Next]_vars PROVE RoutingInv'
  OBVIOUS
<1>1. CASE UNCHANGED vars
  <2>1. IsSequence' /\ InPrecedence' /\ KeyRespected' /\ FreeFirst'
    BY <1>1, QuietStep DEF vars, Remaining
  <2>2. QED
    BY <1>1, <2>1, SameRequest DEF vars, RoutingInv, TypeOK, Planned
<1>2. QED
  BY <1>1, BeforeTheLoop, PassesOver, AfterTheLoop, Asks DEF Next

LEMMA RoutingInvHolds == Spec => []RoutingInv
BY RoutingStarts, RoutingInvKept, PTL DEF Spec

-----------------------------------------------------------------------------
(* The theorems                                                            *)

(* Types, and: a provider that is resting, or was passed over, is none of  *)
(* those that were asked.                                                  *)
THEOREM RoutingTypeCorrect == Spec => []TypeOK
BY RoutingInvHolds, PTL DEF RoutingInv

(* No call goes to a provider or a model the key does not allow, but for   *)
(* the guess of an owner.                                                  *)
THEOREM KeyRespectedCorrect == Spec => []KeyRespected
BY RoutingInvHolds, PTL DEF RoutingInv

(* A free name reaches no paid provider while a free one serves it.        *)
THEOREM FreeFirstCorrect == Spec => []FreeFirst
BY RoutingInvHolds, PTL DEF RoutingInv

(* Who does not precede another by rank and priority is not before him in  *)
(* the chain of the route.                                                 *)
LEMMA PrecedenceIsOrder ==
    ASSUME IsChain(route.preferred), NEW p \in Providers, NEW q \in Providers, p # q, ~Precedes(q, p)
    PROVE  /\ \A n \in DOMAIN route.preferred : route.preferred[n] = q =>
                 \E k \in DOMAIN route.preferred : k < n /\ route.preferred[k] = p
           /\ p \notin Range(route.preferred) /\ q \notin Range(route.preferred)
                 /\ request.route_by = "priority" => Provider(p).priority <= Provider(q).priority
<1> DEFINE c == route.preferred
<1>1. ~(preferred_rank(q) < preferred_rank(p))
  BY DEF Precedes
<1>2. ASSUME NEW x, NEW n \in DOMAIN c, c[n] = x
      PROVE  preferred_rank(x) = n
  BY <1>2 DEF preferred_rank, IsChain, Range
<1>3. ASSUME NEW n \in DOMAIN c, c[n] = q
      PROVE  \E k \in DOMAIN c : k < n /\ c[k] = p
  <2>1. preferred_rank(q) = n /\ n \in 1 .. 7
    BY <1>2, <1>3 DEF IsChain
  <2>2. p \in Range(c)
    <3>1. p \notin Range(c) => preferred_rank(p) = 999
      BY DEF preferred_rank
    <3>2. QED
      BY <1>1, <2>1, <3>1
  <2>3. PICK k \in DOMAIN c : c[k] = p
    BY <2>2 DEF Range
  <2>4. preferred_rank(p) = k /\ k \in 1 .. 7
    BY <1>2, <2>3 DEF IsChain
  <2>5. k # n
    BY <1>3, <2>3
  <2>6. QED
    BY <1>1, <2>1, <2>3, <2>4, <2>5
<1>4. ASSUME p \notin Range(c), q \notin Range(c), request.route_by = "priority"
      PROVE  Provider(p).priority <= Provider(q).priority
  <2>1. preferred_rank(p) = preferred_rank(q)
    BY <1>4 DEF preferred_rank
  <2>2. ~(Provider(q).priority < Provider(p).priority)
    BY <1>4, <2>1 DEF Precedes
  <2>3. \A x \in Providers : Provider(x).priority \in Int
    BY RoutingConstants DEF Providers, Provider, Place
  <2>4. QED
    BY <2>2, <2>3
<1>5. QED
  BY <1>3, <1>4

(* Providers are asked in the order of the chain, then of their priority,  *)
(* and none twice.                                                         *)
THEOREM AsksInOrderCorrect == Spec => []AsksInOrder
<1>1. RoutingInv => AsksInOrder
  <2> SUFFICES ASSUME RoutingInv, NEW i \in DOMAIN asked, NEW j \in DOMAIN asked, i < j
               PROVE  LET p == asked[i].provider
                          q == asked[j].provider
                          chain == route.preferred
                      IN  /\ p # q
                          /\ \A n \in DOMAIN chain : chain[n] = q =>
                                \E k \in DOMAIN chain : k < n /\ chain[k] = p
                          /\ p \notin Range(chain) /\ q \notin Range(chain) /\ request.route_by = "priority" =>
                                Provider(p).priority <= Provider(q).priority
    BY DEF AsksInOrder
  <2>1. IsChain(route.preferred)
    BY FinalIsResolved DEF RoutingInv, Planned
  <2>2. asked[i].provider \in Providers /\ asked[j].provider \in Providers
    BY DEF RoutingInv, TypeOK
  <2>3. asked[i].provider # asked[j].provider /\ ~Precedes(asked[j].provider, asked[i].provider)
    BY DEF RoutingInv, InPrecedence
  <2>4. QED
    BY <2>1, <2>2, <2>3, PrecedenceIsOrder
<1>2. QED
  BY <1>1, RoutingInvHolds, PTL

-----------------------------------------------------------------------------
(* Lists and names                                                         *)

(* What the catalogue lists is names, and no list is empty.                *)
LEMMA ListsAreLists ==
    ASSUME NEW p \in Providers
    PROVE  /\ p # "auto"
           /\ \A b \in Buckets :
                 effective_models(p, b) \in Seq(ListedNames) /\ effective_models(p, b) # <<>>
           /\ \A b \in Buckets : Range(effective_models(p, b)) \subseteq Listed(p)
           /\ \A m \in Listed(p) : m \in ListedNames
<1>1. PICK i \in DOMAIN Catalogue : Catalogue[i].name = p
  BY DEF Providers
<1>2. Place(p) \in DOMAIN Catalogue /\ Catalogue[Place(p)].name = p
  BY <1>1 DEF Place
<1>3. p # "auto"
  BY <1>2, RoutingConstants
<1>4. \A b \in Buckets : effective_models(p, b) \in Seq(ListedNames) \ {<<>>}
  BY <1>2, RoutingConstants DEF effective_models, Provider
<1>5. \A b \in Buckets : Range(effective_models(p, b)) \subseteq ListedNames
  <2> SUFFICES ASSUME NEW b \in Buckets, NEW n \in DOMAIN effective_models(p, b)
               PROVE  effective_models(p, b)[n] \in ListedNames
    BY DEF Range
  <2> DEFINE models == effective_models(p, b)
  <2>1. models \in Seq(ListedNames) /\ n \in DOMAIN models
    BY <1>4
  <2> HIDE DEF models
  <2>2. models[n] \in ListedNames
    BY <2>1
  <2>3. QED
    BY <2>2 DEF models
<1>6. \A b \in Buckets : Range(effective_models(p, b)) \subseteq Listed(p)
  BY DEF Buckets, Listed
<1>7. \A m \in Listed(p) : m \in ListedNames
  BY <1>5 DEF Buckets, Listed
<1>8. QED
  BY <1>3, <1>4, <1>6, <1>7

LEMMA ListEnds ==
    ASSUME NEW n \in Nat, NEW K, K \subseteq 1 .. n, K # {}
    PROVE  /\ \E k \in K : \A j \in K : k <= j
           /\ \E k \in K : \A j \in K : j <= k
<1> DEFINE R == OpToRel(<, Nat)
<1>1. \A a, b \in Nat : a < b => <<a, b>> \in R
  BY DEF OpToRel
<1>2. IsWellFoundedOn(R, Nat)
  BY NatLessThanWellFounded
<1> HIDE DEF R
<1>3. \A T : T \subseteq Nat /\ T # {} => \E x \in T : \A y \in T : ~(<<y, x>> \in R)
  BY <1>2, WFMin
<1>4. \E k \in K : \A j \in K : k <= j
  <2>1. K \subseteq Nat
    OBVIOUS
  <2>2. PICK k \in K : \A j \in K : ~(<<j, k>> \in R)
    BY <1>3, <2>1
  <2>3. \A j \in K : ~(j < k)
    BY <1>1, <2>1, <2>2
  <2>4. QED
    BY <2>1, <2>3
<1>5. \E k \in K : \A j \in K : j <= k
  <2> DEFINE T == {n - k : k \in K}
  <2>1. T \subseteq Nat /\ T # {}
    <3>1. \A k \in K : n - k \in Nat
      OBVIOUS
    <3>2. QED
      BY <3>1
  <2>2. PICK x \in T : \A y \in T : ~(<<y, x>> \in R)
    BY <1>3, <2>1
  <2>3. PICK k \in K : x = n - k
    OBVIOUS
  <2>4. ASSUME NEW j \in K PROVE j <= k
    <3>1. n - j \in T /\ n - j \in Nat /\ n - k \in Nat /\ j \in Nat /\ k \in Nat
      OBVIOUS
    <3>2. ~(n - j < n - k)
      BY <1>1, <2>2, <2>3, <3>1
    <3>3. QED
      BY <3>1, <3>2
  <2>5. QED
    BY <2>4
<1>6. QED
  BY <1>4, <1>5

(* A prefix is taken off as it was put on.                                 *)
LEMMA UnderStripped ==
    ASSUME NEW p \in Providers, NEW m \in ListedNames
    PROVE  /\ Len(Under(p, m).path) > 1 /\ Under(p, m).path[1] = p
           /\ Qualified(Under(p, m))
           /\ Stripped(Under(p, m)) = m
           /\ m # NoName /\ Under(p, m) # NoName
           /\ Stripped(m) # NoName /\ Stripped(NoName) = NoName
<1>1. m = Name(m.path, m.tags) /\ m.path \in Seq(STRING) /\ m.path # <<>>
  BY DEF ListedNames, Name
<1>2. m.path \in Seq(STRING \cup {p}) /\ <<p>> \in Seq(STRING \cup {p})
  BY <1>1
<1> DEFINE path == <<p>> \o m.path
<1>3. Under(p, m).path = path /\ Under(p, m).tags = m.tags
  BY DEF Under, Name
<1>4. Len(path) > 1 /\ path[1] = p /\ Tail(path) = m.path
  <2> DEFINE t == m.path
  <2>1. Len(t) \in Nat \ {0} /\ t \in Seq(STRING \cup {p})
    BY <1>1, <1>2
  <2> HIDE DEF t
  <2>2. path = <<p>> \o t
    BY DEF t
  <2>3. Len(path) > 1 /\ path[1] = p
    BY <1>2, <2>1, <2>2
  <2>4. Tail(path) = t
    BY <1>2, <2>1, <2>2
  <2>5. QED
    BY <2>3, <2>4 DEF t
<1>5. Qualified(Under(p, m)) /\ Prefixed(Under(p, m))
  BY <1>3, <1>4 DEF Qualified, Prefixed
<1>6. Stripped(Under(p, m)) = m
  BY <1>1, <1>3, <1>4, <1>5 DEF Stripped, Unqualified
<1>7. m # NoName /\ Under(p, m) # NoName
  <2>1. NoName.path = <<>> /\ Len(<<>>) = 0
    BY DEF NoName, Name
  <2>2. QED
    BY <1>1, <1>3, <1>4, <2>1
<1>8. Stripped(m) # NoName
  <2>1. CASE Prefixed(m)
    <3>1. Stripped(m).path = Tail(m.path)
      BY <2>1 DEF Stripped, Unqualified, Name
    <3>2. Len(m.path) > 1
      BY <2>1 DEF Prefixed, Qualified
    <3>3. Len(Tail(m.path)) > 0
      BY <1>1, <3>2
    <3>4. ~(Len(NoName.path) > 0)
      BY DEF NoName, Name
    <3>5. QED
      BY <3>1, <3>3, <3>4, Zenon
  <2>2. CASE ~Prefixed(m)
    BY <1>7, <2>2 DEF Stripped
  <2>3. QED
    BY <2>1, <2>2
<1>9. Stripped(NoName) = NoName
  BY DEF Stripped, Prefixed, Qualified, NoName, Name
<1>10. QED
  BY <1>3, <1>4, <1>5, <1>6, <1>7, <1>8, <1>9

LEMMA PlainIsUnqualified == \A w : ~Qualified(Plain(w)) /\ Plain(w) # NoName
<1> SUFFICES ASSUME NEW w PROVE ~Qualified(Plain(w)) /\ Plain(w) # NoName
  OBVIOUS
<1>1. Plain(w).path = <<w>> /\ Len(<<w>>) = 1 /\ NoName.path = <<>> /\ Len(<<>>) = 0
  BY DEF Plain, NoName, Name
<1>2. QED
  BY <1>1 DEF Qualified

(* The name left in the body is the requested one, or that without the     *)
(* prefix its alias was given.                                             *)
LEMMA NamesAgree ==
    ASSUME NEW p \in Providers, NEW m \in ListedNames,
           {Requested, BodyModel} \subseteq {m, Under(p, m)}
    PROVE  /\ Stripped(Requested) = Stripped(BodyModel)
           /\ BodyModel # NoName
           /\ m \in {BodyModel, Stripped(BodyModel)}
<1>1. /\ Qualified(Under(p, m)) /\ Stripped(Under(p, m)) = m
      /\ m # NoName /\ Under(p, m) # NoName /\ Under(p, m).path[1] = p
  BY UnderStripped
<1>2. BodyModel # NoName /\ m \in {BodyModel, Stripped(BodyModel)}
  BY <1>1
<1>3. CASE Requested = BodyModel
  BY <1>2, <1>3
<1>4. CASE Requested # BodyModel
  <2>1. request.endpoint = "messages" /\ request.name # NoName
    <3>1. request.endpoint = "messages"
      BY <1>4 DEF BodyModel
    <3>2. request.name = NoName => BodyModel = Plain("auto") /\ Requested = NoName
      BY <3>1, PlainIsUnqualified DEF BodyModel, Requested, model_aliases
    <3>3. QED
      BY <1>1, <3>1, <3>2
  <2>2. BodyModel = request.name
    BY <2>1 DEF BodyModel
  <2>3. ~Qualified(BodyModel)
    <3>1. \E w : BodyModel = Plain(w)
      BY <1>4, <2>2 DEF Requested, model_aliases
    <3>2. QED
      BY <3>1, PlainIsUnqualified
  <2>4. BodyModel = m
    BY <1>1, <2>3
  <2>5. Requested = Under(p, m) /\ Stripped(m) = m
    BY <1>4, <2>3, <2>4 DEF Stripped, Prefixed
  <2>6. QED
    BY <1>1, <1>2, <2>4, <2>5
<1>5. QED
  BY <1>3, <1>4

-----------------------------------------------------------------------------
(* Nobody who serves a request is forgotten                                *)

(* A list that leaves a model leaves one to select.                        *)
LEMMA KeptIsSelected ==
    ASSUME NEW p \in Providers, Resolved # NoRoute, Kept(p, FinalRoute) # {}
    PROVE  \E m \in Selected(p, FinalRoute) : KeyAllows(m)
<1> DEFINE models == ModelList(p, FinalRoute)
           K == Kept(p, FinalRoute)
<1>1. FinalRoute # NoRoute /\ FinalRoute.bucket \in Buckets
  BY FinalIsResolved
<1>2. models \in Seq(ListedNames)
  BY <1>1, ListsAreLists DEF ModelList
<1>3. Len(models) \in Nat /\ DOMAIN models = 1 .. Len(models)
  BY <1>2
<1>4. K \subseteq 1 .. Len(models) /\ \A k \in K : KeyAllows(models[k])
  BY <1>3 DEF Kept
<1> HIDE DEF models
<1>5. /\ \E k \in K : \A j \in K : k <= j
      /\ \E k \in K : \A j \in K : j <= k
  BY <1>3, <1>4, ListEnds
<1>6. \E k \in K : \A j \in K : IF FinalRoute.mode = "quality" THEN j <= k ELSE k <= j
  BY <1>5
<1>7. PICK k \in K : \A j \in K : IF FinalRoute.mode = "quality" THEN j <= k ELSE k <= j
  BY <1>6
<1>8. models[k] \in Best(p, FinalRoute)
  BY <1>7 DEF Best, models
<1>9. QED
  BY <1>1, <1>4, <1>8 DEF Selected

LEMMA ServesIsEligible ==
    ASSUME NEW p \in Providers, Serves(p)
    PROVE  \/ /\ p \in eligible_pairs(FinalRoute)
              /\ \E m \in Selected(p, FinalRoute) : KeyAllows(m)
           \/ Resolved.freeOnly /\ FreeServes /\ ~provider_is_free(p)
<1>1. Able(p) /\ KeyAllowsProvider(p)
  BY DEF Serves
<1>2. CASE Resolved # NoRoute
  <2>1. /\ FinalRoute # NoRoute /\ FinalRoute.bucket = Resolved.bucket
        /\ FinalRoute.bucket \in Buckets
    BY <1>2, FinalIsResolved
  <2>2. \A q, rt : rt # NoRoute =>
           ModelList(q, rt) = effective_models(q, rt.bucket)
    BY DEF ModelList
  <2>3. PICK m \in Range(effective_models(p, Resolved.bucket)) : KeyAllows(m)
    BY <1>2 DEF Serves
  <2>4. PICK k \in DOMAIN effective_models(p, Resolved.bucket) :
           effective_models(p, Resolved.bucket)[k] = m
    BY <2>3 DEF Range
  <2>5. k \in Kept(p, FinalRoute)
    BY <2>1, <2>2, <2>3, <2>4 DEF Kept
  <2>6. CASE FinalRoute.freeOnly => provider_is_free(p)
    <3>1. p \in eligible_pairs(FinalRoute)
      BY <1>1, <2>5, <2>6 DEF eligible_pairs, Claims, Usable
    <3>2. QED
      BY <1>2, <2>5, <3>1, KeptIsSelected
  <2>7. CASE FinalRoute.freeOnly /\ ~provider_is_free(p)
    <3>1. FinalRoute = Resolved /\ eligible_pairs(Resolved) # {} /\ Resolved.freeOnly
      <4>1. ([Resolved EXCEPT !.freeOnly = FALSE]).freeOnly = FALSE
        BY <1>2, ResolvedIsRoute DEF Resolved, IsRoute, RouteSpec
      <4>2. QED
        BY <2>7, <4>1 DEF FinalRoute
    <3>2. PICK q \in Providers : Claims(q, Resolved)
      BY <1>2, <3>1 DEF eligible_pairs, Guessed
    <3>3. Able(q) /\ KeyAllowsProvider(q) /\ provider_is_free(q)
      BY <3>1, <3>2 DEF Claims, Usable
    <3>4. PICK j \in DOMAIN ModelList(q, Resolved) : KeyAllows(ModelList(q, Resolved)[j])
      BY <3>2 DEF Claims, Kept
    <3>5. \E n \in Range(effective_models(q, Resolved.bucket)) : KeyAllows(n)
      BY <1>2, <2>2, <3>4 DEF Range
    <3>6. Serves(q)
      BY <1>2, <3>3, <3>5 DEF Serves
    <3>7. QED
      BY <2>7, <3>1, <3>3, <3>6 DEF FreeServes
  <2>8. QED
    BY <2>6, <2>7
<1>3. CASE Resolved = NoRoute
  <2>1. FinalRoute = NoRoute /\ FinalRoute.freeOnly = FALSE
    BY <1>3, FinalIsResolved
  <2>2. PICK m \in Listed(p) :
           {Requested, BodyModel} \subseteq {m, Under(p, m)} /\ KeyAllows(Stripped(Requested))
    BY <1>3 DEF Serves
  <2>3. m \in ListedNames
    BY <2>2, ListsAreLists
  <2>4. /\ Stripped(Requested) = Stripped(BodyModel) /\ BodyModel # NoName
        /\ m \in {BodyModel, Stripped(BodyModel)}
    BY <2>2, <2>3, NamesAgree
  <2>5. Stripped(BodyModel) # NoName
    BY <2>2, <2>3, UnderStripped
  <2>6. ModelList(p, FinalRoute) = <<Stripped(BodyModel)>>
    BY <2>1, <2>2, <2>4 DEF ModelList
  <2> DEFINE name == Stripped(BodyModel)
  <2> HIDE DEF name
  <2>7. 1 \in DOMAIN <<name>> /\ <<name>>[1] = name
    OBVIOUS
  <2>8. 1 \in Kept(p, FinalRoute) /\ ModelList(p, FinalRoute)[1] = name
    BY <2>2, <2>4, <2>6, <2>7 DEF Kept, name
  <2>9. Claims(p, FinalRoute)
    BY <1>1, <2>1, <2>8 DEF Claims, Usable
  <2>10. p \in eligible_pairs(FinalRoute)
    BY <2>9 DEF eligible_pairs
  <2>11. name \in Offered(p, FinalRoute)
    BY <2>8, <2>9 DEF Offered
  <2>12. name \in Selected(p, FinalRoute)
    BY <2>1, <2>4, <2>5, <2>11 DEF Selected, name
  <2>13. QED
    BY <2>2, <2>4, <2>10, <2>12 DEF name
<1>4. QED
  BY <1>2, <1>3

(* The checks before the models rule out everybody only where a free route *)
(* has no free provider.                                                   *)
LEMMA ServesIsBound ==
    ASSUME NEW p \in Providers, Serves(p), Unbound(Resolved)
    PROVE  Resolved.freeOnly /\ ~FreeServes
<1>1. \A q \in Providers : Serves(q) => Resolved.freeOnly /\ ~provider_is_free(q)
  BY DEF Serves, Unbound, Usable
<1>2. QED
  BY <1>1 DEF FreeServes

(* Why a request was given up                                              *)
GivenUp ==
    /\ passed # {} => route = FinalRoute
    /\ \A p \in passed \ resting :
          Callable(p) = {} \/ \E i \in DOMAIN asked : asked[i].provider = p
    /\ stage = "asked" \/ answer \in {"200", "502", "bad answer"} => asked # <<>>
    /\ answer = "503" => eligible_pairs(FinalRoute) \subseteq passed
    /\ answer = "500" /\ asked = <<>> => Unbound(Resolved)
    /\ answer = "403" => Forbidden

LEMMA SameChoice ==
    ASSUME UNCHANGED request
    PROVE  /\ FinalRoute' = FinalRoute
           /\ eligible_pairs(FinalRoute)' = eligible_pairs(FinalRoute)
           /\ Unbound(Resolved)' <=> Unbound(Resolved)
           /\ Forbidden' <=> Forbidden
           /\ route' = route => \A p : Callable(p)' = Callable(p)
<1>1. /\ Requested' = Requested /\ BodyModel' = BodyModel
      /\ infer_reasoning' = infer_reasoning /\ Needed' = Needed
  BY DEF Requested, BodyModel, infer_reasoning, Needed
<1>2. /\ FinalRoute' = FinalRoute /\ Resolved' = Resolved
      /\ eligible_pairs(FinalRoute)' = eligible_pairs(FinalRoute)
  BY SameRequest
<1>3. Unbound(Resolved)' <=> Unbound(Resolved)
  BY <1>1, <1>2 DEF Unbound, Usable, Able, Ready, KeyAllowsProvider
<1>4. Forbidden' <=> Forbidden
  BY <1>1 DEF Forbidden, KeyAllows
<1>5. ASSUME route' = route, NEW p PROVE Callable(p)' = Callable(p)
  BY <1>1, <1>5 DEF Callable, Selected, Best, Offered, Claims, Usable, Able, Ready, KeyAllowsProvider, Kept, ModelList, KeyAllows
<1>6. QED
  BY <1>2, <1>3, <1>4, <1>5

LEMMA GivenUpStarts == ASSUME Init PROVE GivenUp
  BY DEF Init, GivenUp

LEMMA GivenUpKept == ASSUME RoutingInv, GivenUp, [Next]_vars PROVE GivenUp'
<1>1. CASE UNCHANGED vars
  <2>1. UNCHANGED <<request, route, stage, passed, resting, asked, answer>>
    BY <1>1 DEF vars
  <2>2. QED
    BY <2>1, SameChoice DEF GivenUp
<1>2. CASE AskAnthropic \/ Forbid \/ Crash \/ NoneEligible \/ Start
  <2>1. asked = <<>> /\ passed = {} /\ answer = "none"
    BY <1>2 DEF RoutingInv, Planned, TypeOK, AskAnthropic, Forbid, Crash, NoneEligible, Start, Plans
  <2>2. UNCHANGED <<request, passed, resting, asked>> /\ stage' # "asked"
    BY <1>2 DEF AskAnthropic, Forbid, Crash, NoneEligible, Start, Done
  <2>3. \/ answer' = "403" /\ Forbidden
        \/ answer' = "500" /\ Unbound(Resolved)
        \/ answer' = "503" /\ eligible_pairs(FinalRoute) = {}
        \/ answer' \in {"direct", "none"}
    BY <1>2, <2>1 DEF AskAnthropic, Forbid, Crash, NoneEligible, Start, Done
  <2>4. QED
    BY <2>1, <2>2, <2>3, SameChoice DEF GivenUp
<1>3. ASSUME NEW p \in Providers, Unavailable(p) \/ PassOver(p) PROVE GivenUp'
  <2>1. /\ InTurn(p) /\ passed' = passed \cup {p}
        /\ \/ resting' = resting \cup {p}
           \/ resting' = resting /\ Callable(p) = {}
        /\ UNCHANGED <<request, stage, route, asked, answer>>
    BY <1>3 DEF Unavailable, PassOver
  <2>2. route = FinalRoute /\ stage = "loop" /\ answer = "none"
    BY <2>1 DEF InTurn, RoutingInv, Planned, TypeOK
  <2>3. QED
    BY <2>1, <2>2, SameChoice DEF GivenUp
<1>4. ASSUME NEW p \in Providers, Ask(p) PROVE GivenUp'
  <2>1. PICK m \in Callable(p) :
           asked' = Append(asked, [provider |-> p, model |-> m, sent |-> upstream_model(p, m)])
    BY <1>4 DEF Ask
  <2> DEFINE e == [provider |-> p, model |-> m, sent |-> upstream_model(p, m)]
             n == Len(asked) + 1
  <2>2. e.provider = p
    OBVIOUS
  <2> HIDE DEF e
  <2>3. PICK S : asked \in Seq(S)
    BY DEF RoutingInv, IsSequence
  <2>4. /\ asked' \in Seq(S \cup {e})
        /\ Len(asked) \in Nat /\ DOMAIN asked = 1 .. Len(asked) /\ DOMAIN asked' = 1 .. n
        /\ \A i \in 1 .. Len(asked) : asked'[i] = asked[i]
        /\ asked'[n] = e
    BY <2>1, <2>3, OneMore DEF e
  <2> HIDE DEF n
  <2>5. /\ n \in DOMAIN asked' /\ asked' # <<>>
        /\ \A i \in DOMAIN asked : i \in DOMAIN asked' /\ asked'[i] = asked[i]
    BY <2>4 DEF n
  <2>6. /\ InTurn(p) /\ passed' = passed \cup {p} /\ stage' = "asked"
        /\ UNCHANGED <<request, route, resting, answer>>
    BY <1>4 DEF Ask
  <2>7. route = FinalRoute /\ answer = "none"
    BY <2>6 DEF InTurn, RoutingInv, Planned, TypeOK
  <2>8. \A q \in passed' \ resting' :
           Callable(q)' = {} \/ \E i \in DOMAIN asked' : asked'[i].provider = q
    BY <2>2, <2>4, <2>5, <2>6, SameChoice DEF GivenUp
  <2>9. QED
    BY <2>5, <2>6, <2>7, <2>8, SameChoice DEF GivenUp
<1>5. CASE GoOn \/ Answer \/ Exhausted
  <2>1. UNCHANGED <<request, route, pairs, passed, resting, asked>> /\ stage' # "asked"
    BY <1>5 DEF GoOn, Answer, Exhausted, Done
  <2>2. answer = "none"
    BY <1>5 DEF GoOn, Answer, Exhausted, RoutingInv, TypeOK
  <2>3. \/ answer' = "none"
        \/ answer' \in {"200", "500", "502", "bad answer"} /\ asked # <<>>
        \/ answer' = "503" /\ eligible_pairs(FinalRoute) \subseteq passed
    <3>1. CASE GoOn
      BY <2>2, <3>1 DEF GoOn
    <3>2. CASE Answer
      BY <3>2 DEF Answer, Done, GivenUp
    <3>3. CASE Exhausted
      BY <3>3 DEF Exhausted, Done, Remaining, RoutingInv, Planned
    <3>4. QED
      BY <1>5, <3>1, <3>2, <3>3
  <2>4. QED
    BY <2>1, <2>3, SameChoice DEF GivenUp
<1>6. QED
  BY <1>1, <1>2, <1>3, <1>4, <1>5 DEF Next

LEMMA GivenUpMissesNobody == ASSUME RoutingInv, GivenUp PROVE NoProviderMissed
<1> SUFFICES ASSUME NEW p \in Providers, Serves(p)
             PROVE  /\ answer = "503" =>
                          Tried(p) \/ (Resolved.freeOnly /\ FreeServes /\ ~provider_is_free(p))
                    /\ answer = "500" /\ asked = <<>> => Resolved.freeOnly /\ ~FreeServes
  BY DEF NoProviderMissed
<1>1. answer = "500" /\ asked = <<>> => Resolved.freeOnly /\ ~FreeServes
  BY ServesIsBound DEF GivenUp
<1>2. ASSUME answer = "503", p \in eligible_pairs(FinalRoute),
             \E m \in Selected(p, FinalRoute) : KeyAllows(m)
      PROVE  Tried(p)
  <2>1. p \in passed /\ route = FinalRoute
    BY <1>2 DEF GivenUp
  <2>2. Callable(p) # {}
    BY <1>2, <2>1 DEF Callable
  <2>3. QED
    BY <2>1, <2>2 DEF GivenUp, Tried
<1>3. QED
  BY <1>1, <1>2, ServesIsEligible

(* A request gives up only after every provider that serves it was asked   *)
(* or is resting, whatever names, keys and catalogue there are.            *)
THEOREM NoProviderMissedCorrect == Spec => []NoProviderMissed
<1>1. Init => GivenUp
  BY GivenUpStarts
<1>2. RoutingInv /\ GivenUp /\ [Next]_vars => GivenUp'
  BY GivenUpKept
<1>3. RoutingInv /\ GivenUp => NoProviderMissed
  BY GivenUpMissesNobody
<1>4. QED
  BY <1>1, <1>2, <1>3, RoutingInvHolds, PTL DEF Spec

-----------------------------------------------------------------------------
(* The names sent upstream                                                 *)

(* A listed name, or what is left of it                                    *)
Cut(p, name) ==
    \E m \in Listed(p) :
        /\ Prefixed(m)
        /\ \/ name = Unqualified(m)
           \/ Prefixed(Unqualified(m)) /\ name = Unqualified(Unqualified(m))

Known(p, m, sent) ==
    \/ sent \in Listed(p)
    \/ p = "openrouter" /\ EndsFree(m)
    \/ Cut(p, sent)
    \/ LastResort(p)

LEMMA SentIsKnown ==
    ASSUME NEW p \in eligible_pairs(FinalRoute), NEW m \in Selected(p, FinalRoute)
    PROVE  Known(p, m, upstream_model(p, m))
<1> DEFINE bare == Stripped(m)
<1>1. p \in Providers
  BY DEF eligible_pairs
<1>2. CASE Guessed(p, FinalRoute)
  BY <1>2, GuessedIsLastResort DEF Known
<1>3. CASE Claims(p, FinalRoute)
  <2>1. bare \in Listed(p) \/ Cut(p, bare)
    <3>1. CASE Resolved # NoRoute
      <4>1. FinalRoute # NoRoute /\ FinalRoute.bucket \in Buckets
        BY <3>1, FinalIsResolved
      <4>2. m \in Range(effective_models(p, FinalRoute.bucket))
        BY <4>1 DEF Selected, Best, Kept, ModelList, Range
      <4>3. m \in Listed(p)
        BY <1>1, <4>1, <4>2, ListsAreLists
      <4>4. QED
        BY <4>3 DEF Stripped, Cut
    <3>2. CASE Resolved = NoRoute /\ BodyModel # NoName
      <4>1. FinalRoute = NoRoute
        BY <3>2, FinalIsResolved
      <4>2. PICK k \in Kept(p, FinalRoute) : m = ModelList(p, FinalRoute)[k]
        BY <1>3, <4>1 DEF Selected, Offered
      <4>3. /\ k \in DOMAIN ModelList(p, FinalRoute)
            /\ ModelList(p, FinalRoute) =
                  IF {BodyModel, Stripped(BodyModel)} \cap Listed(p) # {}
                  THEN <<Stripped(BodyModel)>> ELSE <<>>
        BY <3>2, <4>1 DEF Kept, ModelList
      <4> DEFINE name == Stripped(BodyModel)
      <4>4. {BodyModel, name} \cap Listed(p) # {} /\ m = name
        <5> HIDE DEF name
        <5>1. DOMAIN <<>> = {} /\ DOMAIN <<name>> = {1} /\ <<name>>[1] = name
          OBVIOUS
        <5>2. QED
          BY <4>2, <4>3, <5>1 DEF name
      <4>5. CASE name \in Listed(p)
        BY <4>4, <4>5 DEF Stripped, Cut
      <4>6. CASE BodyModel \in Listed(p)
        BY <4>4, <4>6 DEF Stripped, Cut
      <4>7. QED
        BY <4>4, <4>5, <4>6
    <3>3. CASE Resolved = NoRoute /\ BodyModel = NoName
      <4>1. FinalRoute = NoRoute
        BY <3>3, FinalIsResolved
      <4>2. Requested = NoName
        BY <3>3, PlainIsUnqualified DEF BodyModel
      <4>3. Stripped(Requested) = NoName
        BY <4>2 DEF Stripped, Prefixed, Qualified, NoName, Name
      <4>4. QED
        BY <4>1, <4>3 DEF Selected
    <3>4. QED
      BY <3>1, <3>2, <3>3
  <2>2. bare.tags = m.tags
    BY DEF Stripped, Unqualified, Name
  <2>3. upstream_model(p, m) = bare \/ (p = "openrouter" /\ EndsFree(m))
    BY <2>2 DEF upstream_model, EndsFree
  <2>4. QED
    BY <2>1, <2>3 DEF Known
<1>4. QED
  BY <1>2, <1>3 DEF eligible_pairs

AllKnown == \A i \in DOMAIN asked : Known(asked[i].provider, asked[i].model, asked[i].sent)

LEMMA SameKnown ==
    ASSUME UNCHANGED request
    PROVE  \A p, m, sent : Known(p, m, sent)' <=> Known(p, m, sent)
  BY SameRequest DEF Known, Cut

LEMMA AllKnownKept == ASSUME RoutingInv, AllKnown, [Next]_vars PROVE AllKnown'
<1>1. ASSUME UNCHANGED <<request, asked>> PROVE AllKnown'
  BY <1>1, SameKnown DEF AllKnown
<1>2. ASSUME NEW p \in Providers, Ask(p) PROVE AllKnown'
  <2>1. PICK m \in Callable(p) :
           asked' = Append(asked, [provider |-> p, model |-> m, sent |-> upstream_model(p, m)])
    BY <1>2 DEF Ask
  <2> DEFINE e == [provider |-> p, model |-> m, sent |-> upstream_model(p, m)]
             n == Len(asked) + 1
  <2>2. e.provider = p /\ e.model = m /\ e.sent = upstream_model(p, m)
    OBVIOUS
  <2> HIDE DEF e
  <2>3. PICK S : asked \in Seq(S)
    BY DEF RoutingInv, IsSequence
  <2>4. /\ asked' \in Seq(S \cup {e})
        /\ Len(asked) \in Nat /\ DOMAIN asked = 1 .. Len(asked) /\ DOMAIN asked' = 1 .. n
        /\ \A i \in 1 .. Len(asked) : asked'[i] = asked[i]
        /\ asked'[n] = e
    BY <2>1, <2>3, OneMore DEF e
  <2> HIDE DEF n
  <2>5. \A i \in DOMAIN asked' : (i \in DOMAIN asked /\ asked'[i] = asked[i]) \/ asked'[i] = e
    BY <2>4 DEF n
  <2>6. /\ request' = request
        /\ p \in eligible_pairs(FinalRoute) /\ m \in Selected(p, FinalRoute)
    BY <1>2, <2>1 DEF Ask, InTurn, Remaining, RoutingInv, Planned, Callable
  <2>7. Known(p, m, upstream_model(p, m))
    BY <2>6, SentIsKnown
  <2>8. QED
    BY <2>2, <2>5, <2>6, <2>7, SameKnown DEF AllKnown
<1>3. QED
  BY <1>1, <1>2 DEF Next, vars, AskAnthropic, Forbid, Crash, NoneEligible, Start, Unavailable,
                    PassOver, GoOn, Answer, Exhausted

(* No provider is sent a name it does not list, but for what the routing   *)
(* takes off a listed one, or the guess of an owner.                       *)
THEOREM SentUnlessPrefixedCorrect == Spec => []SentUnlessPrefixed
<1>1. Init => AllKnown
  <2> SUFFICES ASSUME Init PROVE AllKnown
    OBVIOUS
  <2>1. DOMAIN asked = {}
    BY DEF Init
  <2>2. QED
    BY <2>1 DEF AllKnown
<1>2. RoutingInv /\ AllKnown /\ [Next]_vars => AllKnown'
  BY AllKnownKept
<1>3. AllKnown => SentUnlessPrefixed
  BY DEF AllKnown, Known, Cut, SentUnlessPrefixed
<1>4. QED
  BY <1>1, <1>2, <1>3, RoutingInvHolds, PTL DEF Spec

-----------------------------------------------------------------------------
(* The list of models                                                      *)

LEMMA LongNames ==
    ASSUME NEW name, Qualified(name)
    PROVE  /\ \A endpoint : model_aliases(endpoint, name) = name
           /\ ~IsDirectAlias(name) /\ ~IsShorthand(name)
<1>1. \A w : name # Plain(w)
  BY PlainIsUnqualified
<1>2. \A w, tags : name # Name(<<w>>, tags)
  <2> SUFFICES ASSUME NEW w, NEW tags, name = Name(<<w>>, tags) PROVE FALSE
    OBVIOUS
  <2>1. name.path = <<w>>
    BY DEF Name
  <2>2. ~(Len(<<w>>) > 1)
    OBVIOUS
  <2>3. ~(Len(name.path) > 1)
    BY <2>1, <2>2, Zenon
  <2>4. QED
    BY <2>3 DEF Qualified
<1>3. QED
  BY <1>1, <1>2 DEF model_aliases, IsDirectAlias, IsShorthand

LEMMA ReadyAreProviders == TypeOK => Ready \subseteq Providers
  BY RoutingConstants DEF TypeOK, Requests, Ready

(* A listed model is served under its provider by that provider.           *)
LEMMA ListedServes ==
    ASSUME TypeOK, PicksFromList, NEW p \in Ready, NEW m \in Listed(p),
           request.name = Under(p, m)
    PROVE  Serves(p) /\ ~Resolved.freeOnly
<1>1. p \in Providers
  BY ReadyAreProviders
<1>2. p \notin AutoWords /\ m \in ListedNames
  BY <1>1, RoutingConstants, ListsAreLists DEF Providers
<1>3. /\ Qualified(request.name) /\ request.name.path[1] = p /\ request.name # NoName
  BY <1>1, <1>2, UnderStripped
<1>4. Requested = request.name /\ BodyModel = request.name
  BY <1>3, LongNames DEF Requested, BodyModel
<1>5. Resolved = NoRoute
  BY <1>2, <1>3, <1>4, LongNames DEF Resolved, resolve_virtual_model, IsAuto
<1>6. Able(p) /\ KeyAllowsProvider(p) /\ \A x : KeyAllows(x)
  <2>1. Needed = {}
    BY DEF PicksFromList, Needed
  <2>2. QED
    BY <2>1 DEF PicksFromList, Able, Ready, KeyAllowsProvider, KeyAllows
<1>7. Serves(p)
  BY <1>4, <1>5, <1>6 DEF Serves
<1>8. QED
  BY <1>5, <1>7 DEF NoRoute, RouteSpec

(* A virtual name under "auto" is served by every provider.                *)
LEMMA AutoServes ==
    ASSUME TypeOK, PicksFromList, NEW v \in VirtualNames, request.name = Under("auto", v)
    PROVE  \A p \in Ready : Serves(p)
<1>1. /\ Qualified(request.name) /\ request.name.path[1] = "auto" /\ request.name.path # <<>>
      /\ request.name # NoName
  <2>1. PICK w : v.path = <<w>>
    <3> DEFINE A == {"auto", "fast", "quality", "balanced", "reasoning", "non-reasoning"}
               B == {"auto", "fast", "reasoning", "non-reasoning"}
               C == {<<"reasoning">>, <<"non-reasoning">>, <<"free", "reasoning">>,
                     <<"free", "non-reasoning">>}
    <3>1. VirtualNames = {Plain(w) : w \in A} \cup {Name(<<w>>, <<"free">>) : w \in B}
                            \cup {Name(<<"auto">>, tags) : tags \in C}
      BY DEF VirtualNames
    <3> HIDE DEF A, B, C
    <3>2. CASE v \in {Plain(w) : w \in A}
      BY <3>2 DEF Plain, Name
    <3>3. CASE v \in {Name(<<w>>, <<"free">>) : w \in B}
      BY <3>3 DEF Name
    <3>4. CASE v \in {Name(<<"auto">>, tags) : tags \in C}
      BY <3>4 DEF Name
    <3>5. QED
      BY <3>1, <3>2, <3>3, <3>4
  <2>2. request.name.path = <<"auto">> \o <<w>>
    BY <2>1 DEF Under, Name
  <2>3. Len(request.name.path) = 2 /\ request.name.path[1] = "auto"
    <3>1. Len(<<"auto">> \o <<w>>) = 2 /\ (<<"auto">> \o <<w>>)[1] = "auto"
      OBVIOUS
    <3>2. QED
      BY <2>2, <3>1
  <2>4. Len(<<>>) = 0 /\ NoName.path = <<>>
    BY DEF NoName, Name
  <2>5. request.name.path # <<>> /\ request.name # NoName
    BY <2>3, <2>4
  <2>6. QED
    BY <2>3, <2>5 DEF Qualified
<1>2. Requested = request.name
  BY <1>1, LongNames DEF Requested
<1>3. Resolved = AutoRoute(Requested, infer_reasoning)
  BY <1>1, <1>2, LongNames, RoutingConstants DEF Resolved, resolve_virtual_model, IsAuto
<1>4. Resolved # NoRoute
  BY <1>3 DEF AutoRoute, NoRoute, RouteSpec
<1>5. Resolved.bucket \in Buckets
  BY FinalIsResolved
<1> SUFFICES ASSUME NEW p \in Ready PROVE Serves(p)
  OBVIOUS
<1>6. p \in Providers
  BY ReadyAreProviders
<1>7. Able(p) /\ KeyAllowsProvider(p) /\ \A x : KeyAllows(x)
  <2>1. Needed = {}
    BY DEF PicksFromList, Needed
  <2>2. QED
    BY <2>1 DEF PicksFromList, Able, Ready, KeyAllowsProvider, KeyAllows
<1>8. Range(effective_models(p, Resolved.bucket)) # {}
  <2> DEFINE models == effective_models(p, Resolved.bucket)
  <2>1. models \in Seq(ListedNames) /\ models # <<>>
    BY <1>5, <1>6, ListsAreLists
  <2> HIDE DEF models
  <2>2. 1 \in DOMAIN models
    BY <2>1
  <2>3. QED
    BY <2>2 DEF Range, models
<1>9. QED
  BY <1>4, <1>7, <1>8 DEF Serves

(* An id of the list is refused only where its provider does not know it   *)
(* by that name, or where a free route has no free provider.               *)
THEOREM ListedIsServedCorrect == Spec => []ListedIsServed
<1>1. RoutingInv /\ GivenUp => ListedIsServed
  <2> SUFFICES ASSUME RoutingInv, GivenUp, PicksFromList, Refused,
                      ~\E p \in Providers, v \in VirtualNames : request.name = Under(p, v),
                      ~\E p \in Ready : \E m \in Listed(p) :
                          Shown(p, m) # m /\ request.name = Under(p, Shown(p, m)),
                      ~\A p \in Ready : Resolved.freeOnly /\ ~provider_is_free(p)
               PROVE  FALSE
    BY DEF ListedIsServed
  <2>1. TypeOK /\ NoProviderMissed
    BY GivenUpMissesNobody DEF RoutingInv
  <2>2. Ready \subseteq Providers
    BY <2>1, ReadyAreProviders
  <2>3. answer \in {"500", "503"} /\ asked = <<>> /\ resting = {}
    <3>1. ~Forbidden
      BY DEF PicksFromList, Forbidden, KeyAllows
    <3>2. QED
      BY <2>1, <3>1 DEF GivenUp, Refused, TypeOK, Answers
  <2>4. \A p \in Providers : ~Tried(p)
    <3>1. DOMAIN asked = {}
      BY <2>3
    <3>2. QED
      BY <2>3, <3>1 DEF Tried
  <2>5. \A p \in Providers : Serves(p) => Resolved.freeOnly /\ ~provider_is_free(p)
    BY <2>1, <2>3, <2>4 DEF NoProviderMissed, FreeServes
  <2>6. CASE request.name \in ModelIds
    <3>1. PICK p \in Ready : \E m \in Listed(p) : request.name = Under(p, Shown(p, m))
      BY <2>6 DEF ModelIds
    <3>2. PICK m \in Listed(p) : request.name = Under(p, Shown(p, m))
      BY <3>1
    <3>3. request.name = Under(p, m)
      BY <3>2
    <3>4. QED
      BY <2>1, <2>2, <2>5, <3>3, ListedServes
  <2>7. CASE request.name \in virtual_buckets
    <3>1. PICK p \in Ready \cup {"auto"}, v \in VirtualNames : request.name = Under(p, v)
      BY <2>7 DEF virtual_buckets
    <3>2. p = "auto"
      BY <2>2, <3>1
    <3>3. \A q \in Ready : Serves(q)
      BY <2>1, <3>1, <3>2, AutoServes
    <3>4. QED
      BY <2>2, <2>5, <3>3
  <2>8. QED
    BY <2>6, <2>7 DEF PicksFromList, list_models
<1>2. Init => GivenUp
  BY GivenUpStarts
<1>3. RoutingInv /\ GivenUp /\ [Next]_vars => GivenUp'
  BY GivenUpKept
<1>4. QED
  BY <1>1, <1>2, <1>3, RoutingInvHolds, PTL DEF Spec

-----------------------------------------------------------------------------
(* The refinement of Fallback                                              *)

(* What a step may do, in the terms of Fallback.                           *)
Stays == Left' = Left /\ Using' = Using /\ Outcome' = Outcome

Begins ==
    /\ Outcome # "pending"
    /\ Left' \subseteq Providers
    /\ Outcome' = IF Left' = {} THEN "exhausted" ELSE "pending"
    /\ Using' = Using

Uses ==
    /\ Outcome = "pending" /\ Using = "none"
    /\ Using' \in Providers /\ Using' \in Left
    /\ Left' = Left \ {Using'}
    /\ Outcome' = Outcome

Drops(rest) ==
    /\ Using' = "none"
    /\ Left' = rest
    /\ Outcome' = IF rest = {} THEN "exhausted" ELSE Outcome

GivesUp == Using # "none" /\ Drops(Left)

Skips ==
    /\ Outcome = "pending" /\ Using = "none"
    /\ \E p \in Providers : p \in Left /\ Drops(Left \ {p})

EndsWith(how) ==
    /\ Using # "none"
    /\ Using' = "none" /\ Left' = {} /\ Outcome' = how

Moves ==
    \/ Stays \/ Begins \/ Uses \/ GivesUp \/ Skips
    \/ EndsWith("answered")
    \/ request.endpoint = "chat" /\ EndsWith("abandoned")

(* The provider asked last is the one in use.                              *)
LEMMA LastAsked ==
    ASSUME RoutingInv, GivenUp, stage = "asked"
    PROVE  asked # <<>> /\ Using \in Providers /\ Using # "none" /\ Outcome = "pending"
<1>1. asked # <<>>
  BY DEF GivenUp
<1>2. PICK S : asked \in Seq(S)
  BY DEF RoutingInv, IsSequence
<1>3. Len(asked) \in DOMAIN asked
  BY <1>1, <1>2
<1>4. asked[Len(asked)].provider \in Providers
  BY <1>3 DEF RoutingInv, TypeOK
<1>5. Using \in Providers
  BY <1>4 DEF Using
<1>6. \A p \in Providers : p # "none"
  BY RoutingConstants DEF Providers
<1>7. Outcome = "pending"
  BY DEF Outcome, RoutingInv, TypeOK
<1>8. QED
  BY <1>1, <1>5, <1>6, <1>7

(* Outside the loop a request was offered nobody.                          *)
LEMMA OutsideTheLoop ==
    /\ stage \notin {"loop", "asked"} => Left = {} /\ Using = "none"
    /\ stage \notin {"loop", "asked"} /\ asked = <<>> /\ answer \notin {"200", "502", "bad answer"} =>
          Outcome = "exhausted"
  BY DEF Left, Using, Outcome

LEMMA OutsideTheLoopThen ==
    /\ stage' \notin {"loop", "asked"} => Left' = {} /\ Using' = "none"
    /\ stage' \notin {"loop", "asked"} /\ asked' = <<>> /\ answer' \notin {"200", "502", "bad answer"} =>
          Outcome' = "exhausted"
  BY DEF Left, Using, Outcome

(* In the loop no provider is in use, and the request ends with the list.  *)
LEMMA InsideTheLoop ==
    ASSUME TypeOK, stage = "loop"
    PROVE  /\ Left = Remaining /\ Using = "none"
           /\ Outcome = IF Remaining = {} THEN "exhausted" ELSE "pending"
<1>1. answer = "none"
  BY DEF TypeOK
<1>2. QED
  BY <1>1 DEF Left, Using, Outcome

LEMMA InsideTheLoopThen ==
    ASSUME TypeOK', stage' = "loop"
    PROVE  /\ Left' = Remaining' /\ Using' = "none"
           /\ Outcome' = IF Remaining' = {} THEN "exhausted" ELSE "pending"
<1>1. answer' = "none"
  BY DEF TypeOK
<1>2. QED
  BY <1>1 DEF Left, Using, Outcome

LEMMA StepMoves ==
    ASSUME RoutingInv, RoutingInv', GivenUp, Next
    PROVE  request' = request /\ Moves
<1> USE DEF RoutingInv
<1>1. CASE AskAnthropic \/ Forbid \/ Crash \/ NoneEligible
  <2>1. /\ stage = "arrived" /\ stage' = "done" /\ asked = <<>> /\ answer = "none"
        /\ asked' = asked /\ request' = request
        /\ answer' \in {"direct", "403", "500", "503"}
    BY <1>1 DEF Planned, TypeOK, AskAnthropic, Forbid, Crash, NoneEligible, Plans, Done
  <2>2. Left = {} /\ Using = "none" /\ Outcome = "exhausted"
    BY <2>1, OutsideTheLoop
  <2>3. Left' = {} /\ Using' = "none" /\ Outcome' = "exhausted"
    BY <2>1, OutsideTheLoopThen
  <2>4. QED
    BY <2>1, <2>2, <2>3 DEF Moves, Stays
<1>2. CASE Start
  <2>1. /\ stage = "arrived" /\ stage' = "loop" /\ asked = <<>> /\ answer = "none"
        /\ request' = request
    BY <1>2 DEF Planned, TypeOK, Start, Plans
  <2>2. Using = "none" /\ Outcome = "exhausted"
    BY <2>1, OutsideTheLoop
  <2>3. /\ Left' = Remaining' /\ Using' = "none"
        /\ Outcome' = IF Remaining' = {} THEN "exhausted" ELSE "pending"
    BY <2>1, InsideTheLoopThen
  <2>4. Remaining' \subseteq Providers
    BY DEF TypeOK, Remaining
  <2>5. Begins
    BY <2>2, <2>3, <2>4 DEF Begins
  <2>6. QED
    BY <2>1, <2>5 DEF Moves
<1>3. ASSUME NEW p \in Providers, Unavailable(p) \/ PassOver(p)
      PROVE  request' = request /\ Moves
  <2>1. /\ stage = "loop" /\ stage' = "loop" /\ p \in Remaining
        /\ passed' = passed \cup {p} /\ pairs' = pairs /\ request' = request
    BY <1>3 DEF Unavailable, PassOver, InTurn
  <2>2. Remaining' = Remaining \ {p}
    BY <2>1 DEF Remaining
  <2>3. Left = Remaining /\ Using = "none" /\ Outcome = "pending"
    BY <2>1, InsideTheLoop
  <2>4. Drops(Left \ {p})
    BY <2>1, <2>2, <2>3, InsideTheLoopThen DEF Drops
  <2>5. QED
    BY <2>1, <2>3, <2>4 DEF Moves, Skips
<1>4. ASSUME NEW p \in Providers, Ask(p)
      PROVE  request' = request /\ Moves
  <2>1. PICK m \in Callable(p) :
           asked' = Append(asked, [provider |-> p, model |-> m, sent |-> upstream_model(p, m)])
    BY <1>4 DEF Ask
  <2>2. /\ stage = "loop" /\ stage' = "asked" /\ p \in Remaining
        /\ passed' = passed \cup {p} /\ pairs' = pairs /\ request' = request
    BY <1>4 DEF Ask, InTurn
  <2> DEFINE e == [provider |-> p, model |-> m, sent |-> upstream_model(p, m)]
  <2>3. e.provider = p
    OBVIOUS
  <2> HIDE DEF e
  <2>4. asked'[Len(asked')] = e
    <3>1. PICK S : asked \in Seq(S)
      BY DEF IsSequence
    <3>2. asked' = Append(asked, e)
      BY <2>1 DEF e
    <3>3. QED
      BY <3>1, <3>2
  <2>5. Using' = p /\ Outcome' = "pending" /\ Left' = Remaining \ {p}
    BY <2>2, <2>3, <2>4 DEF Using, Outcome, Left, Remaining, TypeOK
  <2>6. Left = Remaining /\ Using = "none" /\ Outcome = "pending"
    BY <2>2, InsideTheLoop
  <2>7. QED
    BY <2>2, <2>5, <2>6 DEF Moves, Uses
<1>5. CASE GoOn
  <2>1. /\ stage = "asked" /\ stage' = "loop"
        /\ passed' = passed /\ pairs' = pairs /\ request' = request
    BY <1>5 DEF GoOn
  <2>2. Using # "none" /\ Outcome = "pending" /\ Left = Remaining
    BY <2>1, LastAsked DEF Left
  <2>3. Drops(Left)
    BY <2>1, <2>2, InsideTheLoopThen DEF Drops, Remaining
  <2>4. QED
    BY <2>1, <2>2, <2>3 DEF Moves, GivesUp
<1>6. CASE Answer
  <2>1. /\ stage = "asked" /\ stage' = "done" /\ asked' = asked /\ request' = request
        /\ \/ answer' \in {"200", "502", "bad answer"}
           \/ answer' = "500" /\ request.endpoint = "chat"
    BY <1>6 DEF Answer, Done
  <2>2. Using # "none" /\ asked # <<>>
    BY <2>1, LastAsked
  <2>3. Left' = {} /\ Using' = "none"
    BY <2>1, OutsideTheLoopThen
  <2>4. /\ answer' \in {"200", "502", "bad answer"} => Outcome' = "answered"
        /\ answer' = "500" => Outcome' = "abandoned"
    BY <2>1, <2>2 DEF Outcome
  <2>5. QED
    BY <2>1, <2>2, <2>3, <2>4 DEF Moves, EndsWith
<1>7. CASE Exhausted
  <2>1. /\ stage = "loop" /\ stage' = "done" /\ Remaining = {} /\ answer' = "503"
        /\ request' = request
    BY <1>7 DEF Exhausted, Done
  <2>2. Left = {} /\ Using = "none" /\ Outcome = "exhausted"
    BY <2>1, InsideTheLoop
  <2>3. Left' = {} /\ Using' = "none" /\ Outcome' = "exhausted"
    BY <2>1 DEF Left, Using, Outcome
  <2>4. QED
    BY <2>1, <2>2, <2>3 DEF Moves, Stays
<1>8. QED
  BY <1>1, <1>2, <1>3, <1>4, <1>5, <1>6, <1>7 DEF Next

LEMMA PromiseStep ==
    ASSUME RoutingInv, RoutingInv', GivenUp, [Next]_vars
    PROVE  [Promise!FallbackNext]_(Promise!fallbackVars)
<1> DEFINE r == request.endpoint
           left == [e \in Endpoints |-> IF e = r THEN Left ELSE {}]
           using == [e \in Endpoints |-> IF e = r THEN Using ELSE "none"]
           outcome == [e \in Endpoints |-> IF e = r THEN Outcome ELSE "exhausted"]
           stutter == left' = left /\ using' = using /\ outcome' = outcome
<1>1. r \in Endpoints
  BY DEF RoutingInv, TypeOK, Requests
<1>2. request' = request /\ Moves
  <2>1. CASE UNCHANGED vars
    BY <2>1 DEF vars, Moves, Stays, Left, Using, Outcome, Remaining
  <2>2. CASE Next
    BY <2>2, StepMoves
  <2>3. QED
    BY <2>1, <2>2
<1>3. CASE Stays
  <2>1. stutter
    BY <1>2, <1>3 DEF Stays
  <2>2. QED
    BY <2>1 DEF Promise!fallbackVars
<1>4. CASE ~Stays
  <2>1. PICK c \in Endpoints : c = r /\ r' = r
    BY <1>1, <1>2
  <2>2. /\ left' = [left EXCEPT ![c] = Left'] /\ left'[c] = Left'
        /\ using' = [using EXCEPT ![c] = Using']
        /\ outcome' = [outcome EXCEPT ![c] = Outcome']
    BY <2>1
  <2>3. /\ left[c] = Left /\ using[c] = Using /\ outcome[c] = Outcome
        /\ using \in [Endpoints -> {using[e] : e \in Endpoints}]
        /\ outcome \in [Endpoints -> {outcome[e] : e \in Endpoints}]
        /\ left \in [Endpoints -> {left[e] : e \in Endpoints}]
    BY <2>1
  <2>4. \/ Promise!Begin(c) \/ Promise!GiveUp(c) \/ Promise!Answer(c) \/ Promise!Abandon(c)
        \/ \E p \in Providers : Promise!Use(c, p) \/ Promise!PassOver(c, p)
    <3> HIDE DEF left, using, outcome, r
    <3>1. CASE Begins
      BY <2>1, <2>2, <2>3, <3>1 DEF Begins, Promise!Begin, Promise!Ended, left, using, outcome, r
    <3>2. CASE GivesUp
      BY <2>1, <2>2, <2>3, <3>2 DEF GivesUp, Drops, Promise!GiveUp, Promise!Drop, left, using, outcome, r
    <3>3. CASE EndsWith("answered")
      BY <2>1, <2>2, <2>3, <3>3 DEF EndsWith, Promise!Answer, Promise!EndWith, left, using, outcome, r
    <3>4. CASE request.endpoint = "chat" /\ EndsWith("abandoned")
      BY <2>1, <2>2, <2>3, <3>4 DEF EndsWith, Promise!Abandon, Promise!EndWith, left, using, outcome, r
    <3>5. CASE Uses
      <4>0. PICK p \in Providers : p = Using'
        BY <3>5 DEF Uses
      <4>1. /\ p \in left[c] /\ using[c] = "none" /\ outcome[c] = "pending"
            /\ left' = [left EXCEPT ![c] = left[c] \ {p}]
            /\ using' = [using EXCEPT ![c] = p]
            /\ outcome' = outcome
        BY <2>2, <2>3, <3>5, <4>0 DEF Uses
      <4>2. Promise!Use(c, p)
        BY <2>2, <4>1 DEF Promise!Use, Promise!Ended, left, using, outcome, r
      <4>3. QED
        BY <4>2
    <3>6. CASE Skips
      <4>0. PICK p \in Providers : p \in Left /\ Drops(Left \ {p})
        BY <3>6 DEF Skips
      <4>1. /\ p \in left[c] /\ using[c] = "none" /\ outcome[c] = "pending"
            /\ left' = [left EXCEPT ![c] = left[c] \ {p}]
            /\ using' = [using EXCEPT ![c] = "none"]
            /\ outcome' = [outcome EXCEPT
                             ![c] = IF left[c] \ {p} = {} THEN "exhausted" ELSE outcome[c]]
        BY <2>2, <2>3, <3>6, <4>0 DEF Skips, Drops
      <4>2. Promise!PassOver(c, p)
        BY <2>2, <2>3, <4>1 DEF Promise!PassOver, Promise!Drop, Promise!Ended, left, using, outcome, r
      <4>3. QED
        BY <4>2
    <3>7. QED
      BY <1>2, <1>4, <3>1, <3>2, <3>3, <3>4, <3>5, <3>6 DEF Moves
  <2>5. QED
    BY <2>4 DEF Promise!FallbackNext
<1>5. QED
  BY <1>3, <1>4

(* The loop over the sorted pairs implements Fallback: each provider is    *)
(* used at most once, and a request is answered, exhausts the pairs or, at *)
(* /v1/chat/completions only, is abandoned.                                *)
THEOREM RoutingImplementsFallback == Spec => KeepsFallbackPromise
<1>1. Init => Promise!FallbackInit
  <2> SUFFICES ASSUME Init PROVE Promise!FallbackInit
    OBVIOUS
  <2>1. Left = {} /\ Using = "none" /\ Outcome = "exhausted"
    BY OutsideTheLoop DEF Init
  <2>2. QED
    BY <2>1 DEF Promise!FallbackInit
<1>2. Init => GivenUp
  BY GivenUpStarts
<1>3. RoutingInv /\ GivenUp /\ [Next]_vars => GivenUp'
  BY GivenUpKept
<1>4. RoutingInv /\ RoutingInv' /\ GivenUp /\ [Next]_vars =>
         [Promise!FallbackNext]_(Promise!fallbackVars)
  BY PromiseStep
<1>5. QED
  BY <1>1, <1>2, <1>3, <1>4, RoutingInvHolds, PTL DEF Spec, KeepsFallbackPromise, Promise!FallbackSpec

=============================================================================
