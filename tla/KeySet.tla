------------------------------- MODULE KeySet --------------------------------
(***************************************************************************)
(* The key set of the token issuer (_fetch_jwks() of api/routes/admin.py): *)
(* fetched when there is none or when its age has reached _JWKS_TTL, by    *)
(* every validation that finds it so; _JWKS_AT is the time from before the *)
(* fetch.  Times are ages in the model, and an age of TTL stands for every *)
(* older one: nothing tells them apart.                                    *)
(***************************************************************************)
EXTENDS Integers

CONSTANTS
    Tokens,     \* validations going on at the same time
    TTL,        \* _JWKS_TTL: 3600 s
    FetchTime,  \* how long a fetch may take: timeout=10
    KeySets     \* bound of the model: the key sets the issuer goes through

ASSUME KeySetConstants ==
    /\ TTL \in Nat /\ FetchTime \in 0 .. TTL - 1
    /\ KeySets \in Nat \ {0}

VARIABLES
    issuer,     \* the key set in force
    retired,    \* the age of the retirement of each earlier one
    cache,      \* _JWKS_CACHE, 0 while it is empty
    cacheAge,   \* now - _JWKS_AT
    token,      \* where each validation is
    since,      \* how long ago it began to fetch
    keys        \* the key set it was sent, or checked its token with

keySetVars == <<issuer, retired, cache, cacheAge, token, since, keys>>

KeySetTypeOK ==
    /\ issuer \in 1 .. KeySets
    /\ retired \in [1 .. KeySets -> 0 .. TTL]
    /\ cache \in 0 .. KeySets
    /\ cacheAge \in 0 .. TTL
    /\ token \in [Tokens -> {"none", "asking", "sent", "checked"}]
    /\ since \in [Tokens -> 0 .. FetchTime]
    /\ keys \in [Tokens -> 0 .. KeySets]

KeySetInit ==
    /\ issuer = 1
    /\ retired = [k \in 1 .. KeySets |-> 0]
    /\ cache = 0
    /\ cacheAge = TTL
    /\ token = [t \in Tokens |-> "none"]
    /\ since = [t \in Tokens |-> 0]
    /\ keys = [t \in Tokens |-> 0]

-----------------------------------------------------------------------------

CacheFresh == cache # 0 /\ cacheAge < TTL

(* The signature is checked with the key set of the cache ...              *)
CheckCached(t) ==
    /\ token[t] = "none"
    /\ CacheFresh
    /\ token' = [token EXCEPT ![t] = "checked"]
    /\ keys' = [keys EXCEPT ![t] = cache]
    /\ UNCHANGED <<issuer, retired, cache, cacheAge, since>>

(* ... or with one fetched for this token, however many others are.        *)
Fetch(t) ==
    /\ token[t] = "none"
    /\ ~CacheFresh
    /\ token' = [token EXCEPT ![t] = "asking"]
    /\ UNCHANGED <<issuer, retired, cache, cacheAge, since, keys>>

IssuerAnswers(t) ==
    /\ token[t] = "asking"
    /\ token' = [token EXCEPT ![t] = "sent"]
    /\ keys' = [keys EXCEPT ![t] = issuer]
    /\ UNCHANGED <<issuer, retired, cache, cacheAge, since>>

\* faulty: the time from after the fetch, which RetiredKeysRefused would reveal
StoresAtArrival(t) ==
    /\ token[t] = "sent"
    /\ cache' = keys[t]
    /\ cacheAge' = 0
    /\ token' = [token EXCEPT ![t] = "checked"]
    /\ since' = [since EXCEPT ![t] = 0]
    /\ UNCHANGED <<issuer, retired, keys>>

(* A late answer may replace a newer one, but it brings its own time.      *)
Store(t) ==
    /\ token[t] = "sent"
    /\ cache' = keys[t]
    /\ cacheAge' = since[t]
    /\ token' = [token EXCEPT ![t] = "checked"]
    /\ since' = [since EXCEPT ![t] = 0]
    /\ UNCHANGED <<issuer, retired, keys>>

(* The request is let in or refused; a failed fetch refuses it.            *)
Decided(t) ==
    /\ token[t] # "none"
    /\ token' = [token EXCEPT ![t] = "none"]
    /\ since' = [since EXCEPT ![t] = 0]
    /\ keys' = [keys EXCEPT ![t] = 0]
    /\ UNCHANGED <<issuer, retired, cache, cacheAge>>

IssuerRotates ==
    /\ issuer < KeySets
    /\ issuer' = issuer + 1
    /\ retired' = [retired EXCEPT ![issuer] = 0]
    /\ UNCHANGED <<cache, cacheAge, token, since, keys>>

Older(age) == IF age < TTL THEN age + 1 ELSE TTL

Fetchers == {t \in Tokens : token[t] \in {"asking", "sent"}}

TimePasses ==
    /\ retired' = [k \in 1 .. KeySets |-> IF k < issuer THEN Older(retired[k]) ELSE retired[k]]
    /\ cacheAge' = Older(cacheAge)
    /\ since' = [t \in Tokens |-> IF t \in Fetchers THEN since[t] + 1 ELSE since[t]]
    /\ UNCHANGED <<issuer, cache, token, keys>>

(* ... but never more than FetchTime while a fetch is under way.           *)
Age == (\A t \in Fetchers : since[t] < FetchTime) /\ TimePasses

=============================================================================
