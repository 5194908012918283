------------------------------ MODULE Fallback ------------------------------
(***************************************************************************)
(* What routing a request with fallback promises: the request tries the    *)
(* providers it is offered one at a time, never goes back to one it gave   *)
(* up, and ends with what the one it uses answered, of use or not, or      *)
(* without an answer only when none is left.  A request that may abandon   *)
(* the rest can also end with a provider that fails to answer, never       *)
(* between two of them.                                                    *)
(***************************************************************************)
CONSTANTS
    Requests, Providers, None,
    MayAbandon  \* the requests that a call without an answer may end

VARIABLES
    left,       \* the providers a request has yet to try
    using,      \* the provider it uses, or None
    outcome     \* "pending", or how it ended: "answered", "exhausted"
                \* or "abandoned"

fallbackVars == <<left, using, outcome>>

FallbackInit ==
    /\ left = [r \in Requests |-> {}]
    /\ using = [r \in Requests |-> None]
    /\ outcome \in [Requests -> {"answered", "exhausted", "abandoned"}]

Ended(r) == outcome[r] # "pending"

(* It may be offered any providers; with nobody to ask it has ended        *)
(* already.                                                                *)
Begin(r) ==
    /\ Ended(r)
    /\ left'[r] \subseteq Providers
    /\ left' = [left EXCEPT ![r] = left'[r]]
    /\ outcome' = [outcome EXCEPT ![r] = IF left'[r] = {} THEN "exhausted" ELSE "pending"]
    /\ UNCHANGED using

Use(r, p) ==
    /\ ~Ended(r) /\ using[r] = None /\ p \in left[r]
    /\ using' = [using EXCEPT ![r] = p]
    /\ left' = [left EXCEPT ![r] = @ \ {p}]
    /\ UNCHANGED outcome

(* Gives up the provider in use, or passes over one without using it *)
Drop(r, rest) ==
    /\ using' = [using EXCEPT ![r] = None]
    /\ left' = [left EXCEPT ![r] = rest]
    /\ outcome' = [outcome EXCEPT ![r] = IF rest = {} THEN "exhausted" ELSE @]

GiveUp(r) == using[r] # None /\ Drop(r, left[r])

PassOver(r, p) == ~Ended(r) /\ using[r] = None /\ p \in left[r] /\ Drop(r, left[r] \ {p})

EndWith(r, how) ==
    /\ using[r] # None
    /\ using' = [using EXCEPT ![r] = None]
    /\ left' = [left EXCEPT ![r] = {}]
    /\ outcome' = [outcome EXCEPT ![r] = how]

Answer(r) == EndWith(r, "answered")

Abandon(r) == r \in MayAbandon /\ EndWith(r, "abandoned")

FallbackNext ==
    \E r \in Requests :
        \/ Begin(r) \/ GiveUp(r) \/ Answer(r) \/ Abandon(r)
        \/ \E p \in Providers : Use(r, p) \/ PassOver(r, p)

FallbackSpec == FallbackInit /\ [][FallbackNext]_fallbackVars

=============================================================================
