------------------------------- MODULE Gateway -------------------------------
(***************************************************************************)
(* The life of the process (lifespan() of api/app.py) and what goes on in  *)
(* it beside the requests: the discovery of models and the key set of the  *)
(* token issuer.                                                           *)
(*                                                                         *)
(* Every stateful module exists twice (start.py).  The lifespan makes the  *)
(* client of one router, and the discovery and the admin routes use that   *)
(* one; the requests have the other router, whose client is made by the    *)
(* first request that comes to call_provider().  A token is checked before *)
(* that, with get_http_client(), which raises while there is no client.    *)
(***************************************************************************)
EXTENDS Discovery, KeySet

CONSTANTS MasterKey     \* whether CHIMERA_API_KEY is set

VARIABLES
    phase,      \* where lifespan() is
    requests    \* whether the requests' router has its client

gatewayVars == <<discoveryVars, keySetVars, phase, requests>>

Phases == {"starting", "discovering", "serving", "closing", "closed"}

GatewayTypeOK ==
    /\ DiscoveryTypeOK
    /\ KeySetTypeOK
    /\ phase \in Phases
    /\ requests \in BOOLEAN

GatewayInit ==
    /\ DiscoveryInit
    /\ KeySetInit
    /\ phase = "starting"
    /\ requests = FALSE

-----------------------------------------------------------------------------
(* The lifespan.  Its client is open until "closed".                       *)

(* The first refresh is awaited before the first request is taken.         *)
Discover ==
    /\ phase = "starting"
    /\ Call(Own)
    /\ phase' = "discovering"
    /\ UNCHANGED <<keySetVars, requests>>

Serve ==
    /\ phase = "discovering" /\ refresher[Own] = "off"
    /\ phase' = "serving"
    /\ UNCHANGED <<discoveryVars, keySetVars, requests>>

(* background_refresher(), each time it has slept *)
HourlyRefresh ==
    /\ phase = "serving"
    /\ Call(Own)
    /\ UNCHANGED <<keySetVars, phase, requests>>

(* The server lets its requests end before it ends the lifespan; the tasks *)
(* started by the admin route it leaves alone.                             *)
StopRefresher ==
    /\ phase = "serving" /\ \A t \in Tokens : token[t] = "none"
    /\ Cancel(Own)
    /\ phase' = "closing"
    /\ UNCHANGED <<keySetVars, requests>>

CloseClient ==
    /\ phase = "closing"
    /\ phase' = "closed"
    /\ UNCHANGED <<discoveryVars, keySetVars, requests>>

(* The process ends, or is killed at any time, and another one is started. *)
Restart ==
    /\ found' = [p \in Providers |-> 0]
    /\ lock' = Nobody
    /\ refresher' = [t \in Refreshers |-> "off"]
    /\ got' = Nothing(Pending) /\ asked' = Nothing(0)
    /\ cache' = 0 /\ cacheAge' = TTL
    /\ token' = [t \in Tokens |-> "none"]
    /\ since' = [t \in Tokens |-> 0] /\ keys' = [t \in Tokens |-> 0]
    /\ phase' = "starting"
    /\ requests' = FALSE
    /\ UNCHANGED <<upstream, issuer, retired>>

-----------------------------------------------------------------------------

ManualRefresh ==
    /\ phase = "serving"
    /\ \E t \in Manual : Call(t)
    /\ UNCHANGED <<keySetVars, phase, requests>>

RefreshGoesOn(t) ==
    /\ \/ Acquire(t)
       \/ \E p \in Providers : Answered(t, p, phase # "closed")
       \/ Write(t)
    /\ UNCHANGED <<keySetVars, phase, requests>>

(* A request without a token passes only while no master key is set.       *)
OpenRequest ==
    /\ phase = "serving" /\ ~MasterKey /\ ~requests
    /\ requests' = TRUE
    /\ UNCHANGED <<discoveryVars, keySetVars, phase>>

TokenArrives(t) ==
    /\ phase = "serving" /\ requests
    /\ CheckCached(t) \/ Fetch(t)
    /\ UNCHANGED <<discoveryVars, phase, requests>>

TokenGoesOn(t) ==
    /\ IssuerAnswers(t) \/ Store(t) \/ Decided(t)
    /\ UNCHANGED <<discoveryVars, phase, requests>>

Environment ==
    \/ \E p \in Providers : UpstreamChanges(p) /\ UNCHANGED <<keySetVars, phase, requests>>
    \/ (IssuerRotates \/ Age) /\ UNCHANGED <<discoveryVars, phase, requests>>

GatewayNext ==
    \/ Discover \/ Serve \/ HourlyRefresh \/ StopRefresher \/ CloseClient \/ Restart
    \/ ManualRefresh \/ OpenRequest
    \/ \E t \in Refreshers : RefreshGoesOn(t)
    \/ \E t \in Tokens : TokenArrives(t) \/ TokenGoesOn(t)
    \/ Environment

GatewaySpec == GatewayInit /\ [][GatewayNext]_gatewayVars

(* Each fetch is answered or times out; the lock is handed on in the order *)
(* in which it was asked for, so that no refresh waits for ever.           *)
RefreshFairness == \A t \in Refreshers :
    /\ SF_gatewayVars(Acquire(t) /\ UNCHANGED <<keySetVars, phase, requests>>)
    /\ WF_gatewayVars(RefreshGoesOn(t))

FairGatewaySpec == GatewaySpec /\ RefreshFairness

-----------------------------------------------------------------------------
(* Properties *)

(* Within one process a list that was found never gives way to an older    *)
(* one, although manual refreshes run beside the hourly one and each waits *)
(* for its slowest provider.                                               *)
NoOldList == [][Restart \/ \A p \in Providers : found'[p] >= found[p]]_gatewayVars

(* A refresh that comes to its end has brought every list to what it was   *)
(* when the refresh was called for, or newer, save where the fetch failed; *)
(* waiting for another refresh to finish is no substitute for it.          *)
RefreshIsFresh ==
    [][\A t \in Refreshers :
          refresher[t] # "off" /\ refresher'[t] = "off" /\ ~StopRefresher /\ ~Restart =>
              \A p \in Providers : got[t][p] = Failed \/ found'[p] >= asked[t][p]]_gatewayVars

(* A token is never checked with a key set that was replaced TTL ago,      *)
(* although late answers of concurrent fetches overwrite newer ones.       *)
RetiredKeysRefused ==
    [][\A t \in Tokens :
          token[t] # "checked" /\ token'[t] = "checked" /\ keys'[t] < issuer =>
              retired[keys'[t]] < TTL]_gatewayVars

(* Every refresh ends: the lock comes free after each one, the cancelled   *)
(* ones included, and after the client was closed.                         *)
RefreshEnds == \A t \in Refreshers : refresher[t] = "queued" ~> refresher[t] = "off"

=============================================================================
