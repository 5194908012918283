---------------------------- MODULE GatewayProofs ----------------------------
(***************************************************************************)
(* Proofs for Gateway.  Discovery and key sets do not touch each other, so *)
(* each has an invariant of its own; a step of one leaves the other's      *)
(* variables unchanged, and Restart establishes both anew.                 *)
(***************************************************************************)
EXTENDS Gateway, TLAPS

(* The lock is held by the refresh that fetches, whose answers are no      *)
(* older than what was found or asked for; nothing is newer than upstream. *)
LockIsHeld == \A t \in Refreshers : refresher[t] = "fetching" <=> lock = t

NothingFromTheFuture ==
    \A p \in Providers :
        /\ found[p] <= upstream[p]
        /\ \A t \in Refreshers : asked[t][p] <= upstream[p]

AnswersAreFresh ==
    \A t \in Refreshers, p \in Providers :
        /\ refresher[t] # "fetching" => got[t][p] = Pending
        /\ got[t][p] > Failed => /\ found[p] <= got[t][p]
                                 /\ asked[t][p] <= got[t][p]
                                 /\ got[t][p] <= upstream[p]

DiscoveryInv == DiscoveryTypeOK /\ LockIsHeld /\ NothingFromTheFuture /\ AnswersAreFresh

(* A key set in the cache, or on its way there, was retired no longer ago  *)
(* than its time in the cache tells.                                       *)
CacheToldByAge == cache <= issuer /\ (cache \in 1 .. issuer - 1 => retired[cache] <= cacheAge)

AnswerToldByAge ==
    \A t \in Tokens : token[t] = "sent" =>
        /\ keys[t] \in 1 .. issuer
        /\ keys[t] < issuer => retired[keys[t]] <= since[t]

KeySetInv == KeySetTypeOK /\ CacheToldByAge /\ AnswerToldByAge

GatewayInv == DiscoveryInv /\ KeySetInv /\ phase \in Phases /\ requests \in BOOLEAN

DiscoveryStep ==
    \/ \E t \in Refreshers :
          \/ Call(t) \/ Acquire(t) \/ Write(t) \/ Cancel(t)
          \/ \E p \in Providers, open \in BOOLEAN : Answered(t, p, open)
    \/ \E p \in Providers : UpstreamChanges(p)

KeySetStep ==
    \/ \E t \in Tokens :
          CheckCached(t) \/ Fetch(t) \/ IssuerAnswers(t) \/ Store(t) \/ Decided(t)
    \/ IssuerRotates \/ Age

-----------------------------------------------------------------------------

LEMMA InitEstablishes == GatewayInit => GatewayInv
<1> SUFFICES ASSUME GatewayInit PROVE GatewayInv
  OBVIOUS
<1>1. DiscoveryInv
  BY DiscoveryConstants DEF GatewayInit, DiscoveryInit, DiscoveryInv, DiscoveryTypeOK, LockIsHeld,
     NothingFromTheFuture, AnswersAreFresh, Nothing, Refreshers, Pending, Failed
<1>2. KeySetInv
  BY KeySetConstants DEF GatewayInit, KeySetInit, KeySetInv, KeySetTypeOK, CacheToldByAge, AnswerToldByAge
<1>3. QED
  BY <1>1, <1>2 DEF GatewayInit, GatewayInv, Phases

(* Every step is one of the discovery, one of the key sets, a restart, or  *)
(* leaves both alone.                                                      *)
LEMMA StepsApart ==
    ASSUME GatewayNext
    PROVE  \/ DiscoveryStep /\ UNCHANGED keySetVars
           \/ KeySetStep /\ UNCHANGED discoveryVars
           \/ Restart
           \/ UNCHANGED <<discoveryVars, keySetVars>>
<1>1. CASE Discover \/ HourlyRefresh \/ StopRefresher
  <2>1. Own \in Refreshers
    BY DEF Refreshers
  <2>2. QED
    BY <1>1, <2>1 DEF Discover, HourlyRefresh, StopRefresher, DiscoveryStep
<1>2. CASE Serve \/ CloseClient \/ OpenRequest
  BY <1>2 DEF Serve, CloseClient, OpenRequest
<1>3. CASE ManualRefresh
  BY <1>3 DEF ManualRefresh, Refreshers, DiscoveryStep
<1>4. ASSUME NEW t \in Refreshers, RefreshGoesOn(t) PROVE DiscoveryStep /\ UNCHANGED keySetVars
  <2>1. (phase # "closed") \in BOOLEAN
    OBVIOUS
  <2>2. QED
    BY <1>4, <2>1 DEF RefreshGoesOn, DiscoveryStep
<1>5. ASSUME NEW t \in Tokens, TokenArrives(t) \/ TokenGoesOn(t)
      PROVE  KeySetStep /\ UNCHANGED discoveryVars
  BY <1>5 DEF TokenArrives, TokenGoesOn, KeySetStep
<1>6. CASE Environment
  BY <1>6 DEF Environment, DiscoveryStep, KeySetStep
<1>7. QED
  BY <1>1, <1>2, <1>3, <1>4, <1>5, <1>6 DEF GatewayNext

LEMMA RestartEstablishes == GatewayInv /\ Restart => GatewayInv'
<1> SUFFICES ASSUME GatewayInv, Restart PROVE GatewayInv'
  OBVIOUS
<1>1. DiscoveryInv'
  BY DiscoveryConstants DEF Restart, GatewayInv, DiscoveryInv, DiscoveryTypeOK, LockIsHeld,
     NothingFromTheFuture, AnswersAreFresh, Nothing, Refreshers, Pending, Failed
<1>2. KeySetInv'
  BY KeySetConstants DEF Restart, GatewayInv, KeySetInv, KeySetTypeOK, CacheToldByAge, AnswerToldByAge
<1>3. QED
  BY <1>1, <1>2 DEF Restart, GatewayInv, Phases

-----------------------------------------------------------------------------

LEMMA DiscoveryTypeKept == DiscoveryInv /\ DiscoveryStep => DiscoveryTypeOK'
<1> SUFFICES ASSUME DiscoveryInv, DiscoveryStep PROVE DiscoveryTypeOK'
  OBVIOUS
<1> USE DiscoveryConstants DEF DiscoveryInv, DiscoveryTypeOK, Pending, Failed
<1>1. ASSUME NEW t \in Refreshers, Call(t) \/ Acquire(t) PROVE DiscoveryTypeOK'
  BY <1>1 DEF Call, Acquire, Fetching
<1>2. ASSUME NEW t \in Refreshers, Write(t) \/ Cancel(t) PROVE DiscoveryTypeOK'
  <2>1. \A p \in Providers : found'[p] \in 0 .. Versions + 1
    BY <1>2 DEF Write, Cancel
  <2>2. found' \in [Providers -> 0 .. Versions + 1]
    BY <1>2, <2>1 DEF Write, Cancel
  <2>3. [p \in Providers |-> Pending] \in [Providers -> Pending .. Versions + 1]
    BY DEF Pending
  <2>4. [p \in Providers |-> 0] \in [Providers -> 0 .. Versions + 1]
    OBVIOUS
  <2>5. Ends(t) /\ upstream' = upstream /\ lock' \in Refreshers \cup {Nobody}
    BY <1>2 DEF Write, Cancel
  <2>6. QED
    BY <2>2, <2>3, <2>4, <2>5 DEF Ends
<1>3. ASSUME NEW t \in Refreshers, NEW p \in Providers, NEW open \in BOOLEAN, Answered(t, p, open)
      PROVE  DiscoveryTypeOK'
  <2>1. PICK v \in {Failed} \cup {upstream[p]} : got' = [got EXCEPT ![t][p] = v]
    BY <1>3 DEF Answered
  <2>2. v \in Pending .. Versions + 1
    BY <2>1
  <2>3. QED
    BY <1>3, <2>1, <2>2 DEF Answered
<1>4. ASSUME NEW p \in Providers, UpstreamChanges(p) PROVE DiscoveryTypeOK'
  BY <1>4 DEF UpstreamChanges
<1>5. QED
  BY <1>1, <1>2, <1>3, <1>4 DEF DiscoveryStep

LEMMA DiscoveryInvKept == DiscoveryInv /\ DiscoveryStep => DiscoveryInv'
<1> SUFFICES ASSUME DiscoveryInv, DiscoveryStep PROVE DiscoveryInv'
  OBVIOUS
<1>0. DiscoveryTypeOK'
  BY DiscoveryTypeKept
<1> USE DiscoveryConstants, <1>0 DEF DiscoveryInv, DiscoveryTypeOK, Pending, Failed, LockIsHeld,
        NothingFromTheFuture, AnswersAreFresh
<1>1. ASSUME NEW t \in Refreshers, Call(t) PROVE DiscoveryInv'
  BY <1>1 DEF Call
<1>2. ASSUME NEW t \in Refreshers, Acquire(t) PROVE DiscoveryInv'
  <2>1. LockIsHeld'
    BY <1>2 DEF Acquire, Fetching, Refreshers
  <2>2. NothingFromTheFuture' /\ AnswersAreFresh'
    BY <1>2 DEF Acquire, Fetching
  <2>3. QED
    BY <2>1, <2>2
<1>3. ASSUME NEW t \in Refreshers, Write(t) PROVE DiscoveryInv'
  <2>1. lock = t
    BY <1>3 DEF Write
  <2>2. LockIsHeld'
    BY <1>3, <2>1 DEF Write, Ends, Refreshers
  <2>3. \A s \in Refreshers \ {t} : refresher[s] # "fetching"
    BY <2>1
  <2>4. NothingFromTheFuture'
    BY <1>3 DEF Write, Ends
  <2>5. AnswersAreFresh'
    BY <1>3, <2>3 DEF Write, Ends
  <2>6. QED
    BY <2>2, <2>4, <2>5
<1>4. ASSUME NEW t \in Refreshers, Cancel(t) PROVE DiscoveryInv'
  <2>1. LockIsHeld'
    BY <1>4 DEF Cancel, Ends, Refreshers
  <2>2. NothingFromTheFuture' /\ AnswersAreFresh'
    BY <1>4 DEF Cancel, Ends
  <2>3. QED
    BY <2>1, <2>2
<1>5. ASSUME NEW t \in Refreshers, NEW p \in Providers, NEW open \in BOOLEAN, Answered(t, p, open)
      PROVE  DiscoveryInv'
  <2>1. PICK v \in {Failed} \cup {upstream[p]} : got' = [got EXCEPT ![t][p] = v]
    BY <1>5 DEF Answered
  <2>2. LockIsHeld' /\ NothingFromTheFuture'
    BY <1>5 DEF Answered
  <2>3. AnswersAreFresh'
    BY <1>5, <2>1 DEF Answered
  <2>4. QED
    BY <2>2, <2>3
<1>6. ASSUME NEW p \in Providers, UpstreamChanges(p) PROVE DiscoveryInv'
  <2>1. \A q \in Providers : upstream[q] <= upstream'[q]
    BY <1>6 DEF UpstreamChanges
  <2>2. LockIsHeld'
    BY <1>6 DEF UpstreamChanges
  <2>3. NothingFromTheFuture' /\ AnswersAreFresh'
    BY <1>6, <2>1 DEF UpstreamChanges
  <2>4. QED
    BY <2>2, <2>3
<1>7. QED
  BY <1>1, <1>2, <1>3, <1>4, <1>5, <1>6 DEF DiscoveryStep

-----------------------------------------------------------------------------

LEMMA OlderIsMonotone ==
    ASSUME NEW a \in 0 .. TTL, NEW b \in 0 .. TTL, a <= b
    PROVE  /\ Older(a) \in 0 .. TTL
           /\ Older(a) <= Older(b)
           /\ Older(a) <= b + 1
BY KeySetConstants DEF Older

LEMMA KeySetInvKept == KeySetInv /\ KeySetStep => KeySetInv'
<1> SUFFICES ASSUME KeySetInv, KeySetStep PROVE KeySetInv'
  OBVIOUS
<1> USE KeySetConstants DEF KeySetInv, KeySetTypeOK, CacheToldByAge, AnswerToldByAge
<1>1. ASSUME NEW t \in Tokens, CheckCached(t) PROVE KeySetInv'
  BY <1>1 DEF CheckCached
<1>2. ASSUME NEW t \in Tokens, Fetch(t) PROVE KeySetInv'
  BY <1>2 DEF Fetch
<1>3. ASSUME NEW t \in Tokens, IssuerAnswers(t) PROVE KeySetInv'
  BY <1>3 DEF IssuerAnswers
<1>4. ASSUME NEW t \in Tokens, Store(t) PROVE KeySetInv'
  BY <1>4 DEF Store
<1>5. ASSUME NEW t \in Tokens, Decided(t) PROVE KeySetInv'
  BY <1>5 DEF Decided
<1>6. CASE IssuerRotates
  BY <1>6 DEF IssuerRotates
<1>7. CASE Age
  <2>1. KeySetTypeOK'
    <3>1. \A k \in 1 .. KeySets : Older(retired[k]) \in 0 .. TTL
      BY DEF Older
    <3>2. retired' \in [1 .. KeySets -> 0 .. TTL]
      BY <1>7, <3>1 DEF Age, TimePasses
    <3>3. cacheAge' \in 0 .. TTL
      BY <1>7, OlderIsMonotone DEF Age, TimePasses
    <3>4. \A t \in Tokens : since'[t] \in 0 .. FetchTime
      BY <1>7 DEF Age, TimePasses
    <3>5. since' \in [Tokens -> 0 .. FetchTime]
      BY <1>7, <3>4 DEF Age, TimePasses
    <3>6. QED
      BY <1>7, <3>2, <3>3, <3>5 DEF Age, TimePasses
  <2>2. CacheToldByAge'
    <3>1. cache \in 1 .. issuer - 1 => cache \in 1 .. KeySets /\ retired'[cache] = Older(retired[cache])
      BY <1>7 DEF Age, TimePasses
    <3>2. cache \in 1 .. issuer - 1 => Older(retired[cache]) <= Older(cacheAge)
      BY <3>1, OlderIsMonotone
    <3>3. QED
      BY <1>7, <3>1, <3>2 DEF Age, TimePasses
  <2>3. ASSUME NEW t \in Tokens, token'[t] = "sent"
        PROVE  /\ keys'[t] \in 1 .. issuer'
               /\ keys'[t] < issuer' => retired'[keys'[t]] <= since'[t]
    <3>1. since'[t] = since[t] + 1 /\ keys'[t] = keys[t] /\ issuer' = issuer /\ token[t] = "sent"
      BY <1>7, <2>3 DEF Age, TimePasses, Fetchers
    <3>2. CASE keys[t] < issuer
      <4>1. keys[t] \in 1 .. KeySets
        BY <3>1, <3>2
      <4>2. retired'[keys[t]] = Older(retired[keys[t]])
        BY <1>7, <3>1, <3>2, <4>1 DEF Age, TimePasses
      <4>3. retired[keys[t]] \in 0 .. TTL /\ since[t] \in 0 .. TTL /\ retired[keys[t]] <= since[t]
        BY <3>1, <3>2, <4>1
      <4>4. Older(retired[keys[t]]) <= since[t] + 1
        BY <4>3, OlderIsMonotone
      <4>5. QED
        BY <3>1, <3>2, <4>2, <4>4
    <3>3. QED
      BY <3>1, <3>2
  <2>4. QED
    BY <2>1, <2>2, <2>3
<1>8. QED
  BY <1>1, <1>2, <1>3, <1>4, <1>5, <1>6, <1>7 DEF KeySetStep

-----------------------------------------------------------------------------

LEMMA GatewayInvKept == GatewayInv /\ [GatewayNext]_gatewayVars => GatewayInv'
<1> SUFFICES ASSUME GatewayInv, [GatewayNext]_gatewayVars PROVE GatewayInv'
  OBVIOUS
<1>1. (DiscoveryInv /\ UNCHANGED discoveryVars => DiscoveryInv')
  BY DEF DiscoveryInv, DiscoveryTypeOK, LockIsHeld, NothingFromTheFuture, AnswersAreFresh, discoveryVars
<1>2. (KeySetInv /\ UNCHANGED keySetVars => KeySetInv')
  BY DEF KeySetInv, KeySetTypeOK, CacheToldByAge, AnswerToldByAge, keySetVars
<1>3. CASE UNCHANGED gatewayVars
  BY <1>1, <1>2, <1>3 DEF GatewayInv, gatewayVars
<1>4. CASE Restart
  BY <1>4, RestartEstablishes
<1>5. CASE GatewayNext /\ ~Restart
  <2>1. DiscoveryInv' /\ KeySetInv'
    BY <1>1, <1>2, <1>5, StepsApart, DiscoveryInvKept, KeySetInvKept DEF GatewayInv
  <2>2. phase' \in Phases /\ requests' \in BOOLEAN
    BY <1>5 DEF GatewayInv, GatewayNext, Discover, Serve, HourlyRefresh, StopRefresher, CloseClient,
       ManualRefresh, OpenRequest, RefreshGoesOn, TokenArrives, TokenGoesOn, Environment, Phases
  <2>3. QED
    BY <2>1, <2>2 DEF GatewayInv
<1>6. QED
  BY <1>3, <1>4, <1>5

-----------------------------------------------------------------------------

LEMMA GatewayInvHolds == GatewaySpec => []GatewayInv
<1>1. QED
  BY InitEstablishes, GatewayInvKept, PTL DEF GatewaySpec

(* Every variable of the process keeps its type: in particular no fetch of *)
(* a key set outlives its timeout.                                         *)
THEOREM GatewayTypeCorrect == GatewaySpec => []GatewayTypeOK
<1>1. GatewayInv => GatewayTypeOK
  BY DEF GatewayInv, GatewayTypeOK, DiscoveryInv, KeySetInv
<1>2. QED
  BY <1>1, GatewayInvHolds, PTL

(* Refreshes run one after the other, so what one of them writes is never  *)
(* older than what an earlier one wrote, for any number of manual ones.    *)
THEOREM NoOldListCorrect == GatewaySpec => NoOldList
<1>1. GatewayInv /\ [GatewayNext]_gatewayVars
      => [Restart \/ \A p \in Providers : found'[p] >= found[p]]_gatewayVars
  <2> SUFFICES ASSUME GatewayInv, GatewayNext, ~Restart
               PROVE  \A p \in Providers : found'[p] >= found[p]
    OBVIOUS
  <2> USE DEF GatewayInv, DiscoveryInv, DiscoveryTypeOK, Pending, Failed
  <2>1. CASE UNCHANGED discoveryVars
    BY <2>1 DEF discoveryVars
  <2>2. CASE DiscoveryStep
    <3>1. ASSUME NEW t \in Refreshers, Write(t) PROVE \A p \in Providers : found'[p] >= found[p]
      <4>1. ASSUME NEW p \in Providers PROVE found'[p] >= found[p]
        <5>1. found'[p] = IF got[t][p] = Failed THEN found[p] ELSE got[t][p]
          BY <3>1 DEF Write
        <5>2. got[t][p] \in 0 .. Versions + 1 /\ found[p] \in 0 .. Versions + 1
          BY <3>1 DEF Write
        <5>3. QED
          BY <5>1, <5>2, DiscoveryConstants DEF AnswersAreFresh
      <4>2. QED
        BY <4>1
    <3>2. QED
      BY <2>2, <3>1 DEF DiscoveryStep, Call, Acquire, Fetching, Cancel, Answered, UpstreamChanges
  <2>3. QED
    BY <2>1, <2>2, StepsApart
<1>2. QED
  BY <1>1, GatewayInvHolds, PTL DEF GatewaySpec, NoOldList

(* A refresh fetches after it was called for, so what it writes is at      *)
(* least as new as what upstream had then.                                 *)
THEOREM RefreshIsFreshCorrect == GatewaySpec => RefreshIsFresh
<1> DEFINE Fresh(t) ==
        refresher[t] # "off" /\ refresher'[t] = "off" /\ ~StopRefresher /\ ~Restart =>
            \A p \in Providers : got[t][p] = Failed \/ found'[p] >= asked[t][p]
<1>1. GatewayInv /\ [GatewayNext]_gatewayVars => [\A t \in Refreshers : Fresh(t)]_gatewayVars
  <2> SUFFICES ASSUME GatewayInv, GatewayNext, NEW t \in Refreshers,
                      refresher[t] # "off", refresher'[t] = "off", ~StopRefresher, ~Restart,
                      NEW p \in Providers
               PROVE  got[t][p] = Failed \/ found'[p] >= asked[t][p]
    OBVIOUS
  <2> USE DEF GatewayInv, DiscoveryInv, DiscoveryTypeOK, Pending, Failed
  <2>1. Write(t)
    <3>1. Own \in Refreshers
      BY DEF Refreshers
    <3>2. CASE Discover \/ HourlyRefresh \/ ManualRefresh
      BY <3>1, <3>2 DEF Discover, HourlyRefresh, ManualRefresh, Call, Refreshers
    <3>3. ASSUME NEW s \in Refreshers, RefreshGoesOn(s) PROVE Write(t)
      <4>1. CASE Acquire(s)
        BY <4>1 DEF Acquire, Fetching
      <4>2. CASE Write(s)
        BY <4>2 DEF Write, Ends
      <4>3. QED
        BY <3>3, <4>1, <4>2 DEF RefreshGoesOn, Answered
    <3>4. QED
      BY <3>2, <3>3 DEF GatewayNext, Serve, CloseClient, OpenRequest, TokenArrives, TokenGoesOn,
         Environment, UpstreamChanges, discoveryVars
  <2>2. QED
    BY <2>1 DEF Write, AnswersAreFresh
<1>2. QED
  BY <1>1, GatewayInvHolds, PTL DEF GatewaySpec, RefreshIsFresh

(* No token is checked with a key set that was replaced TTL ago, for any   *)
(* number of fetches that overtake each other.                             *)
THEOREM RetiredKeysRefusedCorrect == GatewaySpec => RetiredKeysRefused
<1> DEFINE Refused(t) ==
        token[t] # "checked" /\ token'[t] = "checked" /\ keys'[t] < issuer =>
            retired[keys'[t]] < TTL
<1>1. GatewayInv /\ [GatewayNext]_gatewayVars => [\A t \in Tokens : Refused(t)]_gatewayVars
  <2> SUFFICES ASSUME GatewayInv, GatewayNext, NEW t \in Tokens,
                      token[t] # "checked", token'[t] = "checked", keys'[t] < issuer
               PROVE  retired[keys'[t]] < TTL
    OBVIOUS
  <2> USE KeySetConstants DEF GatewayInv, KeySetInv, KeySetTypeOK, CacheToldByAge, AnswerToldByAge
  <2>1. CheckCached(t) \/ Store(t)
    <3>1. ~Restart
      BY DEF Restart
    <3>2. token' # token
      OBVIOUS
    <3>3. KeySetStep
      BY <3>1, <3>2, StepsApart DEF keySetVars
    <3>4. QED
      BY <3>2, <3>3 DEF KeySetStep, CheckCached, Fetch, IssuerAnswers, Store, Decided, IssuerRotates, Age, TimePasses
  <2>2. CASE CheckCached(t)
    BY <2>2 DEF CheckCached, CacheFresh
  <2>3. CASE Store(t)
    BY <2>3 DEF Store
  <2>4. QED
    BY <2>1, <2>2, <2>3
<1>2. QED
  BY <1>1, GatewayInvHolds, PTL DEF GatewaySpec, RetiredKeysRefused

=============================================================================
