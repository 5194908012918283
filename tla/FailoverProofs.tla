--------------------------- MODULE FailoverProofs ---------------------------
(* Proofs about Failover, for any requests, providers, orders and pool.    *)
EXTENDS Failover, FiniteSetTheorems, TLAPS

(* The types, and the two facts that keep attempts and leaks in range: a   *)
(* request sleeps only with an attempt left, and a connection leaks only   *)
(* from a request that held it.                                            *)
Types ==
    /\ job \in [Requests -> Jobs]
    /\ stage \in [Requests -> Stages]
    /\ pos \in [Requests -> Nat \ {0}]
    /\ attempt \in [Requests -> 0 .. MaxAttempts - 1]
    /\ reply \in [Requests -> Replies]
    /\ failures \in [Providers -> 0 .. FailThresh]
    /\ \A r \in Requests : stage[r] = "backoff" => attempt[r] < MaxAttempts - 1

SlotsBounded == leaked \in Nat /\ Used <= PoolSize

-----------------------------------------------------------------------------
(* The operators that several actions share keep the types of what they    *)
(* change.                                                                 *)
LoopTypes ==
    /\ stage \in [Requests -> Stages]
    /\ pos \in [Requests -> Nat \ {0}]
    /\ attempt \in [Requests -> 0 .. MaxAttempts - 1]
    /\ reply \in [Requests -> Replies]
    /\ \A r \in Requests : stage[r] = "backoff" => attempt[r] < MaxAttempts - 1

(* Telling the client, or going on to the next provider, keeps them.       *)
LEMMA LoopStep ==
    ASSUME LoopTypes, NEW r \in Requests
    PROVE  /\ \A s \in Replies : Told(r, s) => LoopTypes'
           /\ NextProvider(r) => LoopTypes'
           /\ NextAttempt(r) => LoopTypes'
           /\ \A s \in Replies : PassOn(r, s) => LoopTypes'
           /\ Preview(r) => LoopTypes'
<1> USE FailoverConstants DEF LoopTypes, Stages, Goto
<1>0. ASSUME NEW t \in {"idle", "relay"}, NEW s \in Replies, Returns(r, t, s)
      PROVE  LoopTypes'
  BY <1>0 DEF Returns
<1>1. ASSUME NEW s \in Replies, Told(r, s) PROVE LoopTypes'
  BY <1>0, <1>1 DEF Told
<1>2. ASSUME NextProvider(r) PROVE LoopTypes'
  <2>1. CASE Told(r, "503")
    BY <1>1, <2>1 DEF Replies
  <2>2. CASE ~Told(r, "503")
    <3>1. /\ Goto(r, "ask")
          /\ pos' = [pos EXCEPT ![r] = @ + 1]
          /\ attempt' = [attempt EXCEPT ![r] = 0]
          /\ UNCHANGED reply
      BY <1>2, <2>2 DEF NextProvider
    <3>2. pos' \in [Requests -> Nat \ {0}]
      BY <3>1
    <3>3. QED
      BY <3>1, <3>2
  <2>3. QED
    BY <2>1, <2>2
<1>3. ASSUME NextAttempt(r) PROVE LoopTypes'
  BY <1>2, <1>3 DEF NextAttempt
<1>4. ASSUME NEW s \in Replies, PassOn(r, s) PROVE LoopTypes'
  <2>1. CASE Told(r, s)
    BY <1>1, <2>1
  <2>2. CASE ~Told(r, s)
    BY <1>0, <1>4, <2>2 DEF PassOn
  <2>3. QED
    BY <2>1, <2>2
<1>5. ASSUME Preview(r) PROVE LoopTypes'
  <2>1. CASE Told(r, "502")
    BY <1>1, <2>1 DEF Replies
  <2>2. CASE ~Told(r, "502")
    BY <1>5, <2>2 DEF Preview
  <2>3. QED
    BY <2>1, <2>2
<1>6. QED
  BY <1>1, <1>2, <1>3, <1>4, <1>5

(* Every step keeps the types.                                             *)
LEMMA TypesStep == ASSUME Types, [Next]_vars PROVE Types'
<1>0. LoopTypes /\ job \in [Requests -> Jobs]
  BY DEF Types, LoopTypes
<1>1. ASSUME LoopTypes', UNCHANGED job, failures' \in [Providers -> 0 .. FailThresh]
      PROVE  Types'
  BY <1>0, <1>1 DEF Types, LoopTypes
<1>2. failures \in [Providers -> 0 .. FailThresh]
  BY DEF Types
<1>3. ASSUME NEW p, RecordFailure(p) \/ RecordSuccess(p) \/ UNCHANGED failures
      PROVE  failures' \in [Providers -> 0 .. FailThresh]
  BY <1>2, <1>3, FailoverConstants DEF RecordFailure, RecordSuccess
<1>4. ASSUME UNCHANGED vars PROVE Types'
  BY <1>4 DEF vars, Types
<1>5. ASSUME NEW r \in Requests, NEW j \in Jobs, Begin(r, j) PROVE Types'
  <2>1. job' \in [Requests -> Jobs] /\ pos' \in [Requests -> Nat \ {0}]
    BY <1>5 DEF Begin, Types
  <2>2. /\ stage' \in [Requests -> Stages]
        /\ \A q \in Requests : stage'[q] = "backoff" => stage[q] = "backoff"
    BY <1>5 DEF Begin, Types, Goto, Stages
  <2>3. reply' \in [Requests -> Replies]
    BY <1>5 DEF Begin, Types, Replies
  <2>4. UNCHANGED <<attempt, failures>>
    BY <1>5 DEF Begin
  <2>5. QED
    BY <2>1, <2>2, <2>3, <2>4 DEF Types
<1>6. ASSUME NEW r \in Requests, PassOver(r) \/ Raise(r) PROVE Types'
  <2>1. UNCHANGED <<job, failures>>
    BY <1>6 DEF PassOver, Raise
  <2>2. "500" \in Replies
    BY DEF Replies
  <2>3. LoopTypes'
    BY <1>0, <1>6, <2>2, LoopStep DEF PassOver, Raise
  <2>4. QED
    BY <1>1, <1>2, <2>1, <2>3
<1>7. ASSUME NEW r \in Requests, Call(r) \/ Connect(r) \/ Retry(r) \/ RelayEnds(r)
      PROVE  Types'
  <2>1. \E t \in {"connect", "sent", "idle"} : Goto(r, t)
    BY <1>7 DEF Call, Connect, Retry, RelayEnds
  <2>2. /\ stage' \in [Requests -> Stages]
        /\ \A q \in Requests : stage'[q] = "backoff" => stage[q] = "backoff" /\ q # r
    BY <2>1 DEF Goto, Types, Stages
  <2>3. /\ attempt' \in [Requests -> 0 .. MaxAttempts - 1]
        /\ \A q \in Requests : q # r => attempt'[q] = attempt[q]
    <3>1. CASE Retry(r)
      BY <3>1, FailoverConstants DEF Retry, Types
    <3>2. CASE Call(r) \/ Connect(r) \/ RelayEnds(r)
      BY <3>2 DEF Call, Connect, RelayEnds, Types
    <3>3. QED
      BY <1>7, <3>1, <3>2
  <2>4. UNCHANGED <<job, pos, reply, failures>>
    BY <1>7 DEF Call, Connect, Retry, RelayEnds
  <2>5. QED
    BY <2>2, <2>3, <2>4 DEF Types
<1>8. ASSUME NEW r \in Requests,
             PoolTimeout(r) \/ NoAnswer(r) \/ ServerError(r) \/ TurnedAway(r)
      PROVE  Types'
  <2>1. LoopTypes'
    BY <1>0, <1>8, LoopStep DEF PoolTimeout, NoAnswer, ServerError, TurnedAway
  <2>2. UNCHANGED job
    BY <1>8 DEF PoolTimeout, NoAnswer, ServerError, TurnedAway
  <2>3. RecordFailure(Asked(r)) \/ UNCHANGED failures
    BY <1>8 DEF PoolTimeout, NoAnswer, ServerError, TurnedAway
  <2>4. QED
    BY <1>1, <1>3, <2>1, <2>2, <2>3
<1>9. ASSUME NEW r \in Requests,
             Good(r) \/ Garbage(r) \/ NotFound(r) \/ ClientError(r)
      PROVE  Types'
  <2>1. {"200", "502", "bad answer", "error as 200"} \subseteq Replies
    BY DEF Replies
  <2>2. LoopTypes'
    BY <1>0, <1>9, <2>1, LoopStep DEF Good, Garbage, NotFound, ClientError
  <2>3. UNCHANGED job /\ RecordSuccess(Asked(r))
    BY <1>9 DEF Good, Garbage, NotFound, ClientError
  <2>4. QED
    BY <1>1, <1>3, <2>2, <2>3
<1>10. ASSUME NEW r \in Requests, PreviewEnds(r) PROVE Types'
  <2>1. {"502", "bad answer"} \subseteq Replies
    BY DEF Replies
  <2>2. LoopTypes'
    BY <1>0, <1>10, <2>1, LoopStep DEF PreviewEnds
  <2>3. UNCHANGED <<job, failures>>
    BY <1>10 DEF PreviewEnds
  <2>4. QED
    BY <1>1, <1>2, <2>2, <2>3
<1>11. QED
  BY <1>4, <1>5, <1>6, <1>7, <1>8, <1>9, <1>10 DEF Next, Asks, Connects, Ends

-----------------------------------------------------------------------------
(* The pool.  A step connects one more request while there is room, keeps  *)
(* or gives back connections, or leaks one that a request held.            *)
Takes == Used < PoolSize /\ leaked' = leaked /\ \E r \in Requests : Holding' = Holding \cup {r}

GivesBack == leaked' = leaked /\ Holding' \subseteq Holding

Leaks ==
    /\ \E r \in Requests : job[r].stream /\ r \in Holding /\ Holding' = Holding \ {r}
    /\ leaked' = leaked + 1

(* What moving one request to another stage does to the connections held.  *)
LEMMA GotoHolding ==
    ASSUME Types, NEW r \in Requests, NEW s \in Stages, Goto(r, s)
    PROVE  Holding' = IF s \in {"sent", "preview", "relay"} THEN Holding \cup {r} ELSE Holding \ {r}
  BY DEF Types, Goto, Holding

(* A request that goes on to another attempt or provider, or ends, holds   *)
(* no connection any more.                                                 *)
LEMMA MovesOn ==
    ASSUME Types, NEW r \in Requests, NEW s,
           Told(r, s) \/ NextProvider(r) \/ NextAttempt(r)
    PROVE  Holding' = Holding \ {r}
<1>1. \E t \in {"idle", "ask", "backoff"} : Goto(r, t)
  BY DEF Told, Returns, NextProvider, NextAttempt
<1>2. QED
  BY <1>1, GotoHolding DEF Stages

(* Every step is of one of the three kinds.                                *)
LEMMA PoolStep ==
    ASSUME Types, leaked \in Nat, [Next]_vars
    PROVE  Takes \/ GivesBack \/ Leaks
<1>1. CASE UNCHANGED vars
  BY <1>1 DEF vars, GivesBack, Holding
<1>2. ASSUME NEW r \in Requests, NEW j \in Jobs, Begin(r, j) PROVE GivesBack
  <2>1. UNCHANGED stage \/ Goto(r, "ask")
    BY <1>2 DEF Begin
  <2>2. leaked' = leaked
    BY <1>2 DEF Begin
  <2>3. QED
    BY <2>1, <2>2, GotoHolding DEF GivesBack, Holding, Stages
<1>3. ASSUME NEW r \in Requests, Connect(r) PROVE Takes
  BY <1>3, GotoHolding DEF Connect, Takes, Stages
<1>4. ASSUME NEW r \in Requests, Call(r) \/ Retry(r) \/ RelayEnds(r) PROVE GivesBack
  <2>1. \E t \in {"connect", "idle"} : Goto(r, t)
    BY <1>4 DEF Call, Retry, RelayEnds
  <2>2. leaked' = leaked
    BY <1>4 DEF Call, Retry, RelayEnds
  <2>3. QED
    BY <2>1, <2>2, GotoHolding DEF GivesBack, Stages
<1>5. ASSUME NEW r \in Requests, PassOver(r) \/ Raise(r) \/ PoolTimeout(r) \/ NoAnswer(r)
      PROVE  GivesBack
  <2>1. Holding' = Holding \ {r}
    BY <1>5, MovesOn DEF PassOver, Raise, PoolTimeout, NoAnswer
  <2>2. leaked' = leaked
    BY <1>5 DEF PassOver, Raise, PoolTimeout, NoAnswer
  <2>3. QED
    BY <2>1, <2>2 DEF GivesBack
<1>6. ASSUME NEW r \in Requests, ServerError(r) \/ TurnedAway(r) PROVE GivesBack \/ Leaks
  <2>1. Holding' = Holding \ {r}
    BY <1>6, MovesOn DEF ServerError, TurnedAway
  <2>2. r \in Holding /\ DropAnswer(r)
    BY <1>6 DEF ServerError, TurnedAway, Holding
  <2>3. CASE job[r].stream
    BY <2>1, <2>2, <2>3 DEF DropAnswer, Leaks
  <2>4. CASE ~job[r].stream
    BY <2>1, <2>2, <2>4 DEF DropAnswer, GivesBack
  <2>5. QED
    BY <2>3, <2>4
<1>7. ASSUME NEW r \in Requests,
             Good(r) \/ Garbage(r) \/ NotFound(r) \/ ClientError(r)
      PROVE  GivesBack
  <2>1. r \in Holding /\ leaked' = leaked
    BY <1>7 DEF Good, Garbage, NotFound, ClientError, Holding
  <2>2. \/ Goto(r, "relay") \/ Goto(r, "preview") \/ NextProvider(r)
        \/ \E s \in Replies : Told(r, s)
    BY <1>7 DEF Good, Garbage, NotFound, ClientError, PassOn, Preview, Returns, Replies
  <2>3. Holding' = Holding \cup {r} \/ Holding' = Holding \ {r}
    BY <2>2, GotoHolding, MovesOn DEF Stages
  <2>4. QED
    BY <2>1, <2>3 DEF GivesBack
<1>8. ASSUME NEW r \in Requests, PreviewEnds(r) PROVE GivesBack
  <2>1. Holding' = Holding \ {r}
    BY <1>8, MovesOn DEF PreviewEnds
  <2>2. leaked' = leaked
    BY <1>8 DEF PreviewEnds
  <2>3. QED
    BY <2>1, <2>2 DEF GivesBack
<1>9. QED
  BY <1>1, <1>2, <1>3, <1>4, <1>5, <1>6, <1>7, <1>8 DEF Next, Asks, Connects, Ends

(* Holding is finite, before and after a step.                             *)
LEMMA HoldingFinite ==
    /\ IsFiniteSet(Holding) /\ Cardinality(Holding) \in Nat
    /\ IsFiniteSet(Holding') /\ Cardinality(Holding') \in Nat
  BY FailoverConstants, FS_Subset, FS_CardinalityType DEF Holding

(* Every step keeps the pool within its size.                              *)
LEMMA SlotsStep == ASSUME Types, SlotsBounded, [Next]_vars PROVE SlotsBounded'
<1> USE HoldingFinite, FailoverConstants DEF SlotsBounded, Used
<1>1. CASE Takes
  <2>1. PICK r \in Requests : Holding' = Holding \cup {r}
    BY <1>1 DEF Takes
  <2>2. Cardinality(Holding') <= Cardinality(Holding) + 1
    BY <2>1, FS_AddElement
  <2>3. leaked' = leaked /\ Cardinality(Holding) + leaked < PoolSize
    BY <1>1 DEF Takes
  <2>4. QED
    BY <2>2, <2>3
<1>2. CASE GivesBack
  <2>1. Cardinality(Holding') <= Cardinality(Holding)
    BY <1>2, FS_Subset DEF GivesBack
  <2>2. QED
    BY <1>2, <2>1 DEF GivesBack
<1>3. CASE Leaks
  <2>1. PICK r \in Holding : Holding' = Holding \ {r}
    BY <1>3 DEF Leaks
  <2>2. Cardinality(Holding') = Cardinality(Holding) - 1
    BY <2>1, FS_RemoveElement
  <2>3. QED
    BY <1>3, <2>2 DEF Leaks
<1>4. QED
  BY <1>1, <1>2, <1>3, PoolStep

(* The initial states have the types and an empty pool.                    *)
LEMMA InitTypes == ASSUME Init PROVE Types /\ SlotsBounded
<1>1. Types
  BY FailoverConstants DEF Init, Types, Stages, Replies
<1>2. Holding = {}
  BY DEF Init, Holding
<1>3. SlotsBounded
  BY <1>2, FS_EmptySet, FailoverConstants DEF Init, SlotsBounded, Used
<1>4. QED
  BY <1>1, <1>3

(* The inductive invariant holds.                                          *)
LEMMA Inductive == Spec => [](Types /\ SlotsBounded)
<1>1. Types /\ SlotsBounded /\ [Next]_vars => (Types /\ SlotsBounded)'
  BY TypesStep, SlotsStep
<1>2. QED
  BY <1>1, InitTypes, PTL DEF Spec

(* Every variable keeps its type; in particular no call_provider sends     *)
(* more than MaxAttempts times, and the leaks stay within the pool.        *)
THEOREM FailoverTypeCorrect == Spec => []TypeOK
<1>1. Types /\ SlotsBounded => TypeOK
  <2> SUFFICES ASSUME Types, SlotsBounded PROVE TypeOK
    OBVIOUS
  <2>1. leaked \in 0 .. PoolSize
    BY HoldingFinite, FailoverConstants DEF SlotsBounded, Used
  <2>2. QED
    BY <2>1 DEF Types, TypeOK
<1>2. QED
  BY <1>1, Inductive, PTL

-----------------------------------------------------------------------------
(* Isolation *)

(* A step records a success, a failure of a sick provider, or the failure  *)
(* of the provider a pool timeout met.                                     *)
LEMMA Charges ==
    ASSUME [Next]_vars
    PROVE  \/ UNCHANGED failures
           \/ \E q : RecordSuccess(q)
           \/ \E q \in Sick : RecordFailure(q)
           \/ \E r \in Requests : PoolTimeout(r)
  BY DEF Next, vars, Begin, Asks, PassOver, Call, Connects, Connect, Ends, Raise,
         NoAnswer, ServerError, TurnedAway, Good, Garbage, NotFound,
         ClientError, PreviewEnds, Retry, RelayEnds

(* For any number of requests and any pool: a provider that answers in     *)
(* time is charged only by a request that waits for a connection to it     *)
(* while all of them have leaked or are held.                              *)
THEOREM IsolationCorrect == Spec => ChargedOnlyWhenFull
<1> DEFINE Fair(p) ==
       failures'[p] > failures[p] =>
          /\ Cardinality(Holding) + leaked = PoolSize
          /\ \E r \in Requests : stage[r] = "connect" /\ Asked(r) = p
<1>1. ASSUME Types, SlotsBounded, [Next]_vars, NEW p \in Providers \ Sick
      PROVE  Fair(p)
  <2>0. failures \in [Providers -> 0 .. FailThresh] /\ FailThresh \in Nat
    BY <1>1, FailoverConstants DEF Types
  <2>1. CASE UNCHANGED failures
    BY <2>0, <2>1
  <2>2. CASE \E q : RecordSuccess(q)
    BY <2>0, <2>2 DEF RecordSuccess
  <2>3. CASE \E q \in Sick : RecordFailure(q)
    BY <2>0, <2>3 DEF RecordFailure
  <2>4. ASSUME NEW r \in Requests, PoolTimeout(r) PROVE Fair(p)
    <3>1. Cardinality(Holding) + leaked = PoolSize
      BY <1>1, <2>4, HoldingFinite, FailoverConstants DEF PoolTimeout, SlotsBounded, Used
    <3>2. stage[r] = "connect" /\ RecordFailure(Asked(r))
      BY <2>4 DEF PoolTimeout
    <3>3. CASE Asked(r) = p
      BY <3>1, <3>2, <3>3
    <3>4. CASE Asked(r) # p
      BY <2>0, <3>2, <3>4 DEF RecordFailure
    <3>5. QED
      BY <3>3, <3>4
  <2>5. QED
    BY <1>1, <2>1, <2>2, <2>3, <2>4, Charges
<1>2. Types /\ SlotsBounded /\ [Next]_vars => [\A p \in Providers \ Sick : Fair(p)]_vars
  BY <1>1
<1>3. [][\A p \in Providers \ Sick : Fair(p)]_vars => ChargedOnlyWhenFull
  BY PTL DEF ChargedOnlyWhenFull
<1> HIDE DEF Fair
<1>4. QED
  BY <1>2, <1>3, Inductive, PTL DEF Spec

-----------------------------------------------------------------------------
(* The refinement of Fallback *)

(* While a request is under way its position is one of its order.          *)
InOrder ==
    \A r \in Requests : ~Answered(r) => pos[r] \in 1 .. Len(job[r].order)

(* What a step may do to a request, in the terms of Fallback.              *)
Stays(r) == Left(r)' = Left(r) /\ Using(r)' = Using(r) /\ Outcome(r)' = Outcome(r)

Begins(r) ==
    /\ Outcome(r) # "pending"
    /\ Left(r)' \in SUBSET Providers
    /\ Outcome(r)' = IF Left(r)' = {} THEN "exhausted" ELSE "pending"
    /\ Using(r)' = Using(r)

Uses(r) ==
    /\ Outcome(r) = "pending" /\ Using(r) = "none"
    /\ Using(r)' \in Providers /\ Using(r)' \in Left(r)
    /\ Left(r)' = Left(r) \ {Using(r)'}
    /\ Outcome(r)' = Outcome(r)

Drops(r, rest) ==
    /\ Using(r)' = "none"
    /\ Left(r)' = rest
    /\ Outcome(r)' = IF rest = {} THEN "exhausted" ELSE Outcome(r)

GivesUp(r) == Using(r) # "none" /\ Drops(r, Left(r))

PassesOver(r) ==
    /\ Outcome(r) = "pending" /\ Using(r) = "none"
    /\ \E p \in Providers : p \in Left(r) /\ Drops(r, Left(r) \ {p})

Answers(r) ==
    /\ Using(r) # "none"
    /\ Using(r)' = "none" /\ Left(r)' = {} /\ Outcome(r)' = "answered"

Abandons(r) ==
    /\ Endpoint[r] = "chat" /\ Using(r) # "none"
    /\ Using(r)' = "none" /\ Left(r)' = {} /\ Outcome(r)' = "abandoned"

Moves(r) ==
    \/ Stays(r) \/ Begins(r) \/ Uses(r) \/ GivesUp(r) \/ PassesOver(r)
    \/ Answers(r) \/ Abandons(r)

(* A list of providers and its elements.                                   *)
LEMMA OrderFacts ==
    ASSUME Types, NEW r \in Requests
    PROVE  /\ job[r].order \in Seq(Providers)
           /\ Len(job[r].order) \in Nat
           /\ \A i \in 1 .. Len(job[r].order) : job[r].order[i] \in Providers
           /\ \A i, j \in 1 .. Len(job[r].order) :
                 job[r].order[i] = job[r].order[j] => i = j
<1>1. job[r] \in Jobs
  BY DEF Types
<1>2. job[r].order \in Orders
  BY <1>1 DEF Jobs
<1>3. job[r].order \in Seq(Providers) /\ IsInjective(job[r].order)
  BY <1>2, FailoverConstants
<1>4. DOMAIN job[r].order = 1 .. Len(job[r].order)
  BY <1>3
<1>5. QED
  BY <1>3, <1>4 DEF IsInjective

(* Only the request that moves is changed...                               *)
LEMMA OthersUnmoved ==
    ASSUME Types, NEW r \in Requests, NEW q \in Requests, q # r,
           \/ Asks(r) \/ Connects(r) \/ Ends(r) \/ Retry(r) \/ RelayEnds(r)
           \/ \E j \in Jobs : Begin(r, j)
    PROVE  /\ stage'[q] = stage[q] /\ pos'[q] = pos[q]
           /\ job'[q] = job[q] /\ reply'[q] = reply[q]
  BY DEF Types, Asks, PassOver, Call, Connects, Connect, PoolTimeout, Ends, Raise,
         NoAnswer, ServerError, TurnedAway, Good, Garbage, NotFound, ClientError, PreviewEnds,
         Retry, RelayEnds, Begin, NextProvider, NextAttempt, PassOn, Preview, Told, Returns, Goto

(* ... and so is what Fallback sees of the others.                         *)
LEMMA OthersStay ==
    ASSUME Types, NEW r \in Requests, NEW q \in Requests, q # r,
           \/ Asks(r) \/ Connects(r) \/ Ends(r) \/ Retry(r) \/ RelayEnds(r)
           \/ \E j \in Jobs : Begin(r, j)
    PROVE  Stays(q)
  BY OthersUnmoved DEF Stays, Left, Using, Outcome, Answered, Asked, Behind

(* Going on to the next provider drops the one asked, and ends the request *)
(* only when none is behind it.                                            *)
LEMMA NextProviderDrops ==
    ASSUME Types, InOrder, NEW r \in Requests, ~Answered(r), UNCHANGED job,
           NextProvider(r)
    PROVE  Drops(r, Behind(r)) /\ (~Answered(r)' => pos'[r] \in 1 .. Len(job'[r].order))
<1> DEFINE n == Len(job[r].order)
<1>0. pos[r] \in 1 .. n /\ n \in Nat /\ Outcome(r) = "pending"
  BY OrderFacts DEF InOrder, Outcome
<1>1. CASE pos[r] < n /\ Goto(r, "ask") /\ pos' = [pos EXCEPT ![r] = @ + 1]
  <2>1. stage'[r] = "ask" /\ pos'[r] = pos[r] + 1
    BY <1>1 DEF Types, Goto
  <2>2. ~Answered(r)'
    BY <2>1 DEF Answered
  <2>3. Behind(r) = {job[r].order[pos[r] + 1]} \cup {job[r].order[i] : i \in pos[r] + 2 .. n}
    <3>1. pos[r] + 1 .. n = {pos[r] + 1} \cup (pos[r] + 2 .. n)
      BY <1>0, <1>1
    <3>2. QED
      BY <3>1 DEF Behind
  <2>4. Left(r)' = Behind(r)
    <3>1. Left(r)' = {Asked(r)'} \cup Behind(r)'
      BY <2>1, <2>2 DEF Left
    <3>2. Asked(r)' = job[r].order[pos[r] + 1]
      BY <2>1 DEF Asked
    <3>3. pos'[r] + 1 = pos[r] + 2
      BY <1>0, <2>1
    <3>4. Behind(r)' = {job[r].order[i] : i \in pos[r] + 2 .. n}
      BY <3>3 DEF Behind
    <3>5. QED
      BY <2>3, <3>1, <3>2, <3>4
  <2>5. Using(r)' = "none" /\ Outcome(r)' = "pending"
    BY <2>1, <2>2 DEF Using, Outcome
  <2>6. Behind(r) # {}
    BY <2>3
  <2>7. pos'[r] \in 1 .. Len(job'[r].order)
    BY <1>0, <1>1, <2>1
  <2>8. QED
    BY <1>0, <2>4, <2>5, <2>6, <2>7 DEF Drops
<1>2. CASE pos[r] = n /\ Told(r, "503")
  <2>1. stage'[r] = "idle" /\ reply'[r] = "503"
    BY <1>2 DEF Told, Returns, Goto, Types
  <2>2. Answered(r)'
    BY <2>1 DEF Answered
  <2>3. Behind(r) = {}
    BY <1>0, <1>2 DEF Behind
  <2>4. QED
    BY <2>1, <2>2, <2>3 DEF Drops, Left, Using, Outcome
<1>3. QED
  BY <1>1, <1>2 DEF NextProvider

(* A request that uses a provider, and what is left to it.                 *)
LEMMA InUse ==
    ASSUME Types, InOrder, NEW r \in Requests, stage[r] \in {"connect", "sent", "backoff", "preview"}
    PROVE  /\ ~Answered(r) /\ Outcome(r) = "pending"
           /\ Using(r) = Asked(r) /\ Using(r) \in Providers /\ Using(r) # "none"
           /\ Left(r) = Behind(r)
<1>1. ~Answered(r)
  BY DEF Answered
<1>2. Asked(r) \in Providers
  BY <1>1, OrderFacts DEF InOrder, Asked
<1>3. Using(r) = Asked(r) /\ Left(r) = Behind(r) /\ Outcome(r) = "pending"
  BY <1>1 DEF Using, Left, Outcome
<1>4. QED
  BY <1>1, <1>2, <1>3, FailoverConstants

(* A request that asks has not used the provider it asks.                  *)
LEMMA InAsk ==
    ASSUME Types, InOrder, NEW r \in Requests, stage[r] = "ask"
    PROVE  /\ ~Answered(r) /\ Outcome(r) = "pending" /\ Using(r) = "none"
           /\ Asked(r) \in Providers /\ Asked(r) \in Left(r)
           /\ Left(r) \ {Asked(r)} = Behind(r)
<1>1. ~Answered(r)
  BY DEF Answered
<1>2. pos[r] \in 1 .. Len(job[r].order)
  BY <1>1 DEF InOrder
<1>3. Asked(r) \in Providers
  BY <1>2, OrderFacts DEF Asked
<1>4. Left(r) = {Asked(r)} \cup Behind(r) /\ Using(r) = "none" /\ Outcome(r) = "pending"
  BY <1>1 DEF Using, Left, Outcome
<1>5. Asked(r) \notin Behind(r)
  <2> SUFFICES ASSUME NEW i \in pos[r] + 1 .. Len(job[r].order),
                      job[r].order[i] = job[r].order[pos[r]]
               PROVE  FALSE
    BY DEF Behind, Asked
  <2>1. i \in 1 .. Len(job[r].order) /\ i # pos[r]
    BY <1>2, OrderFacts
  <2>2. QED
    BY <1>2, <2>1, OrderFacts
<1>6. QED
  BY <1>1, <1>3, <1>4, <1>5

(* Whatever the client of a request in use is told but 500 and 503 comes   *)
(* of an answer of the provider.                                           *)
LEMMA ToldAnswers ==
    ASSUME Types, InOrder, NEW r \in Requests, stage[r] \in {"sent", "preview"},
           NEW s \in {"200", "502", "bad answer", "error as 200"}, Told(r, s) \/ PassOn(r, s)
    PROVE  Answers(r) /\ Answered(r)'
<1>1. reply'[r] = s /\ stage'[r] \in {"idle", "relay"}
  BY DEF Told, PassOn, Returns, Goto, Types
<1>2. Answered(r)'
  BY <1>1 DEF Answered
<1>3. QED
  BY <1>1, <1>2, InUse DEF Answers, Left, Using, Outcome

(* Beginning, asking and waiting, for any endpoint.                        *)
LEMMA BeginMoves ==
    ASSUME Types, NEW r \in Requests, NEW j \in Jobs, Begin(r, j)
    PROVE  Begins(r) /\ (~Answered(r)' => pos'[r] \in 1 .. Len(job'[r].order))
<1>1. /\ job'[r] = j /\ pos'[r] = 1 /\ stage[r] = "idle"
      /\ j.order = <<>> => stage'[r] = "idle" /\ reply'[r] = "503"
      /\ j.order # <<>> => stage'[r] = "ask"
  BY DEF Begin, Types, Goto
<1>2. j.order \in Seq(Providers)
  BY FailoverConstants DEF Jobs
<1>3. Answered(r) /\ Outcome(r) # "pending" /\ Using(r) = "none"
  BY <1>1 DEF Answered, Outcome, Using
<1>4. CASE j.order = <<>>
  <2>1. Answered(r)'
    BY <1>1, <1>4 DEF Answered
  <2>2. Left(r)' = {} /\ Using(r)' = "none" /\ Outcome(r)' = "exhausted"
    BY <1>1, <1>4, <2>1 DEF Left, Using, Outcome
  <2>3. QED
    BY <1>3, <2>1, <2>2 DEF Begins
<1>5. CASE j.order # <<>>
  <2>1. ~Answered(r)' /\ stage'[r] = "ask"
    BY <1>1, <1>5 DEF Answered
  <2>2. Len(j.order) \in Nat /\ Len(j.order) > 0
    BY <1>2, <1>5
  <2>3. \A i \in 1 .. Len(j.order) : j.order[i] \in Providers
    BY <1>2
  <2>4. Left(r)' = {j.order[1]} \cup {j.order[i] : i \in 2 .. Len(j.order)}
    <3>1. Left(r)' = {Asked(r)'} \cup Behind(r)'
      BY <2>1 DEF Left
    <3>2. Asked(r)' = j.order[1]
      BY <1>1 DEF Asked
    <3>3. Behind(r)' = {j.order[i] : i \in 1 + 1 .. Len(j.order)}
      BY <1>1 DEF Behind
    <3>4. QED
      BY <3>1, <3>2, <3>3
  <2>5. Left(r)' \subseteq Providers /\ Left(r)' # {}
    BY <2>2, <2>3, <2>4
  <2>6. Using(r)' = "none" /\ Outcome(r)' = "pending"
    BY <2>1 DEF Using, Outcome
  <2>7. QED
    BY <1>1, <1>3, <2>2, <2>5, <2>6 DEF Begins
<1>6. QED
  BY <1>4, <1>5

(* The position of a request after a step is one of its order.             *)
Ranged(r) == ~Answered(r)' => pos'[r] \in 1 .. Len(job'[r].order)

(* Every other step of one request.                                        *)
LEMMA StepMoves ==
    ASSUME Types, InOrder, NEW r \in Requests,
           Asks(r) \/ Connects(r) \/ Ends(r) \/ Retry(r) \/ RelayEnds(r)
    PROVE  Ranged(r) /\ Moves(r)
<1> USE DEF Ranged
<1>0. Endpoint[r] \in {"chat", "messages"}
  BY FailoverConstants
<1>1. CASE PassOver(r)
  <2>1. UNCHANGED job /\ NextProvider(r) /\ stage[r] = "ask"
    BY <1>1 DEF PassOver
  <2>2. Drops(r, Behind(r)) /\ Ranged(r)
    BY <2>1, InAsk, NextProviderDrops
  <2>3. PassesOver(r)
    BY <2>1, <2>2, InAsk DEF PassesOver
  <2>4. QED
    BY <2>2, <2>3 DEF Moves
<1>2. CASE Call(r)
  <2>1. /\ stage[r] = "ask" /\ stage'[r] = "connect"
        /\ pos' = pos /\ job' = job
    BY <1>2 DEF Call, Goto, Types
  <2>2. ~Answered(r)' /\ Ranged(r)
    BY <2>1, InAsk DEF Answered, InOrder
  <2>3. Using(r)' = Asked(r) /\ Left(r)' = Behind(r) /\ Outcome(r)' = "pending"
    BY <2>1, <2>2 DEF Using, Left, Outcome, Asked, Behind
  <2>4. Uses(r)
    BY <2>1, <2>3, InAsk DEF Uses
  <2>5. QED
    BY <2>2, <2>4 DEF Moves
<1>3. ASSUME stage[r] \in {"connect", "sent", "backoff"},
             stage'[r] \in {"connect", "sent", "backoff", "preview"}, pos' = pos, job' = job
      PROVE  Ranged(r) /\ Stays(r)
  <2>1. ~Answered(r) /\ ~Answered(r)'
    BY <1>3 DEF Answered
  <2>2. pos'[r] \in 1 .. Len(job'[r].order)
    BY <1>3, <2>1 DEF InOrder
  <2>3. QED
    BY <1>3, <2>1, <2>2 DEF Stays, Left, Using, Outcome, Asked, Behind
<1>4. ASSUME stage[r] \in {"connect", "sent"}, UNCHANGED job, NextProvider(r)
      PROVE  Ranged(r) /\ GivesUp(r)
  BY <1>4, InUse, NextProviderDrops DEF GivesUp
<1>5. ASSUME stage[r] \in {"connect", "sent"}, UNCHANGED job, NextAttempt(r)
      PROVE  Ranged(r) /\ Moves(r)
  <2>1. CASE NextProvider(r)
    BY <1>4, <1>5, <2>1 DEF Moves
  <2>2. CASE Goto(r, "backoff") /\ UNCHANGED pos
    <3>1. stage'[r] = "backoff"
      BY <2>2 DEF Goto, Types
    <3>2. QED
      BY <1>3, <1>5, <2>2, <3>1 DEF Moves
  <2>3. QED
    BY <1>5, <2>1, <2>2 DEF NextAttempt
<1>6. CASE Connect(r) \/ Retry(r)
  <2>1. /\ stage[r] \in {"connect", "backoff"} /\ stage'[r] \in {"connect", "sent"}
        /\ pos' = pos /\ job' = job
    BY <1>6 DEF Connect, Retry, Goto, Types
  <2>2. QED
    BY <1>3, <2>1 DEF Moves
<1>7. CASE PoolTimeout(r) \/ NoAnswer(r) \/ ServerError(r)
  BY <1>5, <1>7 DEF PoolTimeout, NoAnswer, ServerError
<1>8. CASE TurnedAway(r)
  BY <1>4, <1>8 DEF TurnedAway, Moves
<1>9. CASE Raise(r)
  <2>1. CASE NextProvider(r)
    BY <1>4, <1>9, <2>1 DEF Raise, Moves
  <2>2. CASE Endpoint[r] = "chat" /\ Told(r, "500")
    <3>1. stage'[r] = "idle" /\ reply'[r] = "500"
      BY <2>2 DEF Told, Returns, Goto, Types
    <3>2. Answered(r)'
      BY <3>1 DEF Answered
    <3>3. Left(r)' = {} /\ Using(r)' = "none" /\ Outcome(r)' = "abandoned"
      BY <3>1, <3>2 DEF Left, Using, Outcome
    <3>4. Using(r) # "none"
      BY <1>9, InUse DEF Raise
    <3>5. QED
      BY <2>2, <3>2, <3>3, <3>4 DEF Ranged, Abandons, Moves
  <2>3. QED
    BY <1>9, <2>1, <2>2 DEF Raise
<1>10. ASSUME stage[r] \in {"sent", "preview"},
              NEW s \in {"200", "502", "bad answer", "error as 200"},
              Told(r, s) \/ PassOn(r, s)
       PROVE  Ranged(r) /\ Moves(r)
  BY <1>10, ToldAnswers DEF Moves
<1>11. ASSUME stage[r] = "sent", UNCHANGED job, Preview(r)
       PROVE  Ranged(r) /\ Moves(r)
  <2>1. CASE Told(r, "502")
    BY <1>10, <1>11, <2>1
  <2>2. CASE Goto(r, "preview") /\ UNCHANGED pos
    <3>1. stage'[r] = "preview"
      BY <2>2 DEF Goto, Types
    <3>2. QED
      BY <1>3, <1>11, <2>2, <3>1 DEF Moves
  <2>3. QED
    BY <1>11, <2>1, <2>2 DEF Preview
<1>12. CASE Good(r) \/ Garbage(r) \/ NotFound(r) \/ ClientError(r) \/ PreviewEnds(r)
  <2>1. CASE Good(r) \/ Garbage(r) \/ PreviewEnds(r)
    BY <1>10, <2>1 DEF Good, Garbage, PreviewEnds
  <2>2. CASE NotFound(r)
    BY <1>4, <1>11, <2>2 DEF NotFound, Moves
  <2>3. CASE ClientError(r)
    BY <1>10, <1>11, <2>3 DEF ClientError
  <2>4. QED
    BY <1>12, <2>1, <2>2, <2>3
<1>13. CASE RelayEnds(r)
  <2>1. /\ stage[r] = "relay" /\ stage'[r] = "idle"
        /\ pos' = pos /\ job' = job /\ reply' = reply
    BY <1>13 DEF RelayEnds, Goto, Types
  <2>2. Answered(r) /\ Answered(r)'
    BY <2>1 DEF Answered
  <2>3. Stays(r)
    BY <2>1, <2>2 DEF Stays, Left, Using, Outcome
  <2>4. QED
    BY <2>2, <2>3 DEF Moves
<1>14. QED
  BY <1>1, <1>2, <1>6, <1>7, <1>8, <1>9, <1>12, <1>13 DEF Asks, Connects, Ends

(* A step is one of a single request.                                      *)
LEMMA OneMoves ==
    ASSUME Types, InOrder, Next
    PROVE  \E r \in Requests :
              /\ Ranged(r) /\ Moves(r)
              /\ \A q \in Requests \ {r} : Stays(q)
<1>1. PICK r \in Requests :
         \/ Asks(r) \/ Connects(r) \/ Ends(r) \/ Retry(r) \/ RelayEnds(r)
         \/ \E j \in Jobs : Begin(r, j)
  BY DEF Next
<1>2. \A q \in Requests \ {r} : Stays(q)
  BY <1>1, OthersStay
<1>3. Ranged(r) /\ Moves(r)
  <2>1. CASE \E j \in Jobs : Begin(r, j)
    BY <2>1, BeginMoves DEF Moves, Ranged
  <2>2. CASE Asks(r) \/ Connects(r) \/ Ends(r) \/ Retry(r) \/ RelayEnds(r)
    BY <2>2, StepMoves
  <2>3. QED
    BY <1>1, <2>1, <2>2
<1>4. QED
  BY <1>2, <1>3

(* Positions stay in the orders.                                           *)
LEMMA InOrderStep == ASSUME Types, InOrder, [Next]_vars PROVE InOrder'
<1>1. CASE UNCHANGED vars
  BY <1>1 DEF vars, InOrder, Answered
<1>2. CASE Next
  <2>1. PICK r \in Requests :
           \/ Asks(r) \/ Connects(r) \/ Ends(r) \/ Retry(r) \/ RelayEnds(r)
           \/ \E j \in Jobs : Begin(r, j)
    BY <1>2 DEF Next
  <2>2. Ranged(r)
    BY <2>1, BeginMoves, StepMoves DEF Ranged
  <2>3. ASSUME NEW q \in Requests, q # r
        PROVE  stage'[q] = stage[q] /\ pos'[q] = pos[q] /\ job'[q] = job[q]
    BY <2>1, <2>3, OthersUnmoved
  <2>4. QED
    BY <2>2, <2>3 DEF InOrder, Answered, Ranged
<1>3. QED
  BY <1>1, <1>2

(* Every step is one of Fallback, or changes nothing it sees.              *)
LEMMA PromiseStep ==
    ASSUME Types, InOrder, [Next]_vars
    PROVE  [Promise!FallbackNext]_(Promise!fallbackVars)
<1> DEFINE left == [q \in Requests |-> Left(q)]
           using == [q \in Requests |-> Using(q)]
           outcome == [q \in Requests |-> Outcome(q)]
           stutter == left' = left /\ using' = using /\ outcome' = outcome
<1>2. CASE UNCHANGED vars
  <2>1. \A q \in Requests : Stays(q)
    BY <1>2 DEF vars, Stays, Left, Using, Outcome, Answered, Asked, Behind
  <2>2. stutter
    BY <2>1 DEF Stays
  <2>3. QED
    BY <2>2 DEF Promise!fallbackVars
<1>3. CASE Next
  <2>1. PICK r \in Requests :
           /\ Moves(r)
           /\ \A q \in Requests \ {r} : Stays(q)
    BY <1>3, OneMoves
  <2>2. CASE Stays(r)
    <3>1. \A q \in Requests : Stays(q)
      BY <2>1, <2>2
    <3>2. stutter
      BY <3>1 DEF Stays
    <3>3. QED
      BY <3>2 DEF Promise!fallbackVars
  <2>3. CASE ~Stays(r)
    <3>1. \A q \in Requests \ {r} : Stays(q)
      BY <2>1
    <3>2. /\ left' = [left EXCEPT ![r] = Left(r)']
          /\ using' = [using EXCEPT ![r] = Using(r)']
          /\ outcome' = [outcome EXCEPT ![r] = Outcome(r)']
      BY <2>3, <3>1 DEF Stays
    <3>3. /\ left[r] = Left(r) /\ using[r] = Using(r) /\ outcome[r] = Outcome(r)
          /\ using \in [Requests -> {Using(q) : q \in Requests}]
          /\ outcome \in [Requests -> {Outcome(q) : q \in Requests}]
          /\ left \in [Requests -> {Left(q) : q \in Requests}]
      BY <2>3
    <3>4. \/ Promise!Begin(r) \/ Promise!GiveUp(r) \/ Promise!Answer(r) \/ Promise!Abandon(r)
          \/ \E p \in Providers : Promise!Use(r, p) \/ Promise!PassOver(r, p)
      <4> HIDE DEF left, using, outcome
      <4>1. CASE Begins(r)
        BY <2>3, <3>2, <3>3, <4>1 DEF Begins, Promise!Begin, Promise!Ended, left, using, outcome
      <4>2. CASE GivesUp(r)
        BY <2>3, <3>2, <3>3, <4>2 DEF GivesUp, Drops, Promise!GiveUp, Promise!Drop, left, using, outcome
      <4>3. CASE Answers(r)
        BY <2>3, <3>2, <3>3, <4>3 DEF Answers, Promise!Answer, Promise!EndWith, left, using, outcome
      <4>4. CASE Uses(r)
        BY <2>3, <3>2, <3>3, <4>4 DEF Uses, Promise!Use, Promise!Ended, left, using, outcome
      <4>5. CASE PassesOver(r)
        BY <2>3, <3>2, <3>3, <4>5 DEF PassesOver, Drops, Promise!PassOver, Promise!Drop, Promise!Ended, left, using, outcome
      <4>6. CASE Abandons(r)
        BY <2>3, <3>2, <3>3, <4>6 DEF Abandons, Promise!Abandon, Promise!EndWith, left, using, outcome
      <4>7. QED
        BY <2>1, <2>3, <4>1, <4>2, <4>3, <4>4, <4>5, <4>6 DEF Moves
    <3>5. QED
      BY <2>3, <3>4 DEF Promise!FallbackNext
  <2>4. QED
    BY <2>2, <2>3
<1>4. QED
  BY <1>2, <1>3

(* The loops implement Fallback: each provider is used at most once and in *)
(* turn, whatever it does, and a request is answered, has exhausted its    *)
(* list or, at /v1/chat/completions, is abandoned by a call that raises.   *)
THEOREM FallbackImplemented == Spec => KeepsPromise
<1>1. Init => InOrder /\ Promise!FallbackInit
  <2> SUFFICES ASSUME Init PROVE InOrder /\ Promise!FallbackInit
    OBVIOUS
  <2>1. \A r \in Requests : stage[r] = "idle" /\ reply[r] = "503"
    BY DEF Init
  <2>2. \A r \in Requests : Answered(r)
    BY <2>1 DEF Answered
  <2>3. \A r \in Requests :
           Left(r) = {} /\ Using(r) = "none" /\ Outcome(r) = "exhausted"
    BY <2>1, <2>2 DEF Left, Using, Outcome
  <2>4. QED
    BY <2>2, <2>3 DEF InOrder, Promise!FallbackInit
<1>2. Types /\ InOrder /\ [Next]_vars => InOrder'
  BY InOrderStep
<1>3. Types /\ InOrder /\ [Next]_vars => [Promise!FallbackNext]_(Promise!fallbackVars)
  BY PromiseStep
<1>4. QED
  BY <1>1, <1>2, <1>3, Inductive, PTL DEF Spec, KeepsPromise, Promise!FallbackSpec

-----------------------------------------------------------------------------
(* The steps left                                                          *)

LEMMA OneMoreTime ==
    ASSUME NEW k \in Nat, NEW m \in Nat
    PROVE  k * m \in Nat /\ (k + 1) * m = k * m + m
  OBVIOUS

(* The attempts a request has yet to make at the providers behind the one  *)
(* it asks, and those left with that one.                                  *)
AttemptsBehind(r) == (Len(job[r].order) - pos[r]) * MaxAttempts

AttemptsHere(r) == MaxAttempts - 1 - attempt[r]

Counted(r) ==
    /\ stage[r] \in Stages
    /\ Answered(r) => StepsLeft(r) = 0
    /\ ~Answered(r) => AttemptsBehind(r) \in Nat /\ AttemptsHere(r) \in Nat
    /\ stage[r] = "ask" => StepsLeft(r) = 4 * (AttemptsBehind(r) + AttemptsHere(r)) + 4
    /\ stage[r] = "connect" => StepsLeft(r) = 4 * (AttemptsBehind(r) + AttemptsHere(r)) + 3
    /\ stage[r] = "sent" => StepsLeft(r) = 4 * (AttemptsBehind(r) + AttemptsHere(r)) + 2
    /\ stage[r] \in {"backoff", "preview"} => StepsLeft(r) = 4 * (AttemptsBehind(r) + AttemptsHere(r)) + 1

AllCounted == \A r \in Requests : Counted(r)

LEMMA StepsAreCounted == Types /\ InOrder => AllCounted
<1> SUFFICES ASSUME Types, InOrder, NEW r \in Requests PROVE Counted(r)
  BY DEF AllCounted
<1> DEFINE k == Len(job[r].order) - pos[r]
           b == k * MaxAttempts
           a == attempt[r]
<1>1. MaxAttempts \in Nat \ {0} /\ a \in 0 .. MaxAttempts - 1 /\ stage[r] \in Stages
  BY FailoverConstants DEF Types
<1>2. CASE Answered(r)
  BY <1>1, <1>2 DEF Answered, StepsLeft, Counted
<1>3. CASE ~Answered(r)
  <2>1. k \in Nat
    BY <1>3, OrderFacts DEF InOrder
  <2> HIDE DEF k
  <2>2. b \in Nat
    BY <1>1, <2>1, OneMoreTime
  <2>3. AttemptsBehind(r) = b /\ AttemptsHere(r) = MaxAttempts - 1 - a
    BY DEF AttemptsBehind, AttemptsHere, k
  <2>4. StepsLeft(r) =
           CASE stage[r] = "ask" -> 4 * (b + MaxAttempts - 1 - a) + 4
             [] stage[r] = "connect" -> 4 * (b + MaxAttempts - 1 - a) + 3
             [] stage[r] = "sent" -> 4 * (b + MaxAttempts - 1 - a) + 2
             [] stage[r] \in {"backoff", "preview"} -> 4 * (b + MaxAttempts - 1 - a) + 1
             [] Answered(r) -> 0
    BY DEF StepsLeft, k
  <2> HIDE DEF a, b
  <2>5. b + MaxAttempts - 1 - a = AttemptsBehind(r) + AttemptsHere(r)
    BY <1>1, <2>2, <2>3
  <2>6. AttemptsBehind(r) \in Nat /\ AttemptsHere(r) \in Nat
    BY <1>1, <2>2, <2>3
  <2>7. QED
    BY <1>1, <1>3, <2>4, <2>5, <2>6 DEF Counted
<1>4. QED
  BY <1>2, <1>3

LEMMA StepsAreCountedThen == Types' /\ InOrder' => AllCounted'
  BY StepsAreCounted, PTL

LEMMA StepsLeftIs ==
    ASSUME Types, Types', InOrder, InOrder', NEW r \in Requests
    PROVE  Counted(r) /\ Counted(r)'
  BY StepsAreCounted, StepsAreCountedThen DEF AllCounted

(* Going on to the next provider takes up all that was left with this one. *)
LEMMA NextProviderCounts ==
    ASSUME Types, Types', InOrder, InOrder', NEW r \in Requests, ~Answered(r),
           UNCHANGED job, NextProvider(r)
    PROVE  StepsLeft(r)' <= 4 * AttemptsBehind(r)
<1> DEFINE n == Len(job[r].order)
<1>0. pos[r] \in 1 .. n /\ n \in Nat /\ MaxAttempts \in Nat \ {0} /\ AttemptsBehind(r) \in Nat
  BY OrderFacts, StepsLeftIs, FailoverConstants DEF InOrder, Counted
<1>1. CASE pos[r] < n /\ Goto(r, "ask") /\ pos' = [pos EXCEPT ![r] = @ + 1]
           /\ attempt' = [attempt EXCEPT ![r] = 0]
  <2>1. stage'[r] = "ask" /\ pos'[r] = pos[r] + 1 /\ attempt'[r] = 0
    BY <1>1 DEF Types, Goto
  <2>2. StepsLeft(r)' = 4 * (AttemptsBehind(r)' + AttemptsHere(r)') + 4
    BY <2>1, StepsLeftIs DEF Counted
  <2>3. AttemptsHere(r)' = MaxAttempts - 1
    BY <1>0, <2>1 DEF AttemptsHere
  <2>4. AttemptsBehind(r)' + MaxAttempts = AttemptsBehind(r) /\ AttemptsBehind(r)' \in Nat
    <3> DEFINE k == n - pos[r] - 1
    <3>1. k \in Nat /\ k + 1 = n - pos[r] /\ n - pos'[r] = k
      BY <1>0, <1>1, <2>1
    <3>2. AttemptsBehind(r)' = k * MaxAttempts /\ AttemptsBehind(r) = (k + 1) * MaxAttempts
      BY <3>1 DEF AttemptsBehind
    <3> HIDE DEF k
    <3>3. QED
      BY <1>0, <3>1, <3>2, OneMoreTime
  <2>5. QED
    BY <1>0, <2>2, <2>3, <2>4
<1>2. CASE Told(r, "503")
  <2>1. Answered(r)'
    BY <1>2 DEF Told, Returns, Goto, Types, Answered
  <2>2. QED
    BY <1>0, <2>1, StepsLeftIs DEF Counted
<1>3. QED
  BY <1>1, <1>2 DEF NextProvider

LEMMA StepCounts ==
    ASSUME Types, Types', InOrder, InOrder', NEW r \in Requests, ~Answered(r),
           Asks(r) \/ Connects(r) \/ Ends(r) \/ Retry(r) \/ RelayEnds(r)
    PROVE  StepsLeft(r)' < StepsLeft(r)
<1> DEFINE behind == AttemptsBehind(r)
           here == AttemptsHere(r)
<1>0. /\ behind \in Nat /\ here \in Nat
      /\ StepsLeft(r) \in Nat /\ StepsLeft(r) > 4 * (behind + here)
  <2>1. stage[r] \in {"ask", "connect", "sent", "backoff", "preview"}
    BY DEF Types, Stages, Answered
  <2>2. QED
    BY <2>1, StepsLeftIs DEF Counted
<1>1. ASSUME UNCHANGED job, NextProvider(r) PROVE StepsLeft(r)' < StepsLeft(r)
  <2>1. StepsLeft(r)' <= 4 * behind
    BY <1>1, NextProviderCounts
  <2>2. StepsLeft(r)' \in Nat
    <3>1. Answered(r)' => StepsLeft(r)' = 0
      BY StepsLeftIs DEF Counted
    <3>2. ~Answered(r)' => stage'[r] \in {"ask", "connect", "sent", "backoff", "preview"}
      BY DEF Types, Stages, Answered
    <3>3. ~Answered(r)' => AttemptsBehind(r)' \in Nat /\ AttemptsHere(r)' \in Nat
      BY StepsLeftIs DEF Counted
    <3>4. ~Answered(r)' => StepsLeft(r)' \in Nat
      BY <3>2, <3>3, StepsLeftIs DEF Counted
    <3>5. QED
      BY <3>1, <3>4
  <2> HIDE DEF behind, here
  <2>3. QED
    BY <1>0, <2>1, <2>2
<1>2. ASSUME Answered(r)' PROVE StepsLeft(r)' < StepsLeft(r)
  BY <1>0, <1>2, StepsLeftIs DEF Counted
<1>3. ASSUME job' = job, pos' = pos, attempt' = attempt
      PROVE  AttemptsBehind(r)' = behind /\ AttemptsHere(r)' = here
  BY <1>3 DEF AttemptsBehind, AttemptsHere
<1>4. ASSUME stage[r] \in {"connect", "sent"}, UNCHANGED job, NextAttempt(r)
      PROVE  StepsLeft(r)' < StepsLeft(r)
  <2>1. CASE Goto(r, "backoff") /\ UNCHANGED <<pos, attempt>>
    <3>1. stage'[r] = "backoff"
      BY <2>1 DEF Goto, Types
    <3>2. StepsLeft(r)' = 4 * (behind + here) + 1
      BY <1>3, <1>4, <2>1, <3>1, StepsLeftIs DEF Counted
    <3>3. StepsLeft(r) \in {4 * (behind + here) + 3, 4 * (behind + here) + 2}
      BY <1>4, StepsLeftIs DEF Counted
    <3> HIDE DEF behind, here
    <3>4. QED
      BY <1>0, <3>2, <3>3
  <2>2. QED
    BY <1>1, <1>4, <2>1 DEF NextAttempt
<1>5. CASE PassOver(r)
  BY <1>1, <1>5 DEF PassOver
<1>6. CASE Call(r) \/ Connect(r)
  <2>1. /\ \/ stage[r] = "ask" /\ stage'[r] = "connect"
           \/ stage[r] = "connect" /\ stage'[r] = "sent"
        /\ job' = job /\ pos' = pos /\ attempt' = attempt
    BY <1>6 DEF Call, Connect, Goto, Types
  <2>2. AttemptsBehind(r)' = behind /\ AttemptsHere(r)' = here
    BY <1>3, <2>1
  <2>3. \/ StepsLeft(r) = 4 * (behind + here) + 4 /\ StepsLeft(r)' = 4 * (behind + here) + 3
        \/ StepsLeft(r) = 4 * (behind + here) + 3 /\ StepsLeft(r)' = 4 * (behind + here) + 2
    BY <2>1, <2>2, StepsLeftIs DEF Counted
  <2> HIDE DEF behind, here
  <2>4. QED
    BY <1>0, <2>3
<1>7. CASE Retry(r)
  <2>1. /\ stage[r] = "backoff" /\ stage'[r] = "connect" /\ job' = job /\ pos' = pos
        /\ attempt'[r] = attempt[r] + 1
    BY <1>7 DEF Retry, Goto, Types
  <2>2. AttemptsBehind(r)' = behind
    BY <2>1 DEF AttemptsBehind
  <2>3. AttemptsHere(r)' = here - 1
    <3>1. attempt[r] \in Int /\ MaxAttempts \in Int
      BY FailoverConstants DEF Types
    <3>2. QED
      BY <2>1, <3>1 DEF AttemptsHere
  <2>4. StepsLeft(r)' = 4 * (behind + (here - 1)) + 3
    BY <2>1, <2>2, <2>3, StepsLeftIs DEF Counted
  <2>5. StepsLeft(r) = 4 * (behind + here) + 1
    BY <2>1, StepsLeftIs DEF Counted
  <2> HIDE DEF behind, here
  <2>6. QED
    BY <1>0, <2>4, <2>5
<1>8. CASE PoolTimeout(r) \/ NoAnswer(r) \/ ServerError(r)
  BY <1>4, <1>8 DEF PoolTimeout, NoAnswer, ServerError
<1>9. CASE TurnedAway(r)
  BY <1>1, <1>9 DEF TurnedAway
<1>10. ASSUME NEW s, Told(r, s) \/ PassOn(r, s) PROVE StepsLeft(r)' < StepsLeft(r)
  <2>1. stage'[r] \in {"idle", "relay"}
    BY <1>10 DEF Told, PassOn, Returns, Goto, Types
  <2>2. QED
    BY <1>2, <2>1 DEF Answered
<1>11. ASSUME stage[r] = "sent", UNCHANGED job, Preview(r) PROVE StepsLeft(r)' < StepsLeft(r)
  <2>1. CASE Goto(r, "preview") /\ UNCHANGED <<pos, attempt>>
    <3>1. stage'[r] = "preview"
      BY <2>1 DEF Goto, Types
    <3>2. StepsLeft(r)' = 4 * (behind + here) + 1 /\ StepsLeft(r) = 4 * (behind + here) + 2
      BY <1>3, <1>11, <2>1, <3>1, StepsLeftIs DEF Counted
    <3> HIDE DEF behind, here
    <3>3. QED
      BY <1>0, <3>2
  <2>2. QED
    BY <1>10, <1>11, <2>1 DEF Preview
<1>12. CASE Raise(r) \/ Good(r) \/ Garbage(r) \/ PreviewEnds(r)
  BY <1>1, <1>10, <1>12 DEF Raise, Good, Garbage, PreviewEnds
<1>13. CASE NotFound(r) \/ ClientError(r)
  BY <1>1, <1>10, <1>11, <1>13 DEF NotFound, ClientError
<1>14. CASE RelayEnds(r)
  BY <1>14 DEF RelayEnds, Answered
<1>15. QED
  BY <1>5, <1>6, <1>7, <1>8, <1>9, <1>12, <1>13, <1>14 DEF Asks, Connects, Ends

(* No request is retried or passed on for ever: each of its steps leaves   *)
(* fewer, for any number of requests, providers and connections.           *)
THEOREM StepsRunOutCorrect == Spec => StepsRunOut
<1> DEFINE Falls(r) ==
       ~Answered(r) =>
          \/ UNCHANGED <<job[r], stage[r], pos[r], attempt[r]>>
          \/ StepsLeft(r)' < StepsLeft(r)
<1>1. Types /\ Types' /\ InOrder /\ [Next]_vars => [\A r \in Requests : Falls(r)]_vars
  <2> SUFFICES ASSUME Types, Types', InOrder, Next, NEW q \in Requests, ~Answered(q)
               PROVE  Falls(q)
    OBVIOUS
  <2>1. InOrder'
    BY InOrderStep
  <2>2. PICK r \in Requests :
           \/ Asks(r) \/ Connects(r) \/ Ends(r) \/ Retry(r) \/ RelayEnds(r)
           \/ \E j \in Jobs : Begin(r, j)
    BY DEF Next
  <2>3. CASE q # r
    <3>1. stage'[q] = stage[q] /\ pos'[q] = pos[q] /\ job'[q] = job[q]
      BY <2>2, <2>3, OthersUnmoved
    <3>2. attempt'[q] = attempt[q]
      BY <2>2, <2>3 DEF Types, Asks, PassOver, Call, Connects, Connect, PoolTimeout, Ends, Raise,
         NoAnswer, ServerError, TurnedAway, Good, Garbage, NotFound, ClientError, PreviewEnds,
         Retry, RelayEnds, Begin, NextProvider, NextAttempt, PassOn, Preview, Told, Returns, Goto
    <3>3. QED
      BY <3>1, <3>2
  <2>4. CASE q = r
    <3>1. ~\E j \in Jobs : Begin(r, j)
      BY <2>4 DEF Begin, Answered
    <3>2. StepsLeft(r)' < StepsLeft(r)
      BY <2>1, <2>2, <2>4, <3>1, StepCounts
    <3>3. QED
      BY <2>4, <3>2
  <2>5. QED
    BY <2>3, <2>4
<1>2. Init => InOrder
  BY DEF Init, InOrder, Answered
<1>3. Types /\ InOrder /\ [Next]_vars => InOrder'
  BY InOrderStep
<1>4. [][\A r \in Requests : Falls(r)]_vars => StepsRunOut
  BY PTL DEF StepsRunOut
<1> HIDE DEF Falls
<1>5. QED
  BY <1>1, <1>2, <1>3, <1>4, Inductive, PTL DEF Spec

=============================================================================
