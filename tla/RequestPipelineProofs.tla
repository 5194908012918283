------------------------ MODULE RequestPipelineProofs ------------------------
(***************************************************************************)
(* Proofs for RequestPipeline.  The window keeps the invariant it has by   *)
(* itself; the table of nonces and the books each have one that says how   *)
(* they follow from what the requests went through.                        *)
(***************************************************************************)
EXTENDS RequestPipeline, SlidingWindowProofs

(* What is known of a request from where it is.                            *)
Handled ==
    \A r \in Requests :
        /\ stage[r] \in {"new", "past"} => form[r] = None
        /\ stage[r] \in {"reading", "direct", "calling"} => form[r] \in Forms
        /\ stage[r] \in {"new", "reading", "past"} => accepted[r] = -1
        /\ stage[r] # "done" => entry[r] = 0 /\ answer[r] \in {"waiting", "timeout"}
        /\ stage[r] = "direct" => form[r].endpoint # "chat"

Has(r, n) == accepted[r] >= 0 /\ form[r] # None /\ form[r].nonce = n

(* A registered nonce is in the table for NonceTTL, and what the table     *)
(* holds was registered.                                                   *)
Registered ==
    \A r \in Requests : accepted[r] >= 0 =>
        /\ form[r] # None /\ form[r].nonce \in Nonces
        /\ accepted[r] <= now
        /\ expiry[form[r].nonce] >= accepted[r] + NonceTTL \/ accepted[r] + NonceTTL < now

Remembered ==
    \A n \in Nonces : expiry[n] # 0 =>
        \E s \in Requests : Has(s, n) /\ expiry[n] = accepted[s] + NonceTTL

TableInv == Registered /\ Remembered /\ NonceOnce

PipelineInv == IInv /\ PipelineTypeOK /\ Handled /\ TableInv /\ BooksAgree

-----------------------------------------------------------------------------

LEMMA PipelineStarts == PipelineInit => PipelineInv
<1> SUFFICES ASSUME PipelineInit PROVE PipelineInv
  OBVIOUS
<1>1. IInv
  BY WindowStarts DEF PipelineInit
<1>2. PipelineTypeOK
  BY <1>1, WindowConstants, PipelineConstants DEF PipelineInit, PipelineTypeOK, IInv, Stages, Statuses
<1>3. Handled /\ TableInv
  BY DEF PipelineInit, Handled, TableInv, Registered, Remembered, NonceOnce
<1>4. BooksAgree
  BY PipelineConstants DEF PipelineInit, BooksAgree
<1>5. QED
  BY <1>1, <1>2, <1>3, <1>4 DEF PipelineInv

LEMMA RestartEstablishes == PipelineInv /\ Restart => PipelineInv'
<1> SUFFICES ASSUME PipelineInv, Restart PROVE PipelineInv'
  OBVIOUS
<1>1. IInv'
  BY WindowConstants DEF Restart, PipelineInv, IInv, TypeOK, InOrder, EvictedAreStale, CountedUnderLimit,
     NeverMoreThanLimit
<1>2. PipelineTypeOK'
  BY <1>1, WindowConstants, PipelineConstants DEF Restart, PipelineInv, PipelineTypeOK, IInv, Stages, Statuses
<1>3. Handled' /\ TableInv'
  BY DEF Restart, PipelineInv, PipelineTypeOK, Handled, TableInv, Registered, Remembered, NonceOnce
<1>4. BooksAgree'
  BY PipelineConstants DEF Restart, BooksAgree
<1>5. QED
  BY <1>1, <1>2, <1>3, <1>4 DEF PipelineInv

(* Every other step takes a step of the window, or leaves it alone.        *)
LEMMA WindowKept ==
    ASSUME PipelineInv, PipelineNext, ~Restart
    PROVE  [Next]_vars /\ IInv' /\ now <= now'
<1>1. [Next]_vars
  BY DEF PipelineNext, Step, TurnAway, CountTokens, Authenticated, Unauthenticated, KeyAdmitted,
     KeyRefused, Reject, AskAnthropic, Replayed, RefuseLate, CallProviders, ProvidersFail, Complete,
     PassOn, Timeout, Next
<1>2. now \in Nat
  BY WindowConstants DEF PipelineInv, IInv, TypeOK
<1>3. now <= now'
  BY <1>1, <1>2 DEF Next, Unlimited, Admit, Refuse, Tick, vars
<1>4. QED
  BY <1>1, <1>3, WindowStep DEF PipelineInv

-----------------------------------------------------------------------------
(* What the steps of a request have in common                              *)

(* Its form is known once, before its nonce, and only Register and         *)
(* Replayed change the table.                                              *)
Arrives(r) ==
    /\ stage[r] = "new"
    /\ \E f \in Forms : form' = [form EXCEPT ![r] = f]
    /\ UNCHANGED table

Registers(r) == stage[r] = "reading" /\ Register(r) /\ UNCHANGED form

Evicts409 ==
    /\ expiry' \in {expiry, Evicted}
    /\ UNCHANGED <<accepted, form>>

LEMMA TableSteps ==
    ASSUME NEW r \in Requests, Step(r)
    PROVE  Arrives(r) \/ Registers(r) \/ Evicts409
BY DEF Step, TurnAway, CountTokens, Authenticated, Unauthenticated, KeyAdmitted, KeyRefused, Enter,
   Reject, AskAnthropic, Replayed, RefuseLate, CallProviders, ProvidersFail, Complete, PassOn, Timeout,
   Reply, GoesTo, Arrives, Registers, Evicts409, table

-----------------------------------------------------------------------------
(* Types                                                                   *)

LEMMA RegisterTyped ==
    ASSUME PipelineInv, NEW r \in Requests, Registers(r)
    PROVE  /\ expiry' \in [Nonces -> 0 .. Horizon + NonceTTL]
           /\ accepted' \in [Requests -> -1 .. Horizon]
<1> USE WindowConstants, PipelineConstants DEF PipelineInv, PipelineTypeOK, TypeOK
<1>1. CASE UNCHANGED table
  BY <1>1 DEF table
<1>2. CASE ~UNCHANGED table
  <2>1. /\ expiry' = [Evicted EXCEPT ![form[r].nonce] = now + NonceTTL]
        /\ accepted' = [accepted EXCEPT ![r] = now]
    BY <1>2 DEF Registers, Register
  <2>2. Evicted \in [Nonces -> 0 .. Horizon + NonceTTL]
    BY DEF Evicted
  <2>3. now + NonceTTL \in 0 .. Horizon + NonceTTL /\ now \in -1 .. Horizon
    OBVIOUS
  <2>4. QED
    BY <2>1, <2>2, <2>3
<1>3. QED
  BY <1>1, <1>2

LEMMA TableTyped ==
    ASSUME PipelineInv, NEW r \in Requests, Step(r)
    PROVE  /\ expiry' \in [Nonces -> 0 .. Horizon + NonceTTL]
           /\ accepted' \in [Requests -> -1 .. Horizon]
           /\ form' \in [Requests -> Forms \cup {None}]
<1> USE WindowConstants, PipelineConstants DEF PipelineInv, PipelineTypeOK, TypeOK
<1>1. CASE Arrives(r)
  BY <1>1 DEF Arrives, table
<1>2. CASE Registers(r)
  BY <1>2, RegisterTyped DEF Registers
<1>3. CASE Evicts409
  <2>1. Evicted \in [Nonces -> 0 .. Horizon + NonceTTL]
    BY DEF Evicted
  <2>2. QED
    BY <1>3, <2>1 DEF Evicts409
<1>4. QED
  BY <1>1, <1>2, <1>3, TableSteps

LEMMA ReplyTyped ==
    ASSUME PipelineTypeOK, NEW r \in Requests, NEW status \in Statuses, Reply(r, status)
    PROVE  stage' \in [Requests -> Stages] /\ answer' \in [Requests -> Statuses]
BY DEF PipelineTypeOK, Reply, Stages

LEMMA StageTyped ==
    ASSUME PipelineTypeOK, NEW r \in Requests, Step(r)
    PROVE  stage' \in [Requests -> Stages] /\ answer' \in [Requests -> Statuses]
<1>1. ASSUME NEW status \in {"ok", "refused", "failed"}, Reply(r, status)
      PROVE  stage' \in [Requests -> Stages] /\ answer' \in [Requests -> Statuses]
  BY <1>1, ReplyTyped DEF Statuses
<1>2. CASE TurnAway(r) \/ CountTokens(r) \/ Reject(r) \/ Replayed(r) \/ RefuseLate(r) \/ ProvidersFail(r)
           \/ Complete(r) \/ PassOn(r)
  BY <1>1, <1>2 DEF TurnAway, CountTokens, Reject, Replayed, RefuseLate, ProvidersFail, Complete, PassOn
<1>3. CASE Authenticated(r) \/ Unauthenticated(r) \/ KeyAdmitted(r) \/ KeyRefused(r)
  BY <1>3 DEF Authenticated, Unauthenticated, KeyAdmitted, KeyRefused, Enter, PipelineTypeOK, Stages, Statuses
<1>4. CASE AskAnthropic(r) \/ CallProviders(r) \/ Timeout(r)
  BY <1>4 DEF AskAnthropic, CallProviders, Timeout, GoesTo, PipelineTypeOK, Stages, Statuses
<1>5. QED
  BY <1>2, <1>3, <1>4 DEF Step

(* One more entry: it goes to the end, and the oldest goes when the log    *)
(* was full.                                                               *)
LEMMA CappedAppend ==
    ASSUME NEW l \in Seq(Requests), NEW r \in Requests, Len(l) <= LogCap
    PROVE  LET m == Capped(Append(l, r)) IN
           /\ m \in Seq(Requests)
           /\ m[Len(m)] = r
           /\ \/ /\ Len(l) < LogCap /\ Len(m) = Len(l) + 1
                 /\ \A i \in 1 .. Len(l) : m[i] = l[i]
              \/ /\ Len(l) = LogCap /\ Len(m) = Len(l)
                 /\ \A i \in 1 .. Len(l) - 1 : m[i] = l[i + 1]
<1> USE PipelineConstants
<1> DEFINE a == Append(l, r)
           b == Tail(a)
<1>1. a \in Seq(Requests) /\ Len(a) = Len(l) + 1 /\ a[Len(l) + 1] = r
  OBVIOUS
<1>2. \A i \in 1 .. Len(l) : a[i] = l[i]
  OBVIOUS
<1>3. CASE Len(l) < LogCap
  <2>1. Capped(a) = a
    BY <1>1, <1>3 DEF Capped
  <2>2. QED
    BY <1>1, <1>2, <1>3, <2>1
<1>4. CASE Len(l) = LogCap
  <2>1. Capped(a) = b
    BY <1>1, <1>4 DEF Capped
  <2>2. /\ b \in Seq(Requests) /\ Len(b) = Len(l)
        /\ \A i \in 1 .. Len(l) : b[i] = a[i + 1]
    <3>1. a # <<>>
      BY <1>1
    <3>2. Len(l) \in Nat
      OBVIOUS
    <3> HIDE DEF a
    <3>3. QED
      BY <1>1, <3>1, <3>2
  <2>3. \A i \in 1 .. Len(l) - 1 : b[i] = l[i + 1]
    <3> HIDE DEF a, b
    <3>1. QED
      BY <1>2, <2>2
  <2>4. b[Len(l)] = r
    <3> HIDE DEF a, b
    <3>1. QED
      BY <1>1, <1>4, <2>2
  <2>5. QED
    <3> HIDE DEF b
    <3>1. QED
      BY <1>4, <2>1, <2>2, <2>3, <2>4
<1>5. QED
  BY <1>3, <1>4

(* What happens to the books: nothing, or an entry for a request that had  *)
(* none.                                                                   *)
LEMMA BookSteps ==
    ASSUME NEW r \in Requests, Step(r)
    PROVE  UNCHANGED books \/ Complete(r)
BY DEF Step, TurnAway, CountTokens, Authenticated, Unauthenticated, KeyAdmitted, KeyRefused, Enter,
   Reject, AskAnthropic, Replayed, RefuseLate, CallProviders, ProvidersFail, Complete, PassOn, Timeout

LEMMA BooksTyped ==
    ASSUME PipelineInv, NEW r \in Requests, Step(r)
    PROVE  /\ seq' \in Nat /\ spent' \in Nat
           /\ entry' \in [Requests -> 0 .. seq']
           /\ log' \in Seq(Requests) /\ Len(log') <= LogCap
<1> USE DEF PipelineInv, PipelineTypeOK
<1>1. CASE UNCHANGED books
  BY <1>1 DEF books
<1>2. CASE Complete(r)
  <2>1. log' = Capped(Append(log, r)) /\ seq' = seq + 1 /\ spent' = spent + 1
    BY <1>2 DEF Complete, Booked
  <2>2. entry' \in [Requests -> 0 .. seq']
    BY <1>2 DEF Complete, Booked
  <2>3. log' \in Seq(Requests) /\ Len(log') <= LogCap
    <3>1. log \in Seq(Requests) /\ Len(log) <= LogCap /\ Len(log) \in Nat /\ LogCap \in Nat
      BY PipelineConstants
    <3> DEFINE m == Capped(Append(log, r))
    <3>2. m \in Seq(Requests) /\ (Len(m) \in {Len(log), Len(log) + 1}) /\ Len(m) <= LogCap
      BY <3>1, CappedAppend
    <3> HIDE DEF m, PipelineInv, PipelineTypeOK
    <3>3. QED
      BY ONLY <3>1, <3>2, <2>1 DEF m
  <2>4. QED
    BY <2>1, <2>2, <2>3
<1>3. QED
  BY <1>1, <1>2, BookSteps

-----------------------------------------------------------------------------
(* Where the requests are                                                  *)

LEMMA HandledKept ==
    ASSUME PipelineInv, NEW r \in Requests, Step(r)
    PROVE  Handled'
<1> USE PipelineConstants DEF PipelineInv, PipelineTypeOK, Handled
<1>1. CASE TurnAway(r) \/ CountTokens(r) \/ Reject(r) \/ ProvidersFail(r) \/ PassOn(r)
  BY <1>1 DEF TurnAway, CountTokens, Reject, ProvidersFail, PassOn, Reply, table, books
<1>2. CASE Authenticated(r) \/ Unauthenticated(r) \/ KeyAdmitted(r) \/ KeyRefused(r)
  <2>1. PICK f \in Forms, next \in {"reading", "done"}, status \in Statuses :
           Enter(r, f, next, status) /\ (next = "reading" => status = "waiting")
    BY <1>2 DEF Authenticated, Unauthenticated, KeyAdmitted, KeyRefused, Statuses
  <2>2. /\ stage[r] = "new"
        /\ stage' = [stage EXCEPT ![r] = next]
        /\ form' = [form EXCEPT ![r] = f]
        /\ answer' = [answer EXCEPT ![r] = status]
        /\ UNCHANGED <<accepted, entry>>
    BY <2>1 DEF Enter, table, books
  <2>3. QED
    BY <2>1, <2>2
<1>3. CASE AskAnthropic(r)
  BY <1>3 DEF AskAnthropic, GoesTo, table, books
<1>4. CASE Replayed(r)
  BY <1>4 DEF Replayed, Reply, books
<1>5. CASE RefuseLate(r)
  BY <1>5 DEF RefuseLate, Register, Reply, table, books
<1>6. CASE CallProviders(r)
  BY <1>6 DEF CallProviders, Register, GoesTo, table, books
<1>7. CASE Complete(r)
  BY <1>7 DEF Complete, Booked, Reply, table
<1>8. CASE Timeout(r)
  BY <1>8 DEF Timeout, table, books
<1>9. QED
  BY <1>1, <1>2, <1>3, <1>4, <1>5, <1>6, <1>7, <1>8 DEF Step

-----------------------------------------------------------------------------
(* The nonces                                                              *)

LEMMA TableFacts ==
    ASSUME PipelineInv
    PROVE  /\ now \in Nat /\ NonceTTL \in Nat /\ NonceTTL > 0
           /\ \A n \in Nonces : expiry[n] \in Nat
           /\ \A s \in Requests : accepted[s] \in Int /\ accepted[s] >= -1
           /\ Registered /\ Remembered /\ NonceOnce
BY WindowConstants, PipelineConstants DEF PipelineInv, PipelineTypeOK, TypeOK, TableInv

LEMMA ArrivalKeepsTable ==
    ASSUME PipelineInv, NEW r \in Requests, Arrives(r), now' \in Nat, now <= now'
    PROVE  TableInv'
<1>1. accepted[r] = -1 /\ UNCHANGED <<expiry, accepted>>
  BY DEF PipelineInv, Handled, Arrives, table
<1>2. form \in [Requests -> Forms \cup {None}]
  BY DEF PipelineInv, PipelineTypeOK
<1>3. \A s \in Requests : accepted[s] >= 0 => form'[s] = form[s]
  BY <1>1, <1>2 DEF Arrives
<1>4. Registered'
  BY <1>1, <1>3, TableFacts DEF Registered
<1>5. Remembered'
  <2> SUFFICES ASSUME NEW n \in Nonces, expiry'[n] # 0
               PROVE  \E s \in Requests : Has(s, n)' /\ expiry'[n] = accepted'[s] + NonceTTL
    BY DEF Remembered
  <2>1. PICK s \in Requests : Has(s, n) /\ expiry[n] = accepted[s] + NonceTTL
    BY <1>1, TableFacts DEF Remembered
  <2>2. QED
    BY <2>1, <1>1, <1>3 DEF Has
<1>6. NonceOnce'
  <2> SUFFICES ASSUME NEW p \in Requests, NEW q \in Requests, p # q,
                      accepted'[p] >= 0, accepted'[q] >= accepted'[p], SameNonce(p, q)'
               PROVE  accepted'[q] - accepted'[p] > NonceTTL
    BY DEF NonceOnce
  <2>1. form'[p] = form[p] /\ form'[q] = form[q] /\ SameNonce(p, q)
    BY <1>1, <1>3, TableFacts DEF SameNonce
  <2>2. QED
    BY <2>1, <1>1, TableFacts DEF NonceOnce
<1>7. QED
  BY <1>4, <1>5, <1>6 DEF TableInv

LEMMA EvictedOrKept ==
    ASSUME PipelineInv, NEW n \in Nonces
    PROVE  Evicted[n] = expiry[n] \/ (Evicted[n] = 0 /\ expiry[n] < now)
<1>1. Evicted[n] = IF Forgotten(n) THEN 0 ELSE expiry[n]
  BY DEF Evicted
<1>2. QED
  BY <1>1 DEF Forgotten

LEMMA EvictionKeepsTable ==
    ASSUME PipelineInv, Evicts409, now' \in Nat, now <= now'
    PROVE  TableInv'
<1>1. UNCHANGED <<accepted, form>>
  BY DEF Evicts409
<1>2. \A n \in Nonces : expiry'[n] = expiry[n] \/ (expiry'[n] = 0 /\ expiry[n] < now)
  <2>1. \A n \in Nonces : Evicted[n] = expiry[n] \/ (Evicted[n] = 0 /\ expiry[n] < now)
    BY EvictedOrKept
  <2>2. QED
    BY <2>1 DEF Evicts409
<1>3. Registered'
  <2> SUFFICES ASSUME NEW s \in Requests, accepted[s] >= 0
               PROVE  /\ form[s] # None /\ form[s].nonce \in Nonces
                      /\ accepted[s] <= now'
                      /\ \/ expiry'[form[s].nonce] >= accepted[s] + NonceTTL
                         \/ accepted[s] + NonceTTL < now'
    BY <1>1 DEF Registered
  <2>1. /\ form[s] # None /\ form[s].nonce \in Nonces
        /\ accepted[s] <= now
        /\ \/ expiry[form[s].nonce] >= accepted[s] + NonceTTL
           \/ accepted[s] + NonceTTL < now
    BY TableFacts DEF Registered
  <2>2. QED
    BY <2>1, <1>2, TableFacts
<1>4. Remembered'
  BY <1>1, <1>2, TableFacts DEF Remembered, Has
<1>5. NonceOnce'
  BY <1>1, TableFacts DEF NonceOnce, SameNonce
<1>6. QED
  BY <1>3, <1>4, <1>5 DEF TableInv

(* A fresh nonce was registered more than NonceTTL ago, if ever.           *)
LEMMA FreshIsOld ==
    ASSUME PipelineInv, NEW r \in Requests, NEW n \in Nonces, Fresh(n), Has(r, n)
    PROVE  accepted[r] + NonceTTL < now
BY WindowConstants, PipelineConstants
   DEF PipelineInv, PipelineTypeOK, TypeOK, TableInv, Registered, Has, Fresh, Forgotten

LEMMA RegistrationKeepsTable ==
    ASSUME PipelineInv, NEW r \in Requests, Registers(r), now' \in Nat, now <= now'
    PROVE  TableInv'
<1>1. CASE UNCHANGED table
  BY <1>1, EvictionKeepsTable DEF table, Registers, Evicts409
<1>2. CASE ~UNCHANGED table
  <2> DEFINE n == form[r].nonce
  <2>1. /\ n \in Nonces /\ Fresh(n)
        /\ expiry' = [Evicted EXCEPT ![n] = now + NonceTTL]
        /\ accepted' = [accepted EXCEPT ![r] = now]
        /\ form' = form /\ form[r] # None
        /\ accepted[r] = -1
    BY <1>2, PipelineConstants DEF Registers, Register, Fresh, PipelineInv, Handled
  <2> HIDE DEF n
  <2>2. \A m \in Nonces \ {n} : expiry'[m] = expiry[m] \/ (expiry'[m] = 0 /\ expiry[m] < now)
    <3>1. \A m \in Nonces : Evicted[m] = expiry[m] \/ (Evicted[m] = 0 /\ expiry[m] < now)
      BY EvictedOrKept
    <3>2. \A m \in Nonces \ {n} : expiry'[m] = Evicted[m]
      BY <2>1 DEF Evicted
    <3>3. QED
      BY <3>1, <3>2
  <2>3. expiry'[n] = now + NonceTTL
    BY <2>1 DEF Evicted
  <2>4. \A s \in Requests \ {r} : accepted'[s] = accepted[s]
    BY <2>1, TableFacts DEF PipelineInv, PipelineTypeOK
  <2>5. accepted'[r] = now /\ now \in Nat
    BY <2>1, TableFacts DEF PipelineInv, PipelineTypeOK
  <2>6. Registered'
    <3> SUFFICES ASSUME NEW s \in Requests, accepted'[s] >= 0
                 PROVE  /\ form[s] # None /\ form[s].nonce \in Nonces
                        /\ accepted'[s] <= now'
                        /\ \/ expiry'[form[s].nonce] >= accepted'[s] + NonceTTL
                           \/ accepted'[s] + NonceTTL < now'
      BY <2>1 DEF Registered
    <3>1. CASE s = r
      BY <3>1, <2>1, <2>3, <2>5, TableFacts DEF n
    <3>2. CASE s # r
      <4>1. /\ accepted'[s] = accepted[s] /\ accepted[s] \in Int
            /\ form[s] # None /\ form[s].nonce \in Nonces
            /\ accepted[s] <= now
            /\ expiry[form[s].nonce] >= accepted[s] + NonceTTL \/ accepted[s] + NonceTTL < now
        BY <3>2, <2>4, TableFacts DEF Registered
      <4>2. CASE form[s].nonce = n
        BY <4>1, <4>2, <2>3, <2>5, TableFacts
      <4>3. CASE form[s].nonce # n
        BY <4>1, <4>3, <2>2, <2>5, TableFacts
      <4>4. QED
        BY <4>2, <4>3
    <3>3. QED
      BY <3>1, <3>2
  <2>7. Remembered'
    <3> SUFFICES ASSUME NEW m \in Nonces, expiry'[m] # 0
                 PROVE  \E s \in Requests : Has(s, m)' /\ expiry'[m] = accepted'[s] + NonceTTL
      BY DEF Remembered
    <3>1. CASE m = n
      BY <3>1, <2>1, <2>3, <2>5 DEF Has, n
    <3>2. CASE m # n
      <4>1. expiry'[m] = expiry[m]
        BY <3>2, <2>2
      <4>2. PICK s \in Requests : Has(s, m) /\ expiry[m] = accepted[s] + NonceTTL
        BY <4>1, TableFacts DEF Remembered
      <4>3. s # r
        BY <4>2, <2>1 DEF Has
      <4>4. QED
        BY <4>1, <4>2, <4>3, <2>1, <2>4 DEF Has
    <3>3. QED
      BY <3>1, <3>2
  <2>8. NonceOnce'
    <3> SUFFICES ASSUME NEW p \in Requests, NEW q \in Requests, p # q,
                        accepted'[p] >= 0, accepted'[q] >= accepted'[p], SameNonce(p, q)
                 PROVE  accepted'[q] - accepted'[p] > NonceTTL
      BY <2>1 DEF NonceOnce, SameNonce
    <3>1. CASE p # r /\ q # r
      BY <3>1, <2>4, TableFacts DEF NonceOnce
    <3>2. CASE q = r
      <4>1. accepted'[p] = accepted[p] /\ Has(p, n) /\ accepted[p] \in Int
        BY <3>2, <2>4, TableFacts DEF Has, SameNonce, n
      <4>2. accepted[p] + NonceTTL < now
        BY <4>1, <2>1, FreshIsOld
      <4>3. QED
        BY <4>1, <4>2, <3>2, <2>5, TableFacts
    <3>3. CASE p = r
      <4>1. accepted'[q] = accepted[q] /\ accepted[q] >= now /\ Has(q, n) /\ accepted[q] \in Int
        BY <3>3, <2>4, <2>5, TableFacts DEF Has, SameNonce, n
      <4>2. accepted[q] + NonceTTL < now
        BY <4>1, <2>1, FreshIsOld
      <4>3. QED
        BY <4>1, <4>2, TableFacts
    <3>4. QED
      BY <3>1, <3>2, <3>3
  <2>9. QED
    BY <2>6, <2>7, <2>8 DEF TableInv
<1>3. QED
  BY <1>1, <1>2

LEMMA TableKept ==
    ASSUME PipelineInv, PipelineNext, ~Restart
    PROVE  TableInv'
<1>1. IInv' /\ now <= now' /\ now' \in Nat
  BY WindowKept, WindowConstants DEF IInv, TypeOK
<1>2. ASSUME NEW r \in Requests, Step(r) PROVE TableInv'
  BY <1>1, <1>2, TableSteps, ArrivalKeepsTable, RegistrationKeepsTable, EvictionKeepsTable
<1>3. CASE UNCHANGED pipelineVars
  BY <1>1, <1>3, EvictionKeepsTable DEF pipelineVars, table, Evicts409
<1>4. QED
  BY <1>2, <1>3 DEF PipelineNext

-----------------------------------------------------------------------------
(* The books                                                               *)

(* The first three parts of BooksAgree, which speak of the books alone.    *)
LedgerOK ==
    /\ spent = seq
    /\ Len(log) = IF seq < LogCap THEN seq ELSE LogCap
    /\ \A i \in 1 .. Len(log) : entry[log[i]] = seq - Len(log) + i

AnsweredAreBooked ==
    \A r \in Requests :
        stage[r] = "done" /\ answer[r] = "ok" /\ form[r] # None /\ IsBooked(form[r]) => entry[r] > 0

LEMMA BookingKeepsLedger ==
    ASSUME PipelineInv, NEW r \in Requests, Complete(r)
    PROVE  LedgerOK'
<1> DEFINE m == Capped(Append(log, r))
<1>1. /\ log \in Seq(Requests) /\ Len(log) \in Nat /\ Len(log) <= LogCap
      /\ seq \in Nat /\ spent = seq
      /\ Len(log) = IF seq < LogCap THEN seq ELSE LogCap
      /\ \A i \in 1 .. Len(log) : entry[log[i]] = seq - Len(log) + i
      /\ entry \in [Requests -> 0 .. seq] /\ LogCap \in Nat \ {0}
  BY PipelineConstants DEF PipelineInv, PipelineTypeOK, BooksAgree
<1>2. entry[r] = 0
  BY DEF PipelineInv, Handled, Complete
<1>3. /\ spent' = spent + 1 /\ seq' = seq + 1 /\ log' = m
      /\ entry' = [entry EXCEPT ![r] = seq + 1]
  BY DEF Complete, Booked
<1>4. \A i \in 1 .. Len(log) : log[i] \in Requests /\ entry'[log[i]] = seq - Len(log) + i
  <2> SUFFICES ASSUME NEW i \in 1 .. Len(log)
               PROVE  log[i] \in Requests /\ entry'[log[i]] = seq - Len(log) + i
    OBVIOUS
  <2>1. log[i] \in Requests
    BY <1>1
  <2>2. entry[log[i]] = seq - Len(log) + i /\ seq - Len(log) + i > 0
    BY <1>1
  <2>3. log[i] # r
    BY <1>2, <2>2
  <2>4. QED
    BY <1>1, <1>3, <2>1, <2>2, <2>3
<1>5. entry'[r] = seq + 1
  BY <1>1, <1>3
<1>6. /\ m \in Seq(Requests)
      /\ m[Len(m)] = r
      /\ \/ /\ Len(log) < LogCap /\ Len(m) = Len(log) + 1
            /\ \A i \in 1 .. Len(log) : m[i] = log[i]
         \/ /\ Len(log) = LogCap /\ Len(m) = Len(log)
            /\ \A i \in 1 .. Len(log) - 1 : m[i] = log[i + 1]
  BY <1>1, CappedAppend
<1> HIDE DEF m
<1>7. spent' = seq' /\ Len(log') = IF seq' < LogCap THEN seq' ELSE LogCap
  BY <1>1, <1>3, <1>6
<1>8. \A i \in 1 .. Len(m) : entry'[m[i]] = seq + 1 - Len(m) + i
  <2> SUFFICES ASSUME NEW i \in 1 .. Len(m)
               PROVE  entry'[m[i]] = seq + 1 - Len(m) + i
    OBVIOUS
  <2>1. CASE i = Len(m)
    BY <2>1, <1>1, <1>5, <1>6
  <2>2. CASE i # Len(m) /\ Len(m) = Len(log) + 1
    <3>1. i \in 1 .. Len(log) /\ m[i] = log[i]
      BY <2>2, <1>1, <1>6
    <3>2. entry'[m[i]] = seq - Len(log) + i
      BY <3>1, <1>4
    <3>3. QED
      BY <3>2, <2>2, <1>1
  <2>3. CASE i # Len(m) /\ Len(m) = Len(log)
    <3>1. i \in 1 .. Len(log) - 1 /\ m[i] = log[i + 1] /\ i + 1 \in 1 .. Len(log)
      BY <2>3, <1>1, <1>6
    <3>2. entry'[m[i]] = seq - Len(log) + (i + 1)
      BY <3>1, <1>4
    <3>3. QED
      BY <3>2, <2>3, <1>1
  <2>4. QED
    BY <2>1, <2>2, <2>3, <1>6
<1>9. log' = m /\ seq' = seq + 1
  BY <1>3
<1>10. \A i \in 1 .. Len(log') : entry'[log'[i]] = seq' - Len(log') + i
  <2>1. \A i \in 1 .. Len(log') : entry'[log'[i]] = seq + 1 - Len(log') + i
    BY <1>9, <1>8, Zenon
  <2>2. seq' = seq + 1 /\ seq \in Nat /\ Len(log') \in Nat
    BY <1>1, <1>3, <1>6
  <2>3. QED
    BY <2>1, <2>2
<1>11. QED
  BY <1>7, <1>10 DEF LedgerOK

LEMMA AnswersKept ==
    ASSUME PipelineInv, NEW r \in Requests, Step(r)
    PROVE  AnsweredAreBooked'
<1> USE PipelineConstants DEF PipelineInv, PipelineTypeOK, Handled, BooksAgree, AnsweredAreBooked
<1>1. CASE TurnAway(r) \/ CountTokens(r) \/ Reject(r) \/ ProvidersFail(r)
  BY <1>1 DEF TurnAway, CountTokens, Reject, ProvidersFail, Reply, table, books
<1>2. CASE Authenticated(r) \/ Unauthenticated(r) \/ KeyAdmitted(r) \/ KeyRefused(r)
  <2>1. PICK f \in Forms, next \in {"reading", "done"}, status \in {"waiting", "refused"} :
           Enter(r, f, next, status)
    BY <1>2 DEF Authenticated, Unauthenticated, KeyAdmitted, KeyRefused
  <2>2. /\ stage' = [stage EXCEPT ![r] = next]
        /\ form' = [form EXCEPT ![r] = f]
        /\ answer' = [answer EXCEPT ![r] = status]
        /\ UNCHANGED entry
    BY <2>1 DEF Enter, books
  <2>3. QED
    BY <2>1, <2>2
<1>3. CASE AskAnthropic(r) \/ CallProviders(r)
  BY <1>3 DEF AskAnthropic, CallProviders, GoesTo, books
<1>4. CASE Replayed(r)
  BY <1>4 DEF Replayed, Reply, books
<1>5. CASE RefuseLate(r)
  BY <1>5 DEF RefuseLate, Reply, books
<1>6. CASE PassOn(r)
  BY <1>6 DEF PassOn, Reply, IsBooked, books
<1>7. CASE Complete(r)
  BY <1>7 DEF Complete, Booked, Reply
<1>8. CASE Timeout(r)
  BY <1>8 DEF Timeout, books
<1>9. QED
  BY <1>1, <1>2, <1>3, <1>4, <1>5, <1>6, <1>7, <1>8 DEF Step

LEMMA BooksKept ==
    ASSUME PipelineInv, NEW r \in Requests, Step(r)
    PROVE  BooksAgree'
<1>1. CASE UNCHANGED books
  BY <1>1, AnswersKept DEF PipelineInv, BooksAgree, AnsweredAreBooked, books
<1>2. CASE Complete(r)
  BY <1>2, BookingKeepsLedger, AnswersKept DEF BooksAgree, LedgerOK, AnsweredAreBooked
<1>3. QED
  BY <1>1, <1>2, BookSteps

-----------------------------------------------------------------------------
(* The theorems                                                            *)

LEMMA StepKeeps ==
    ASSUME PipelineInv, NEW r \in Requests, Step(r), ~Restart
    PROVE  PipelineInv'
<1>1. IInv' /\ TableInv'
  BY WindowKept, TableKept DEF PipelineNext
<1>2. PipelineTypeOK'
  <2>1. TypeOK'
    BY <1>1 DEF IInv
  <2>2. stage' \in [Requests -> Stages] /\ answer' \in [Requests -> Statuses]
    BY StageTyped DEF PipelineInv
  <2>3. QED
    BY <2>1, <2>2, TableTyped, BooksTyped DEF PipelineTypeOK
<1>3. Handled' /\ BooksAgree'
  BY HandledKept, BooksKept
<1>4. QED
  BY <1>1, <1>2, <1>3 DEF PipelineInv

LEMMA OthersKeep ==
    ASSUME PipelineInv, [Next]_vars, UNCHANGED pipelineVars
    PROVE  PipelineInv'
<1>1. IInv' /\ now <= now'
  BY WindowStep, WindowConstants DEF PipelineInv, IInv, TypeOK, Next, Unlimited, Admit, Refuse, Tick, vars
<1>2. TableInv'
  BY <1>1, WindowConstants, EvictionKeepsTable DEF IInv, TypeOK, pipelineVars, table, Evicts409
<1>3. PipelineTypeOK'
  BY <1>1 DEF PipelineInv, PipelineTypeOK, IInv, pipelineVars, table, books
<1>4. Handled' /\ BooksAgree'
  BY DEF PipelineInv, Handled, BooksAgree, pipelineVars, table, books
<1>5. QED
  BY <1>1, <1>2, <1>3, <1>4 DEF PipelineInv

LEMMA PipelineInvKept == PipelineInv /\ [PipelineNext]_allVars => PipelineInv'
BY RestartEstablishes, StepKeeps, OthersKeep DEF PipelineNext, allVars

LEMMA PipelineInvHolds == PipelineSpec => []PipelineInv
BY PipelineStarts, PipelineInvKept, PTL DEF PipelineSpec

(* The variables of the pipeline keep their types; in particular the log   *)
(* never holds more than LogCap entries (security/nonce.py, log.py).       *)
THEOREM PipelineTypeCorrect == PipelineSpec => []PipelineTypeOK
BY PipelineInvHolds, PTL DEF PipelineInv

(* The window of the key still admits at most its limit per Span when its  *)
(* requests come through _authenticate() and the process may restart.      *)
THEOREM PipelineWindowCorrect == PipelineSpec => []NeverMoreThanLimit
BY PipelineInvHolds, PTL DEF PipelineInv, IInv

(* register() lets a nonce through once per NonceTTL.                      *)
THEOREM NonceOnceCorrect == PipelineSpec => []NonceOnce
BY PipelineInvHolds, PTL DEF PipelineInv, TableInv

(* Cost, log and answers agree.                                            *)
THEOREM BooksAgreeCorrect == PipelineSpec => []BooksAgree
BY PipelineInvHolds, PTL DEF PipelineInv

(* A 409 for a well-formed nonce has a reason in another request.          *)
THEOREM Honest409Correct == PipelineSpec => Honest409
<1>1. PipelineInv =>
        [\A r \in Requests :
            Replayed(r) /\ form[r].nonce \in Nonces =>
                \E s \in Requests \ {r} :
                    /\ accepted[s] >= 0 /\ SameNonce(r, s)
                    /\ now - accepted[s] <= NonceTTL]_allVars
  <2> SUFFICES ASSUME PipelineInv, NEW r \in Requests, Replayed(r), form[r].nonce \in Nonces
               PROVE  \E s \in Requests \ {r} :
                          /\ accepted[s] >= 0 /\ SameNonce(r, s)
                          /\ now - accepted[s] <= NonceTTL
    OBVIOUS
  <2> DEFINE n == form[r].nonce
  <2>1. accepted[r] = -1 /\ form[r] # None /\ expiry[n] # 0 /\ expiry[n] >= now
    BY WindowConstants, PipelineConstants
       DEF PipelineInv, PipelineTypeOK, TypeOK, Handled, Replayed, Fresh, Forgotten
  <2>2. PICK s \in Requests : Has(s, n) /\ expiry[n] = accepted[s] + NonceTTL
    BY <2>1 DEF PipelineInv, TableInv, Remembered
  <2>3. s # r /\ SameNonce(r, s)
    BY <2>1, <2>2 DEF Has, SameNonce
  <2>4. now - accepted[s] <= NonceTTL
    BY <2>1, <2>2, WindowConstants, PipelineConstants DEF PipelineInv, PipelineTypeOK, TypeOK
  <2>5. QED
    BY <2>2, <2>3, <2>4 DEF Has
<1>2. QED
  BY <1>1, PipelineInvHolds, PTL DEF Honest409

(* A request of a virtual key is refused for its rate only when as many as *)
(* its limit were counted during the last Span, restarts included.         *)
THEOREM PipelineRefusalCorrect == PipelineSpec => []RefusedOnlyWhenFull
<1>1. PipelineInv => RefusedOnlyWhenFull
  BY FullIsFresh DEF PipelineInv, RefusedOnlyWhenFull
<1>2. QED
  BY <1>1, PipelineInvHolds, PTL

=============================================================================
