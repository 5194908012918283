------------------------- MODULE CallProviderProofs -------------------------
(***************************************************************************)
(* Proofs about CallProvider, for any callers, limits, times and days.     *)
(***************************************************************************)
EXTENDS Cooldown, FiniteSetTheorems, TLAPS

-----------------------------------------------------------------------------
(* What one step may do, by the part of the state it changes               *)

(* Every step is one of six operations of the limiter.                     *)
LimiterOp ==
    \/ IsAvailable
    \/ NotAvailable
    \/ \E tokens \in Tokens : RecordSuccess(tokens)
    \/ RecordRateLimited
    \/ \E until_tomorrow \in BOOLEAN : RecordFailure(until_tomorrow)
    \/ ToggleProvider
    \/ LimiterTick
    \/ UNCHANGED limiterVars

(* A step of the specification performs one operation of the limiter.      *)
LEMMA StepIsLimiterOp == ASSUME [Next]_vars PROVE LimiterOp
<1>1. CASE UNCHANGED vars
  BY <1>1 DEF LimiterOp, vars
<1>2. ASSUME NEW c \in Callers, Asks(c) PROVE LimiterOp
  BY <1>2 DEF Asks, Admit, PassOver, Refuse, LimiterOp
<1>3. ASSUME NEW c \in Callers, Reports(c) PROVE LimiterOp
  BY <1>3 DEF Reports, Succeed, RateLimited, QuotaExhausted, Fault,
              FaultRetried, FaultFinal, LimiterOp
<1>4. ASSUME NEW c \in Callers, Retry(c) \/ Abort(c) PROVE LimiterOp
  BY <1>4 DEF Retry, Abort, LimiterOp
<1>5. ASSUME Toggle \/ Tick PROVE LimiterOp
  BY <1>5 DEF Toggle, Tick, LimiterOp
<1>6. QED
  BY <1>1, <1>2, <1>3, <1>4, <1>5 DEF Next

(* The breaker sees even fewer kinds of step.                              *)
BreakerOp ==
    \/ Allow
    \/ CbRecordSuccess
    \/ CbRecordFailure
    \/ CbTick
    \/ UNCHANGED cbVars

(* Whatever the limiter does, the breaker sees one of its own operations.  *)
LEMMA LimiterOpIsBreakerOp == ASSUME LimiterOp PROVE BreakerOp
  BY DEF LimiterOp, BreakerOp, IsAvailable, NotAvailable, Deny, RecordSuccess,
         RecordRateLimited, RecordFailure, ToggleProvider, LimiterTick,
         limiterVars

-----------------------------------------------------------------------------
(* Type correctness *)

(* Each operation of the breaker keeps its counts and ages in range.       *)
LEMMA BreakerTypeStep == ASSUME CbTypeOK, BreakerOp PROVE CbTypeOK'
<1> USE BreakerConstants DEF CbTypeOK, CircuitState
<1>1. CASE Allow
  BY <1>1 DEF Allow, AllowClosed, AllowOpen, AllowHalfOpen, cbVars
<1>2. CASE CbRecordSuccess
  BY <1>2 DEF CbRecordSuccess
<1>3. CASE CbRecordFailure
  BY <1>3 DEF CbRecordFailure, UpTo
<1>4. CASE CbTick
  BY <1>4 DEF CbTick, UpTo
<1>5. CASE UNCHANGED cbVars
  BY <1>5 DEF cbVars
<1>6. QED
  BY <1>1, <1>2, <1>3, <1>4, <1>5 DEF BreakerOp

(* Each method of the limiter keeps its counters and times in range.       *)
LEMMA LimiterTypeStep == ASSUME LimiterTypeOK, LimiterOp PROVE LimiterTypeOK'
<1> USE LimiterConstants DEF LimiterTypeOK
<1>0. CbTypeOK'
  BY LimiterOpIsBreakerOp, BreakerTypeStep
<1>1. ASSUME ResetWindow, UNCHANGED <<enabled, clock>> PROVE LimiterTypeOK'
  <2>1. (rpm \in Nat /\ rpd \in Nat /\ tpd \in Nat)'
    BY <1>1 DEF ResetWindow, RpmNow, RpdNow, TpdNow
  <2>2. (rpm_age \in 0 .. RpmWindow)'
    BY <1>1 DEF ResetWindow, RpmAgeNow
  <2>3. (lockout \in Nat)'
    BY <1>1 DEF ResetWindow, LockoutNow
  <2>4. (enabled \in BOOLEAN /\ date_stale \in BOOLEAN)'
    BY <1>1 DEF ResetWindow
  <2>5. (clock \in 0 .. DayLength - 1)'
    BY <1>1
  <2>6. QED
    BY <1>0, <2>1, <2>2, <2>3, <2>4, <2>5
<1>2. CASE UNCHANGED limiterVars
  <2>1. (enabled \in BOOLEAN /\ date_stale \in BOOLEAN)'
    BY <1>2 DEF limiterVars, limitVars
  <2>2. UNCHANGED <<rpm, rpd, tpd, rpm_age, lockout, clock>>
    BY <1>2 DEF limiterVars, limitVars
  <2>3. QED
    BY <1>0, <2>1, <2>2
<1>3. CASE IsAvailable \/ NotAvailable
  <2>1. \/ UNCHANGED limiterVars
        \/ ResetWindow /\ UNCHANGED <<enabled, clock>>
    BY <1>3 DEF IsAvailable, NotAvailable
  <2>2. QED
    BY <1>1, <1>2, <2>1
<1>4. ASSUME NEW tokens \in Tokens, RecordSuccess(tokens) PROVE LimiterTypeOK'
  <2>1. (rpm \in Nat /\ rpd \in Nat /\ tpd \in Nat)'
    <3>1. tokens \in Nat
      BY CallConstants
    <3>2. RpmNow \in Nat /\ RpdNow \in Nat /\ TpdNow \in Nat
      BY DEF RpmNow, RpdNow, TpdNow
    <3>3. QED
      BY <1>4, <3>1, <3>2 DEF RecordSuccess, CountUp
  <2>2. (rpm_age \in 0 .. RpmWindow /\ lockout \in Nat)'
    BY <1>4 DEF RecordSuccess, RpmAgeNow, LockoutNow
  <2>3. (enabled \in BOOLEAN /\ date_stale \in BOOLEAN)'
    BY <1>4 DEF RecordSuccess
  <2>4. (clock \in 0 .. DayLength - 1)'
    BY <1>4 DEF RecordSuccess
  <2>5. QED
    BY <1>0, <2>1, <2>2, <2>3, <2>4
<1>5. CASE RecordRateLimited
  BY <1>0, <1>5 DEF RecordRateLimited
<1>6. ASSUME NEW u \in BOOLEAN, RecordFailure(u) PROVE LimiterTypeOK'
  BY <1>0, <1>6 DEF RecordFailure, UntilTomorrow
<1>7. CASE ToggleProvider
  BY <1>0, <1>7 DEF ToggleProvider, limitVars
<1>8. CASE LimiterTick
  BY <1>0, <1>8 DEF LimiterTick, UpTo
<1>9. QED
  BY <1>2, <1>3, <1>4, <1>5, <1>6, <1>7, <1>8 DEF LimiterOp

(* The loop of call_provider: its variable stays in range because a caller *)
(* sleeps only when an attempt is left.                                    *)
CallTypeOK ==
    /\ stage \in [Callers -> {"idle", "sent", "backoff"}]
    /\ attempt \in [Callers -> 0 .. MaxAttempts - 1]
    /\ AttemptLeft

(* Each step of a caller keeps the loop variable in range, because a       *)
(* caller that sleeps has an attempt left.                                 *)
LEMMA CallTypeStep == ASSUME CallTypeOK, [Next]_vars PROVE CallTypeOK'
<1> USE CallConstants DEF CallTypeOK, AttemptLeft
<1>1. CASE UNCHANGED callVars
  BY <1>1 DEF callVars
<1>2. ASSUME NEW c \in Callers, Return(c) PROVE CallTypeOK'
  BY <1>2 DEF Return
<1>3. ASSUME NEW c \in Callers, Asks(c) PROVE CallTypeOK'
  BY <1>1, <1>3 DEF Asks, Admit, PassOver, Refuse
<1>4. ASSUME NEW c \in Callers, Reports(c) PROVE CallTypeOK'
  <2>1. CASE FaultRetried(c)
    BY <2>1 DEF FaultRetried
  <2>2. QED
    BY <1>2, <1>4, <2>1 DEF Reports, Succeed, RateLimited, QuotaExhausted,
                            Fault, FaultFinal
<1>5. ASSUME NEW c \in Callers, Retry(c) PROVE CallTypeOK'
  BY <1>5 DEF Retry
<1>6. QED
  BY <1>1, <1>2, <1>3, <1>4, <1>5 DEF Next, Toggle, Tick, Abort, vars, callVars

(* The inductive form of type correctness: TypeOK and AttemptLeft.         *)
LEMMA CallTypeCorrect == Spec => [](LimiterTypeOK /\ CallTypeOK)
<1>1. Init => LimiterTypeOK /\ CallTypeOK
  <2> SUFFICES ASSUME Init PROVE LimiterTypeOK /\ CallTypeOK
    OBVIOUS
  <2>1. CbTypeOK
    BY BreakerConstants
       DEF Init, LimiterInit, DefaultCbState, CbTypeOK, CircuitState
  <2>2. LimiterTypeOK
    <3>1. enabled \in BOOLEAN /\ date_stale \in BOOLEAN
      BY DEF Init, LimiterInit
    <3>2. /\ rpm \in Nat /\ rpd \in Nat /\ tpd \in Nat
          /\ rpm_age \in 0 .. RpmWindow
          /\ lockout \in Nat
          /\ clock \in 0 .. DayLength - 1
      BY LimiterConstants DEF Init, LimiterInit
    <3>3. QED
      BY <2>1, <3>1, <3>2 DEF LimiterTypeOK
  <2>3. CallTypeOK
    BY CallConstants DEF Init, CallTypeOK, AttemptLeft
  <2>4. QED
    BY <2>2, <2>3
<1>2. LimiterTypeOK /\ CallTypeOK /\ [Next]_vars => (LimiterTypeOK /\ CallTypeOK)'
  BY StepIsLimiterOp, LimiterTypeStep, CallTypeStep
<1>3. QED
  BY <1>1, <1>2, PTL DEF Spec

(* Every variable keeps its type: in particular no attempt goes past the   *)
(* range of call_provider's loop and no age past the cap it is compared    *)
(* with.                                                                   *)
THEOREM TypeCorrect == Spec => []TypeOK
<1>1. LimiterTypeOK /\ CallTypeOK => TypeOK
  BY DEF CallTypeOK, TypeOK
<1>2. QED
  BY <1>1, CallTypeCorrect, PTL

-----------------------------------------------------------------------------
(* The breaker *)

(* Each operation of the breaker keeps its state and its count in step.    *)
LEMMA BreakerConsistentStep ==
    ASSUME CbTypeOK, BreakerConsistent, BreakerOp
    PROVE  BreakerConsistent'
<1> USE BreakerConstants DEF BreakerConsistent, CbTypeOK
<1>1. CASE Allow
  BY <1>1 DEF Allow, AllowClosed, AllowOpen, AllowHalfOpen, cbVars
<1>2. CASE CbRecordSuccess
  BY <1>2 DEF CbRecordSuccess
<1>3. CASE CbRecordFailure
  BY <1>3 DEF CbRecordFailure, UpTo
<1>4. CASE CbTick
  BY <1>4 DEF CbTick
<1>5. CASE UNCHANGED cbVars
  BY <1>5 DEF cbVars
<1>6. QED
  BY <1>1, <1>2, <1>3, <1>4, <1>5 DEF BreakerOp

(* The breaker is closed exactly while fewer than FailThresh failures were *)
(* recorded since the last success, whatever the callers do and in         *)
(* whichever order their outcomes are recorded.                            *)
THEOREM BreakerCorrect == Spec => []BreakerConsistent
<1>1. Init => BreakerConsistent
  BY BreakerConstants DEF Init, LimiterInit, DefaultCbState, BreakerConsistent
<1>2. TypeOK /\ BreakerConsistent /\ [Next]_vars => BreakerConsistent'
  BY StepIsLimiterOp, LimiterOpIsBreakerOp, BreakerConsistentStep
     DEF TypeOK, LimiterTypeOK
<1>3. QED
  BY <1>1, <1>2, TypeCorrect, PTL DEF Spec

-----------------------------------------------------------------------------
(* The quotas *)

(* The only steps that matter to a quota: a caller is let in below every   *)
(* limit, a caller is counted and leaves, or no counter grows and nobody   *)
(* comes in.                                                               *)
Admission == BelowLimits /\ ResetWindow

Counting ==
    \E tokens \in Tokens, c \in InFlight :
        RecordSuccess(tokens) /\ InFlight' = InFlight \ {c}

Quiet ==
    /\ rpm' \in 0 .. rpm /\ rpd' \in 0 .. rpd /\ tpd' \in 0 .. tpd
    /\ InFlight' \subseteq InFlight

(* Every step is one of the three kinds above.                             *)
LEMMA QuotaStep ==
    ASSUME TypeOK, [Next]_vars
    PROVE  Admission \/ Counting \/ Quiet
<1>0. rpm \in Nat /\ rpd \in Nat /\ tpd \in Nat
  BY DEF TypeOK, LimiterTypeOK
<1> DEFINE Kept == rpm' \in 0 .. rpm /\ rpd' \in 0 .. rpd /\ tpd' \in 0 .. tpd
<1>1. ASSUME UNCHANGED <<rpm, rpd, tpd>> PROVE Kept
  BY <1>0, <1>1
<1>2. ASSUME ResetWindow PROVE Kept
  BY <1>0, <1>2 DEF ResetWindow, RpmNow, RpdNow, TpdNow
<1> HIDE DEF Kept
<1>3. ASSUME NEW c \in Callers, Return(c) PROVE InFlight' = InFlight \ {c}
  BY <1>3 DEF Return, InFlight, TypeOK
<1>4. ASSUME UNCHANGED stage PROVE InFlight' = InFlight
  BY <1>4 DEF InFlight
<1>5. ASSUME NEW c \in Callers, Asks(c) PROVE Admission \/ Quiet
  <2>1. CASE IsAvailable
    BY <2>1 DEF IsAvailable, Admission
  <2>2. CASE Refuse(c)
    <3>1. Kept
      BY <1>1, <1>2, <2>2 DEF Refuse, NotAvailable, limiterVars, limitVars
    <3>2. QED
      BY <1>4, <2>2, <3>1 DEF Refuse, callVars, Quiet, Kept
  <2>3. QED
    BY <1>5, <2>1, <2>2 DEF Asks, Admit, PassOver
<1>6. ASSUME NEW c \in Callers, Reports(c) PROVE Counting \/ Quiet
  <2>1. CASE Succeed(c)
    BY <1>3, <2>1 DEF Succeed, Counting, InFlight
  <2>2. CASE RateLimited(c) \/ QuotaExhausted(c) \/ FaultFinal(c)
    <3>1. Kept
      BY <1>1, <2>2 DEF RateLimited, RecordRateLimited, QuotaExhausted,
                        FaultFinal, RecordFailure
    <3>2. QED
      BY <1>3, <2>2, <3>1 DEF RateLimited, QuotaExhausted, FaultFinal, Quiet, Kept
  <2>3. CASE FaultRetried(c)
    <3>1. Kept
      BY <1>1, <2>3 DEF FaultRetried, RecordFailure
    <3>2. InFlight' \subseteq InFlight
      BY <2>3 DEF FaultRetried, InFlight, TypeOK
    <3>3. QED
      BY <3>1, <3>2 DEF Quiet, Kept
  <2>4. QED
    BY <1>6, <2>1, <2>2, <2>3 DEF Reports, Fault
<1>7. ASSUME NEW c \in Callers, Retry(c) PROVE Quiet
  <2>1. Kept
    BY <1>1, <1>7 DEF Retry, limiterVars, limitVars
  <2>2. InFlight' \subseteq InFlight
    BY <1>7 DEF Retry, InFlight, TypeOK
  <2>3. QED
    BY <2>1, <2>2 DEF Quiet, Kept
<1>8. ASSUME NEW c \in Callers, Abort(c) PROVE Quiet
  <2>1. Kept
    BY <1>1, <1>8 DEF Abort, limiterVars, limitVars
  <2>2. QED
    BY <1>3, <1>8, <2>1 DEF Abort, Quiet, Kept
<1>9. CASE Toggle \/ Tick \/ UNCHANGED vars
  <2>1. Kept
    BY <1>1, <1>9 DEF Toggle, ToggleProvider, Tick, LimiterTick, vars,
                      limiterVars, limitVars
  <2>2. QED
    BY <1>4, <1>9, <2>1 DEF Toggle, Tick, vars, callVars, Quiet, Kept
<1>10. QED
  BY <1>5, <1>6, <1>7, <1>8, <1>9 DEF Next

(* How many callers are in flight, before and after a step.                *)
LEMMA InFlightCount ==
    /\ IsFiniteSet(InFlight)
    /\ Cardinality(InFlight) \in 0 .. Cardinality(Callers)
    /\ Cardinality(Callers) \in Nat
<1>1. InFlight \subseteq Callers
  BY DEF InFlight
<1>2. QED
  BY <1>1, CallConstants, FS_Subset, FS_CardinalityType

(* How each kind of step changes that number.                              *)
LEMMA InFlightCountStep ==
    /\ Cardinality(InFlight)' \in 0 .. Cardinality(Callers)
    /\ Quiet => Cardinality(InFlight)' <= Cardinality(InFlight)
    /\ Counting => Cardinality(InFlight)' = Cardinality(InFlight) - 1
<1>1. InFlight' \subseteq Callers
  BY DEF InFlight
<1>2. Cardinality(InFlight)' \in 0 .. Cardinality(Callers)
  BY <1>1, CallConstants, FS_Subset, FS_CardinalityType
<1>3. ASSUME Quiet PROVE Cardinality(InFlight)' <= Cardinality(InFlight)
  BY <1>3, InFlightCount, FS_Subset DEF Quiet
<1>4. ASSUME Counting PROVE Cardinality(InFlight)' = Cardinality(InFlight) - 1
  BY <1>4, InFlightCount, FS_RemoveElement DEF Counting
<1>5. QED
  BY <1>2, <1>3, <1>4

(* However many requests are in flight, the minute's count passes its      *)
(* limit by less than the number of callers.                               *)
THEOREM RpmBoundedCorrect == Spec => []RpmBounded
<1>1. Init => RpmBounded
  BY InFlightCount, LimiterConstants DEF Init, LimiterInit, RpmBounded
<1>2. TypeOK /\ RpmBounded /\ [Next]_vars => RpmBounded'
  <2> SUFFICES ASSUME TypeOK, RpmBounded, [Next]_vars, RpmLimit > 0
               PROVE  rpm' + Cardinality(InFlight)'
                        <= RpmLimit - 1 + Cardinality(Callers)
    BY DEF RpmBounded
  <2> USE InFlightCount, InFlightCountStep, LimiterConstants
      DEF TypeOK, LimiterTypeOK, RpmBounded
  <2>1. CASE Admission
    BY <2>1 DEF Admission, BelowLimits, BelowLimit, ResetWindow, RpmNow
  <2>2. CASE Counting
    BY <2>2 DEF Counting, RecordSuccess, CountUp, RpmNow
  <2>3. CASE Quiet
    BY <2>3 DEF Quiet
  <2>4. QED
    BY <2>1, <2>2, <2>3, QuotaStep
<1>3. QED
  BY <1>1, <1>2, TypeCorrect, PTL DEF Spec

(* The same for the count of the day, which only a new date resets.        *)
THEOREM RpdBoundedCorrect == Spec => []RpdBounded
<1>1. Init => RpdBounded
  BY InFlightCount, LimiterConstants DEF Init, LimiterInit, RpdBounded
<1>2. TypeOK /\ RpdBounded /\ [Next]_vars => RpdBounded'
  <2> SUFFICES ASSUME TypeOK, RpdBounded, [Next]_vars, RpdLimit > 0
               PROVE  rpd' + Cardinality(InFlight)'
                        <= RpdLimit - 1 + Cardinality(Callers)
    BY DEF RpdBounded
  <2> USE InFlightCount, InFlightCountStep, LimiterConstants
      DEF TypeOK, LimiterTypeOK, RpdBounded
  <2>1. CASE Admission
    BY <2>1 DEF Admission, BelowLimits, BelowLimit, ResetWindow, RpdNow
  <2>2. CASE Counting
    BY <2>2 DEF Counting, RecordSuccess, CountUp, RpdNow
  <2>3. CASE Quiet
    BY <2>3 DEF Quiet
  <2>4. QED
    BY <2>1, <2>2, <2>3, QuotaStep
<1>3. QED
  BY <1>1, <1>2, TypeCorrect, PTL DEF Spec

(* Multiplication by a natural number keeps the order.                     *)
LEMMA TimesMonotone ==
    ASSUME NEW m \in Nat, NEW i \in Nat, NEW j \in Nat, i <= j
    PROVE  m * i \in Nat /\ m * j \in Nat /\ m * i <= m * j
OBVIOUS

(* Multiplication distributes over the departure of one caller.            *)
LEMMA TimesLess ==
    ASSUME NEW m \in Nat, NEW i \in Nat
    PROVE  m * (i - 1) = m * i - m
OBVIOUS

(* The day's tokens pass their limit by less than one largest answer for   *)
(* each caller.                                                            *)
THEOREM TpdBoundedCorrect == Spec => []TpdBounded
<1> DEFINE flying == Cardinality(InFlight)
           all == Cardinality(Callers)
<1>0. /\ MaxTokens * flying \in Nat /\ MaxTokens * all \in Nat
      /\ MaxTokens * flying <= MaxTokens * all
  BY InFlightCount, TimesMonotone, CallConstants
<1>1. Init => TpdBounded
  BY <1>0, LimiterConstants, CallConstants DEF Init, LimiterInit, TpdBounded
<1>2. TypeOK /\ TpdBounded /\ [Next]_vars => TpdBounded'
  <2> SUFFICES ASSUME TypeOK, TpdBounded, [Next]_vars, TpdLimit > 0
               PROVE  tpd' + MaxTokens * flying' <= TpdLimit - 1 + MaxTokens * all
    BY DEF TpdBounded
  <2>0. MaxTokens * flying' \in Nat /\ MaxTokens * flying' <= MaxTokens * all
    BY InFlightCount, InFlightCountStep, TimesMonotone, CallConstants
  <2>1. CASE Admission
    <3>1. tpd' \in Nat /\ tpd' <= TpdLimit - 1
      BY <2>1, LimiterConstants DEF Admission, BelowLimits, BelowLimit,
         ResetWindow, TpdNow, TypeOK, LimiterTypeOK
    <3>2. QED
      BY <1>0, <2>0, <3>1, LimiterConstants
  <2>2. CASE Counting
    <3>1. PICK tokens \in Tokens : tpd' = CountUp(TpdLimit, TpdNow, tokens)
      BY <2>2 DEF Counting, RecordSuccess
    <3>2. tpd' \in Nat /\ tpd' <= tpd + MaxTokens
      BY <3>1, CallConstants DEF CountUp, TpdNow, TypeOK, LimiterTypeOK
    <3>3. MaxTokens * flying' = MaxTokens * flying - MaxTokens
      BY <2>2, InFlightCount, InFlightCountStep, TimesLess, CallConstants
    <3>4. QED
      BY <1>0, <2>0, <3>2, <3>3, LimiterConstants, CallConstants
         DEF TpdBounded, TypeOK, LimiterTypeOK
  <2>3. CASE Quiet
    <3>1. MaxTokens * flying' <= MaxTokens * flying
      BY <2>3, InFlightCount, InFlightCountStep, TimesMonotone, CallConstants
    <3>2. tpd' \in Nat /\ tpd' <= tpd
      BY <2>3 DEF Quiet, TypeOK, LimiterTypeOK
    <3>3. QED
      BY <1>0, <2>0, <3>1, <3>2, LimiterConstants
         DEF TpdBounded, TypeOK, LimiterTypeOK
  <2>4. QED
    BY <2>1, <2>2, <2>3, QuotaStep
<1>3. QED
  BY <1>1, <1>2, TypeCorrect, PTL DEF Spec

-----------------------------------------------------------------------------
(* The promise of AdmissionGate *)

(* The refinement mapping *)
tripped == cb_state # "closed"
wait == CASE cb_state = "closed" -> 0
          [] cb_state = "open" -> OpenSecs - cb_opened_age
          [] cb_state = "half_open" -> ProbeTimeout - cb_probe_age

(* What allow() grants is a permission of the gate.                        *)
LEMMA AllowIsPermission ==
    ASSUME CbTypeOK, Allow
    PROVE  \/ ~tripped /\ UNCHANGED <<tripped, wait>>
           \/ tripped /\ wait = 0 /\ wait' = ProbeTimeout /\ UNCHANGED tripped
<1> USE BreakerConstants DEF CbTypeOK, tripped, wait
<1>1. CASE AllowClosed
  BY <1>1 DEF AllowClosed, cbVars
<1>2. CASE AllowOpen
  BY <1>2 DEF AllowOpen
<1>3. CASE AllowHalfOpen
  BY <1>3 DEF AllowHalfOpen
<1>4. QED
  BY <1>1, <1>2, <1>3 DEF Allow

(* A failure recorded while the breaker is not closed opens it again: it   *)
(* needs BreakerConsistent, or a half-open breaker could count up to the   *)
(* threshold from below.                                                   *)
LEMMA FailureTrips ==
    ASSUME CbTypeOK, BreakerConsistent, CbRecordFailure
    PROVE  \/ ~tripped /\ UNCHANGED <<tripped, wait>>
           \/ tripped' = TRUE /\ wait' = OpenSecs
  BY BreakerConstants
     DEF CbTypeOK, BreakerConsistent, CbRecordFailure, UpTo, tripped, wait

(* A tick of the clock is a tick of the gate, or nothing to it.            *)
LEMMA TimePasses ==
    ASSUME CbTypeOK, CbTick
    PROVE  \/ wait > 0 /\ wait' = wait - 1 /\ UNCHANGED tripped
           \/ UNCHANGED <<tripped, wait>>
  BY BreakerConstants DEF CbTypeOK, CircuitState, CbTick, UpTo, tripped, wait

(* Every step of the callers is a step of the gate or a stutter.           *)
LEMMA GateStep ==
    ASSUME TypeOK, BreakerConsistent, [Next]_vars
    PROVE  [Gate!GateNext]_(Gate!gateVars)
<1> DEFINE same == UNCHANGED <<tripped, wait>>
<1> USE DEF Gate!gateVars, tripped, wait
<1>0. CbTypeOK
  BY DEF TypeOK, LimiterTypeOK
<1>1. ASSUME UNCHANGED cbVars PROVE same
  BY <1>1 DEF cbVars
<1>2. ASSUME NEW c \in Callers, Return(c) PROVE InFlight' = InFlight \ {c}
  BY <1>2 DEF Return, InFlight, TypeOK
<1>3. ASSUME UNCHANGED stage PROVE InFlight' = InFlight
  BY <1>3 DEF InFlight
<1>4. ASSUME NEW c \in Callers, Admit(c) PROVE Gate!Enter(c)
  <2>1. c \notin InFlight /\ InFlight' = InFlight \cup {c}
    BY <1>4 DEF Admit, InFlight, TypeOK
  <2>2. Gate!Permission
    BY <1>0, <1>4, AllowIsPermission DEF Admit, IsAvailable, Gate!Permission
  <2>3. QED
    BY <2>1, <2>2 DEF Gate!Enter
<1>5. ASSUME NEW c \in Callers, PassOver(c) \/ Refuse(c)
      PROVE  Gate!Waste \/ UNCHANGED Gate!gateVars
  <2>1. InFlight' = InFlight
    BY <1>3, <1>5 DEF PassOver, Refuse, callVars
  <2>2. Allow \/ UNCHANGED cbVars
    BY <1>5 DEF PassOver, Refuse, IsAvailable, NotAvailable, Deny, limiterVars
  <2>3. Gate!Permission \/ same
    BY <1>0, <1>1, <2>2, AllowIsPermission DEF Gate!Permission
  <2>4. QED
    BY <2>1, <2>3 DEF Gate!Waste
<1>6. ASSUME NEW c \in Callers, Succeed(c) PROVE Gate!Succeed(c)
  <2>1. c \in InFlight /\ InFlight' = InFlight \ {c}
    BY <1>2, <1>6 DEF Succeed, InFlight
  <2>2. cb_state' = "closed"
    BY <1>6 DEF Succeed, RecordSuccess, CbRecordSuccess
  <2>3. QED
    BY <2>1, <2>2 DEF Gate!Succeed
<1>7. ASSUME NEW c \in Callers, RateLimited(c) \/ Abort(c) PROVE Gate!Leave(c)
  <2>1. c \in InFlight /\ InFlight' = InFlight \ {c}
    BY <1>2, <1>7 DEF RateLimited, Abort, InFlight
  <2>2. same
    BY <1>1, <1>7 DEF RateLimited, RecordRateLimited, Abort, limiterVars
  <2>3. QED
    BY <2>1, <2>2 DEF Gate!Leave
<1>8. ASSUME NEW c \in Callers, QuotaExhausted(c) \/ Fault(c) PROVE Gate!Fail(c)
  <2>1. CbRecordFailure
    BY <1>8 DEF QuotaExhausted, Fault, FaultRetried, FaultFinal, RecordFailure
  <2>2. c \in InFlight
    BY <1>8 DEF QuotaExhausted, Fault, FaultRetried, FaultFinal, InFlight
  <2>3. InFlight' \in {InFlight, InFlight \ {c}}
    <3>1. CASE FaultRetried(c)
      BY <3>1 DEF FaultRetried, InFlight, TypeOK
    <3>2. QED
      BY <1>2, <1>8, <3>1 DEF QuotaExhausted, Fault, FaultFinal
  <2>4. \/ ~tripped /\ same
        \/ tripped' = TRUE /\ wait' = OpenSecs
    BY <1>0, <2>1, FailureTrips
  <2>5. QED
    BY <2>2, <2>3, <2>4 DEF Gate!Fail
<1>9. ASSUME NEW c \in Callers, Retry(c) PROVE UNCHANGED Gate!gateVars
  <2>1. InFlight' = InFlight
    BY <1>9 DEF Retry, InFlight, TypeOK
  <2>2. QED
    BY <1>1, <1>9, <2>1 DEF Retry, limiterVars
<1>10. CASE Tick
  <2>1. InFlight' = InFlight
    BY <1>3, <1>10 DEF Tick, callVars
  <2>2. \/ wait > 0 /\ wait' = wait - 1 /\ UNCHANGED tripped
        \/ same
    BY <1>0, <1>10, TimePasses DEF Tick, LimiterTick
  <2>3. Gate!GateTick \/ UNCHANGED Gate!gateVars
    BY <2>1, <2>2 DEF Gate!GateTick
  <2>4. QED
    BY <2>3 DEF Gate!GateNext
<1>11. CASE Toggle \/ UNCHANGED vars
  BY <1>1, <1>3, <1>11
     DEF Toggle, ToggleProvider, vars, callVars, limiterVars
<1>12. QED
  BY <1>4, <1>5, <1>6, <1>7, <1>8, <1>9, <1>10, <1>11
     DEF Next, Asks, Reports, Gate!GateNext

(* The breaker under concurrent, retrying calls implements the abstract    *)
(* gate: after the last failure of a tripped gate nobody is let in for     *)
(* OpenSecs, and then one caller at most every ProbeTimeout.               *)
THEOREM CallProviderImplementsGate == Spec => KeepsGatePromise
<1>1. Init => Gate!GateInit
  BY DEF Init, LimiterInit, DefaultCbState, InFlight, Gate!GateInit
<1>2. QED
  BY <1>1, GateStep, TypeCorrect, BreakerCorrect, PTL
     DEF Spec, KeepsGatePromise, Gate!GateSpec

-----------------------------------------------------------------------------
(* The cooldowns that were announced *)

(* While rpd_date is today's, what is left of exhausted_until covers the   *)
(* cooldown that is owed, or the rest of the day: a lockout until tomorrow *)
(* may be shorter than what is owed, but the day is over when it ends.     *)
OwedIsLockedOut ==
    /\ owed \in 0 .. FailCooldown
    /\ ~date_stale => owed <= lockout \/ UntilTomorrow <= lockout

(* A lockout that nothing overwrote today lasts until tomorrow.            *)
QuotaIsLockedOut == quota_out /\ ~date_stale => UntilTomorrow <= lockout

LockedOut == OwedIsLockedOut /\ QuotaIsLockedOut

(* The history neither allows a step nor forbids one.                      *)
LEMMA HistoryStep == ASSUME [HistoryNext]_historyVars PROVE [Next]_vars
  BY DEF HistoryNext, historyVars, Next, Reports

LEMMA HistoryTypeCorrect == HistorySpec => []TypeOK
<1>1. HistorySpec => Spec
  BY HistoryStep, PTL DEF HistorySpec, HistoryInit, Spec
<1>2. QED
  BY <1>1, TypeCorrect, PTL

(* A step after which the date is today's leaves the lockout as it was,    *)
(* or starts a new day and forgets what was owed.                          *)
LEMMA ForgetKeepsLockedOut ==
    ASSUME LimiterTypeOK, LockedOut, Forget, clock' = clock,
           \/ lockout' = LockoutNow /\ date_stale' = FALSE
           \/ lockout' = lockout /\ date_stale' = date_stale
    PROVE  LockedOut'
<1> USE LimiterConstants DEF LimiterTypeOK
<1>1. CASE date_stale /\ ~date_stale'
  <2>1. owed' = 0 /\ ~quota_out'
    BY <1>1 DEF Forget
  <2>2. lockout' \in Nat
    BY DEF LockoutNow
  <2>3. QED
    BY <2>1, <2>2 DEF LockedOut, OwedIsLockedOut, QuotaIsLockedOut
<1>2. CASE ~(date_stale /\ ~date_stale')
  <2>1. owed' = owed /\ (quota_out' => quota_out)
    BY <1>2 DEF Forget
  <2>2. lockout' = lockout /\ date_stale' = date_stale
    BY <1>2 DEF LockoutNow
  <2>3. QED
    BY <2>1, <2>2 DEF LockedOut, OwedIsLockedOut, QuotaIsLockedOut, UntilTomorrow
<1>3. QED
  BY <1>1, <1>2

(* Each step that announces a cooldown locks out for at least as long; the *)
(* others do not touch it, or begin a day.                                 *)
LEMMA LockedOutStep ==
    ASSUME TypeOK, LockedOut, [HistoryNext]_historyVars
    PROVE  LockedOut'
<1> USE LimiterConstants, CooldownConstants
<1>0. LimiterTypeOK
  BY DEF TypeOK
<1>1. ASSUME NEW c \in Callers, Asks(c) \/ Succeed(c) \/ Retry(c) \/ Abort(c), Forget
      PROVE  LockedOut'
  <2>1. \/ lockout' = LockoutNow /\ date_stale' = FALSE /\ clock' = clock
        \/ lockout' = lockout /\ date_stale' = date_stale /\ clock' = clock
    <3>1. CASE Asks(c)
      BY <3>1 DEF Asks, Admit, PassOver, Refuse, IsAvailable, NotAvailable, ResetWindow,
                  limiterVars, limitVars
    <3>2. CASE Succeed(c)
      BY <3>2 DEF Succeed, RecordSuccess
    <3>3. CASE Retry(c) \/ Abort(c)
      BY <3>3 DEF Retry, Abort, limiterVars, limitVars
    <3>4. QED
      BY <1>1, <3>1, <3>2, <3>3
  <2>2. QED
    BY <1>0, <1>1, <2>1, ForgetKeepsLockedOut
<1>2. ASSUME NEW c \in Callers, RateLimited(c), owed' = Larger(owed, RateCooldown),
             UNCHANGED quota_out
      PROVE  LockedOut'
  BY <1>0, <1>2
     DEF RateLimited, RecordRateLimited, Larger, LimiterTypeOK, LockedOut, OwedIsLockedOut,
         QuotaIsLockedOut, UntilTomorrow
<1>3. ASSUME NEW c \in Callers, QuotaExhausted(c), quota_out' = TRUE, UNCHANGED owed
      PROVE  LockedOut'
  BY <1>0, <1>3
     DEF QuotaExhausted, RecordFailure, LimiterTypeOK, LockedOut, OwedIsLockedOut,
         QuotaIsLockedOut, UntilTomorrow
<1>4. ASSUME NEW c \in Callers, Fault(c), owed' = Larger(owed, FailCooldown), quota_out' = FALSE
      PROVE  LockedOut'
  <2>1. RecordFailure(FALSE)
    BY <1>4 DEF Fault, FaultRetried, FaultFinal
  <2>2. QED
    BY <1>4, <2>1
       DEF RecordFailure, Larger, LockedOut, OwedIsLockedOut, QuotaIsLockedOut
<1>5. ASSUME Tick, owed' = Larger(owed, 1) - 1, UNCHANGED quota_out
      PROVE  LockedOut'
  <2>1. /\ clock' = (clock + 1) % DayLength
        /\ date_stale' = (date_stale \/ clock' = 0)
        /\ lockout' = IF lockout > 0 THEN lockout - 1 ELSE 0
    BY <1>5 DEF Tick, LimiterTick
  <2>2. clock \in 0 .. DayLength - 1 /\ lockout \in Nat /\ owed \in 0 .. FailCooldown
    BY <1>0 DEF LimiterTypeOK, LockedOut, OwedIsLockedOut
  <2>3. owed' \in 0 .. FailCooldown
    BY <1>5, <2>2 DEF Larger
  <2>4. ASSUME ~date_stale'
        PROVE  /\ ~date_stale /\ clock' = clock + 1
               /\ owed <= lockout => owed' <= lockout'
               /\ UntilTomorrow <= lockout => UntilTomorrow' <= lockout'
    <3>1. ~date_stale /\ clock' # 0
      BY <2>1, <2>4
    <3>2. clock' = clock + 1
      BY <2>1, <2>2, <3>1
    <3>3. QED
      BY <1>5, <2>1, <2>2, <3>1, <3>2 DEF Larger, UntilTomorrow
  <2>5. QED
    BY <1>5, <2>3, <2>4 DEF LockedOut, OwedIsLockedOut, QuotaIsLockedOut
<1>6. CASE UNCHANGED historyVars \/ (Toggle /\ UNCHANGED memory)
  BY <1>6
     DEF historyVars, vars, memory, Toggle, ToggleProvider, limiterVars, limitVars, LockedOut,
         OwedIsLockedOut, QuotaIsLockedOut, UntilTomorrow
<1>7. QED
  BY <1>1, <1>2, <1>3, <1>4, <1>5, <1>6 DEF HistoryNext

LEMMA LockedOutHolds == HistorySpec => []LockedOut
<1>1. HistoryInit => LockedOut
  BY LimiterConstants DEF HistoryInit, Init, LimiterInit, LockedOut, OwedIsLockedOut, QuotaIsLockedOut
<1>2. QED
  BY <1>1, LockedOutStep, HistoryTypeCorrect, PTL DEF HistorySpec

(* Only Admit lets a caller in that was out, and it asks is_available().   *)
LEMMA EnteredIsAdmitted ==
    ASSUME TypeOK, [Next]_vars, Entered
    PROVE  LockoutNow = 0
<1>1. PICK c \in Callers : stage[c] = "idle" /\ stage'[c] = "sent"
  BY DEF Entered
<1>2. ASSUME NEW d \in Callers, Return(d) PROVE FALSE
  BY <1>1, <1>2 DEF Return, TypeOK
<1>3. ASSUME UNCHANGED stage PROVE FALSE
  BY <1>1, <1>3
<1>4. PICK d \in Callers : Asks(d) \/ Reports(d) \/ Retry(d) \/ Abort(d)
  BY <1>3 DEF Next, Toggle, Tick, vars, callVars
<1>5. ~Reports(d)
  <2>1. ~FaultRetried(d)
    BY <1>1 DEF FaultRetried, TypeOK
  <2>2. QED
    BY <1>2, <2>1 DEF Reports, Succeed, RateLimited, QuotaExhausted, Fault, FaultFinal
<1>6. ~Retry(d)
  BY <1>1 DEF Retry, TypeOK
<1>7. ~Abort(d)
  BY <1>2 DEF Abort
<1>8. IsAvailable
  BY <1>3, <1>4, <1>5, <1>6, <1>7 DEF Asks, Admit, PassOver, Refuse, callVars
<1>9. QED
  BY <1>8 DEF IsAvailable

(* No request is let in before the longest cooldown announced is over,     *)
(* whatever concurrent calls report in between, but for the reset of a new *)
(* day.                                                                    *)
THEOREM CooldownServedCorrect == HistorySpec => CooldownServed
<1>1. TypeOK /\ LockedOut /\ [HistoryNext]_historyVars
        => [Entered => owed = 0 \/ date_stale]_historyVars
  <2> SUFFICES ASSUME TypeOK, LockedOut, [HistoryNext]_historyVars, Entered, ~date_stale
               PROVE  owed = 0
    OBVIOUS
  <2>1. lockout = 0
    BY HistoryStep, EnteredIsAdmitted DEF LockoutNow
  <2>2. owed \in Nat /\ clock \in 0 .. DayLength - 1 /\ DayLength \in Nat
        /\ (owed <= lockout \/ DayLength - clock <= lockout)
    BY LimiterConstants
       DEF LockedOut, OwedIsLockedOut, UntilTomorrow, TypeOK, LimiterTypeOK
  <2>3. QED
    BY <2>1, <2>2
<1>2. QED
  BY <1>1, LockedOutHolds, HistoryTypeCorrect, PTL DEF HistorySpec, CooldownServed

(* After a 402 or 403 no request is let in on the same day, unless a call  *)
(* that was in flight failed in another way.                               *)
THEOREM QuotaLockoutServedCorrect == HistorySpec => QuotaLockoutServed
<1>1. TypeOK /\ LockedOut /\ [HistoryNext]_historyVars
        => [Entered => ~quota_out \/ date_stale]_historyVars
  <2> SUFFICES ASSUME TypeOK, LockedOut, [HistoryNext]_historyVars, Entered, ~date_stale
               PROVE  ~quota_out
    OBVIOUS
  <2>1. lockout = 0
    BY HistoryStep, EnteredIsAdmitted DEF LockoutNow
  <2>2. clock \in 0 .. DayLength - 1 /\ DayLength \in Nat
        /\ (quota_out => DayLength - clock <= lockout)
    BY LimiterConstants
       DEF LockedOut, QuotaIsLockedOut, UntilTomorrow, TypeOK, LimiterTypeOK
  <2>3. QED
    BY <2>1, <2>2
<1>2. QED
  BY <1>1, LockedOutHolds, HistoryTypeCorrect, PTL DEF HistorySpec, QuotaLockoutServed

=============================================================================
