----------------------------- MODULE RateLimiter -----------------------------
(***************************************************************************)
(* RateLimitTracker for one provider: providers/rate_limiter.py.           *)
(*                                                                         *)
(* No method awaits anything while it holds self._lock, so under asyncio   *)
(* each method body is one step.  The state of a provider is independent   *)
(* of the others'.                                                         *)
(*                                                                         *)
(* exhausted_until is kept as what is left of it, rpm_ts as its age,       *)
(* rpd_date as whether it is still today's date.  total_requests,          *)
(* total_errors and ema_latency_ms are only reported, or used to order     *)
(* providers, and are left out; so is a counter whose limit is 0, which    *)
(* is_available() never reads.                                             *)
(***************************************************************************)
EXTENDS CircuitBreaker

CONSTANTS
    RpmLimit, RpdLimit, TpdLimit,   \* the provider's limits, 0 = unlimited
    RpmWindow,      \* the 60 s of _reset_window, in ticks
    FailCooldown,   \* the 60 s of record_failure, in ticks
    RateCooldown,   \* the 30 s of record_rate_limited, in ticks
    DayLength       \* the length of a UTC day, in ticks

ASSUME LimiterConstants ==
    /\ RpmLimit \in Nat
    /\ RpdLimit \in Nat
    /\ TpdLimit \in Nat
    /\ RpmWindow \in Nat \ {0}
    /\ FailCooldown \in Nat \ {0}
    /\ RateCooldown \in Nat \ {0}
    /\ DayLength \in Nat \ {0}

VARIABLES
    enabled,        \* PROVIDER_ENABLED[name]
    rpm, rpd, tpd,  \* requests this minute, requests and tokens this day
    rpm_age,        \* now - rpm_ts
    date_stale,     \* rpd_date # today
    lockout,        \* exhausted_until - now, 0 once it is past
    clock           \* time of the day, UTC

limitVars == <<rpm, rpd, tpd, rpm_age, date_stale, lockout>>
limiterVars == <<cbVars, limitVars, enabled, clock>>

LimiterTypeOK ==
    /\ CbTypeOK
    /\ enabled \in BOOLEAN
    /\ rpm \in Nat /\ rpd \in Nat /\ tpd \in Nat
    /\ rpm_age \in 0 .. RpmWindow
    /\ date_stale \in BOOLEAN
    /\ lockout \in Nat
    /\ clock \in 0 .. DayLength - 1

(* _default; any time of the day, and a provider may start disabled *)

LimiterInit ==
    /\ DefaultCbState
    /\ enabled \in BOOLEAN
    /\ rpm = 0 /\ rpd = 0 /\ tpd = 0
    /\ rpm_age = 0
    /\ date_stale = FALSE
    /\ lockout = 0
    /\ clock \in 0 .. DayLength - 1

-----------------------------------------------------------------------------
(* What _reset_window() leaves behind, for the method that calls it *)

MinuteOver == rpm_age >= RpmWindow

RpmNow == IF MinuteOver THEN 0 ELSE rpm
RpmAgeNow == IF MinuteOver THEN 0 ELSE rpm_age
RpdNow == IF date_stale THEN 0 ELSE rpd
TpdNow == IF date_stale THEN 0 ELSE tpd
LockoutNow == IF date_stale THEN 0 ELSE lockout

ResetWindow ==
    /\ rpm' = RpmNow
    /\ rpm_age' = RpmAgeNow
    /\ rpd' = RpdNow
    /\ tpd' = TpdNow
    /\ lockout' = LockoutNow
    /\ date_stale' = FALSE

\* faulty: off by one, which RpmBounded would reveal
AtMostLimit(limit, n) == limit = 0 \/ n <= limit

BelowLimit(limit, n) == limit = 0 \/ n < limit

\* faulty: the day's requests are not checked, which RpdBounded would reveal
IgnoresRpd == BelowLimit(RpmLimit, RpmNow) /\ BelowLimit(TpdLimit, TpdNow)

\* faulty: the day's tokens are not checked, which TpdBounded would reveal
IgnoresTpd == BelowLimit(RpmLimit, RpmNow) /\ BelowLimit(RpdLimit, RpdNow)

BelowLimits ==
    /\ BelowLimit(RpmLimit, RpmNow)
    /\ BelowLimit(RpdLimit, RpdNow)
    /\ BelowLimit(TpdLimit, TpdNow)

-----------------------------------------------------------------------------
(* is_available(), when it answers True *)

IsAvailable ==
    /\ enabled
    /\ Allow
    /\ LockoutNow = 0
    /\ BelowLimits
    /\ ResetWindow
    /\ UNCHANGED <<enabled, clock>>

(* is_available(), when it answers False.  The breaker is asked first: it  *)
(* may spend its probe slot on a request that is then turned away.         *)

NotAvailable ==
    \/ ~enabled /\ UNCHANGED limiterVars
    \/ /\ enabled
       /\ \/ Deny
          \/ Allow /\ ~(LockoutNow = 0 /\ BelowLimits)
       /\ ResetWindow
       /\ UNCHANGED <<enabled, clock>>

CountUp(limit, n, k) == IF limit = 0 THEN n ELSE n + k

\* faulty: a success ends every cooldown, which QuotaLockoutServed would reveal
SuccessEndsLockout(tokens) ==
    /\ CbRecordSuccess
    /\ lockout' = 0
    /\ UNCHANGED <<rpm, rpd, tpd, rpm_age, date_stale, enabled, clock>>

RecordSuccess(tokens) ==
    /\ CbRecordSuccess
    /\ rpm' = CountUp(RpmLimit, RpmNow, 1)
    /\ rpd' = CountUp(RpdLimit, RpdNow, 1)
    /\ tpd' = CountUp(TpdLimit, TpdNow, tokens)
    /\ rpm_age' = RpmAgeNow
    /\ lockout' = LockoutNow
    /\ date_stale' = FALSE
    /\ UNCHANGED <<enabled, clock>>

\* faulty: the cooldown of a 429 replaces a longer one, which CooldownServed
\* would reveal
RateLimitedOverwrites ==
    /\ lockout' = RateCooldown
    /\ UNCHANGED <<cbVars, rpm, rpd, tpd, rpm_age, date_stale, enabled, clock>>

(* HTTP 429: the breaker is left alone, and nothing resets the window *)

RecordRateLimited ==
    /\ lockout' = IF RateCooldown > lockout THEN RateCooldown ELSE lockout
    /\ UNCHANGED <<cbVars, rpm, rpd, tpd, rpm_age, date_stale, enabled, clock>>

UntilTomorrow == DayLength - clock

RecordFailure(until_tomorrow) ==
    /\ CbRecordFailure
    /\ lockout' = IF until_tomorrow THEN UntilTomorrow ELSE FailCooldown
    /\ UNCHANGED <<rpm, rpd, tpd, rpm_age, date_stale, enabled, clock>>

(* POST /admin/providers *)

ToggleProvider ==
    /\ enabled' = ~enabled
    /\ UNCHANGED <<cbVars, limitVars, clock>>

LimiterTick ==
    /\ CbTick
    /\ clock' = (clock + 1) % DayLength
    /\ date_stale' = (date_stale \/ clock' = 0)
    /\ rpm_age' = UpTo(rpm_age + 1, RpmWindow)
    /\ lockout' = IF lockout > 0 THEN lockout - 1 ELSE 0
    /\ UNCHANGED <<rpm, rpd, tpd, enabled>>

=============================================================================
