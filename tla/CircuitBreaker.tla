--------------------------- MODULE CircuitBreaker ---------------------------
(***************************************************************************)
(* The circuit breaker of one provider: providers/circuit_breaker.py.      *)
(*                                                                         *)
(* The code keeps the wall-clock times cb_opened_at and cb_last_probe_at   *)
(* and only ever compares their age with _OPEN_SECONDS and _PROBE_TIMEOUT. *)
(* The model keeps the ages, which stop growing at the constant they are   *)
(* compared with; likewise cb_failures stops at _FAILURE_THRESH, the only  *)
(* number it is compared with.  Time is counted in ticks.                  *)
(***************************************************************************)
EXTENDS Integers

CONSTANTS
    FailThresh,     \* _FAILURE_THRESH
    OpenSecs,       \* _OPEN_SECONDS, in ticks
    ProbeTimeout    \* _PROBE_TIMEOUT, in ticks

ASSUME BreakerConstants ==
    /\ FailThresh \in Nat \ {0}
    /\ OpenSecs \in Nat \ {0}
    /\ ProbeTimeout \in Nat \ {0}

VARIABLES
    cb_state,       \* CircuitState
    cb_failures,    \* failures since the last success
    cb_opened_age,  \* now - cb_opened_at
    cb_probe_age    \* now - cb_last_probe_at

cbVars == <<cb_state, cb_failures, cb_opened_age, cb_probe_age>>

CircuitState == {"closed", "open", "half_open"}

UpTo(n, cap) == IF n < cap THEN n ELSE cap

CbTypeOK ==
    /\ cb_state \in CircuitState
    /\ cb_failures \in 0 .. FailThresh
    /\ cb_opened_age \in 0 .. OpenSecs
    /\ cb_probe_age \in 0 .. ProbeTimeout

-----------------------------------------------------------------------------
(* default_cb_state: both times are 0.0, that is long ago *)

DefaultCbState ==
    /\ cb_state = "closed"
    /\ cb_failures = 0
    /\ cb_opened_age = OpenSecs
    /\ cb_probe_age = ProbeTimeout

(* allow(), when it answers True; out of "closed" it spends the probe slot *)

AllowClosed == cb_state = "closed" /\ UNCHANGED cbVars

\* faulty: the first probe leaves cb_last_probe_at alone, so a second one
\* follows at once, which KeepsGatePromise would reveal
FirstProbeUncounted ==
    /\ cb_state = "open"
    /\ cb_opened_age >= OpenSecs
    /\ cb_state' = "half_open"
    /\ UNCHANGED <<cb_failures, cb_opened_age, cb_probe_age>>

AllowOpen ==
    /\ cb_state = "open"
    /\ cb_opened_age >= OpenSecs
    /\ cb_state' = "half_open"
    /\ cb_probe_age' = 0
    /\ UNCHANGED <<cb_failures, cb_opened_age>>

\* faulty: a lost probe has no timeout, which Recovers would reveal
ProbeWaitsForever == FALSE

AllowHalfOpen ==
    /\ cb_state = "half_open"
    /\ cb_probe_age >= ProbeTimeout
    /\ cb_probe_age' = 0
    /\ UNCHANGED <<cb_state, cb_failures, cb_opened_age>>

Allow == AllowClosed \/ AllowOpen \/ AllowHalfOpen

(* allow(), when it answers False *)

Deny ==
    /\ \/ cb_state = "open" /\ cb_opened_age < OpenSecs
       \/ cb_state = "half_open" /\ cb_probe_age < ProbeTimeout
    /\ UNCHANGED cbVars

\* faulty: the count survives a success, which BreakerConsistent would reveal
SuccessKeepsCount ==
    /\ cb_state' = "closed"
    /\ UNCHANGED <<cb_failures, cb_opened_age, cb_probe_age>>

CbRecordSuccess ==
    /\ cb_state' = "closed"
    /\ cb_failures' = 0
    /\ UNCHANGED <<cb_opened_age, cb_probe_age>>

CbRecordFailure ==
    /\ cb_failures' = UpTo(cb_failures + 1, FailThresh)
    /\ IF cb_failures' >= FailThresh
       THEN cb_state' = "open" /\ cb_opened_age' = 0
       ELSE UNCHANGED <<cb_state, cb_opened_age>>
    /\ UNCHANGED cb_probe_age

(* time.time() moves on *)

CbTick ==
    /\ cb_opened_age' = UpTo(cb_opened_age + 1, OpenSecs)
    /\ cb_probe_age' = UpTo(cb_probe_age + 1, ProbeTimeout)
    /\ UNCHANGED <<cb_state, cb_failures>>

=============================================================================
