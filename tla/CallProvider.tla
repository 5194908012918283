---------------------------- MODULE CallProvider ----------------------------
(***************************************************************************)
(* Concurrent requests that use one provider.  A caller is one request of  *)
(* the gateway: the provider loop of an endpoint (api/routes/chat.py) asks *)
(* is_available() and, on True, runs call_provider() of                    *)
(* providers/router.py, which sends up to MaxAttempts times and reports    *)
(* every outcome to the rate limiter.                                      *)
(*                                                                         *)
(* Between is_available() answering True and the first send nothing        *)
(* suspends the task, so the two are one step; a caller is then suspended  *)
(* only while it waits for the upstream ("sent") and while it sleeps       *)
(* before it tries again ("backoff").  Time passes only in Tick.           *)
(***************************************************************************)
EXTENDS RateLimiter, FiniteSets

CONSTANTS
    Callers,        \* the requests that may be in flight at once
    MaxAttempts,    \* the 3 of call_provider's loop
    Tokens,         \* the token counts a provider may report
    MaxTokens       \* no answer has more

ASSUME CallConstants ==
    /\ IsFiniteSet(Callers)
    /\ MaxAttempts \in Nat \ {0}
    /\ MaxTokens \in Nat
    /\ Tokens \subseteq 0 .. MaxTokens

VARIABLES
    stage,          \* what each caller is suspended in
    attempt         \* the loop variable of call_provider

callVars == <<stage, attempt>>
vars == <<limiterVars, callVars>>

TypeOK ==
    /\ LimiterTypeOK
    /\ stage \in [Callers -> {"idle", "sent", "backoff"}]
    /\ attempt \in [Callers -> 0 .. MaxAttempts - 1]

(* A caller that sleeps has an attempt left *)
AttemptLeft == \A c \in Callers : stage[c] = "backoff" => attempt[c] < MaxAttempts - 1

Init ==
    /\ LimiterInit
    /\ stage = [c \in Callers |-> "idle"]
    /\ attempt = [c \in Callers |-> 0]

InFlight == {c \in Callers : stage[c] # "idle"}

Return(c) ==
    /\ stage' = [stage EXCEPT ![c] = "idle"]
    /\ attempt' = [attempt EXCEPT ![c] = 0]

-----------------------------------------------------------------------------
(* A faulty variant: one retry too many, which TypeOK would reveal *)

RetriesOnceMore(c) ==
    /\ stage[c] = "sent"
    /\ attempt[c] <= MaxAttempts - 1
    /\ RecordFailure(FALSE)
    /\ stage' = [stage EXCEPT ![c] = "backoff"]
    /\ UNCHANGED attempt

-----------------------------------------------------------------------------
(* The provider loop of an endpoint *)

Admit(c) ==
    /\ stage[c] = "idle"
    /\ IsAvailable
    /\ stage' = [stage EXCEPT ![c] = "sent"]
    /\ UNCHANGED attempt

(* The provider is available but lists no model this request may use *)
PassOver(c) ==
    /\ stage[c] = "idle"
    /\ IsAvailable
    /\ UNCHANGED callVars

Refuse(c) ==
    /\ stage[c] = "idle"
    /\ NotAvailable
    /\ UNCHANGED callVars

-----------------------------------------------------------------------------
(* call_provider: what the upstream answers, and the steps of the loop *)

(* Any status but 402, 403, 429 and 5xx, the other 4xx included *)
Succeed(c) ==
    /\ stage[c] = "sent"
    /\ \E tokens \in Tokens : RecordSuccess(tokens)
    /\ Return(c)

RateLimited(c) ==
    /\ stage[c] = "sent"
    /\ RecordRateLimited
    /\ Return(c)

QuotaExhausted(c) ==
    /\ stage[c] = "sent"
    /\ RecordFailure(TRUE)
    /\ Return(c)

(* A 5xx, a timeout or a connection error *)
FaultRetried(c) ==
    /\ stage[c] = "sent"
    /\ attempt[c] < MaxAttempts - 1
    /\ RecordFailure(FALSE)
    /\ stage' = [stage EXCEPT ![c] = "backoff"]
    /\ UNCHANGED attempt

FaultFinal(c) ==
    /\ stage[c] = "sent"
    /\ attempt[c] = MaxAttempts - 1
    /\ RecordFailure(FALSE)
    /\ Return(c)

Fault(c) == FaultRetried(c) \/ FaultFinal(c)

(* asyncio.sleep() is over: the next attempt, with no new is_available() *)
Retry(c) ==
    /\ stage[c] = "backoff"
    /\ stage' = [stage EXCEPT ![c] = "sent"]
    /\ attempt' = [attempt EXCEPT ![c] = @ + 1]
    /\ UNCHANGED limiterVars

(* An exception call_provider does not catch, from assert_safe() or from   *)
(* the exchange, or the task is cancelled: the limiter is told nothing.    *)
Abort(c) ==
    /\ stage[c] # "idle"
    /\ Return(c)
    /\ UNCHANGED limiterVars

Toggle == ToggleProvider /\ UNCHANGED callVars

Tick == LimiterTick /\ UNCHANGED callVars

-----------------------------------------------------------------------------

Asks(c) == Admit(c) \/ PassOver(c) \/ Refuse(c)

Reports(c) ==
    \/ Succeed(c)
    \/ RateLimited(c)
    \/ QuotaExhausted(c)
    \/ Fault(c)

Next ==
    \/ \E c \in Callers : Asks(c) \/ Reports(c) \/ Retry(c) \/ Abort(c)
    \/ Toggle
    \/ Tick

Spec == Init /\ [][Next]_vars

(* Requests keep coming, upstreams answer or time out, sleeps end, and the *)
(* clock runs.                                                             *)
Fairness ==
    /\ WF_vars(Tick)
    /\ \A c \in Callers :
          WF_vars(Asks(c)) /\ WF_vars(Reports(c)) /\ WF_vars(Retry(c))

-----------------------------------------------------------------------------
(* Properties *)

(* The breaker's state and its failure count tell the same story: it is    *)
(* closed exactly while fewer than _FAILURE_THRESH failures were recorded  *)
(* since the last success, in whatever order concurrent calls report.      *)
BreakerConsistent == (cb_state = "closed") <=> (cb_failures < FailThresh)

(* A request sent while n others are in flight is checked against a count  *)
(* that does not contain them: is_available() reads what record_success()  *)
(* writes only after the upstream answered.  This bounds the damage: a     *)
(* counter passes its limit by less than the number of callers.  The terms *)
(* for the calls still in flight are what makes the bound inductive.       *)
RpmBounded ==
    RpmLimit > 0 =>
        rpm + Cardinality(InFlight) <= RpmLimit - 1 + Cardinality(Callers)

(* The same for the requests of a day, which outlive many minutes.         *)
RpdBounded ==
    RpdLimit > 0 =>
        rpd + Cardinality(InFlight) <= RpdLimit - 1 + Cardinality(Callers)

(* The same for the tokens of a day, in units of the largest answer: one   *)
(* admitted request may still add MaxTokens.                               *)
TpdBounded ==
    TpdLimit > 0 =>
        tpd + MaxTokens * Cardinality(InFlight)
            <= TpdLimit - 1 + MaxTokens * Cardinality(Callers)

(* circuit_breaker.py, driven by concurrent calls that retry without       *)
(* asking again, still keeps the promise of AdmissionGate: nobody enters   *)
(* during the rest after the last failure, and one permission per probe    *)
(* timeout after it, unless a call succeeded in between.                   *)
Gate == INSTANCE AdmissionGate WITH
    RestTime <- OpenSecs,
    ProbeGap <- ProbeTimeout,
    tripped <- cb_state # "closed",
    wait <- CASE cb_state = "closed" -> 0
              [] cb_state = "open" -> OpenSecs - cb_opened_age
              [] cb_state = "half_open" -> ProbeTimeout - cb_probe_age,
    busy <- InFlight

KeepsGatePromise == Gate!GateSpec

(* Once the operator leaves the provider enabled and every call it gets is *)
(* answered normally, the breaker closes for good and requests keep being  *)
(* admitted, even if earlier probes were lost, cancelled, answered 429 or  *)
(* spent on requests that were turned away.                                *)
Misbehaves ==
    \E c \in Callers :
        PassOver(c) \/ RateLimited(c) \/ QuotaExhausted(c) \/ Fault(c) \/ Abort(c)

Entered == \E c \in Callers : stage[c] = "idle" /\ stage'[c] = "sent"

Recovers ==
    (<>[]enabled /\ <>[][~Misbehaves]_vars)
        => (<>[](cb_state = "closed") /\ []<><<Entered>>_vars)

=============================================================================
