------------------------------ MODULE Cooldown ------------------------------
(***************************************************************************)
(* CallProvider with a memory of the cooldowns the limiter announced, to   *)
(* state when a request may be let in again.  The memory is a history: it  *)
(* is written by each step and read by none.                               *)
(***************************************************************************)
EXTENDS CallProvider

(* 30 s after a 429, 60 s after any other failure.  The other way round a  *)
(* failure would shorten the rest a 429 had announced.                     *)
ASSUME CooldownConstants == RateCooldown <= FailCooldown

VARIABLES
    owed,           \* what is left of the longest cooldown announced so far
    quota_out       \* a 402/403 today, and no other failure after it

memory == <<owed, quota_out>>
historyVars == <<vars, memory>>

HistoryInit ==
    /\ Init
    /\ owed = 0
    /\ quota_out = FALSE

Larger(a, b) == IF a > b THEN a ELSE b

(* A step that calls _reset_window() on a stale date starts a new day *)
Forget ==
    /\ owed' = IF date_stale /\ ~date_stale' THEN 0 ELSE owed
    /\ quota_out' = (quota_out /\ ~(date_stale /\ ~date_stale'))

HistoryNext ==
    \/ \E c \in Callers :
        \/ (Asks(c) \/ Succeed(c) \/ Retry(c) \/ Abort(c)) /\ Forget
        \/ /\ RateLimited(c)
           /\ owed' = Larger(owed, RateCooldown)
           /\ UNCHANGED quota_out
        \/ /\ QuotaExhausted(c)
           /\ quota_out' = TRUE
           /\ UNCHANGED owed
        \/ /\ Fault(c)
           /\ owed' = Larger(owed, FailCooldown)
           /\ quota_out' = FALSE
    \/ Toggle /\ UNCHANGED memory
    \/ /\ Tick
       /\ owed' = Larger(owed, 1) - 1
       /\ UNCHANGED quota_out

HistorySpec == HistoryInit /\ [][HistoryNext]_historyVars

FairHistorySpec == HistorySpec /\ Fairness

-----------------------------------------------------------------------------

(* Only the reset of a new UTC day cuts a cooldown short (it clears        *)
(* exhausted_until, that of a 429 seconds before included): no success of  *)
(* another call, no 429 and no overwriting by record_failure() lets a      *)
(* request through before the longest cooldown announced is over.          *)
CooldownServed == [][Entered => owed = 0 \/ date_stale]_historyVars

(* After a 402 or 403 the provider rests until the day is over, unless a   *)
(* call that was already in flight then fails in another way: its          *)
(* record_failure() overwrites the lockout with a minute.                  *)
QuotaLockoutServed == [][Entered => ~quota_out \/ date_stale]_historyVars

=============================================================================
