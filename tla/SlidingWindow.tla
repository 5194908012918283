---------------------------- MODULE SlidingWindow ----------------------------
(***************************************************************************)
(* The sliding-window limiter the gateway uses three times: rpm_ok() for a *)
(* virtual key (keys/virtual_keys.py), _ip_allowed() for a client address  *)
(* and _global_rps_allowed() for the whole gateway (api/middleware.py).    *)
(* Each keeps a deque of the times of the requests it let through.         *)
(*                                                                         *)
(* The model keeps the times of all of them; the deque is what follows the *)
(* first "evicted" ones.  The lock is never held across an await, so each  *)
(* call is one step.  A limit stays what it was when the process began to  *)
(* use it: a PATCH of a key does not reach the copy that requests use.     *)
(***************************************************************************)
EXTENDS Integers, Sequences, FiniteSets

CONSTANTS
    Span,       \* the length of the window: 60 s, or 1 s for the global one
    Limits,     \* the limits an operator may choose, 0 = unlimited
    Horizon     \* bound of the model: the clock stops here

ASSUME WindowConstants ==
    /\ Span \in Nat
    /\ Limits \subseteq Nat
    /\ Horizon \in Nat

VARIABLES
    now,        \* time.monotonic()
    limit,      \* the limit in force
    times,      \* when each counted request was let through
    evicted     \* how many times the deque has dropped

vars == <<now, limit, times, evicted>>

TypeOK ==
    /\ now \in 0 .. Horizon
    /\ limit \in Limits
    /\ times \in Seq(0 .. Horizon)
    /\ evicted \in 0 .. Len(times)

Init ==
    /\ now = 0
    /\ limit \in Limits
    /\ times = <<>>
    /\ evicted = 0

-----------------------------------------------------------------------------

Stale(i) == times[i] < now - Span

\* faulty: a time of exactly Span ago is dropped, which NeverMoreThanLimit
\* would reveal
EvictsTooMuch(e) ==
    /\ e \in evicted .. Len(times)
    /\ \A i \in evicted + 1 .. e : times[i] <= now - Span
    /\ e < Len(times) => times[e + 1] > now - Span

\* faulty: nothing is ever dropped, which RefusedOnlyWhenFull would reveal
NeverEvicts(e) == e = evicted

(* The while loop drops times from the head until it meets a fresh one     *)
Evicts(e) ==
    /\ e \in evicted .. Len(times)
    /\ \A i \in evicted + 1 .. e : Stale(i)
    /\ e < Len(times) => ~Stale(e + 1)

(* "if not rpm_limit: return True": nothing is counted *)
Unlimited == limit = 0 /\ UNCHANGED vars

Admit ==
    /\ limit # 0
    /\ \E e \in 0 .. Len(times) :
          /\ Evicts(e)
          /\ Len(times) - e < limit
          /\ evicted' = e
    /\ times' = Append(times, now)
    /\ UNCHANGED <<now, limit>>

(* What is left of the deque is as long as the limit *)
Full(e) == Evicts(e) /\ Len(times) - e >= limit

Refuse ==
    /\ limit # 0
    /\ \E e \in 0 .. Len(times) : Full(e) /\ evicted' = e
    /\ UNCHANGED <<now, limit, times>>

Tick ==
    /\ now < Horizon
    /\ now' = now + 1
    /\ UNCHANGED <<limit, times, evicted>>

Next == Unlimited \/ Admit \/ Refuse \/ Tick

Spec == Init /\ [][Next]_vars

-----------------------------------------------------------------------------
(* Properties *)

(* With a limit of n a request is let through only later than Span after   *)
(* the n-th one before it, so no window of length Span, wherever it        *)
(* starts, holds more than n of them, however long the deque kept stale    *)
(* times.                                                                  *)
NeverMoreThanLimit ==
    \A i \in 1 .. Len(times) : i > limit => times[i] - times[i - limit] > Span

(* What makes it inductive: only stale times have left the deque.          *)
EvictedAreStale == \A i \in 1 .. evicted : Stale(i)

(* Times are in order, so looking at the head of the deque is enough.      *)
InOrder ==
    /\ \A i \in 1 .. Len(times) : times[i] <= now
    /\ \A i, j \in 1 .. Len(times) : i <= j => times[i] <= times[j]

(* Conversely a request that comes at any moment is refused only when as   *)
(* many as the limit really were let through during the last Span: the     *)
(* lazy eviction leaves no time behind that counts against the caller.     *)
(* About states, as a refusal that drops nothing changes none of vars.     *)
RecentlyCounted == {i \in 1 .. Len(times) : ~Stale(i)}

RefusedOnlyWhenFull ==
    \A e \in 0 .. Len(times) :
        limit # 0 /\ Full(e) => Cardinality(RecentlyCounted) >= limit

=============================================================================
