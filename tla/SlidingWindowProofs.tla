------------------------- MODULE SlidingWindowProofs -------------------------
(* Proofs about SlidingWindow, for any span, limits and horizon.           *)
EXTENDS SlidingWindow, FiniteSetTheorems, TLAPS

(* Without a limit nothing is counted.                                     *)
CountedUnderLimit == limit = 0 => times = <<>>

IInv == TypeOK /\ InOrder /\ EvictedAreStale /\ CountedUnderLimit /\ NeverMoreThanLimit

(* What Evicts leaves in the deque and what it drops.                      *)
LEMMA EvictsSound ==
    ASSUME TypeOK, EvictedAreStale, NEW e \in 0 .. Len(times), Evicts(e)
    PROVE  e \in 0 .. Len(times) /\ evicted <= e /\ \A i \in 1 .. e : Stale(i)
  BY DEF TypeOK, EvictedAreStale, Evicts

(* Nothing stale is left in the deque.                                     *)
LEMMA EvictsComplete ==
    ASSUME TypeOK, InOrder, NEW e \in 0 .. Len(times), Evicts(e)
    PROVE  \A i \in e + 1 .. Len(times) : ~Stale(i)
<1> SUFFICES ASSUME NEW i \in e + 1 .. Len(times) PROVE ~Stale(i)
  OBVIOUS
<1>1. e < Len(times) /\ ~Stale(e + 1) /\ times[e + 1] <= times[i]
  BY DEF TypeOK, InOrder, Evicts
<1>2. /\ times[e + 1] \in Nat /\ times[i] \in Nat
      /\ now \in Nat /\ Span \in Nat
  BY <1>1, WindowConstants DEF TypeOK
<1>3. QED
  BY <1>1, <1>2 DEF Stale

(* A request let through keeps the invariant: the limit-th time before it  *)
(* has left the deque, so it was stale.                                    *)
LEMMA AdmitStep == ASSUME IInv, Admit PROVE IInv'
<1> USE WindowConstants DEF IInv, TypeOK
<1>0. PICK e \in 0 .. Len(times) :
         /\ Evicts(e)
         /\ Len(times) - e < limit
         /\ evicted' = e
  BY DEF Admit
<1>1. /\ e \in 0 .. Len(times) /\ \A i \in 1 .. e : Stale(i)
  BY <1>0, EvictsSound
<1> DEFINE n == Len(times)
<1>2. limit # 0 /\ times' = Append(times, now) /\ UNCHANGED <<now, limit>>
  BY DEF Admit
<1>3. /\ Len(times') = n + 1 /\ times'[n + 1] = now
      /\ \A i \in 1 .. n : times'[i] = times[i]
  BY <1>2
<1>4. TypeOK'
  BY <1>0, <1>2, <1>3
<1>5. InOrder'
  BY <1>2, <1>3 DEF InOrder
<1>6. EvictedAreStale' /\ CountedUnderLimit'
  BY <1>0, <1>1, <1>2, <1>3 DEF EvictedAreStale, CountedUnderLimit, Stale
<1>7. NeverMoreThanLimit'
  <2> SUFFICES ASSUME NEW i \in 1 .. n + 1, i > limit
               PROVE  times'[i] - times'[i - limit] > Span
    BY <1>2, <1>3 DEF NeverMoreThanLimit
  <2>0. limit \in Nat \ {0}
    BY <1>2
  <2>1. CASE i \in 1 .. n
    <3>1. i - limit \in 1 .. n
      BY <2>0, <2>1
    <3>2. QED
      BY <1>3, <2>1, <3>1 DEF NeverMoreThanLimit
  <2>2. CASE i = n + 1
    <3>1. n + 1 - limit \in 1 .. e
      BY <1>0, <2>0, <2>2
    <3>2. Stale(n + 1 - limit) /\ n + 1 - limit \in 1 .. n
      BY <1>1, <3>1
    <3>3. times[n + 1 - limit] < now - Span /\ times[n + 1 - limit] \in Nat
      BY <3>2 DEF Stale
    <3>4. times'[i] = now /\ times'[n + 1 - limit] = times[n + 1 - limit]
      BY <1>3, <2>2, <3>2
    <3>5. now - times[n + 1 - limit] > Span
      BY <3>3
    <3>6. QED
      BY <2>2, <3>4, <3>5
  <2>3. QED
    BY <2>1, <2>2
<1>8. QED
  BY <1>4, <1>5, <1>6, <1>7

LEMMA WindowStarts == Init => IInv
  BY WindowConstants
     DEF Init, IInv, TypeOK, InOrder, EvictedAreStale, CountedUnderLimit, NeverMoreThanLimit

LEMMA WindowStep == IInv /\ [Next]_vars => IInv'
<1> SUFFICES ASSUME IInv, [Next]_vars PROVE IInv'
  OBVIOUS
<1>1. CASE Admit
  BY <1>1, AdmitStep
<1>2. CASE Refuse
  <2>1. PICK e \in 0 .. Len(times) : Evicts(e) /\ evicted' = e
    BY <1>2 DEF Refuse, Full
  <2>2. \A i \in 1 .. e : Stale(i)
    BY <2>1, EvictsSound DEF IInv
  <2>3. QED
    BY <1>2, <2>1, <2>2 DEF Refuse, IInv, TypeOK, InOrder, EvictedAreStale,
                            CountedUnderLimit, NeverMoreThanLimit, Stale
<1>3. CASE Tick
  <2>1. TypeOK'
    BY <1>3, WindowConstants DEF Tick, IInv, TypeOK
  <2>2. InOrder'
    <3>1. \A i \in 1 .. Len(times) : times[i] \in Nat
      BY WindowConstants DEF IInv, TypeOK
    <3>2. now \in Nat /\ now' = now + 1 /\ UNCHANGED times
      BY <1>3, WindowConstants DEF Tick, IInv, TypeOK
    <3>3. QED
      BY <3>1, <3>2 DEF IInv, InOrder
  <2>3. EvictedAreStale'
    BY <1>3, WindowConstants DEF Tick, IInv, TypeOK, EvictedAreStale, Stale
  <2>4. CountedUnderLimit' /\ NeverMoreThanLimit'
    BY <1>3 DEF Tick, IInv, CountedUnderLimit, NeverMoreThanLimit
  <2>5. QED
    BY <2>1, <2>2, <2>3, <2>4 DEF IInv
<1>4. CASE UNCHANGED vars
  BY <1>4 DEF vars, IInv, TypeOK, InOrder, EvictedAreStale,
              CountedUnderLimit, NeverMoreThanLimit, Stale
<1>5. QED
  BY <1>1, <1>2, <1>3, <1>4 DEF Next, Unlimited

(* The window property with what makes it inductive.                       *)
LEMMA Inductive == Spec => []IInv
<1>1. QED
  BY WindowStarts, WindowStep, PTL DEF Spec

(* No period of the length of the window ever has more requests than the   *)
(* limit, for any span and limit.                                          *)
THEOREM WindowCorrect == Spec => []NeverMoreThanLimit
<1>1. IInv => NeverMoreThanLimit
  BY DEF IInv
<1>2. QED
  BY <1>1, Inductive, PTL

(* A full deque has only fresh times in it, as many as the limit.          *)
LEMMA FullIsFresh ==
    ASSUME IInv, NEW e \in 0 .. Len(times), Full(e)
    PROVE  Cardinality(RecentlyCounted) >= limit
<1>1. Evicts(e) /\ Len(times) - e >= limit
  BY DEF Full
<1>2. Len(times) \in Nat /\ limit \in Nat
  BY WindowConstants DEF IInv, TypeOK
<1>3. e + 1 .. Len(times) \subseteq RecentlyCounted
  BY <1>1, EvictsComplete DEF IInv, RecentlyCounted
<1>4. IsFiniteSet(RecentlyCounted)
  <2>1. IsFiniteSet(1 .. Len(times))
    BY <1>2, FS_Interval
  <2>2. QED
    BY <2>1, FS_Subset DEF RecentlyCounted
<1>5. /\ Cardinality(e + 1 .. Len(times)) <= Cardinality(RecentlyCounted)
      /\ Cardinality(RecentlyCounted) \in Nat
  BY <1>3, <1>4, FS_Subset, FS_CardinalityType
<1>6. Cardinality(e + 1 .. Len(times)) = Len(times) - e
  <2>1. e \in Int /\ e + 1 \in Int /\ Len(times) \in Int /\ e <= Len(times)
    BY <1>2
  <2>2. Cardinality(e + 1 .. Len(times)) =
          IF e + 1 > Len(times) THEN 0 ELSE Len(times) - (e + 1) + 1
    BY <2>1, FS_Interval
  <2>3. QED
    BY <2>1, <2>2
<1>7. QED
  BY <1>1, <1>2, <1>5, <1>6

(* A refusal is always deserved: at any moment rpm_ok() answers False only *)
(* if limit-many requests were let through during the last Span.           *)
THEOREM RefusalCorrect == Spec => []RefusedOnlyWhenFull
<1>1. IInv => RefusedOnlyWhenFull
  BY FullIsFresh DEF RefusedOnlyWhenFull
<1>2. QED
  BY <1>1, Inductive, PTL

=============================================================================
