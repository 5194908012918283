------------------------------ MODULE Discovery ------------------------------
(***************************************************************************)
(* The discovery of models (providers/auto_models.py): refresh_all() asks  *)
(* every provider at once for its list, holding _LOCK until all have       *)
(* answered, and then writes what it got to DISCOVERED.  It is run by the  *)
(* lifespan and its hourly task, which are one refresher here ("Own"), and *)
(* by POST /v1/admin/refresh-models, a task of its own each time.          *)
(*                                                                         *)
(* A list is the number of times its provider had changed it: which names  *)
(* are kept, and in which bucket, depends on nothing else.                 *)
(***************************************************************************)
EXTENDS Integers

CONSTANTS
    Providers,  \* those with a key, or needing none, and a models_path
    Own,
    Manual,
    Nobody,     \* holds the lock while it is free
    Versions    \* bound of the model: the changes of a list

ASSUME DiscoveryConstants ==
    /\ Own \notin Manual
    /\ Nobody \notin Manual \cup {Own}
    /\ Versions \in Nat

Refreshers == Manual \cup {Own}

VARIABLES
    upstream,   \* the version each provider would answer with
    found,      \* DISCOVERED; 0 where there is only the static list
    lock,       \* _LOCK
    refresher,  \* where each refresh is
    got,        \* what it was answered
    asked       \* upstream when the refresh was called for

discoveryVars == <<upstream, found, lock, refresher, got, asked>>

Pending == -1
Failed == 0

DiscoveryTypeOK ==
    /\ upstream \in [Providers -> 1 .. Versions + 1]
    /\ found \in [Providers -> 0 .. Versions + 1]
    /\ lock \in Refreshers \cup {Nobody}
    /\ refresher \in [Refreshers -> {"off", "queued", "fetching"}]
    /\ got \in [Refreshers -> [Providers -> Pending .. Versions + 1]]
    /\ asked \in [Refreshers -> [Providers -> 0 .. Versions + 1]]

Nothing(v) == [t \in Refreshers |-> [p \in Providers |-> v]]

DiscoveryInit ==
    /\ upstream = [p \in Providers |-> 1]
    /\ found = [p \in Providers |-> 0]
    /\ lock = Nobody
    /\ refresher = [t \in Refreshers |-> "off"]
    /\ got = Nothing(Pending)
    /\ asked = Nothing(0)

-----------------------------------------------------------------------------

Call(t) ==
    /\ refresher[t] = "off"
    /\ refresher' = [refresher EXCEPT ![t] = "queued"]
    /\ asked' = [asked EXCEPT ![t] = upstream]
    /\ UNCHANGED <<upstream, found, lock, got>>

Fetching(t) == refresher' = [refresher EXCEPT ![t] = "fetching"]

\* faulty: no lock around the fetches, which NoOldList would reveal
FetchesUnlocked(t) ==
    /\ refresher[t] = "queued"
    /\ Fetching(t)
    /\ UNCHANGED <<upstream, found, lock, got, asked>>

\* faulty: a refresh that finds another one running leaves it at that, which
\* RefreshIsFresh would reveal
JoinsRunning(t) ==
    /\ refresher[t] = "queued"
    /\ IF lock = Nobody
       THEN Fetching(t) /\ lock' = t
       ELSE refresher' = [refresher EXCEPT ![t] = "off"] /\ UNCHANGED lock
    /\ UNCHANGED <<upstream, found, got, asked>>

Acquire(t) ==
    /\ refresher[t] = "queued"
    /\ lock = Nobody
    /\ lock' = t
    /\ Fetching(t)
    /\ UNCHANGED <<upstream, found, got, asked>>

(* _fetch_one(): None for an exception, a status of 400 or more and an     *)
(* empty list; a closed client always raises.                              *)
Answered(t, p, open) ==
    /\ refresher[t] = "fetching"
    /\ got[t][p] = Pending
    /\ \E v \in {Failed} \cup (IF open THEN {upstream[p]} ELSE {}) :
          got' = [got EXCEPT ![t][p] = v]
    /\ UNCHANGED <<upstream, found, lock, refresher, asked>>

Ends(t) ==
    /\ refresher' = [refresher EXCEPT ![t] = "off"]
    /\ got' = [got EXCEPT ![t] = [p \in Providers |-> Pending]]
    /\ asked' = [asked EXCEPT ![t] = [p \in Providers |-> 0]]

(* gather() has every result: those that came are written, the rest of     *)
(* DISCOVERED stays.                                                       *)
Write(t) ==
    /\ refresher[t] = "fetching"
    /\ \A p \in Providers : got[t][p] # Pending
    /\ found' = [p \in Providers |-> IF got[t][p] = Failed THEN found[p] ELSE got[t][p]]
    /\ lock' = Nobody
    /\ Ends(t)
    /\ UNCHANGED upstream

\* faulty: the lock is not given back, which RefreshEnds would reveal
CancelKeepsLock(t) ==
    /\ Ends(t)
    /\ UNCHANGED <<upstream, found, lock>>

(* A task cancelled while it sleeps, waits for the lock or for answers     *)
Cancel(t) ==
    /\ Ends(t)
    /\ lock' = IF lock = t THEN Nobody ELSE lock
    /\ UNCHANGED <<upstream, found>>

UpstreamChanges(p) ==
    /\ upstream[p] <= Versions
    /\ upstream' = [upstream EXCEPT ![p] = @ + 1]
    /\ UNCHANGED <<found, lock, refresher, got, asked>>

=============================================================================
