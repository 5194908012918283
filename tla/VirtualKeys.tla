----------------------------- MODULE VirtualKeys -----------------------------
(***************************************************************************)
(* The store of virtual keys: keys/virtual_keys.py and the admin routes    *)
(* that change it.  The gateway process holds the module twice, because    *)
(* start.py puts both the package and its parent on sys.path: the admin    *)
(* routes import keys.virtual_keys, the request routes import              *)
(* chimera.keys.virtual_keys.  Each copy has a store of its own, which it  *)
(* loads once, on its first use, from the one file; only the admin's copy  *)
(* ever writes the file.                                                   *)
(*                                                                         *)
(* No operation is suspended between its first and last access to the      *)
(* store, so each is one step; but the process may die, or the disk fail,  *)
(* while _save() writes.  Of a key's record only "enabled" is kept.        *)
(***************************************************************************)
EXTENDS FiniteSets, Functions

CONSTANTS
    Ids,        \* the ids that create() may draw
    Admin,      \* the copy of the admin routes
    Gateway     \* the copy of the request routes, maybe the same

Copies == {Admin, Gateway}

VARIABLES
    store,      \* STORE of each copy
    loaded,     \* _LOADED of each copy
    file,       \* whether _KEYS_FILE is "absent", "torn" or "whole" ...
    saved,      \* ... and the keys in it
    told,       \* what the operator was told of each key in 200s and 201s
    hurt        \* a write failed or was cut, or a read failed

vars == <<store, loaded, file, saved, told, hurt>>

Stores == UNION {[S -> BOOLEAN] : S \in SUBSET Ids}

NoKeys == [k \in {} |-> TRUE]

Statuses == {"unknown", "enabled", "disabled", "deleted"}

Status(enabled) == IF enabled THEN "enabled" ELSE "disabled"

Types ==
    /\ store \in [Copies -> Stores]
    /\ loaded \in [Copies -> BOOLEAN]
    /\ file \in {"absent", "torn", "whole"}
    /\ saved \in Stores
    /\ told \in [Ids -> Statuses]
    /\ hurt \in BOOLEAN

(* The types, and the shape of a copy nobody has used yet.                 *)
TypeOK == Types /\ \A c \in Copies : ~loaded[c] => store[c] = NoKeys

Init ==
    /\ store = [c \in Copies |-> NoKeys]
    /\ loaded = [c \in Copies |-> FALSE]
    /\ file = "absent"
    /\ saved = NoKeys
    /\ told = [k \in Ids |-> "unknown"]
    /\ hurt = FALSE

With(s, k, enabled) == [i \in DOMAIN s \cup {k} |-> IF i = k THEN enabled ELSE s[i]]

Without(s, k) == [i \in DOMAIN s \ {k} |-> s[i]]

-----------------------------------------------------------------------------
(* _ensure_loaded(): the store of a copy afterwards, s.  A torn file does  *)
(* not parse and leaves it empty, and so does a file that cannot be read;  *)
(* the copy counts as loaded in any case.                                  *)

Readable(c, s) == s = IF loaded[c] THEN store[c] ELSE saved

Unreadable(c, s) == ~loaded[c] /\ file = "whole" /\ s = NoKeys

\* faulty: the change is never written, which RevokedForGood would reveal
NotSaved(s, k, status) ==
    /\ store' = [store EXCEPT ![Admin] = s]
    /\ loaded' = [loaded EXCEPT ![Admin] = TRUE]
    /\ told' = [told EXCEPT ![k] = status]
    /\ UNCHANGED <<file, saved>>

(* _save() of what the admin's copy holds, s, and the answer: key k is as  *)
(* "status" says.                                                          *)
Saved(s, k, status) ==
    /\ store' = [store EXCEPT ![Admin] = s]
    /\ loaded' = [loaded EXCEPT ![Admin] = TRUE]
    /\ file' = "whole"
    /\ saved' = s
    /\ told' = [told EXCEPT ![k] = status]

(* open() fails, or writing does: the client gets a 500, the store keeps   *)
(* the change.                                                             *)
SaveFails(s) ==
    /\ store' = [store EXCEPT ![Admin] = s]
    /\ loaded' = [loaded EXCEPT ![Admin] = TRUE]
    /\ \/ UNCHANGED <<file, saved>>
       \/ file' = "torn" /\ saved' = NoKeys
    /\ UNCHANGED told

(* The process dies: after the truncation, or before the answer.           *)
SaveCut(s) ==
    /\ store' = [c \in Copies |-> NoKeys]
    /\ loaded' = [c \in Copies |-> FALSE]
    /\ \/ file' = "torn" /\ saved' = NoKeys
       \/ file' = "whole" /\ saved' = s
    /\ UNCHANGED told

Write(s, k, status) ==
    \/ Saved(s, k, status) /\ UNCHANGED hurt
    \/ (SaveFails(s) \/ SaveCut(s)) /\ hurt' = TRUE

-----------------------------------------------------------------------------
(* The admin routes *)

(* secrets.token_hex() draws an id that is not and was not in use *)
Fresh(k) ==
    /\ told[k] = "unknown"
    /\ k \notin DOMAIN saved
    /\ \A c \in Copies : k \notin DOMAIN store[c]

\* faulty: create() does not load first, which FileTold would reveal
CreateUnloaded(k) ==
    /\ Fresh(k)
    /\ Write(With(store[Admin], k, TRUE), k, "enabled")

Create(k) ==
    /\ Fresh(k)
    /\ \E s \in Stores :
        \/ Readable(Admin, s) /\ Write(With(s, k, TRUE), k, "enabled")
        \/ /\ Unreadable(Admin, s)
           /\ \/ Saved(With(s, k, TRUE), k, "enabled")
              \/ SaveFails(With(s, k, TRUE))
              \/ SaveCut(With(s, k, TRUE))
           /\ hurt' = TRUE

(* update_key() and delete_key() look the key up before anything loads the *)
(* file: a copy that is not loaded has no key, so they answer 404.         *)

Update(k, enabled) ==
    /\ k \in DOMAIN store[Admin]
    /\ Write(With(store[Admin], k, enabled), k, Status(enabled))

Delete(k) ==
    /\ k \in DOMAIN store[Admin]
    /\ Write(Without(store[Admin], k), k, "deleted")

NotFound(k) == k \notin DOMAIN store[Admin] /\ UNCHANGED vars

-----------------------------------------------------------------------------
(* resolve_vk() of a request *)

\* faulty: _LOADED is not set, so each use reads the file again, which TypeOK
\* would reveal
NeverLoaded ==
    /\ \E s \in Stores : Readable(Gateway, s) /\ store' = [store EXCEPT ![Gateway] = s]
    /\ UNCHANGED <<loaded, file, saved, told, hurt>>

Resolve ==
    /\ \E s \in Stores :
        /\ store' = [store EXCEPT ![Gateway] = s]
        /\ \/ Readable(Gateway, s) /\ UNCHANGED hurt
           \/ Unreadable(Gateway, s) /\ hurt' = TRUE
    /\ loaded' = [loaded EXCEPT ![Gateway] = TRUE]
    /\ UNCHANGED <<file, saved, told>>

(* A request with the token of key k that comes now is let in *)
LetIn(k) == loaded[Gateway] /\ k \in DOMAIN store[Gateway] /\ store[Gateway][k]

Restart ==
    /\ store' = [c \in Copies |-> NoKeys]
    /\ loaded' = [c \in Copies |-> FALSE]
    /\ UNCHANGED <<file, saved, told, hurt>>

Next ==
    \/ \E k \in Ids :
        \/ Create(k) \/ Delete(k) \/ NotFound(k)
        \/ \E enabled \in BOOLEAN : Update(k, enabled)
    \/ Resolve
    \/ Restart

Spec == Init /\ [][Next]_vars

-----------------------------------------------------------------------------
(* Properties *)

(* Until a write or a read fails, the file holds exactly the keys the      *)
(* operator was told of and as he was told, through any number of restarts *)
(* and whichever copy loads first: in particular no operation writes a     *)
(* store that was never loaded over it.                                    *)
Known == {k \in Ids : told[k] \in {"enabled", "disabled"}}

FileTold == ~hurt => saved = [k \in Known |-> told[k] = "enabled"]

(* A key the operator was told is deleted never comes back into any store, *)
(* whatever is cut or fails, before or after: no restart, no later save    *)
(* and no reading of a damaged file revives it.                            *)
RevokedForGood ==
    [][\A k \in Ids, c \in Copies :
          told[k] = "deleted" /\ k \notin DOMAIN store[c]
              => k \notin DOMAIN store'[c]]_vars

(* docs/API.md:410 "Revoke a virtual key": a request with the key of an    *)
(* answered DELETE is refused.  The gateway's copy still has it, and lets  *)
(* it in until the next restart.                                           *)
RevokedRefused == \A k \in Ids : told[k] = "deleted" => ~LetIn(k)

=============================================================================
