-------------------------- MODULE VirtualKeysProofs --------------------------
(* Proofs about VirtualKeys, for any ids and one or two copies.            *)
EXTENDS VirtualKeys, TLAPS

(* What the steps rely on: a copy that is not loaded is empty; without     *)
(* failures the admin's copy, once loaded, is what the file holds; and a   *)
(* deleted key is in neither.                                              *)
Unloaded == \A c \in Copies : ~loaded[c] => store[c] = NoKeys

Current == ~hurt /\ loaded[Admin] => store[Admin] = saved

Gone ==
    \A k \in Ids :
        told[k] = "deleted" => k \notin DOMAIN saved /\ k \notin DOMAIN store[Admin]

Inv == Types /\ Unloaded /\ Current /\ Gone /\ FileTold

(* A store is a function from some of the ids.                             *)
LEMMA StoreFacts ==
    ASSUME NEW s \in Stores
    PROVE  DOMAIN s \subseteq Ids /\ s \in [DOMAIN s -> BOOLEAN]
<1>1. PICK S \in SUBSET Ids : s \in [S -> BOOLEAN]
  BY DEF Stores
<1>2. QED
  BY <1>1

(* Adding, changing and removing a key give a store.                       *)
LEMMA StoreTypes ==
    ASSUME NEW s \in Stores, NEW k \in Ids, NEW e \in BOOLEAN
    PROVE  /\ NoKeys \in Stores /\ DOMAIN NoKeys = {}
           /\ With(s, k, e) \in Stores /\ DOMAIN With(s, k, e) = DOMAIN s \cup {k}
           /\ Without(s, k) \in Stores /\ DOMAIN Without(s, k) = DOMAIN s \ {k}
<1>1. ASSUME NEW S \in SUBSET Ids, NEW f \in [S -> BOOLEAN] PROVE f \in Stores
  BY DEF Stores
<1>2. DOMAIN s \subseteq Ids /\ s \in [DOMAIN s -> BOOLEAN]
  BY StoreFacts
<1>3. NoKeys \in [{} -> BOOLEAN] /\ DOMAIN NoKeys = {}
  BY DEF NoKeys
<1>4. /\ With(s, k, e) \in [DOMAIN s \cup {k} -> BOOLEAN]
      /\ DOMAIN With(s, k, e) = DOMAIN s \cup {k}
  BY <1>2 DEF With
<1>5. /\ Without(s, k) \in [DOMAIN s \ {k} -> BOOLEAN]
      /\ DOMAIN Without(s, k) = DOMAIN s \ {k}
  BY <1>2 DEF Without
<1>6. DOMAIN s \cup {k} \in SUBSET Ids /\ DOMAIN s \ {k} \in SUBSET Ids /\ {} \in SUBSET Ids
  BY <1>2
<1>7. QED
  BY <1>1, <1>3, <1>4, <1>5, <1>6

(* The same for the store without keys alone.                              *)
LEMMA NoKeysType == NoKeys \in Stores /\ DOMAIN NoKeys = {}
<1>1. NoKeys \in [{} -> BOOLEAN] /\ DOMAIN NoKeys = {}
  BY DEF NoKeys
<1>2. QED
  BY <1>1 DEF Stores

(* Whatever the outcome of a write, no key comes back that the new store   *)
(* does not hold, and without a failure the file holds the new store.      *)
LEMMA WriteStep ==
    ASSUME Inv, NEW s \in Stores, NEW k \in Ids, NEW status \in Statuses,
           \/ Saved(s, k, status)
           \/ (SaveFails(s) \/ SaveCut(s)) /\ hurt' = TRUE,
           hurt' \in BOOLEAN,
           \A i \in Ids : told[i] = "deleted" => i \notin DOMAIN s,
           status = "deleted" => k \notin DOMAIN s,
           ~hurt' => s = [i \in (Known \ {k}) \cup
                               (IF status = "deleted" THEN {} ELSE {k})
                              |-> IF i = k THEN status = "enabled" ELSE told[i] = "enabled"],
           status # "unknown"
    PROVE  /\ Inv'
           /\ \A c \in Copies : store'[c] \in {store[c], s, NoKeys}
<1> USE NoKeysType
<1>1. Admin \in Copies
  BY DEF Copies
<1>2. Types
  BY DEF Inv
<1>3. CASE Saved(s, k, status)
  <2>1. /\ store' = [store EXCEPT ![Admin] = s] /\ loaded' = [loaded EXCEPT ![Admin] = TRUE]
        /\ saved' = s /\ file' = "whole" /\ told' = [told EXCEPT ![k] = status]
    BY <1>3 DEF Saved
  <2>2. Types'
    BY <1>1, <1>2, <2>1 DEF Types
  <2>3. Unloaded' /\ Current' /\ store'[Admin] = s
    BY <1>1, <1>2, <2>1 DEF Types, Inv, Unloaded, Current
  <2>4. Gone'
    BY <1>1, <1>2, <2>1, <2>3 DEF Types, Gone
  <2>5. FileTold'
    <3> SUFFICES ASSUME ~hurt' PROVE saved' = [i \in Known' |-> told'[i] = "enabled"]
      BY DEF FileTold
    <3>1. Known' = (Known \ {k}) \cup (IF status = "deleted" THEN {} ELSE {k})
      BY <1>2, <2>1 DEF Types, Known, Statuses
    <3>2. \A i \in Known' : told'[i] = "enabled" <=> IF i = k THEN status = "enabled" ELSE told[i] = "enabled"
      BY <1>2, <2>1, <3>1 DEF Types, Known
    <3>3. QED
      BY <2>1, <3>1, <3>2
  <2>6. \A c \in Copies : store'[c] \in {store[c], s, NoKeys}
    BY <1>2, <2>1 DEF Types
  <2>7. QED
    BY <2>2, <2>3, <2>4, <2>5, <2>6 DEF Inv
<1>4. CASE SaveFails(s) /\ hurt' = TRUE
  <2>1. /\ store' = [store EXCEPT ![Admin] = s] /\ loaded' = [loaded EXCEPT ![Admin] = TRUE]
        /\ told' = told /\ hurt' = TRUE
        /\ \/ saved' = saved /\ file' = file
           \/ saved' = NoKeys /\ file' = "torn"
    BY <1>4 DEF SaveFails
  <2>2. Types'
    BY <1>1, <1>2, <2>1 DEF Types
  <2>3. Unloaded' /\ Current' /\ FileTold'
    BY <1>1, <1>2, <2>1 DEF Types, Inv, Unloaded, Current, FileTold
  <2>4. Gone'
    BY <1>1, <1>2, <2>1 DEF Types, Inv, Gone
  <2>5. \A c \in Copies : store'[c] \in {store[c], s, NoKeys}
    BY <1>2, <2>1 DEF Types
  <2>6. QED
    BY <2>2, <2>3, <2>4, <2>5 DEF Inv
<1>5. CASE SaveCut(s) /\ hurt' = TRUE
  <2>1. /\ store' = [c \in Copies |-> NoKeys] /\ loaded' = [c \in Copies |-> FALSE]
        /\ told' = told /\ hurt' = TRUE
        /\ \/ saved' = s /\ file' = "whole"
           \/ saved' = NoKeys /\ file' = "torn"
    BY <1>5 DEF SaveCut
  <2>2. Types'
    BY <1>2, <2>1 DEF Types
  <2>3. Unloaded' /\ Current' /\ FileTold'
    BY <1>1, <2>1 DEF Unloaded, Current, FileTold
  <2>4. Gone'
    BY <1>1, <2>1 DEF Gone
  <2>5. \A c \in Copies : store'[c] \in {store[c], s, NoKeys}
    BY <2>1
  <2>6. QED
    BY <2>2, <2>3, <2>4, <2>5 DEF Inv
<1>6. QED
  BY <1>3, <1>4, <1>5

(* The outcomes of a write.                                                *)
LEMMA WriteOutcome ==
    ASSUME NEW s, NEW k, NEW status, Write(s, k, status), hurt \in BOOLEAN
    PROVE  /\ Saved(s, k, status) \/ ((SaveFails(s) \/ SaveCut(s)) /\ hurt' = TRUE)
           /\ hurt' \in BOOLEAN
           /\ ~hurt' => ~hurt
<1>1. CASE Saved(s, k, status) /\ UNCHANGED hurt
  BY <1>1
<1>2. CASE (SaveFails(s) \/ SaveCut(s)) /\ hurt' = TRUE
  BY <1>2
<1>3. QED
  BY <1>1, <1>2 DEF Write

(* No deleted key comes back in a step.                                    *)
NoneRevived ==
    \A k \in Ids, c \in Copies :
        told[k] = "deleted" /\ k \notin DOMAIN store[c] => k \notin DOMAIN store'[c]

(* create() adds a key nobody was told of to what the file held, or to     *)
(* nothing when it cannot be read.                                         *)
LEMMA CreateStep ==
    ASSUME Inv, NEW k \in Ids, Create(k)
    PROVE  Inv' /\ NoneRevived
<1>1. PICK s \in Stores :
         \/ Readable(Admin, s) /\ Write(With(s, k, TRUE), k, "enabled")
         \/ /\ Unreadable(Admin, s)
            /\ \/ Saved(With(s, k, TRUE), k, "enabled")
               \/ SaveFails(With(s, k, TRUE))
               \/ SaveCut(With(s, k, TRUE))
            /\ hurt' = TRUE
  BY DEF Create
<1> DEFINE w == With(s, k, TRUE)
<1>2. w \in Stores /\ DOMAIN w = DOMAIN s \cup {k}
  BY StoreTypes
<1>3. Types /\ told[k] = "unknown"
  BY DEF Inv, Create, Fresh
<1>4. DOMAIN s \subseteq DOMAIN saved \/ DOMAIN s \subseteq DOMAIN store[Admin]
  BY <1>1, NoKeysType DEF Readable, Unreadable
<1>5. \A i \in Ids : told[i] = "deleted" => i \notin DOMAIN s /\ i \notin DOMAIN w
  BY <1>2, <1>3, <1>4 DEF Inv, Gone
<1>6. ASSUME ~hurt'
      PROVE  w = [i \in (Known \ {k}) \cup {k} |-> IF i = k THEN TRUE ELSE told[i] = "enabled"]
  <2>1. ~hurt /\ Readable(Admin, s)
    BY <1>1, <1>3, <1>6, WriteOutcome DEF Types
  <2>2. s = saved
    BY <2>1 DEF Readable, Inv, Current
  <2>3. s = [i \in Known |-> told[i] = "enabled"]
    BY <2>1, <2>2 DEF Inv, FileTold
  <2>4. k \notin Known
    BY <1>3 DEF Known
  <2>5. QED
    BY <2>3, <2>4 DEF With
<1>7. hurt \in BOOLEAN
  BY <1>3 DEF Types
<1>8. /\ Saved(w, k, "enabled") \/ ((SaveFails(w) \/ SaveCut(w)) /\ hurt' = TRUE)
      /\ hurt' \in BOOLEAN
  <2>1. CASE Write(w, k, "enabled")
    BY <1>7, <2>1, WriteOutcome
  <2>2. CASE /\ Saved(w, k, "enabled") \/ SaveFails(w) \/ SaveCut(w)
             /\ hurt' = TRUE
    BY <2>2
  <2>3. QED
    BY <1>1, <2>1, <2>2
<1>9. Inv' /\ \A c \in Copies : store'[c] \in {store[c], w, NoKeys}
  <2>1. "enabled" \in Statuses
    BY DEF Statuses
  <2>2. ~hurt' => w = [i \in (Known \ {k}) \cup
                               (IF "enabled" = "deleted" THEN {} ELSE {k})
                         |-> IF i = k THEN "enabled" = "enabled" ELSE told[i] = "enabled"]
    BY <1>6
  <2> HIDE DEF w
  <2>3. QED
    BY <1>2, <1>5, <1>8, <2>1, <2>2, WriteStep
<1>10. NoneRevived
  BY <1>5, <1>9, NoKeysType DEF NoneRevived
<1>11. QED
  BY <1>9, <1>10

(* A key that the admin's copy holds was loaded.                           *)
LEMMA HeldIsLoaded ==
    ASSUME Inv, NEW k \in Ids, k \in DOMAIN store[Admin]
    PROVE  /\ loaded[Admin] /\ store[Admin] \in Stores /\ told[k] # "deleted"
           /\ ~hurt => store[Admin] = [i \in Known |-> told[i] = "enabled"]
<1>1. Admin \in Copies
  BY DEF Copies
<1>2. loaded[Admin] /\ store[Admin] \in Stores
  BY <1>1, NoKeysType DEF Inv, Unloaded, Types
<1>3. QED
  BY <1>2 DEF Inv, Current, FileTold, Gone

(* update() and delete() change a key of the store that the file holds.    *)
LEMMA UpdateStep ==
    ASSUME Inv, NEW k \in Ids, NEW e \in BOOLEAN, Update(k, e)
    PROVE  Inv' /\ NoneRevived
<1> DEFINE w == With(store[Admin], k, e)
<1>1. k \in DOMAIN store[Admin] /\ Write(w, k, Status(e))
  BY DEF Update
<1>2. w \in Stores /\ DOMAIN w = DOMAIN store[Admin] \cup {k}
  BY <1>1, HeldIsLoaded, StoreTypes
<1>3. \A i \in Ids : told[i] = "deleted" => i \notin DOMAIN w
  BY <1>1, <1>2, HeldIsLoaded DEF Inv, Gone
<1>4. /\ Status(e) \in Statuses /\ Status(e) # "deleted" /\ Status(e) # "unknown"
      /\ (Status(e) = "enabled") = e
      /\ hurt \in BOOLEAN
  BY DEF Status, Statuses, Inv, Types
<1>5. ~hurt' => w = [i \in (Known \ {k}) \cup
                             (IF Status(e) = "deleted" THEN {} ELSE {k})
                       |-> IF i = k THEN Status(e) = "enabled" ELSE told[i] = "enabled"]
  <2> SUFFICES ASSUME ~hurt' PROVE w = [i \in (Known \ {k}) \cup {k}
                       |-> IF i = k THEN e ELSE told[i] = "enabled"]
    BY <1>4
  <2>1. ~hurt
    BY <1>1, <1>4, WriteOutcome
  <2>2. store[Admin] = [i \in Known |-> told[i] = "enabled"]
    BY <1>1, <2>1, HeldIsLoaded
  <2>3. QED
    BY <2>2 DEF With
<1>6. /\ Saved(w, k, Status(e)) \/ ((SaveFails(w) \/ SaveCut(w)) /\ hurt' = TRUE)
      /\ hurt' \in BOOLEAN
  BY <1>1, <1>4, WriteOutcome
<1>8. Inv' /\ \A c \in Copies : store'[c] \in {store[c], w, NoKeys}
  <2> HIDE DEF w
  <2>1. QED
    BY <1>2, <1>3, <1>4, <1>5, <1>6, WriteStep
<1>9. NoneRevived
  BY <1>3, <1>8, NoKeysType DEF NoneRevived
<1>10. QED
  BY <1>8, <1>9

(* The same for delete().                                                  *)
LEMMA DeleteStep ==
    ASSUME Inv, NEW k \in Ids, Delete(k)
    PROVE  Inv' /\ NoneRevived
<1> DEFINE w == Without(store[Admin], k)
<1>1. k \in DOMAIN store[Admin] /\ Write(w, k, "deleted")
  BY DEF Delete
<1>2. w \in Stores /\ DOMAIN w = DOMAIN store[Admin] \ {k}
  BY <1>1, HeldIsLoaded, StoreTypes
<1>3. /\ k \notin DOMAIN w
      /\ \A i \in Ids : told[i] = "deleted" => i \notin DOMAIN w
  BY <1>1, <1>2, HeldIsLoaded DEF Inv, Gone
<1>4. "deleted" \in Statuses /\ hurt \in BOOLEAN
  BY DEF Statuses, Inv, Types
<1>5. ~hurt' => w = [i \in (Known \ {k}) \cup
                             (IF "deleted" = "deleted" THEN {} ELSE {k})
                       |-> IF i = k THEN "deleted" = "enabled" ELSE told[i] = "enabled"]
  <2> SUFFICES ASSUME ~hurt' PROVE w = [i \in Known \ {k} |-> told[i] = "enabled"]
    OBVIOUS
  <2>1. ~hurt
    BY <1>1, <1>4, WriteOutcome
  <2>2. store[Admin] = [i \in Known |-> told[i] = "enabled"]
    BY <1>1, <2>1, HeldIsLoaded
  <2>3. QED
    BY <2>2 DEF Without
<1>6. /\ Saved(w, k, "deleted") \/ ((SaveFails(w) \/ SaveCut(w)) /\ hurt' = TRUE)
      /\ hurt' \in BOOLEAN
  BY <1>1, <1>4, WriteOutcome
<1>8. Inv' /\ \A c \in Copies : store'[c] \in {store[c], w, NoKeys}
  <2> HIDE DEF w
  <2>1. QED
    BY <1>2, <1>3, <1>4, <1>5, <1>6, WriteStep
<1>9. NoneRevived
  BY <1>3, <1>8, NoKeysType DEF NoneRevived
<1>10. QED
  BY <1>8, <1>9

(* Requests load the gateway's copy; a restart empties both.               *)
LEMMA OtherStep ==
    ASSUME Inv, Resolve \/ Restart \/ UNCHANGED vars
    PROVE  Inv' /\ NoneRevived
<1> USE NoKeysType
<1>0. Admin \in Copies /\ Gateway \in Copies /\ Types
  BY DEF Copies, Inv
<1>1. CASE UNCHANGED vars
  BY <1>1 DEF vars, Inv, Types, Unloaded, Current, Gone, FileTold, Known, NoneRevived
<1>2. CASE Restart
  BY <1>0, <1>2 DEF Restart, Inv, Types, Unloaded, Current, Gone, FileTold, Known, NoneRevived
<1>3. CASE Resolve
  <2>1. PICK s \in Stores :
           /\ store' = [store EXCEPT ![Gateway] = s]
           /\ \/ Readable(Gateway, s) /\ UNCHANGED hurt
              \/ Unreadable(Gateway, s) /\ hurt' = TRUE
    BY <1>3 DEF Resolve
  <2>2. loaded' = [loaded EXCEPT ![Gateway] = TRUE] /\ UNCHANGED <<file, saved, told>>
    BY <1>3 DEF Resolve
  <2>3. s \in {store[Gateway], saved, NoKeys} /\ hurt' \in BOOLEAN
    BY <1>0, <2>1 DEF Readable, Unreadable, Types
  <2>4. Types'
    BY <1>0, <2>1, <2>2, <2>3 DEF Types
  <2>5. Unloaded'
    BY <1>0, <2>1, <2>2 DEF Inv, Types, Unloaded
  <2>6. Current'
    BY <1>0, <2>1, <2>2 DEF Inv, Types, Current, Readable
  <2>7. Gone'
    BY <1>0, <2>1, <2>2, <2>3 DEF Inv, Types, Gone
  <2>8. FileTold'
    BY <1>0, <2>1, <2>2 DEF Inv, Types, FileTold, Known
  <2>9. NoneRevived
    BY <1>0, <2>1, <2>3 DEF Inv, Types, Gone, NoneRevived
  <2>10. QED
    BY <2>4, <2>5, <2>6, <2>7, <2>8, <2>9 DEF Inv
<1>4. QED
  BY <1>1, <1>2, <1>3

(* Every step keeps the invariant and revives no key.                      *)
LEMMA KeysStep == ASSUME Inv, [Next]_vars PROVE Inv' /\ NoneRevived
<1>1. ASSUME NEW k \in Ids, NotFound(k) PROVE UNCHANGED vars
  BY <1>1 DEF NotFound
<1>2. QED
  BY <1>1, CreateStep, UpdateStep, DeleteStep, OtherStep DEF Next

(* Initially nothing is stored, loaded or told.                            *)
LEMMA InitInv == Init => Inv
<1> SUFFICES ASSUME Init PROVE Inv
  OBVIOUS
<1>1. Types
  BY NoKeysType DEF Init, Types, Statuses
<1>2. Unloaded /\ Current /\ Gone
  BY NoKeysType DEF Init, Unloaded, Current, Gone, Copies
<1>3. FileTold
  <2>1. Known = {}
    BY DEF Init, Known
  <2>2. QED
    BY <2>1 DEF Init, FileTold, NoKeys
<1>4. QED
  BY <1>1, <1>2, <1>3 DEF Inv

(* Every variable keeps its type; stores never hold a key outside Ids.     *)
THEOREM KeysTypeCorrect == Spec => []TypeOK
<1>1. Inv /\ [Next]_vars => Inv'
  BY KeysStep
<1>2. Inv => TypeOK
  BY DEF Inv, TypeOK, Unloaded
<1>3. QED
  BY <1>1, <1>2, InitInv, PTL DEF Spec

(* While nothing fails, the file is what the operator was told.            *)
THEOREM FileToldCorrect == Spec => []FileTold
<1>1. Inv /\ [Next]_vars => Inv'
  BY KeysStep
<1>2. Inv => FileTold
  BY DEF Inv
<1>3. QED
  BY <1>1, <1>2, InitInv, PTL DEF Spec

(* Whatever fails, a deleted key never comes back into a store.            *)
THEOREM RevokedForGoodCorrect == Spec => RevokedForGood
<1>1. Inv /\ [Next]_vars => Inv'
  BY KeysStep
<1>2. Inv /\ [Next]_vars =>
        [\A k \in Ids, c \in Copies :
            told[k] = "deleted" /\ k \notin DOMAIN store[c]
                => k \notin DOMAIN store'[c]]_vars
  BY KeysStep DEF NoneRevived
<1>3. QED
  BY <1>1, <1>2, InitInv, PTL DEF Spec, RevokedForGood

=============================================================================
