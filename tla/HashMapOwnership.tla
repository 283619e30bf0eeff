-------------------------- MODULE HashMapOwnership --------------------------
(***************************************************************************)
(* Proofs about HashMap, for every hash function, capacity and number of   *)
(* keys: the table is never half full, growing never nests, every string   *)
(* has one owner, the vector of keys lists what the table holds but for a  *)
(* key it had no memory for, and the hash table implements the finite map  *)
(* of KVMap.                                                               *)
(***************************************************************************)
EXTENDS HashMapProofs, FiniteSetTheorems

-----------------------------------------------------------------------------
(* The inductive invariant *)

Occupied == {i \in Slot : slots[i] # NULL}

\* What is in the new table and what is still to be moved into it add up to what
\* made the old one full.
LoadInv ==
  /\ len = Cardinality(Occupied)
  /\ pc \in {"idle", "get"} \/ (pc = "put" /\ ctx = "user") => 2 * len < cap
  /\ pc = "grow" => 2 * len < cap + 2
  /\ pc = "rehash" \/ (pc = "put" /\ ctx = "rehash") =>
       OldCap >= 2 /\ 2 * (len + Cardinality(Unmoved)) < OldCap + 2
  /\ pc # "nested"

OldStrings == {old[i] : i \in Unmoved}

\* the string of a running put is in no location yet
OwnedInv ==
  /\ pc # "destroyed" => Owned \cap freed = {} /\ Owned \cup freed = Strings
  /\ pc = "destroyed" => freed = Strings
  /\ pc = "put" => arg \notin TableStrings

\* the strings of the keys that are in the map, moved or not, and their texts
Living == TableStrings \cup OldStrings
LivingKeys == {text[s] : s \in Living}

\* A vector that counts on more memory than it has is full: nothing more can be
\* listed, so the key that found no room stays the only one.
KeysInv ==
  /\ keys.cap > 0 /\ Listed <= keys.room /\ keys.room <= keys.cap
  /\ keys.room < keys.cap => Listed = keys.room
  /\ ListedKeys \subseteq LivingKeys
  /\ \A k, l \in LivingKeys \ ListedKeys : k = l /\ keys.room < keys.cap

Base == TypeInv /\ SearchInv

-----------------------------------------------------------------------------
(* The load *)

\* the locations of a table are finitely many
LEMMA Finite ==
  ASSUME TypeOK
  PROVE  /\ IsFiniteSet(Occupied) /\ IsFiniteSet(Unmoved)
         /\ Cardinality(Occupied) \in Nat /\ Cardinality(Unmoved) \in Nat
<1>1. cap \in Nat /\ OldCap \in Nat /\ scan \in Nat
  BY Capacities DEF TypeOK, GrowType
<1>2. IsFiniteSet(0..(cap - 1)) /\ IsFiniteSet(scan..(OldCap - 1))
  BY <1>1, FS_Interval
<1>3. IsFiniteSet(Occupied) /\ IsFiniteSet(Unmoved)
  BY <1>2, FS_Subset DEF Occupied, Unmoved, Slot
<1> QED
  BY <1>3, FS_CardinalityType

LEMMA LoadInit == Init => LoadInv
<1> SUFFICES ASSUME Init PROVE LoadInv
  OBVIOUS
<1>1. TypeOK
  BY TypeInit DEF TypeInv
<1>2. Occupied = {} /\ cap \in Nat /\ cap > 0
  BY <1>1, Capacities DEF Init, Occupied
<1> QED
  BY <1>2, FS_EmptySet DEF Init, LoadInv

\* in a rehash the key of the running put is in no location of the new table
LEMMA RehashInserts ==
  ASSUME TypeOK, PhaseInv, UnmovedInv, pc = "put", ctx = "rehash"
  PROVE  /\ scan \in Unmoved /\ arg = old[scan] /\ scan < OldCap /\ scan \in Nat
         /\ ~Stored(text[arg]) /\ arg \notin TableStrings
<1>1. scan < OldCap /\ arg = old[scan] /\ OldCap \in Nat /\ scan \in Nat /\ arg # NULL
  BY Capacities DEF PhaseInv, TypeOK, GrowType, PutType
<1>2. scan \in Unmoved
  BY <1>1 DEF Unmoved
<1>3. ~Stored(text[arg])
  BY <1>1, <1>2 DEF UnmovedInv, Stored
<1>4. arg \notin TableStrings
  BY <1>1, <1>3 DEF TableStrings, Stored, Holds
<1> QED
  BY <1>1, <1>2, <1>3, <1>4

LEMMA LoadStep == Base /\ LoadInv /\ [Next]_vars => LoadInv'
<1> SUFFICES ASSUME TypeOK, PhaseInv, UnmovedInv, LoadInv, [Next]_vars PROVE LoadInv'
  BY DEF Base, TypeInv, SearchInv
<1>c. /\ cap \in Nat /\ cap > 0 /\ OldCap \in Nat /\ OldCap > 0 /\ cap = 2 * OldCap
      /\ scan \in Nat /\ fh \in Slot /\ len \in Nat
  BY Capacities DEF TypeOK, TableType, GrowType, PutType
<1>f. /\ IsFiniteSet(Occupied) /\ IsFiniteSet(Unmoved)
      /\ Cardinality(Occupied) \in Nat /\ Cardinality(Unmoved) \in Nat
  BY Finite
<1>k. ASSUME UNCHANGED <<cap, cap_pow, len, slots, old, scan>>
      PROVE  /\ UNCHANGED <<len, Cardinality(Occupied), Cardinality(Unmoved), OldCap>>
             /\ len' = Cardinality(Occupied')
  BY <1>k DEF Occupied, Unmoved, OldCap, Slot, LoadInv
<1>1. CASE UNCHANGED vars
  BY <1>1, <1>k DEF vars, table, growing, LoadInv
<1>2. ASSUME NEW k \in Keys, GetCall(k) PROVE LoadInv'
  BY <1>2, <1>k DEF GetCall, table, growing, LoadInv
<1>3. ASSUME NEW k \in Keys, NEW v \in Vals, PutCall(k, v) PROVE LoadInv'
  BY <1>3, <1>k DEF PutCall, table, growing, LoadInv
<1>4. CASE PutCallFails \/ GrowFails
  BY <1>4, <1>k DEF PutCallFails, GrowFails, table, growing, LoadInv
<1>5. CASE Destroy
  BY <1>5, <1>k DEF Destroy, growing, LoadInv
<1>6. CASE PutProbe \/ GetProbe \/ GetFound \/ GetMissing
  BY <1>6, <1>k DEF PutProbe, GetProbe, GetFound, GetMissing, table, growing, LoadInv
<1>7. CASE PutReplace
  <2>1. ctx = "user"
    BY <1>7, <1>c, RehashInserts DEF PutReplace, Stored, Holds, TypeOK, PutType
  <2>2. arg # NULL /\ Slot' = Slot /\ OldCap' = OldCap
    BY <1>7 DEF PutReplace, TypeOK, PutType, Slot, OldCap
  <2>3. Occupied' = Occupied
    BY <1>7, <2>2 DEF PutReplace, Store, Occupied, TypeOK, TableType, NULL
  <2>4. ~Full(len)
    BY <1>7, <1>c, <2>1 DEF PutReplace, LoadInv, Full
  <2> QED
    BY <1>7, <2>1, <2>3, <2>4 DEF PutReplace, AfterPut, LoadInv
<1>8. CASE PutInsert
  <2>1. arg # NULL /\ Slot' = Slot /\ OldCap' = OldCap
    BY <1>8 DEF PutInsert, TypeOK, PutType, Slot, OldCap
  <2>2. Occupied' = Occupied \cup {fh} /\ fh \notin Occupied
    BY <1>8, <1>c, <2>1 DEF PutInsert, Store, Occupied, TypeOK, TableType, NULL
  <2>3. len' = len + 1 /\ len' = Cardinality(Occupied')
    BY <1>8, <1>f, <2>2, FS_AddElement DEF PutInsert, LoadInv
  <2>4. CASE ctx = "user"
    <3>1. 2 * len < cap
      BY <1>8, <2>4 DEF PutInsert, LoadInv
    <3>2. /\ ctx' = "user" /\ cap' = cap /\ pc' = IF 2 * (len + 1) >= cap THEN "grow" ELSE "idle"
      BY <1>8, <2>4 DEF PutInsert, AfterPut, Full
    <3> QED
      BY <1>c, <2>3, <3>1, <3>2 DEF LoadInv
  <2>5. CASE ctx = "rehash"
    <3>1. scan \in Unmoved /\ scan < OldCap
      BY <1>8, <2>5, RehashInserts DEF PutInsert
    <3>2. OldCap >= 2 /\ 2 * (len + Cardinality(Unmoved)) < OldCap + 2
      BY <1>8, <2>5 DEF PutInsert, LoadInv
    <3>3. Cardinality(Unmoved \ {scan}) = Cardinality(Unmoved) - 1 /\ Cardinality(Unmoved \ {scan}) \in Nat
      BY <1>f, <3>1, FS_RemoveElement, FS_CardinalityType
    <3>4. ~Full(len + 1)
      BY <1>c, <1>f, <3>2, <3>3 DEF Full
    <3>5. scan' = scan + 1 /\ pc' = "rehash" /\ ctx' = "rehash" /\ old' = old
      BY <1>8, <2>5, <3>4 DEF PutInsert, AfterPut
    <3>6. Unmoved' = Unmoved \ {scan}
      BY <1>c, <2>1, <3>5 DEF Unmoved
    <3>7. 2 * (len' + Cardinality(Unmoved')) < OldCap' + 2
      BY <1>c, <1>f, <2>1, <2>3, <3>2, <3>3, <3>6
    <3> QED
      BY <2>1, <2>3, <3>2, <3>5, <3>7 DEF LoadInv
  <2> QED
    BY <2>4, <2>5 DEF TypeOK, PutType
<1>9. CASE Grow
  <2>a. cap_pow \in Nat /\ cap = CapOf[cap_pow]
    BY Capacities DEF TypeOK, TableType
  <2>b. cap_pow' - 1 = cap_pow /\ OldCap' = cap
    BY <1>9, <2>a DEF Grow, OldCap
  <2>1. OldCap' = cap /\ pc' = "rehash" /\ len' = 0 /\ 2 * len < cap + 2
    BY <1>9, <2>b DEF Grow, LoadInv
  <2>2. Occupied' = {}
    BY <1>9 DEF Grow, Occupied, Slot
  <2>3. Unmoved' = Occupied
    BY <1>9, <1>c, <2>1 DEF Grow, Unmoved, Occupied, Slot, NULL
  <2> QED
    BY <1>c, <1>f, <2>1, <2>2, <2>3, FS_EmptySet DEF LoadInv
<1>10. CASE RehashSkip
  <2>1. UNCHANGED <<cap, cap_pow, len, slots, old>> /\ scan' = scan + 1 /\ pc' = "rehash" /\ pc = "rehash"
    BY <1>10 DEF RehashSkip, table
  <2>2. Unmoved' = Unmoved
    BY <1>10, <1>c, <2>1 DEF RehashSkip, Unmoved, OldCap
  <2> QED
    BY <2>1, <2>2 DEF LoadInv, Occupied, Slot, OldCap
<1>11. CASE RehashPut
  BY <1>11, <1>k DEF RehashPut, table, growing, LoadInv
<1>12. CASE RehashEnd
  <2>1. Unmoved = {}
    BY <1>12, <1>c DEF RehashEnd, Unmoved
  <2>2. 2 * len < cap
    BY <1>12, <1>c, <2>1, FS_EmptySet DEF RehashEnd, LoadInv
  <2> QED
    BY <1>12, <2>2 DEF RehashEnd, table, LoadInv, Occupied, Slot
<1>13. CASE PutOverruns
  BY <1>13, <1>k DEF PutOverruns, table, growing, LoadInv
<1> QED
  BY <1>1, <1>2, <1>3, <1>4, <1>5, <1>6, <1>7, <1>8, <1>9, <1>10, <1>11, <1>12, <1>13 DEF Next, Step

-----------------------------------------------------------------------------
(* The owners of strings *)

\* between the calls of a rehash every string is in the table
LEMMA NothingUnmoved ==
  ASSUME TypeOK, scan = OldCap
  PROVE  Unmoved = {}
BY Capacities DEF Unmoved

LEMMA SameStrings ==
  ASSUME UNCHANGED <<cap, cap_pow, slots, old, scan>>
  PROVE  UNCHANGED <<TableStrings, OldStrings>>
BY DEF TableStrings, OldStrings, Unmoved, OldCap, Slot

\* a put of a caller that replaces a string
LEMMA ReplaceStrings ==
  ASSUME TypeOK, PhaseInv, UnmovedInv, UniqueKeys, PutReplace
  PROVE  /\ slots[fh] \in TableStrings /\ TableStrings' = (TableStrings \ {slots[fh]}) \cup {arg}
         /\ OldStrings = {} /\ OldStrings' = {}
<1>c. /\ fh \in Slot /\ arg # NULL /\ slots \in [Slot -> Strings \cup {NULL}]
  BY DEF TypeOK, TableType, PutType, PutReplace
<1>1. ctx = "user" /\ pc = "put"
  BY <1>c, RehashInserts DEF PutReplace, Stored, Holds, TypeOK, PutType
<1>2. /\ Slot' = Slot /\ slots' = [slots EXCEPT ![fh] = arg]
      /\ UNCHANGED <<cap_pow, old, scan>> /\ slots[fh] # NULL
  BY <1>1 DEF PutReplace, Store, AfterPut, Slot
<1>3. Unmoved = {} /\ Unmoved' = {} /\ OldStrings = {} /\ OldStrings' = {}
  BY <1>1, <1>2, NothingUnmoved DEF PhaseInv, OldStrings, Unmoved, OldCap
<1>4. \A i \in Slot : i # fh => slots[i] # slots[fh]
  BY <1>c, <1>2 DEF UniqueKeys, Holds
<1>5. TableStrings' = (TableStrings \ {slots[fh]}) \cup {arg}
  BY <1>c, <1>2, <1>4 DEF TableStrings, NULL
<1>6. slots[fh] \in TableStrings
  BY <1>c, <1>2 DEF TableStrings
<1> QED
  BY <1>3, <1>5, <1>6

\* a put that takes an empty location, for a caller or in a rehash
LEMMA InsertStrings ==
  ASSUME TypeOK, PhaseInv, UnmovedInv, pc' # "nested", PutInsert
  PROVE  /\ TableStrings' = TableStrings \cup {arg}
         /\ OldStrings' \cup {arg} = OldStrings \cup {arg}
         /\ ctx = "rehash" => arg \in OldStrings
<1>c. OldCap \in Nat /\ scan \in Nat /\ fh \in Slot /\ slots \in [Slot -> Strings \cup {NULL}]
  BY Capacities DEF TypeOK, TableType, GrowType, PutType
<1>1. /\ pc = "put" /\ slots[fh] = NULL /\ slots' = [slots EXCEPT ![fh] = arg] /\ Slot' = Slot
      /\ UNCHANGED <<cap_pow, old>> /\ arg # NULL
  BY DEF PutInsert, Store, Slot, TypeOK, PutType
<1>2. TableStrings' = TableStrings \cup {arg}
  BY <1>c, <1>1 DEF TableStrings, NULL
<1>3. CASE ctx = "user"
  <2>1. scan' = scan
    BY <1>3 DEF PutInsert, AfterPut
  <2> QED
    BY <1>1, <1>2, <1>3, <2>1 DEF OldStrings, Unmoved, OldCap
<1>4. CASE ctx = "rehash"
  <2>1. scan' = scan + 1
    BY <1>4 DEF PutInsert, AfterPut
  <2>2. scan \in Unmoved /\ arg = old[scan]
    BY <1>1, <1>4, RehashInserts
  <2>3. Unmoved' = Unmoved \ {scan}
    BY <1>c, <1>1, <2>1 DEF Unmoved, OldCap
  <2> QED
    BY <1>1, <1>2, <2>2, <2>3 DEF OldStrings
<1> QED
  BY <1>3, <1>4 DEF TypeOK, PutType

\* all strings of the full table wait to be moved
LEMMA GrowStrings ==
  ASSUME TypeOK, PhaseInv, Grow
  PROVE  TableStrings' = {} /\ OldStrings' = TableStrings /\ OldStrings = {}
<1>c. cap \in Nat
  BY Capacities
<1>1. TableStrings' = {}
  BY DEF Grow, TableStrings, Slot
<1>2. cap_pow' - 1 = cap_pow /\ OldCap' = cap
  BY Capacities DEF Grow, OldCap, TypeOK, TableType
<1>3. Unmoved' = {i \in Slot : slots[i] # NULL}
  BY <1>c, <1>2 DEF Grow, Unmoved, Slot, NULL
<1>4. OldStrings' = TableStrings
  BY <1>3 DEF Grow, OldStrings, TableStrings
<1>5. OldStrings = {}
  BY NothingUnmoved DEF Grow, PhaseInv, OldStrings
<1> QED
  BY <1>1, <1>4, <1>5

LEMMA RehashStrings ==
  ASSUME TypeOK, RehashSkip \/ RehashEnd
  PROVE  UNCHANGED <<TableStrings, OldStrings>>
<1>c. OldCap \in Nat /\ scan \in Nat
  BY Capacities DEF TypeOK, GrowType
<1>1. TableStrings' = TableStrings
  BY DEF RehashSkip, RehashEnd, table, TableStrings, Slot
<1>2. CASE RehashSkip
  <2>1. Unmoved' = Unmoved
    BY <1>c, <1>2 DEF RehashSkip, table, Unmoved, OldCap
  <2> QED
    BY <1>1, <1>2, <2>1 DEF RehashSkip, OldStrings
<1>3. CASE RehashEnd
  <2>1. OldStrings = {}
    BY <1>3, NothingUnmoved DEF RehashEnd, OldStrings
  <2>2. OldStrings' = {}
    BY <1>c, <1>3 DEF RehashEnd, OldStrings, Unmoved, OldCap, table
  <2> QED
    BY <1>1, <2>1, <2>2
<1> QED
  BY <1>2, <1>3

LEMMA OwnedInit == Init => OwnedInv
<1> SUFFICES ASSUME Init PROVE OwnedInv
  OBVIOUS
<1>1. TableStrings = {}
  BY DEF Init, TableStrings
<1>2. Unmoved = {}
  BY TypeInit, NothingUnmoved DEF Init, TypeInv
<1> QED
  BY <1>1, <1>2 DEF Init, OwnedInv, Owned, Strings

LEMMA OwnedStep == Base /\ LoadInv /\ OwnedInv /\ [Next]_vars => OwnedInv'
<1> SUFFICES ASSUME TypeOK, PhaseInv, UnmovedInv, UniqueKeys, LoadInv, OwnedInv, LoadInv', [Next]_vars
             PROVE  OwnedInv'
  BY LoadStep DEF Base, TypeInv, SearchInv
<1>c. /\ OldCap \in Nat /\ scan \in Nat /\ fh \in Slot
      /\ slots \in [Slot -> Strings \cup {NULL}] /\ text \in Seq(Keys)
      /\ freed \subseteq Strings
  BY Capacities DEF TypeOK, TableType, GrowType, PutType
<1>t. TableStrings \subseteq Strings /\ Strings' = 1..Len(text')
  BY <1>c DEF TableStrings, Strings
<1>k. UNCHANGED <<cap, cap_pow, slots, old, scan>> => UNCHANGED <<TableStrings, OldStrings>>
  BY SameStrings
<1>o. /\ Owned = TableStrings \cup OldStrings \cup (IF pc \in {"put", "overrun"} THEN {arg} ELSE {})
      /\ Owned' = TableStrings' \cup OldStrings' \cup (IF pc' \in {"put", "overrun"} THEN {arg'} ELSE {})
  BY DEF Owned, OldStrings
<1>1. CASE UNCHANGED vars
  BY <1>1, <1>k, <1>o DEF vars, table, growing, OwnedInv, Strings
<1>2. ASSUME NEW k \in Keys, GetCall(k) PROVE OwnedInv'
  BY <1>2, <1>k, <1>o DEF GetCall, table, growing, OwnedInv, Strings
<1>3. ASSUME NEW k \in Keys, NEW v \in Vals, PutCall(k, v) PROVE OwnedInv'
  <2>1. /\ pc = "idle" /\ pc' = "put" /\ arg' = Len(text) + 1 /\ freed' = freed
        /\ UNCHANGED <<TableStrings, OldStrings>>
    BY <1>3, <1>k DEF PutCall, growing
  <2>2. Strings' = Strings \cup {arg'} /\ arg' \notin Strings
    BY <1>3, <1>c, <2>1 DEF PutCall, Strings
  <2>3. Owned' = Owned \cup {arg'} /\ Owned \cap freed = {} /\ Owned \cup freed = Strings
    BY <1>o, <2>1 DEF OwnedInv
  <2> QED
    BY <1>c, <1>t, <2>1, <2>2, <2>3 DEF OwnedInv
<1>4. CASE PutCallFails \/ GrowFails
  BY <1>4, <1>k, <1>o DEF PutCallFails, GrowFails, table, growing, OwnedInv, Strings
<1>5. CASE Destroy
  <2>1. Unmoved = {}
    BY <1>5, NothingUnmoved DEF Destroy, PhaseInv
  <2>2. Owned = TableStrings /\ Owned \cup freed = Strings
    BY <1>5, <2>1 DEF Destroy, Owned, OwnedInv
  <2> QED
    BY <1>5, <2>2 DEF Destroy, OwnedInv, Strings
<1>6. CASE PutProbe \/ GetProbe \/ GetFound \/ GetMissing
  BY <1>6, <1>k, <1>o DEF PutProbe, GetProbe, GetFound, GetMissing, table, growing, OwnedInv, Strings
<1>7. CASE PutReplace
  <2>1. /\ pc = "put" /\ pc' \notin {"put", "overrun", "destroyed"} /\ text' = text
        /\ freed' = freed \cup {slots[fh]}
    BY <1>7 DEF PutReplace, AfterPut
  <2>2. /\ slots[fh] \in TableStrings /\ TableStrings' = (TableStrings \ {slots[fh]}) \cup {arg}
        /\ OldStrings = {} /\ OldStrings' = {}
    BY <1>7, ReplaceStrings
  <2>3. Owned = TableStrings \cup {arg} /\ Owned' = TableStrings' /\ arg \notin TableStrings
    BY <1>o, <2>1, <2>2 DEF OwnedInv
  <2>4. Owned \cap freed = {} /\ Owned \cup freed = Strings
    BY <2>1 DEF OwnedInv
  <2>5. Owned' \cap freed' = {} /\ Owned' \cup freed' = Strings
    BY <2>1, <2>2, <2>3, <2>4
  <2> QED
    BY <2>1, <2>5 DEF OwnedInv, Strings
<1>8. CASE PutInsert
  <2>1. pc = "put" /\ pc' \notin {"put", "overrun", "destroyed"} /\ UNCHANGED <<text, freed>>
    BY <1>8 DEF PutInsert, AfterPut
  <2>2. TableStrings' = TableStrings \cup {arg} /\ OldStrings' \cup {arg} = OldStrings \cup {arg}
    BY <1>8, InsertStrings DEF LoadInv
  <2>3. Owned' = Owned
    BY <1>o, <2>1, <2>2
  <2> QED
    BY <2>1, <2>3 DEF OwnedInv, Strings
<1>9. CASE Grow
  <2>1. Owned' = Owned
    BY <1>9, <1>o, GrowStrings DEF Grow
  <2> QED
    BY <1>9, <2>1 DEF Grow, OwnedInv, Strings
<1>10. CASE RehashSkip \/ RehashEnd
  <2>1. Owned' = Owned
    BY <1>10, <1>o, RehashStrings DEF RehashSkip, RehashEnd
  <2> QED
    BY <1>10, <2>1 DEF RehashSkip, RehashEnd, table, OwnedInv, Strings
<1>11. CASE RehashPut
  <2>1. scan \in Unmoved
    BY <1>11, <1>c DEF RehashPut, Unmoved
  <2>2. /\ arg' = old[scan] /\ arg' \in OldStrings /\ pc = "rehash" /\ pc' = "put"
        /\ UNCHANGED <<TableStrings, OldStrings, freed, text>>
    BY <1>11, <1>k, <2>1 DEF RehashPut, table, growing, OldStrings
  <2>3. arg' \notin TableStrings
    BY <2>1, <2>2 DEF UnmovedInv, TableStrings, Holds
  <2>4. Owned' = Owned
    BY <1>o, <2>2
  <2> QED
    BY <2>2, <2>3, <2>4 DEF OwnedInv, Strings
<1>12. CASE PutOverruns
  BY <1>12, <1>k, <1>o DEF PutOverruns, table, growing, OwnedInv, Strings
<1> QED
  BY <1>1, <1>2, <1>3, <1>4, <1>5, <1>6, <1>7, <1>8, <1>9, <1>10, <1>11, <1>12 DEF Next, Step

-----------------------------------------------------------------------------
(* The listed keys *)

LEMMA KeysInit == Init => KeysInv
<1> SUFFICES ASSUME Init PROVE KeysInv
  OBVIOUS
<1>1. cap \in Nat /\ cap > 0 /\ TableStrings = {} /\ OldStrings = {}
  BY TypeInit, Capacities, NothingUnmoved DEF Init, TypeInv, TableStrings, OldStrings
<1>2. keys.items = <<>> /\ keys.cap = cap /\ keys.room = cap /\ Listed = 0
  BY DEF Init, Listed
<1> QED
  BY <1>1, <1>2 DEF KeysInv, ListedKeys, LivingKeys, Living

LEMMA KeysTypes ==
  ASSUME TypeOK
  PROVE  /\ keys.items \in Seq(Strings) /\ Listed \in Nat /\ keys.cap \in Nat /\ keys.room \in Nat
         /\ \A n \in 1..Listed : keys.items[n] \in Strings
         /\ Living \subseteq Strings
<1>1. keys.items \in Seq(Strings) /\ keys.cap \in Nat /\ keys.room \in Nat
  BY DEF TypeOK, TableType
<1>2. Listed \in Nat /\ \A n \in 1..Listed : keys.items[n] \in Strings
  BY <1>1 DEF Listed
<1>3. TableStrings \subseteq Strings
  BY DEF TypeOK, TableType, TableStrings
<1>4. OldStrings \subseteq Strings
  BY Capacities DEF TypeOK, GrowType, OldStrings, Unmoved, NULL
<1> QED
  BY <1>1, <1>2, <1>3, <1>4 DEF Living

\* no key is listed or left out by a step that keeps the vector and the living strings
LEMMA SameKeys ==
  ASSUME TypeOK, KeysInv, UNCHANGED <<keys, Living>>, \A s \in Strings : text'[s] = text[s]
  PROVE  KeysInv'
<1>1. ListedKeys' = ListedKeys
  BY KeysTypes DEF ListedKeys, Listed
<1>2. LivingKeys' = LivingKeys
  BY KeysTypes DEF LivingKeys
<1> QED
  BY <1>1, <1>2 DEF KeysInv, Listed

\* the three outcomes of listing a key
LEMMA PushKeyLists ==
  ASSUME TypeOK, KeysInv, PushKey, arg \in Strings, text' = text
  PROVE  /\ keys'.cap > 0 /\ Listed' <= keys'.room /\ keys'.room <= keys'.cap
         /\ keys'.room < keys'.cap => Listed' = keys'.room
         /\ keys.room = keys.cap
         /\ \/ ListedKeys' = ListedKeys \cup {text[arg]} /\ keys'.room = keys'.cap
            \/ ListedKeys' = ListedKeys /\ keys'.room < keys'.cap
<1>1. /\ keys.items \in Seq(Strings) /\ Listed \in Nat /\ keys.cap \in Nat /\ keys.room \in Nat
      /\ keys.cap > 0 /\ Listed <= keys.room /\ keys.room <= keys.cap
      /\ keys.room < keys.cap => Listed = keys.room
      /\ keys = [items |-> keys.items, cap |-> keys.cap, room |-> keys.room]
  BY KeysTypes DEF KeysInv, TypeOK, TableType
<1>2. ASSUME keys'.items = Append(keys.items, arg)
      PROVE  Listed' = Listed + 1 /\ ListedKeys' = ListedKeys \cup {text[arg]}
  <2>1. Listed' = Listed + 1 /\ keys'.items[Listed + 1] = arg
        /\ \A n \in 1..Listed : keys'.items[n] = keys.items[n]
    BY <1>1, <1>2 DEF Listed
  <2>2. 1..Listed' = 1..Listed \cup {Listed + 1}
    BY <1>1, <2>1
  <2> QED
    BY <2>1, <2>2 DEF ListedKeys
<1>3. CASE /\ Listed < keys.cap /\ Listed < keys.room
           /\ keys' = [keys EXCEPT !.items = Append(@, arg)]
  <2>1. keys'.items = Append(keys.items, arg) /\ keys'.cap = keys.cap /\ keys'.room = keys.room
    BY <1>1, <1>3
  <2> QED
    BY <1>1, <1>2, <1>3, <2>1
<1>4. CASE /\ Listed >= keys.cap
           /\ keys' = [items |-> Append(keys.items, arg), cap |-> 2 * keys.cap, room |-> 2 * keys.cap]
  <2>1. /\ keys'.items = Append(keys.items, arg) /\ keys'.cap = 2 * keys.cap
        /\ keys'.room = 2 * keys.cap
    BY <1>4
  <2> QED
    BY <1>1, <1>2, <1>4, <2>1
<1>5. CASE Listed >= keys.cap /\ keys' = [keys EXCEPT !.cap = 2 * @]
  <2>1. keys'.items = keys.items /\ keys'.cap = 2 * keys.cap /\ keys'.room = keys.room
    BY <1>1, <1>5
  <2>2. Listed' = Listed /\ ListedKeys' = ListedKeys
    BY <2>1 DEF Listed, ListedKeys
  <2> QED
    BY <1>1, <1>5, <2>1, <2>2
<1> QED
  BY <1>3, <1>4, <1>5 DEF PushKey

LEMMA KeysStep == Base /\ LoadInv /\ KeysInv /\ [Next]_vars => KeysInv'
<1> SUFFICES ASSUME TypeOK, PhaseInv, UnmovedInv, UniqueKeys, KeysInv, LoadInv', [Next]_vars
             PROVE  KeysInv'
  BY LoadStep DEF Base, TypeInv, SearchInv
<1>k. ASSUME UNCHANGED <<cap, cap_pow, slots, old, scan, keys, text>> PROVE KeysInv'
  BY <1>k, SameStrings, SameKeys DEF Living
<1>1. CASE UNCHANGED vars
  BY <1>1, <1>k DEF vars, table, growing
<1>2. ASSUME NEW k \in Keys, GetCall(k) PROVE KeysInv'
  BY <1>2, <1>k DEF GetCall, table, growing
<1>3. ASSUME NEW k \in Keys, NEW v \in Vals, PutCall(k, v) PROVE KeysInv'
  <2>1. \A s \in Strings : text'[s] = text[s]
    BY <1>3 DEF PutCall, Strings, TypeOK, TableType
  <2>2. UNCHANGED <<keys, Living>>
    BY <1>3, SameStrings DEF PutCall, growing, Living
  <2> QED
    BY <2>1, <2>2, SameKeys
<1>4. CASE PutCallFails \/ GrowFails \/ Destroy \/ PutProbe \/ PutOverruns \/ RehashPut
  BY <1>4, <1>k DEF PutCallFails, GrowFails, Destroy, PutProbe, PutOverruns, RehashPut, table, growing
<1>5. CASE GetProbe \/ GetFound \/ GetMissing
  BY <1>5, <1>k DEF GetProbe, GetFound, GetMissing, table, growing
<1>6. CASE PutReplace
  <2>1. UNCHANGED <<keys, text>> /\ text[slots[fh]] = text[arg]
    BY <1>6 DEF PutReplace
  <2>2. slots[fh] \in Living /\ Living' = (Living \ {slots[fh]}) \cup {arg}
    BY <1>6, ReplaceStrings DEF Living
  <2>3. LivingKeys' = LivingKeys
    BY <2>1, <2>2 DEF LivingKeys
  <2>4. ListedKeys' = ListedKeys /\ Listed' = Listed
    BY <2>1 DEF ListedKeys, Listed
  <2> QED
    BY <2>1, <2>3, <2>4 DEF KeysInv
<1>7. CASE PutInsert
  <2>1. PushKey /\ arg \in Strings /\ text' = text
    BY <1>7 DEF PutInsert, TypeOK, PutType
  <2>2. Living' = Living \cup {arg}
    BY <1>7, InsertStrings DEF LoadInv, Living
  <2>3. LivingKeys' = LivingKeys \cup {text[arg]}
    BY <2>1, <2>2 DEF LivingKeys
  <2>4. keys.room = keys.cap /\ keys.cap \in Nat
    BY <2>1, PushKeyLists, KeysTypes
  <2>5. LivingKeys \subseteq ListedKeys /\ ListedKeys \subseteq LivingKeys
    BY <2>4 DEF KeysInv
  <2>6. ListedKeys' \subseteq LivingKeys'
    BY <2>1, <2>3, <2>5, PushKeyLists
  <2>7. \A k, l \in LivingKeys' \ ListedKeys' : k = l /\ keys'.room < keys'.cap
    BY <2>1, <2>3, <2>5, PushKeyLists
  <2> QED
    BY <2>1, <2>6, <2>7, PushKeyLists DEF KeysInv
<1>8. CASE Grow
  <2>1. UNCHANGED <<keys, text, Living>>
    BY <1>8, GrowStrings DEF Grow, Living
  <2> QED
    BY <2>1, SameKeys
<1>9. CASE RehashSkip \/ RehashEnd
  <2>1. UNCHANGED <<keys, text, Living>>
    BY <1>9, RehashStrings DEF RehashSkip, RehashEnd, table, Living
  <2> QED
    BY <2>1, SameKeys
<1> QED
  BY <1>1, <1>2, <1>3, <1>4, <1>5, <1>6, <1>7, <1>8, <1>9 DEF Next, Step

-----------------------------------------------------------------------------
(* Theorems *)

MapInv == Base /\ LoadInv /\ OwnedInv /\ KeysInv

LEMMA MapAlways == Spec => []MapInv
<1>1. Init => MapInv
  BY TypeInit, SearchInit, LoadInit, OwnedInit, KeysInit DEF MapInv, Base
<1>2. MapInv /\ [Next]_vars => MapInv'
  BY TypeStep, SearchStep, LoadStep, OwnedStep, KeysStep DEF MapInv, Base
<1> QED
  BY <1>1, <1>2, PTL DEF Spec

\* len counts the occupied locations, and less than half of them is occupied
\* between calls: the probe loop of hashmap_put (hashmap.c:120) always has an empty
\* location ahead of it.
THEOREM LoadStaysBelowHalf == Spec => []LoadBelowHalf
<1>1. MapInv => LoadBelowHalf
  BY DEF MapInv, LoadInv, LoadBelowHalf, Occupied
<1> QED
  BY <1>1, MapAlways, PTL

\* hashmap_grow is never entered again by the put it calls (hashmap.c:204).
THEOREM GrowNeverReenters == Spec => []GrowNeverNests
<1>1. MapInv => GrowNeverNests
  BY DEF MapInv, LoadInv, GrowNeverNests
<1> QED
  BY <1>1, MapAlways, PTL

\* Every string that hashmap_put copied has one owner until it is freed, and
\* hashmap_destroy frees what is left (hashmap.c:40-56, 106-146, 183-208).
THEOREM StringsStayOwned == Spec => []StringsOwned
<1>1. ASSUME MapInv PROVE StringsOwned
  <2>1. UniqueKeys /\ UnmovedInv /\ pc # "nested" /\ OwnedInv
    BY <1>1 DEF MapInv, Base, SearchInv, LoadInv
  <2>2. \A i, j \in Slot : slots[i] # NULL /\ slots[i] = slots[j] => i = j
    BY <2>1 DEF UniqueKeys, Holds
  <2>3. \A i \in Slot, j \in Unmoved : slots[i] # old[j]
    BY <2>1 DEF UnmovedInv, Holds, Unmoved
  <2> QED
    BY <2>1, <2>2, <2>3 DEF OwnedInv, StringsOwned
<1> QED
  BY <1>1, MapAlways, PTL

\* What hashmap_put frees (hashmap.c:122) is no longer in the table.
THEOREM FreedStringsLeaveTable == Spec => FreedLeavesTable
<1>1. MapInv' => (pc' # "destroyed" => \A s \in freed' \ freed : s \notin TableStrings')
  BY DEF MapInv, OwnedInv, Owned
<1> QED
  BY <1>1, MapAlways, PTL DEF FreedLeavesTable

\* Whenever growing the vector of keys is refused and hashmap_put goes on
\* (hashmap.c:133-135), hashmap_keys lists only names of the table, and leaves out
\* none, or the one whose listing was refused.
THEOREM KeysStayComplete == Spec => []KeysComplete
<1>1. ASSUME MapInv, pc \in {"idle", "get"} PROVE LivingKeys = StoredKeys
  <2>1. OldStrings = {}
    BY <1>1, NothingUnmoved DEF MapInv, Base, TypeInv, PhaseInv, OldStrings
  <2> QED
    BY <2>1 DEF LivingKeys, Living, StoredKeys
<1>2. MapInv => KeysComplete
  BY <1>1 DEF MapInv, KeysInv, KeysComplete
<1> QED
  BY <1>2, MapAlways, PTL

-----------------------------------------------------------------------------
(* The table implements the finite map of KVMap: every step is a put, a get or no step of it *)

\* the element of a running put is the caller's, or that of the location being moved
ElemInv ==
  pc = "put" => IF ctx = "rehash" THEN elem = oldData[scan] ELSE elem \in Vals

RefInv == MapInv /\ ElemInv

LEMMA ElemStep == RefInv /\ [Next]_vars => ElemInv'
<1> SUFFICES ASSUME TypeOK, ElemInv, [Next]_vars PROVE ElemInv'
  BY DEF RefInv, MapInv, Base, TypeInv
<1>1. CASE UNCHANGED vars
  BY <1>1 DEF vars, growing, ElemInv
<1>2. CASE \E k \in Keys : GetCall(k) \/ \E v \in Vals : PutCall(k, v)
  BY <1>2 DEF GetCall, PutCall, ElemInv
<1>3. CASE PutCallFails \/ GrowFails \/ Destroy
  BY <1>3 DEF PutCallFails, GrowFails, Destroy, ElemInv
<1>4. CASE PutProbe \/ PutOverruns
  BY <1>4 DEF PutProbe, PutOverruns, growing, ElemInv
<1>5. CASE PutReplace \/ PutInsert
  BY <1>5 DEF PutReplace, PutInsert, AfterPut, ElemInv
<1>6. CASE Grow \/ RehashSkip \/ RehashEnd
  BY <1>6 DEF Grow, RehashSkip, RehashEnd, ElemInv
<1>7. CASE RehashPut
  BY <1>7 DEF RehashPut, growing, ElemInv
<1>8. CASE GetProbe \/ GetFound \/ GetMissing
  BY <1>8 DEF GetProbe, GetFound, GetMissing, ElemInv
<1> QED
  BY <1>1, <1>2, <1>3, <1>4, <1>5, <1>6, <1>7, <1>8 DEF Next, Step

LEMMA RefAlways == Spec => []RefInv
<1>1. Init => ElemInv
  BY DEF Init, ElemInv
<1>2. Spec => [](MapInv /\ ElemInv)
  BY <1>1, MapAlways, ElemStep, PTL DEF Spec, RefInv
<1> QED
  BY <1>2 DEF RefInv

-----------------------------------------------------------------------------
(* What the table and the locations to be moved say of a key *)

Binds(k, v) ==
  \/ \E i \in Slot : Holds(i, k) /\ v = data[i]
  \/ ~Stored(k) /\ \E i \in Unmoved : text[old[i]] = k /\ v = oldData[i]
  \/ ~Stored(k) /\ (\A i \in Unmoved : text[old[i]] # k) /\ v = Absent

\* every key is bound once, to its value in the abstract map
LEMMA Binding == MapInv => \A k \in Keys : \A v : Binds(k, v) <=> v = Contents[k]
<1> SUFFICES ASSUME MapInv, NEW k \in Keys, NEW v PROVE Binds(k, v) <=> v = Contents[k]
  OBVIOUS
<1>1. UniqueKeys /\ \A i, j \in Unmoved : text[old[i]] = text[old[j]] => i = j
  BY DEF MapInv, Base, SearchInv, LoadInv, UnmovedInv
<1>2. CASE Stored(k)
  <2> DEFINE c == CHOOSE i \in Slot : Holds(i, k)
  <2>1. c \in Slot /\ Holds(c, k)
    BY <1>2 DEF Stored
  <2>2. Contents[k] = data[c]
    BY <1>2 DEF Contents
  <2>3. \A i \in Slot : Holds(i, k) => i = c
    BY <1>1, <2>1 DEF UniqueKeys, Holds
  <2> QED
    BY <1>2, <2>1, <2>2, <2>3 DEF Binds
<1>3. CASE ~Stored(k) /\ \E i \in Unmoved : text[old[i]] = k
  <2> DEFINE c == CHOOSE i \in Unmoved : text[old[i]] = k
  <2>1. c \in Unmoved /\ text[old[c]] = k
    BY <1>3
  <2>2. Contents[k] = oldData[c]
    BY <1>3 DEF Contents
  <2>3. \A i \in Unmoved : text[old[i]] = k => i = c
    BY <1>1, <2>1
  <2> QED
    BY <1>3, <2>1, <2>2, <2>3 DEF Binds, Stored
<1>4. CASE ~Stored(k) /\ \A i \in Unmoved : text[old[i]] # k
  <2>1. Contents[k] = Absent
    BY <1>4 DEF Contents
  <2> QED
    BY <1>4, <2>1 DEF Binds, Stored
<1> QED
  BY <1>2, <1>3, <1>4

LEMMA BindingNext == MapInv' => (\A k \in Keys : \A v : Binds(k, v) <=> v = Contents[k])'
BY Binding, PTL

\* a step that keeps every binding is a step the map does not see
LEMMA Unseen ==
  ASSUME MapInv, MapInv', \A k \in Keys : \A v : Binds(k, v) => Binds(k, v)'
  PROVE  Contents' = Contents
<1>1. \A k \in Keys : Contents'[k] = Contents[k]
  BY Binding, BindingNext
<1>2. Contents = [k \in Keys |-> Contents[k]] /\ Contents' = [k \in Keys |-> Contents'[k]]
  BY DEF Contents
<1> QED
  BY <1>1, <1>2

LEMMA SameContents ==
  ASSUME MapInv, MapInv', UNCHANGED <<cap, slots, data, old, oldData>>, Unmoved' = Unmoved,
         \A s \in Strings : text'[s] = text[s]
  PROVE  Contents' = Contents
<1>1. Slot' = Slot
  BY DEF Slot
<1>2. \A i \in Slot : slots[i] # NULL => slots[i] \in Strings
  BY DEF MapInv, Base, TypeInv, TypeOK, TableType
<1>a. OldCap \in Nat /\ GrowType
  BY Capacities DEF MapInv, Base, TypeInv, TypeOK
<1>3. \A i \in Unmoved : old[i] \in Strings
  BY <1>a DEF GrowType, Unmoved, NULL
<1>4. ASSUME NEW k \in Keys, NEW v, Binds(k, v) PROVE Binds(k, v)'
  <2>1. \A i \in Slot : slots'[i] = slots[i] /\ data'[i] = data[i]
    OBVIOUS
  <2>2. \A i \in Slot : (slots'[i] # 0 /\ text'[slots'[i]] = k) <=> Holds(i, k)
    BY <1>2, <2>1 DEF Holds, NULL
  <2>3. \A i \in Unmoved : old'[i] = old[i] /\ oldData'[i] = oldData[i] /\ text'[old[i]] = text[old[i]]
    BY <1>3
  <2> QED
    BY <1>1, <1>4, <2>1, <2>2, <2>3 DEF Binds, Stored, Holds, NULL
<1> QED
  BY <1>4, Unseen

-----------------------------------------------------------------------------
(* Steps *)

\* a key is stored for a caller: a put of the map
LEMMA UserPut ==
  ASSUME RefInv, MapInv', pc = "put", ctx = "user",
         slots' = [slots EXCEPT ![fh] = arg], data' = [data EXCEPT ![fh] = elem],
         slots[fh] # NULL => text[slots[fh]] = text[arg],
         UNCHANGED <<cap, cap_pow, text, scan, old, oldData>>
  PROVE  text[arg] \in Keys /\ elem \in Vals /\ Contents' = [Contents EXCEPT ![text[arg]] = elem]
<1>1. /\ fh \in Slot /\ arg \in Strings /\ text[arg] \in Keys /\ elem \in Vals /\ scan = OldCap
      /\ slots \in [Slot -> Strings \cup {NULL}] /\ data \in [Slot -> Vals \cup {Absent}]
  BY DEF RefInv, ElemInv, MapInv, Base, TypeInv, TypeOK, TableType, PutType, PhaseInv, Strings
<1>2. Unmoved = {} /\ Unmoved' = {} /\ Slot' = Slot /\ arg # 0
  BY <1>1, NothingUnmoved DEF RefInv, MapInv, Base, TypeInv, Unmoved, OldCap, Slot, Strings
<1>3. /\ slots'[fh] = arg /\ data'[fh] = elem
      /\ \A i \in Slot : i # fh => slots'[i] = slots[i] /\ data'[i] = data[i]
  BY <1>1
<1>4. ASSUME NEW k, k = text[arg], NEW v, v = elem PROVE Contents'[k] = v
  <2>1. Binds(k, v)'
    BY <1>1, <1>2, <1>3, <1>4 DEF Binds, Holds, NULL
  <2> QED
    BY <1>1, <1>4, <2>1, BindingNext
<1>5. ASSUME NEW k \in Keys, k # text[arg] PROVE Contents'[k] = Contents[k]
  <2>1. \A i \in Slot : (slots'[i] # 0 /\ text[slots'[i]] = k) <=> Holds(i, k)
    BY <1>2, <1>3, <1>5 DEF Holds, NULL
  <2>2. \A i \in Slot : Holds(i, k) => data'[i] = data[i]
    BY <1>2, <1>3, <1>5 DEF Holds
  <2>3. ASSUME NEW v, Binds(k, v) PROVE Binds(k, v)'
    BY <1>2, <2>1, <2>2, <2>3 DEF Binds, Stored, Holds, NULL
  <2> QED
    BY <2>3, Binding, BindingNext DEF RefInv
<1>6. Contents = [k \in Keys |-> Contents[k]] /\ Contents' = [k \in Keys |-> Contents'[k]]
  BY DEF Contents
<1> QED
  BY <1>1, <1>4, <1>5, <1>6

\* a key is moved to the new table
LEMMA RehashInsert ==
  ASSUME RefInv, MapInv', PutInsert, ctx = "rehash"
  PROVE  Contents' = Contents
<1>1. /\ fh \in Slot /\ arg \in Strings /\ elem = oldData[scan] /\ OldCap \in Nat
      /\ slots \in [Slot -> Strings \cup {NULL}] /\ data \in [Slot -> Vals \cup {Absent}]
  BY Capacities
  DEF RefInv, ElemInv, MapInv, Base, TypeInv, TypeOK, TableType, PutType, Strings, PutInsert
<1>2. /\ scan \in Unmoved /\ arg = old[scan] /\ scan \in Nat /\ ~Stored(text[arg])
      /\ UnmovedInv /\ pc = "put"
  BY RehashInserts DEF RefInv, MapInv, Base, TypeInv, SearchInv, PutInsert
<1>3. /\ slots' = [slots EXCEPT ![fh] = arg] /\ data' = [data EXCEPT ![fh] = elem]
      /\ slots[fh] = NULL /\ UNCHANGED <<cap, cap_pow, text, old, oldData>>
      /\ scan' = scan + 1
  BY <1>2 DEF PutInsert, Store, AfterPut, MapInv, LoadInv
<1>4. Unmoved' = Unmoved \ {scan} /\ Slot' = Slot /\ arg # 0
  BY <1>1, <1>2, <1>3 DEF Unmoved, OldCap, Slot, Strings
<1>5. /\ slots'[fh] = arg /\ data'[fh] = elem
      /\ \A i \in Slot : i # fh => slots'[i] = slots[i] /\ data'[i] = data[i]
  BY <1>1, <1>3
<1>6. ASSUME NEW k \in Keys, NEW v, Binds(k, v) PROVE Binds(k, v)'
  <2>1. CASE k = text[arg]
    <3>1. v = oldData[scan]
      BY <1>2, <1>6, <2>1 DEF Binds, Stored, UnmovedInv
    <3> QED
      BY <1>1, <1>3, <1>4, <1>5, <2>1, <3>1 DEF Binds, Holds, NULL
  <2>2. CASE k # text[arg]
    <3>1. \A i \in Slot : (slots'[i] # 0 /\ text[slots'[i]] = k) <=> Holds(i, k)
      BY <1>3, <1>4, <1>5, <2>2 DEF Holds, NULL
    <3>2. \A i \in Slot : Holds(i, k) => data'[i] = data[i]
      BY <1>3, <1>5 DEF Holds
    <3>3. \A i \in Unmoved : text[old[i]] = k => i \in Unmoved'
      BY <1>2, <1>4, <2>2
    <3> QED
      BY <1>3, <1>4, <1>6, <3>1, <3>2, <3>3 DEF Binds, Stored, Holds, NULL
  <2> QED
    BY <2>1, <2>2
<1> QED
  BY <1>6, Unseen DEF RefInv

\* all keys of the full table wait to be moved
LEMMA GrowUnseen ==
  ASSUME RefInv, MapInv', Grow
  PROVE  Contents' = Contents
<1>a. cap_pow \in Nat /\ cap = CapOf[cap_pow] /\ cap \in Nat
  BY Capacities DEF RefInv, MapInv, Base, TypeInv, TypeOK, TableType
<1>1. OldCap' = cap
  BY <1>a DEF Grow, OldCap
<1>2. Unmoved' = {i \in Slot : slots[i] # NULL}
  BY <1>1, <1>a DEF Grow, Unmoved, Slot, NULL
<1>3. Unmoved = {}
  BY NothingUnmoved DEF Grow, RefInv, MapInv, Base, TypeInv, PhaseInv
<1>4. old' = slots /\ oldData' = data /\ text' = text /\ \A i \in Slot' : slots'[i] = 0
  BY DEF Grow, Slot, NULL
<1>5. ASSUME NEW k \in Keys, NEW v, Binds(k, v) PROVE Binds(k, v)'
  <2>1. ~Stored(k)'
    BY <1>4 DEF Stored, Holds, NULL
  <2> QED
    BY <1>2, <1>3, <1>4, <1>5, <2>1 DEF Binds, Stored, Holds, NULL
<1> QED
  BY <1>5, Unseen DEF RefInv

LEMMA RehashEndUnseen ==
  ASSUME RefInv, MapInv', RehashEnd
  PROVE  Contents' = Contents
<1>1. Unmoved = {}
  BY NothingUnmoved DEF RehashEnd, RefInv, MapInv, Base, TypeInv
<1>2. OldCap \in Nat /\ OldCap' = OldCap /\ scan' = OldCap
  BY Capacities DEF RehashEnd, table, OldCap, RefInv, MapInv, Base, TypeInv
<1>3. Unmoved' = {}
  BY <1>2 DEF Unmoved
<1>4. UNCHANGED <<cap, slots, data, text>>
  BY DEF RehashEnd, table
<1>5. ASSUME NEW k \in Keys, NEW v, Binds(k, v) PROVE Binds(k, v)'
  BY <1>1, <1>3, <1>4, <1>5 DEF Binds, Stored, Holds, Slot, NULL
<1> QED
  BY <1>5, Unseen DEF RefInv

\* the answers of get are the map's
LEMMA Answers ==
  ASSUME RefInv, GetFound \/ GetMissing
  PROVE  want \in Keys /\ got' = Contents[want]
<1>1. /\ want \in Keys /\ fh \in Slot /\ Unmoved = {} /\ MissIsTrue
  BY Miss, NothingUnmoved
  DEF GetFound, GetMissing, RefInv, MapInv, Base, TypeInv, SearchInv, TypeOK, PutType, GetType, PhaseInv
<1>2. CASE GetFound
  <2>1. Binds(want, data[fh])
    BY <1>1, <1>2 DEF GetFound, Binds, Holds
  <2> QED
    BY <1>1, <1>2, <2>1, Binding DEF GetFound, RefInv
<1>3. CASE GetMissing
  <2>1. Binds(want, Absent)
    BY <1>1, <1>3 DEF GetMissing, MissIsTrue, Binds
  <2> QED
    BY <1>1, <1>3, <2>1, Binding DEF GetMissing, RefInv
<1> QED
  BY <1>2, <1>3

LEMMA MapInit == Init => Map!Init
<1> SUFFICES ASSUME Init PROVE Map!Init
  OBVIOUS
<1>1. Unmoved = {}
  BY TypeInit, NothingUnmoved DEF Init, TypeInv
<1>2. \A k \in Keys : ~Stored(k)
  BY DEF Init, Stored, Holds
<1> QED
  BY <1>1, <1>2 DEF Init, Map!Init, Contents

LEMMA MapStep == RefInv /\ RefInv' /\ [Next]_vars => [Map!Next]_<<Contents, got>>
<1> SUFFICES ASSUME RefInv, MapInv', [Next]_vars
             PROVE  Map!Next \/ UNCHANGED <<Contents, got>>
  BY DEF RefInv
<1>i. MapInv /\ TypeOK /\ UnmovedInv
  BY DEF RefInv, MapInv, Base, TypeInv, SearchInv
<1>k. ASSUME UNCHANGED <<table, growing, got>> PROVE UNCHANGED <<Contents, got>>
  BY <1>i, <1>k, SameContents DEF table, growing, Unmoved, OldCap
<1>1. CASE UNCHANGED vars
  BY <1>1, <1>k DEF vars
<1>2. ASSUME NEW k \in Keys, GetCall(k) PROVE UNCHANGED <<Contents, got>>
  BY <1>2, <1>k DEF GetCall
<1>3. ASSUME NEW k \in Keys, NEW v \in Vals, PutCall(k, v) PROVE UNCHANGED <<Contents, got>>
  <2>1. \A s \in Strings : text'[s] = text[s]
    BY <1>i, <1>3 DEF PutCall, TypeOK, TableType, Strings
  <2>2. UNCHANGED <<cap, slots, data, old, oldData, got>> /\ Unmoved' = Unmoved
    BY <1>3 DEF PutCall, growing, Unmoved, OldCap
  <2> QED
    BY <1>i, <2>1, <2>2, SameContents
<1>4. CASE PutCallFails \/ GrowFails \/ PutProbe \/ PutOverruns \/ RehashPut \/ GetProbe
  BY <1>4, <1>k DEF PutCallFails, GrowFails, PutProbe, PutOverruns, RehashPut, GetProbe
<1>5. CASE Destroy
  <2>1. UNCHANGED <<cap, slots, data, old, oldData, text, got>> /\ Unmoved' = Unmoved
    BY <1>5 DEF Destroy, growing, Unmoved, OldCap
  <2> QED
    BY <1>i, <2>1, SameContents
<1>6. CASE PutReplace \/ PutInsert
  <2>1. CASE ctx = "user"
    <3>1. /\ pc = "put" /\ slots' = [slots EXCEPT ![fh] = arg] /\ data' = [data EXCEPT ![fh] = elem]
          /\ slots[fh] # NULL => text[slots[fh]] = text[arg]
          /\ UNCHANGED <<cap, cap_pow, text, scan, old, oldData, got>>
      BY <1>6, <2>1 DEF PutReplace, PutInsert, Store, AfterPut
    <3>2. text[arg] \in Keys /\ elem \in Vals /\ Contents' = [Contents EXCEPT ![text[arg]] = elem]
      BY <2>1, <3>1, UserPut
    <3>3. Map!Put(text[arg], elem)
      BY <3>1, <3>2 DEF Map!Put
    <3> QED
      BY <3>2, <3>3 DEF Map!Next
  <2>2. CASE ctx = "rehash"
    <3>1. pc = "put" /\ PhaseInv /\ got' = got
      BY <1>6, <1>i DEF PutReplace, PutInsert, MapInv, Base, TypeInv
    <3>2. ~PutReplace
      BY <1>i, <2>2, <3>1, RehashInserts DEF PutReplace, Stored, Holds, TypeOK, PutType
    <3> QED
      BY <1>6, <2>2, <3>1, <3>2, RehashInsert
  <2> QED
    BY <1>i, <2>1, <2>2 DEF TypeOK, PutType
<1>7. CASE Grow
  BY <1>7, GrowUnseen DEF Grow
<1>8. CASE RehashSkip
  <2>1. Unmoved' = Unmoved
    BY <1>i, <1>8, Capacities DEF RehashSkip, table, Unmoved, OldCap, TypeOK, GrowType
  <2>2. UNCHANGED <<cap, slots, data, old, oldData, text, got>>
    BY <1>8 DEF RehashSkip, table
  <2> QED
    BY <1>i, <2>1, <2>2, SameContents
<1>9. CASE RehashEnd
  BY <1>9, RehashEndUnseen DEF RehashEnd
<1>10. CASE GetFound \/ GetMissing
  <2>1. want \in Keys /\ got' = Contents[want]
    BY <1>10, Answers
  <2>2. UNCHANGED <<cap, slots, data, old, oldData, text>> /\ Unmoved' = Unmoved
    BY <1>10 DEF GetFound, GetMissing, table, growing, Unmoved, OldCap
  <2>3. Map!Get(want)
    BY <1>i, <2>1, <2>2, SameContents DEF Map!Get
  <2> QED
    BY <2>1, <2>3 DEF Map!Next
<1> QED
  BY <1>1, <1>2, <1>3, <1>4, <1>5, <1>6, <1>7, <1>8, <1>9, <1>10 DEF Next, Step

-----------------------------------------------------------------------------

\* The hash table is a finite map (hashmap.h): for any keys, values, hash function and
\* sequence of calls, a put changes the value of its key only, a get answers with the
\* value last put, and growing changes nothing.
THEOREM ImplementsKVMap == Spec => ImplementsMap
<1>1. RefInv /\ RefInv' /\ [Next]_vars => [Map!Next]_<<Contents, got>>
  BY MapStep
<1> QED
  BY <1>1, MapInit, RefAlways, PTL DEF Spec, ImplementsMap, Map!Spec

=============================================================================
