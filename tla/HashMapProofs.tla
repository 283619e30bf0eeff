--------------------------- MODULE HashMapProofs ---------------------------
(***************************************************************************)
(* Proofs about HashMap, for every hash function, capacity and number of   *)
(* keys: its type invariant, and that a search never misses a stored key.  *)
(***************************************************************************)
EXTENDS HashMap, TLAPS

-----------------------------------------------------------------------------
(* The inductive invariant *)

\* the phase of hashmap_grow that each call is in
PhaseInv ==
  /\ pc \in {"idle", "get", "grow"} => ctx = "user"
  /\ pc \in {"idle", "get", "grow"} \/ (pc = "put" /\ ctx = "user") => scan = OldCap
  /\ pc = "put" /\ ctx = "rehash" => scan < OldCap /\ arg = old[scan]

\* a key that still has to be moved is in one old location and not in the new table
UnmovedInv ==
  pc # "nested" =>
  /\ \A i \in Unmoved, j \in Slot : ~Holds(j, text[old[i]])
  /\ \A i, j \in Unmoved : text[old[i]] = text[old[j]] => i = j

\* the running put has passed only occupied locations, none with its key
PutInv ==
  pc = "put" => \A j \in Slot : Probed(Home(text[arg], cap_pow), j, fh) =>
                  slots[j] # NULL /\ text[slots[j]] # text[arg]

\* the number of locations probed before i by a search that starts at h
Dist(h, i) == IF h <= i THEN i - h ELSE cap - h + i

\* the running get has passed only locations without its key, and its count
\* runs out only when it has passed them all
GetInv ==
  pc = "get" =>
    \/ /\ limit = cap - Dist(Home(want, cap_pow), fh)
       /\ \A j \in Slot : Probed(Home(want, cap_pow), j, fh) => ~Holds(j, want)
    \/ limit = 0 /\ ~Stored(want)

SearchInv == ChainUnbroken /\ UniqueKeys /\ PhaseInv /\ UnmovedInv /\ PutInv /\ GetInv

IndInv == TypeOK /\ SearchInv

-----------------------------------------------------------------------------
(* Capacities and homes *)

LEMMA Capacities ==
  ASSUME TypeOK
  PROVE  /\ cap \in Nat /\ cap > 0 /\ cap_pow \in Nat /\ cap_pow > 0
         /\ OldCap \in Nat /\ OldCap > 0 /\ cap = 2 * OldCap
         /\ cap_pow < MaxPow => CapOf[cap_pow + 1] = 2 * cap
         /\ \A k \in Keys : Home(k, cap_pow) \in Slot
<1>1. cap_pow \in 1..MaxPow /\ cap_pow \in 0..MaxPow /\ (cap_pow - 1) \in 0..MaxPow
  BY ConstantsAssumption DEF TypeOK, TableType
<1>2. cap = CapOf[cap_pow] /\ CapOf[cap_pow] \in Nat \ {0} /\ OldCap \in Nat \ {0}
  BY <1>1, ConstantsAssumption DEF TypeOK, TableType, OldCap
<1>3. CapOf[(cap_pow - 1) + 1] = 2 * CapOf[cap_pow - 1]
  BY <1>1, ConstantsAssumption
<1>4. (cap_pow - 1) + 1 = cap_pow
  BY <1>1
<1>5. \A k \in Keys : Home(k, cap_pow) \in Slot
  BY <1>1, <1>2, ConstantsAssumption DEF Slot
<1>6. cap_pow < MaxPow => CapOf[cap_pow + 1] = 2 * cap
  BY <1>1, <1>2, ConstantsAssumption
<1> QED
  BY <1>1, <1>2, <1>3, <1>4, <1>5, <1>6 DEF OldCap

\* a vector of strings stays one when more strings are made
LEMMA StringsGrow ==
  ASSUME NEW m \in Nat, NEW n \in Nat, m <= n, NEW s \in Seq(1..m)
  PROVE  s \in Seq(1..n)
<1>1. s \in [1..Len(s) -> 1..m] /\ Len(s) \in Nat
  OBVIOUS
<1>2. s \in [1..Len(s) -> 1..n]
  BY <1>1
<1> QED
  BY <1>2, <1>1

\* the vector of keys, and what listing the key of a running put makes of it
KeysType(n) == [items : Seq(1..n), cap : Nat, room : Nat]

LEMMA PushKeyType ==
  ASSUME keys \in KeysType(Len(text)), arg \in 1..Len(text), Len(text) \in Nat, PushKey
  PROVE  keys' \in KeysType(Len(text))
<1>1. /\ keys.items \in Seq(1..Len(text)) /\ keys.cap \in Nat /\ keys.room \in Nat
      /\ keys = [items |-> keys.items, cap |-> keys.cap, room |-> keys.room]
  BY DEF KeysType
<1>2. Append(keys.items, arg) \in Seq(1..Len(text)) /\ 2 * keys.cap \in Nat
  BY <1>1
<1>3. \/ keys' = [items |-> Append(keys.items, arg), cap |-> keys.cap, room |-> keys.room]
      \/ keys' = [items |-> Append(keys.items, arg), cap |-> 2 * keys.cap, room |-> 2 * keys.cap]
      \/ keys' = [items |-> keys.items, cap |-> 2 * keys.cap, room |-> keys.room]
  BY <1>1 DEF PushKey
<1>4. ASSUME NEW a \in Seq(1..Len(text)), NEW c \in Nat, NEW d \in Nat
      PROVE  [items |-> a, cap |-> c, room |-> d] \in KeysType(Len(text))
  BY DEF KeysType
<1>5. CASE keys' = [items |-> Append(keys.items, arg), cap |-> keys.cap, room |-> keys.room]
  BY <1>1, <1>2, <1>4, <1>5
<1>6. CASE keys' = [items |-> Append(keys.items, arg), cap |-> 2 * keys.cap, room |-> 2 * keys.cap]
  BY <1>1, <1>2, <1>4, <1>6
<1>7. CASE keys' = [items |-> keys.items, cap |-> 2 * keys.cap, room |-> keys.room]
  BY <1>1, <1>2, <1>4, <1>7
<1> QED
  BY <1>3, <1>5, <1>6, <1>7

-----------------------------------------------------------------------------
(* Type correctness *)

TypeInv == TypeOK /\ PhaseInv

LEMMA TypeInit == Init => TypeInv
<1> SUFFICES ASSUME Init PROVE TypeInv
  OBVIOUS
<1>1. InitPow \in Nat /\ InitPow \in InitPow..MaxPow /\ InitPow \in 0..MaxPow /\ (InitPow - 1) \in 0..MaxPow
  BY ConstantsAssumption
<1>2. cap \in Nat /\ cap > 0 /\ OldCap \in Nat /\ OldCap > 0
  BY <1>1, ConstantsAssumption DEF Init, OldCap
<1> QED
  BY <1>1, <1>2 DEF Init, TypeInv, TypeOK, TableType, PutType, GetType, GrowType, PhaseInv, Slot, Strings, NULL

LEMMA TypeStep == TypeInv /\ [Next]_vars => TypeInv'
<1> SUFFICES ASSUME TypeOK, PhaseInv, [Next]_vars
             PROVE  (TableType /\ PutType /\ GetType /\ GrowType /\ PhaseInv)'
  BY DEF TypeInv, TypeOK
<1> DEFINE Goal == TableType /\ PutType /\ GetType /\ GrowType /\ PhaseInv
<1> USE DEF table, growing, Strings, NULL, TypeOK, TableType
<1>0. /\ cap \in Nat /\ cap > 0 /\ cap_pow \in Nat /\ cap_pow > 0
      /\ OldCap \in Nat /\ OldCap > 0 /\ cap = 2 * OldCap
      /\ \A k \in Keys : Home(k, cap_pow) \in Slot
  BY Capacities
<1>a. UNCHANGED <<cap, cap_pow>> => Slot' = Slot /\ OldCap' = OldCap
  BY DEF Slot, OldCap
<1>b. UNCHANGED table => TableType'
  BY <1>a
<1>c. UNCHANGED <<growing, cap, cap_pow, text>> => GrowType'
  BY <1>a DEF GrowType
<1>1. CASE UNCHANGED vars
  BY <1>1, <1>a, <1>b, <1>c DEF vars, PutType, GetType, PhaseInv
<1>2. ASSUME NEW k \in Keys, GetCall(k) PROVE Goal'
  BY <1>0, <1>2, <1>a, <1>b, <1>c DEF GetCall, PutType, GetType, PhaseInv
<1>3. ASSUME NEW k \in Keys, NEW v \in Vals, PutCall(k, v) PROVE Goal'
  <2>1. text' \in Seq(Keys) /\ Len(text') = Len(text) + 1
    BY <1>3 DEF PutCall
  <2>2. keys' \in KeysType(Len(text'))
    <3>1. keys.items \in Seq(1..Len(text))
      OBVIOUS
    <3>2. keys.items \in Seq(1..Len(text'))
      BY <2>1, <3>1, StringsGrow
    <3> QED
      BY <1>3, <3>2 DEF PutCall, KeysType
  <2>3. slots' \in [Slot' -> 1..Len(text') \cup {0}] /\ freed' \subseteq 1..Len(text')
    BY <1>3, <2>1 DEF PutCall, Slot
  <2>4. TableType'
    BY <1>3, <2>1, <2>2, <2>3, <1>a DEF PutCall, KeysType
  <2> QED
    BY <1>0, <1>3, <1>a, <2>1, <2>4 DEF PutCall, PutType, GetType, GrowType, PhaseInv
<1>4. CASE PutCallFails \/ GrowFails
  BY <1>4, <1>a, <1>b, <1>c DEF PutCallFails, GrowFails, PutType, GetType, PhaseInv
<1>5. CASE Destroy
  <2>1. TableStrings \subseteq 1..Len(text)
    BY DEF TableStrings
  <2> QED
    BY <1>5, <2>1, <1>a, <1>c DEF Destroy, PutType, GetType, PhaseInv
<1>6. CASE PutProbe
  <2>1. NextSlot(fh) \in Slot
    BY <1>0 DEF NextSlot, Slot, PutType
  <2> QED
    BY <1>6, <2>1, <1>a, <1>b, <1>c DEF PutProbe, PutType, GetType, PhaseInv
<1>7. CASE PutReplace \/ PutInsert
  <2>1. slots' \in [Slot -> 1..Len(text) \cup {0}] /\ data' \in [Slot -> Vals \cup {Absent}]
    BY <1>7 DEF PutReplace, PutInsert, Store, PutType
  <2>a. arg \in 1..Len(text) /\ len + 1 \in Nat
    BY <1>7 DEF PutReplace, PutInsert, PutType
  <2>b. slots[fh] # 0 => slots[fh] \in 1..Len(text)
    BY DEF PutType
  <2>c. keys \in KeysType(Len(text)) /\ Len(text) \in Nat
    BY DEF KeysType
  <2>d. keys' \in KeysType(Len(text))
    BY <1>7, <2>a, <2>c, PushKeyType DEF PutReplace, PutInsert
  <2>e. freed' \subseteq 1..Len(text) /\ len' \in Nat
    BY <1>7, <2>a, <2>b DEF PutReplace, PutInsert
  <2>2. keys' \in KeysType(Len(text)) /\ freed' \subseteq 1..Len(text) /\ len' \in Nat
    BY <2>d, <2>e
  <2>3. TableType'
    BY <1>7, <1>a, <2>1, <2>2 DEF PutReplace, PutInsert, KeysType
  <2>4. scan' = scan \/ (scan' = scan + 1 /\ pc = "put" /\ ctx = "rehash")
    BY <1>7 DEF PutReplace, PutInsert, AfterPut
  <2>5. scan' \in 0..OldCap /\ (scan' < OldCap => scan < OldCap)
    BY <2>4, <1>0 DEF PhaseInv, GrowType
  <2>6. GrowType'
    BY <1>7, <1>a, <2>5 DEF PutReplace, PutInsert, GrowType
  <2>7. /\ pc' \in {"idle", "rehash", "grow", "nested"} /\ arg' = 0 /\ elem' = Absent
        /\ UNCHANGED <<cap, cap_pow, text, ctx, want, limit, got>> /\ fh' = 0
        /\ pc' \in {"idle", "grow"} => ctx = "user" /\ scan' = scan
    BY <1>7 DEF PutReplace, PutInsert, AfterPut, DropPutLocals, PutType
  <2>8. 0 \in Slot
    BY <1>0 DEF Slot
  <2>9. PutType' /\ GetType'
    BY <2>7, <2>8, <1>a DEF PutType, GetType
  <2>10. PhaseInv'
    BY <2>7, <1>7, <1>a DEF PhaseInv, PutReplace, PutInsert
  <2> QED
    BY <2>3, <2>6, <2>9, <2>10
<1>8. CASE Grow
  <2>1. cap' = CapOf[cap_pow'] /\ cap_pow' \in InitPow..MaxPow /\ OldCap' = cap
    <3>1. cap_pow \in InitPow..MaxPow /\ InitPow \in Nat /\ MaxPow \in Nat /\ cap = CapOf[cap_pow]
      BY ConstantsAssumption
    <3>2. cap_pow < MaxPow => CapOf[cap_pow + 1] = 2 * cap
      BY Capacities
    <3>3. cap_pow < MaxPow /\ cap_pow' = cap_pow + 1 /\ cap' = 2 * cap
      BY <1>8 DEF Grow
    <3>4. cap_pow' \in InitPow..MaxPow /\ cap_pow' - 1 = cap_pow
      BY <1>0, <3>1, <3>3
    <3> QED
      BY <3>1, <3>2, <3>3, <3>4 DEF OldCap
  <2>2. TableType'
    <3>1. Slot' = 0..(2 * cap - 1)
      BY <1>8 DEF Grow, Slot
    <3>2. slots' \in [Slot' -> Strings \cup {0}] /\ data' \in [Slot' -> Vals \cup {Absent}]
      BY <1>8, <3>1 DEF Grow
    <3> QED
      BY <1>8, <2>1, <3>2 DEF Grow
  <2>3. GrowType'
    BY <1>0, <1>8, <2>1 DEF Grow, GrowType, Slot
  <2>4. PutType' /\ GetType' /\ PhaseInv'
    BY <1>0, <1>8, <2>1 DEF Grow, PutType, GetType, PhaseInv, Slot
  <2> QED
    BY <2>2, <2>3, <2>4
<1>9. CASE RehashSkip
  <2>1. GrowType'
    BY <1>9, <1>0, <1>a DEF RehashSkip, GrowType
  <2> QED
    BY <1>9, <2>1, <1>a, <1>b DEF RehashSkip, PutType, GetType, PhaseInv
<1>10. CASE RehashPut
  <2>1. old[scan] \in 1..Len(text) /\ text[old[scan]] \in Keys /\ oldData[scan] \in Vals \cup {Absent}
    BY <1>0, <1>10 DEF RehashPut, GrowType
  <2> QED
    BY <1>0, <1>10, <2>1, <1>a, <1>b, <1>c DEF RehashPut, PutType, GetType, PhaseInv
<1>11. CASE RehashEnd
  <2>1. GrowType'
    BY <1>11, <1>0, <1>a DEF RehashEnd, GrowType
  <2> QED
    BY <1>11, <2>1, <1>a, <1>b DEF RehashEnd, PutType, GetType, PhaseInv
<1>12. CASE GetProbe
  <2>1. NextSlot(fh) \in Slot
    BY <1>0 DEF NextSlot, Slot, PutType
  <2>2. limit' \in 0..cap
    BY <1>0, <1>12 DEF GetProbe, GetType
  <2> QED
    BY <1>12, <2>1, <2>2, <1>a, <1>b, <1>c DEF GetProbe, PutType, GetType, PhaseInv
<1>13. CASE GetFound \/ GetMissing
  <2>1. 0 \in Slot /\ 0 \in 0..cap /\ got' \in Vals \cup {Absent}
    BY <1>0, <1>13 DEF GetFound, GetMissing, PutType, Slot
  <2> QED
    BY <1>13, <2>1, <1>a, <1>b, <1>c DEF GetFound, GetMissing, DropGetLocals, PutType, GetType, PhaseInv
<1>14. CASE PutOverruns
  BY <1>14, <1>a, <1>b, <1>c DEF PutOverruns, PutType, GetType, PhaseInv
<1> QED
  BY <1>1, <1>2, <1>3, <1>4, <1>5, <1>6, <1>7, <1>8, <1>9, <1>10, <1>11, <1>12, <1>13, <1>14
  DEF Next, Step

\* Every index of the hash table stays inside the table it indexes, through any
\* calls and any number of rehashes (hashmap.c:216, the assertion of
\* hashmap_get_entry).
THEOREM TypeCorrect == Spec => []TypeOK
<1>1. Spec => []TypeInv
  BY TypeInit, TypeStep, PTL DEF Spec
<1>2. TypeInv => TypeOK
  BY DEF TypeInv
<1> QED
  BY <1>1, <1>2, PTL

-----------------------------------------------------------------------------
(* Probe order on the circle of locations *)

\* one step of a probe passes the location it leaves and no other
LEMMA ProbedNext ==
  ASSUME cap \in Nat, cap > 0, NEW h \in Slot, NEW i \in Slot, NEW j \in Slot,
         Probed(h, j, NextSlot(i))
  PROVE  j = i \/ Probed(h, j, i)
BY DEF Probed, NextSlot, Slot

LEMMA ProbedStart ==
  ASSUME NEW h \in Slot, NEW j \in Slot
  PROVE  ~Probed(h, j, h)
BY DEF Probed, Slot

\* of two locations, one is probed before the other
LEMMA ProbedTotal ==
  ASSUME cap \in Nat, NEW h \in Slot, NEW i \in Slot, NEW j \in Slot, i # j, ~Probed(h, i, j)
  PROVE  Probed(h, j, i)
BY DEF Probed, Slot

\* a probe that is back where it started has passed every location
LEMMA ProbedAll ==
  ASSUME cap \in Nat, cap > 0, NEW h \in Slot, NEW i \in Slot,
         cap - Dist(h, i) = 1
  PROVE  \A j \in Slot : j = i \/ Probed(h, j, i)
BY DEF Probed, Dist, Slot

LEMMA DistNext ==
  ASSUME cap \in Nat, cap > 0, NEW h \in Slot, NEW i \in Slot
  PROVE  /\ Dist(h, i) \in Nat /\ cap - Dist(h, i) \in Nat
         /\ cap - Dist(h, i) > 0 /\ Dist(h, h) = 0
         /\ cap - Dist(h, i) # 1 => Dist(h, NextSlot(i)) = Dist(h, i) + 1
BY DEF Dist, NextSlot, Slot

-----------------------------------------------------------------------------
(* A probe that gives up has not missed its key *)

\* an unbroken chain leads to every location that holds k
LEMMA ChainLeadsTo ==
  ASSUME TypeOK, ChainUnbroken, NEW k \in Keys, NEW f \in Slot, slots[f] = NULL,
         \A j \in Slot : Probed(Home(k, cap_pow), j, f) => ~Holds(j, k)
  PROVE  ~Stored(k)
<1> SUFFICES ASSUME NEW i \in Slot, Holds(i, k) PROVE FALSE
  BY DEF Stored
<1>1. Home(k, cap_pow) \in Slot /\ cap \in Nat
  BY Capacities
<1>2. i # f /\ ~Probed(Home(k, cap_pow), i, f)
  BY DEF Holds
<1>3. Probed(Home(k, cap_pow), f, i)
  BY <1>1, <1>2, ProbedTotal
<1> QED
  BY <1>3 DEF ChainUnbroken, Holds

LEMMA Miss ==
  ASSUME TypeOK, ChainUnbroken, PutInv, GetInv
  PROVE  MissIsTrue
<1>1. ASSUME pc = "put", slots[fh] = NULL PROVE ~Stored(text[arg])
  <2>1. text[arg] \in Keys /\ fh \in Slot
    BY <1>1 DEF TypeOK, TableType, PutType, Strings, NULL
  <2>2. \A j \in Slot : Probed(Home(text[arg], cap_pow), j, fh) => ~Holds(j, text[arg])
    BY <1>1 DEF PutInv, Holds
  <2> QED
    BY <1>1, <2>1, <2>2, ChainLeadsTo
<1>2. ASSUME pc = "get", slots[fh] = NULL \/ limit = 0 PROVE ~Stored(want)
  <2>1. want \in Keys /\ fh \in Slot /\ cap \in Nat /\ cap > 0 /\ Home(want, cap_pow) \in Slot
    BY <1>2, Capacities DEF TypeOK, PutType, GetType
  <2>2. CASE limit = 0 /\ ~Stored(want)
    BY <2>2
  <2>3. CASE /\ limit = cap - Dist(Home(want, cap_pow), fh)
             /\ \A j \in Slot : Probed(Home(want, cap_pow), j, fh) => ~Holds(j, want)
    <3>1. limit > 0
      BY <2>1, <2>3, DistNext
    <3> QED
      BY <1>2, <2>1, <2>3, <3>1, ChainLeadsTo
  <2> QED
    BY <1>2, <2>2, <2>3 DEF GetInv
<1> QED
  BY <1>1, <1>2 DEF MissIsTrue

-----------------------------------------------------------------------------
(* The invariant is inductive *)

LEMMA SearchInit == Init => SearchInv
<1> SUFFICES ASSUME Init PROVE SearchInv
  OBVIOUS
<1>1. \A i \in Slot : slots[i] = NULL
  BY DEF Init
<1>2. ChainUnbroken /\ UniqueKeys
  BY <1>1 DEF ChainUnbroken, UniqueKeys
<1>3. TypeOK
  BY TypeInit DEF TypeInv
<1>4. Unmoved = {}
  BY <1>3, Capacities DEF Init, Unmoved
<1> QED
  BY <1>2, <1>4 DEF Init, SearchInv, PhaseInv, UnmovedInv, PutInv, GetInv

\* what is known of the table does not change while its locations and the
\* contents of its strings do not
LEMMA SameTable ==
  ASSUME TypeOK, UNCHANGED <<cap, cap_pow, slots>>,
         \A s \in Strings : text'[s] = text[s]
  PROVE  /\ Slot' = Slot
         /\ \A k : \A i \in Slot : Holds(i, k)' <=> Holds(i, k)
         /\ ChainUnbroken => ChainUnbroken'
         /\ UniqueKeys => UniqueKeys'
<1>1. Slot' = Slot
  BY DEF Slot
<1>2. \A i \in Slot : slots[i] # NULL => text'[slots[i]] = text[slots[i]]
  BY DEF TypeOK, TableType
<1>3. \A k : \A i \in Slot : Holds(i, k)' <=> Holds(i, k)
  BY <1>2 DEF Holds, NULL
<1>4. ASSUME ChainUnbroken PROVE ChainUnbroken'
  BY <1>1, <1>2, <1>4 DEF ChainUnbroken, Probed, NULL
<1>5. ASSUME UniqueKeys PROVE UniqueKeys'
  <2> SUFFICES ASSUME NEW i \in Slot, NEW j \in Slot, slots[i] # NULL,
                      Holds(j, text[slots[i]])
               PROVE  i = j
    BY <1>1, <1>2, <1>3 DEF UniqueKeys, NULL
  <2> QED
    BY <1>5 DEF UniqueKeys
<1> QED
  BY <1>1, <1>3, <1>4, <1>5

\* the same of the locations that are still to be moved
LEMMA SameUnmoved ==
  ASSUME TypeOK, UnmovedInv, UNCHANGED <<cap, cap_pow, slots>>,
         \A s \in Strings : text'[s] = text[s],
         Unmoved' \subseteq Unmoved, UNCHANGED old, pc # "nested"
  PROVE  UnmovedInv'
<1>1. \A i \in Unmoved : old[i] \in Strings
  BY Capacities DEF Unmoved, TypeOK, GrowType, NULL
<1>2. Slot' = Slot /\ \A k : \A i \in Slot : Holds(i, k)' <=> Holds(i, k)
  BY SameTable
<1>3. \A i \in Unmoved' : i \in Unmoved /\ old'[i] = old[i] /\ text'[old[i]] = text[old[i]]
  BY <1>1
<1>4. ASSUME NEW i \in Unmoved', NEW j \in Slot' PROVE ~Holds(j, text[old[i]])'
  <2>1. ~Holds(j, text[old[i]])
    BY <1>2, <1>3 DEF UnmovedInv
  <2>2. ~Holds(j, text[old[i]])' <=> ~(slots'[j] # 0 /\ text'[slots'[j]] = text'[old'[i]])
    BY DEF Holds, NULL
  <2>3. slots[j] # 0 => text'[slots'[j]] = text[slots[j]]
    BY <1>2 DEF TypeOK, TableType, NULL
  <2> QED
    BY <2>1, <2>2, <2>3, <1>3 DEF Holds, NULL
<1>5. ASSUME NEW i \in Unmoved', NEW j \in Unmoved', text'[old'[i]] = text'[old'[j]] PROVE i = j
  BY <1>3, <1>5 DEF UnmovedInv
<1> QED
  BY <1>4, <1>5 DEF UnmovedInv

\* writing the string of the running put into the location it has found
LEMMA StoreKeeps ==
  ASSUME TypeOK, ChainUnbroken, UniqueKeys, PutInv, pc = "put",
         slots[fh] # NULL => text[slots[fh]] = text[arg],
         slots' = [slots EXCEPT ![fh] = arg], UNCHANGED <<cap, cap_pow, text>>
  PROVE  /\ Slot' = Slot /\ ChainUnbroken' /\ UniqueKeys'
         /\ \A k : \A j \in Slot : Holds(j, k)' => Holds(j, k) \/ k = text[arg]
<1>0. /\ Slot' = Slot /\ fh \in Slot /\ arg # NULL /\ slots'[fh] = arg
      /\ \A j \in Slot : j # fh => slots'[j] = slots[j]
      /\ text[arg] \in Keys
  BY DEF Slot, TypeOK, TableType, PutType, Strings, NULL
<1>1. ChainUnbroken'
  <2> SUFFICES ASSUME NEW i \in Slot, slots'[i] # NULL,
                      NEW j \in Slot, Probed(Home(text[slots'[i]], cap_pow), j, i)
               PROVE  slots'[j] # NULL
    BY <1>0 DEF ChainUnbroken, Probed, NULL
  <2>1. CASE i = fh
    BY <1>0, <2>1 DEF PutInv
  <2>2. CASE i # fh
    BY <1>0, <2>2 DEF ChainUnbroken
  <2> QED
    BY <2>1, <2>2
<1>2. \A j \in Slot : j # fh /\ Holds(j, text[arg]) => slots[fh] # NULL
  <2>1. ASSUME slots[fh] = NULL PROVE ~Stored(text[arg])
    <3>1. \A j \in Slot : Probed(Home(text[arg], cap_pow), j, fh) => ~Holds(j, text[arg])
      BY DEF PutInv, Holds
    <3> QED
      BY <1>0, <2>1, <3>1, ChainLeadsTo
  <2> QED
    BY <2>1 DEF Stored
<1>3. \A j \in Slot : Holds(j, text[arg]) => j = fh
  <2> SUFFICES ASSUME NEW j \in Slot, Holds(j, text[arg]), j # fh PROVE FALSE
    OBVIOUS
  <2>1. slots[fh] # NULL /\ Holds(j, text[slots[fh]])
    BY <1>2
  <2> QED
    BY <1>0, <2>1 DEF UniqueKeys
<1>4. UniqueKeys'
  <2> SUFFICES ASSUME NEW i \in Slot, NEW j \in Slot, slots'[i] # NULL, slots'[j] # NULL,
                      text[slots'[j]] = text[slots'[i]]
               PROVE  i = j
    BY <1>0 DEF UniqueKeys, Holds, NULL
  <2>1. CASE i = fh \/ j = fh
    BY <1>0, <1>3, <2>1 DEF Holds
  <2>2. CASE i # fh /\ j # fh
    BY <1>0, <2>2 DEF UniqueKeys, Holds
  <2> QED
    BY <2>1, <2>2
<1>5. ASSUME NEW k, NEW j \in Slot, Holds(j, k)' PROVE Holds(j, k) \/ k = text[arg]
  BY <1>0, <1>5 DEF Holds, NULL
<1> QED
  BY <1>0, <1>1, <1>4, <1>5

LEMMA SearchStep == TypeInv /\ SearchInv /\ [Next]_vars => SearchInv'
<1> SUFFICES ASSUME TypeInv, SearchInv, [Next]_vars
             PROVE  (ChainUnbroken /\ UniqueKeys /\ UnmovedInv /\ PutInv /\ GetInv)'
  BY TypeStep DEF TypeInv, SearchInv
<1> DEFINE Goal == ChainUnbroken /\ UniqueKeys /\ UnmovedInv /\ PutInv /\ GetInv
<1>0. TypeOK /\ PhaseInv /\ ChainUnbroken /\ UniqueKeys /\ UnmovedInv /\ PutInv /\ GetInv
  BY DEF TypeInv, SearchInv
<1>c. /\ cap \in Nat /\ cap > 0 /\ OldCap \in Nat /\ fh \in Slot
      /\ \A k \in Keys : Home(k, cap_pow) \in Slot
  BY <1>0, Capacities DEF TypeOK, PutType
<1>t. UNCHANGED table => \A s \in Strings : text'[s] = text[s]
  BY DEF table
<1>u. UNCHANGED <<table, growing>> => UNCHANGED Unmoved
  BY DEF table, growing, Unmoved, OldCap
<1>k. UNCHANGED <<table, growing>> /\ pc # "nested" => (ChainUnbroken /\ UniqueKeys /\ UnmovedInv)'
  BY <1>0, <1>t, <1>u, SameTable, SameUnmoved DEF table, growing
<1>1. CASE UNCHANGED vars
  <2>1. (ChainUnbroken /\ UniqueKeys)'
    BY <1>0, <1>1, <1>t, SameTable DEF vars, table
  <2>2. UnmovedInv'
    BY <1>1, <1>k DEF vars, UnmovedInv
  <2>3. PutInv' /\ GetInv'
    BY <1>0, <1>1 DEF vars, table, PutInv, GetInv, Slot, Probed, Dist, Holds, Stored, NULL
  <2> QED
    BY <2>1, <2>2, <2>3
<1>2. ASSUME NEW k \in Keys, GetCall(k) PROVE Goal'
  <2>1. Home(k, cap_pow) \in Slot /\ cap - Dist(Home(k, cap_pow), Home(k, cap_pow)) = cap
    BY <1>c, DistNext
  <2>2. GetInv'
    BY <1>2, <2>1, ProbedStart DEF GetCall, table, GetInv, Slot, Dist, Probed, Holds, NULL
  <2> QED
    BY <1>2, <1>k, <2>2 DEF GetCall, PutInv
<1>3. ASSUME NEW k \in Keys, NEW v \in Vals, PutCall(k, v) PROVE Goal'
  <2>1. \A s \in Strings : text'[s] = text[s]
    BY <1>0, <1>3 DEF PutCall, TypeOK, TableType, Strings
  <2>2. text'[arg'] = k
    BY <1>0, <1>3 DEF PutCall, TypeOK, TableType
  <2>3. Unmoved' = Unmoved
    BY <1>3 DEF PutCall, growing, Unmoved, OldCap
  <2>4. (ChainUnbroken /\ UniqueKeys /\ UnmovedInv)'
    BY <1>0, <1>3, <2>1, <2>3, SameTable, SameUnmoved DEF PutCall, growing
  <2>5. PutInv'
    BY <1>3, <2>2, <1>c DEF PutCall, PutInv, Probed, Slot
  <2> QED
    BY <1>3, <2>4, <2>5 DEF PutCall, GetInv
<1>4. CASE PutCallFails \/ GrowFails
  BY <1>4, <1>k DEF PutCallFails, GrowFails, PutInv, GetInv
<1>5. CASE Destroy
  <2>1. UNCHANGED <<cap, cap_pow, slots, text, old, scan>> /\ UNCHANGED Unmoved /\ pc # "nested"
    BY <1>5 DEF Destroy, growing, Unmoved, OldCap
  <2>2. (ChainUnbroken /\ UniqueKeys /\ UnmovedInv)'
    BY <1>0, <2>1, SameTable, SameUnmoved
  <2> QED
    BY <1>5, <2>2 DEF Destroy, PutInv, GetInv
<1>6. CASE PutProbe
  <2>1. text[arg] \in Keys
    BY <1>0, <1>6 DEF PutProbe, TypeOK, TableType, PutType, Strings, NULL
  <2>2. PutInv'
    <3> SUFFICES ASSUME NEW j \in Slot, Probed(Home(text[arg], cap_pow), j, NextSlot(fh))
                 PROVE  slots[j] # NULL /\ text[slots[j]] # text[arg]
      BY <1>6 DEF PutProbe, PutInv, table, Slot, Probed, NULL
    <3>1. j = fh \/ Probed(Home(text[arg], cap_pow), j, fh)
      BY <1>c, <2>1, ProbedNext
    <3> QED
      BY <1>0, <1>6, <3>1 DEF PutProbe, PutInv
  <2> QED
    BY <1>6, <1>k, <2>2 DEF PutProbe, GetInv
<1>7. CASE PutReplace \/ PutInsert
  <2>1. /\ pc = "put" /\ slots' = [slots EXCEPT ![fh] = arg] /\ UNCHANGED <<cap, cap_pow, text, old>>
        /\ slots[fh] # NULL => text[slots[fh]] = text[arg]
        /\ pc' \in {"idle", "rehash", "grow", "nested"}
    BY <1>7 DEF PutReplace, PutInsert, Store, AfterPut
  <2>2. /\ Slot' = Slot /\ ChainUnbroken' /\ UniqueKeys'
        /\ \A k : \A j \in Slot : Holds(j, k)' => Holds(j, k) \/ k = text[arg]
    BY <1>0, <2>1, StoreKeeps
  <2>3. ASSUME pc' # "nested" PROVE UnmovedInv'
    <3>1. CASE ctx = "user"
      <4>1. scan' = OldCap' /\ OldCap' = OldCap
        BY <1>7, <1>0, <2>1, <3>1 DEF PutReplace, PutInsert, AfterPut, PhaseInv, OldCap
      <4>2. Unmoved' = {}
        BY <4>1, <1>c DEF Unmoved
      <4> QED
        BY <4>2 DEF UnmovedInv
    <3>2. CASE ctx = "rehash"
      <4>1. scan' = scan + 1 /\ OldCap' = OldCap /\ arg = old[scan] /\ scan < OldCap /\ scan \in Nat
        BY <1>7, <1>0, <1>c, <2>1, <2>3, <3>2
        DEF PutReplace, PutInsert, AfterPut, PhaseInv, OldCap, TypeOK, GrowType
      <4>2. /\ Unmoved' \subseteq Unmoved /\ scan \in Unmoved /\ scan \notin Unmoved'
        BY <4>1, <2>1, <1>c, <1>0 DEF Unmoved, TypeOK, PutType, NULL
      <4>3. ASSUME NEW i \in Unmoved', NEW j \in Slot' PROVE ~Holds(j, text[old[i]])'
        <5>1. text[old[i]] # text[arg] /\ ~Holds(j, text[old[i]])
          BY <1>0, <2>1, <2>2, <4>1, <4>2 DEF UnmovedInv
        <5> QED
          BY <5>1, <2>1, <2>2 DEF Holds, NULL
      <4>4. \A i, j \in Unmoved' : text[old[i]] = text[old[j]] => i = j
        BY <1>0, <2>1, <4>2 DEF UnmovedInv
      <4> QED
        BY <2>1, <4>3, <4>4 DEF UnmovedInv
    <3> QED
      BY <1>0, <3>1, <3>2 DEF TypeOK, PutType
  <2> QED
    BY <2>1, <2>2, <2>3 DEF UnmovedInv, PutInv, GetInv
<1>8. CASE Grow
  <2>1. /\ OldCap' = cap /\ Slot' = 0..(2 * cap - 1) /\ \A i \in Slot' : slots'[i] = NULL
        /\ old' = slots /\ scan' = 0 /\ UNCHANGED text /\ pc' = "rehash"
    BY <1>0, <1>8, <1>c DEF Grow, OldCap, Slot, TypeOK, TableType
  <2>2. Unmoved' = {i \in Slot : slots[i] # NULL}
    BY <1>c, <2>1 DEF Unmoved, Slot, NULL
  <2>3. ASSUME NEW i \in Slot, NEW j \in Slot, slots[i] # NULL, slots[j] # NULL,
               text[slots[i]] = text[slots[j]]
        PROVE  i = j
    BY <1>0, <2>3 DEF UniqueKeys, Holds
  <2>4. UnmovedInv'
    BY <2>1, <2>2, <2>3 DEF UnmovedInv, Holds, NULL
  <2> QED
    BY <2>1, <2>4 DEF ChainUnbroken, UniqueKeys, PutInv, GetInv, NULL
<1>9. CASE RehashSkip
  <2>1. Unmoved' \subseteq Unmoved /\ UNCHANGED <<cap, cap_pow, slots, text, old>> /\ pc # "nested"
    BY <1>0, <1>9, <1>c DEF RehashSkip, table, Unmoved, OldCap, TypeOK, GrowType
  <2>2. (ChainUnbroken /\ UniqueKeys /\ UnmovedInv)'
    BY <1>0, <2>1, SameTable, SameUnmoved
  <2> QED
    BY <1>9, <2>2 DEF RehashSkip, PutInv, GetInv
<1>10. CASE RehashPut
  <2>1. text[arg'] \in Keys /\ fh' = Home(text[arg'], cap_pow) /\ UNCHANGED table
    BY <1>0, <1>10, <1>c
    DEF RehashPut, TypeOK, TableType, GrowType, Strings, NULL
  <2>2. PutInv'
    BY <2>1, <1>c DEF table, PutInv, Probed, Slot
  <2> QED
    BY <1>10, <1>k, <2>2 DEF RehashPut, GetInv
<1>11. CASE RehashEnd
  <2>1. Unmoved' = {}
    BY <1>11, <1>c DEF RehashEnd, table, Unmoved, OldCap
  <2>2. (ChainUnbroken /\ UniqueKeys)'
    BY <1>0, <1>11, <1>t, SameTable DEF RehashEnd, table
  <2> QED
    BY <1>11, <2>1, <2>2 DEF RehashEnd, UnmovedInv, PutInv, GetInv
<1>12. CASE GetProbe
  <2> DEFINE h == Home(want, cap_pow)
  <2>1. want \in Keys /\ h \in Slot /\ ~Holds(fh, want) /\ limit \in Nat
    BY <1>0, <1>12, <1>c DEF GetProbe, TypeOK, GetType, Holds
  <2>2. /\ limit = cap - Dist(h, fh)
        /\ \A j \in Slot : Probed(h, j, fh) => ~Holds(j, want)
    BY <1>0, <1>12, <2>1 DEF GetProbe, GetInv
  <2>3. \A j \in Slot : Probed(h, j, NextSlot(fh)) => ~Holds(j, want)
    BY <1>c, <2>1, <2>2, ProbedNext
  <2>4. \/ limit - 1 = cap - Dist(h, NextSlot(fh))
        \/ limit - 1 = 0 /\ \A j \in Slot : ~Holds(j, want)
    <3>1. CASE limit = 1
      BY <1>c, <2>1, <2>2, <3>1, ProbedAll
    <3>2. CASE limit # 1
      <4>1. Dist(h, NextSlot(fh)) = Dist(h, fh) + 1 /\ Dist(h, fh) \in Nat
        BY <1>c, <2>1, <2>2, <3>2, DistNext
      <4> QED
        BY <1>c, <2>2, <4>1
    <3> QED
      BY <3>1, <3>2
  <2>5. /\ limit' = limit - 1 /\ fh' = NextSlot(fh)
        /\ UNCHANGED <<cap, cap_pow, slots, text, want>>
    BY <1>12 DEF GetProbe, table
  <2>6. GetInv'
    BY <2>3, <2>4, <2>5 DEF GetInv, Stored, Holds, Slot, Dist, Probed, NULL
  <2> QED
    BY <1>12, <1>k, <2>6 DEF GetProbe, PutInv
<1>13. CASE GetFound \/ GetMissing
  BY <1>13, <1>k DEF GetFound, GetMissing, PutInv, GetInv
<1>14. CASE PutOverruns
  BY <1>14, <1>k DEF PutOverruns, PutInv, GetInv
<1> QED
  BY <1>1, <1>2, <1>3, <1>4, <1>5, <1>6, <1>7, <1>8, <1>9, <1>10, <1>11, <1>12, <1>13, <1>14
  DEF Next, Step

LEMMA SearchAlways == Spec => [](TypeInv /\ SearchInv)
BY TypeInit, TypeStep, SearchInit, SearchStep, PTL DEF Spec

\* No location between the home of a stored key and its own is ever empty
\* (hashmap.c:120-131 and 158-165 stop at the first empty location).
THEOREM ChainNeverBroken == Spec => []ChainUnbroken
BY SearchAlways, PTL DEF SearchInv

\* No key is ever stored at two locations, also while the table is rehashed
\* (hashmap.c:106-146).
THEOREM KeysStayUnique == Spec => []UniqueKeys
BY SearchAlways, PTL DEF SearchInv

\* Neither hashmap_put nor hashmap_get ever gives up on a key that is in the
\* table, whatever the hash function and the order of the calls.
THEOREM NoFalseMiss == Spec => []MissIsTrue
<1>1. TypeInv /\ SearchInv => MissIsTrue
  BY Miss DEF TypeInv, SearchInv
<1> QED
  BY <1>1, SearchAlways, PTL

=============================================================================
