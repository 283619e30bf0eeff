------------------------------ MODULE HashMap ------------------------------
(***************************************************************************)
(* src/data/hashmap.c: an open-addressing hash table with linear probing,  *)
(* one step per iteration of its loops.  A key is stored as an owned       *)
(* string; strings are numbered in the order hashmap_put copies them, so a *)
(* char* is such a number and 0 is NULL.  The table never removes a key.   *)
(*                                                                         *)
(* hashmap_put_no_alloc runs for a caller of hashmap_put (ctx = "user")    *)
(* and for the rehash loop of hashmap_grow (ctx = "rehash").  An           *)
(* allocation that fails makes the call return -1; every caller in src/    *)
(* hands that up to main, which stops, so the map is not used again.  Only *)
(* a refused growth of the vector keys is ignored, and the map goes on.    *)
(***************************************************************************)
EXTENDS Naturals, Sequences, FiniteSets

CONSTANTS
  Keys,        \* key texts
  Vals,        \* element values
  Absent,      \* NULL: what hashmap_get returns when the key is not there
  InitPow,     \* cap_pow after hashmap_init (at least 8 in the code)
  MaxPow,      \* bound: largest cap_pow (64, the width of the hash)
  MaxPuts,     \* bound: number of hashmap_put calls
  CapOf,       \* CapOf[p] is the capacity 2^p
  Home(_, _)   \* Home(k, p): first slot probed for key k when cap_pow is p

ASSUME ConstantsAssumption ==
  /\ Absent \notin Vals
  /\ MaxPow \in Nat /\ InitPow \in 1..MaxPow /\ MaxPuts \in Nat
  /\ CapOf \in [0..MaxPow -> Nat \ {0}]
  /\ \A p \in 0..MaxPow : p < MaxPow => CapOf[p + 1] = 2 * CapOf[p]
  /\ \A p \in 0..MaxPow : \A k \in Keys : Home(k, p) \in 0..(CapOf[p] - 1)

VARIABLES
  cap, cap_pow, len,   \* the fields of hashmap_t
  slots, data,         \* mem: the key pointer and the element of each location
  keys,                \* the keys vector: its items, its cap, and the items
                       \* its memory has room for
  text,                \* text[s]: the content of string s
  freed,               \* the strings handed to FREE
  pc, ctx,             \* the running call, and for whom a put runs
  arg, elem, fh,       \* put: its key pointer and element; fh: location probed
  want, limit, got,    \* get: the key sought, the probes left; the last answer
  old, oldData, scan   \* grow: the old table, and the loop counter

table == <<cap, cap_pow, len, slots, data, keys, text, freed>>
growing == <<old, oldData, scan>>
vars == <<table, pc, ctx, arg, elem, fh, want, limit, got, growing>>

NULL == 0
Slot == 0..(cap - 1)
OldCap == CapOf[cap_pow - 1]
Strings == 1..Len(text)

\* mutant: the probe index is not reduced modulo the capacity
NextSlotNoWrap(i) == i + 1

\* (fh + 1) & (cap - 1)
NextSlot(i) == IF i + 1 = cap THEN 0 ELSE i + 1

Init ==
  /\ cap = CapOf[InitPow] /\ cap_pow = InitPow /\ len = 0
  /\ slots = [i \in Slot |-> NULL]
  /\ data = [i \in Slot |-> Absent]
  /\ keys = [items |-> <<>>, cap |-> cap, room |-> cap]
  /\ text = <<>> /\ freed = {}
  /\ pc = "idle" /\ ctx = "user"
  /\ arg = NULL /\ elem = Absent /\ fh = 0
  /\ want = Absent /\ limit = 0 /\ got = Absent
  /\ old = <<>> /\ oldData = <<>> /\ scan = OldCap

\* the locals of a call that returns
DropPutLocals == arg' = NULL /\ elem' = Absent /\ fh' = 0
DropGetLocals == want' = Absent /\ limit' = 0 /\ fh' = 0

-----------------------------------------------------------------------------
(* hashmap_put and hashmap_put_no_alloc *)

PutCall(k, v) ==
  /\ pc = "idle" /\ Len(text) < MaxPuts
  /\ text' = Append(text, k)
  /\ arg' = Len(text) + 1 /\ elem' = v /\ ctx' = "user"
  /\ fh' = Home(k, cap_pow)
  /\ pc' = "put"
  /\ UNCHANGED <<cap, cap_pow, len, slots, data, keys, freed, want, limit, got, growing>>

\* STRALLOC failed: nothing was changed
PutCallFails ==
  /\ pc = "idle" /\ Len(text) < MaxPuts
  /\ pc' = "failed"
  /\ UNCHANGED <<table, ctx, arg, elem, fh, want, limit, got, growing>>

\* mutant: keys are compared as pointers
PutProbeByPointer ==
  /\ pc = "put" /\ slots[fh] # NULL /\ slots[fh] # arg
  /\ fh' = NextSlot(fh)
  /\ UNCHANGED <<table, pc, ctx, arg, elem, want, limit, got, growing>>

PutProbe ==
  /\ pc = "put" /\ slots[fh] # NULL /\ text[slots[fh]] # text[arg]
  /\ fh' = NextSlot(fh)
  /\ UNCHANGED <<table, pc, ctx, arg, elem, want, limit, got, growing>>

\* mutants: the table grows one entry too late, or never
FullLate(n) == 2 * n > cap
FullNever(n) == FALSE

Full(n) == 2 * n >= cap

\* where a put continues once its location is written and len is n
AfterPut(n) ==
  /\ DropPutLocals
  /\ pc' = IF Full(n) THEN (IF ctx = "user" THEN "grow" ELSE "nested")
           ELSE (IF ctx = "user" THEN "idle" ELSE "rehash")
  /\ scan' = IF ctx = "rehash" /\ ~Full(n) THEN scan + 1 ELSE scan

Store ==
  /\ slots' = [slots EXCEPT ![fh] = arg]
  /\ data' = [data EXCEPT ![fh] = elem]

\* mutant: the replaced string is not freed
PutReplaceNoFree ==
  /\ pc = "put" /\ slots[fh] # NULL /\ text[slots[fh]] = text[arg]
  /\ Store
  /\ AfterPut(len)
  /\ UNCHANGED <<cap, cap_pow, len, keys, text, freed, ctx, want, limit, got, old, oldData>>

\* the key is there: its old string is freed and the location reused
PutReplace ==
  /\ pc = "put" /\ slots[fh] # NULL /\ text[slots[fh]] = text[arg]
  /\ freed' = freed \cup {slots[fh]}
  /\ Store
  /\ AfterPut(len)
  /\ UNCHANGED <<cap, cap_pow, len, keys, text, ctx, want, limit, got, old, oldData>>

Listed == Len(keys.items)

\* vector_push_back(&hashmap->keys, &key).  A full vector doubles cap before it
\* asks for the memory; when that is refused the key is not listed, and
\* hashmap_put_no_alloc goes on as if it were.
PushKey ==
  \/ Listed < keys.cap /\ Listed < keys.room /\ keys' = [keys EXCEPT !.items = Append(@, arg)]
  \/ Listed >= keys.cap /\ keys' = [items |-> Append(keys.items, arg),
                                    cap |-> 2 * keys.cap, room |-> 2 * keys.cap]
  \/ Listed >= keys.cap /\ keys' = [keys EXCEPT !.cap = 2 * @]

\* mutant: the new key is not listed
PutInsertUnlisted ==
  /\ pc = "put" /\ slots[fh] = NULL
  /\ Store
  /\ len' = len + 1
  /\ AfterPut(len + 1)
  /\ UNCHANGED <<cap, cap_pow, keys, text, freed, ctx, want, limit, got, old, oldData>>

PutInsert ==
  /\ pc = "put" /\ slots[fh] = NULL
  /\ PushKey
  /\ Store
  /\ len' = len + 1
  /\ AfterPut(len + 1)
  /\ UNCHANGED <<cap, cap_pow, text, freed, ctx, want, limit, got, old, oldData>>

\* After a refused growth cap promises memory that is not there, and the next
\* key is written behind the memory of the vector.  What the program does then
\* is undefined and not followed.
PutOverruns ==
  /\ pc = "put" /\ slots[fh] = NULL
  /\ keys.room <= Listed /\ Listed < keys.cap
  /\ pc' = "overrun"
  /\ UNCHANGED <<table, ctx, arg, elem, fh, want, limit, got, growing>>

-----------------------------------------------------------------------------
(* hashmap_grow *)

\* mutant: len is not reset before the rehash counts the keys again
GrowKeepsLen ==
  /\ pc = "grow" /\ cap_pow < MaxPow
  /\ old' = slots /\ oldData' = data /\ scan' = 0
  /\ cap_pow' = cap_pow + 1 /\ cap' = 2 * cap
  /\ slots' = [i \in 0..(2 * cap - 1) |-> NULL]
  /\ data' = [i \in 0..(2 * cap - 1) |-> Absent]
  /\ pc' = "rehash"
  /\ UNCHANGED <<len, keys, text, freed, ctx, arg, elem, fh, want, limit, got>>

Grow ==
  /\ pc = "grow" /\ cap_pow < MaxPow
  /\ old' = slots /\ oldData' = data /\ scan' = 0
  /\ cap_pow' = cap_pow + 1 /\ cap' = 2 * cap /\ len' = 0
  /\ slots' = [i \in 0..(2 * cap - 1) |-> NULL]
  /\ data' = [i \in 0..(2 * cap - 1) |-> Absent]
  /\ pc' = "rehash"
  /\ UNCHANGED <<keys, text, freed, ctx, arg, elem, fh, want, limit, got>>

\* ALLOC failed: the old table is kept
GrowFails ==
  /\ pc = "grow"
  /\ pc' = "failed"
  /\ UNCHANGED <<table, ctx, arg, elem, fh, want, limit, got, growing>>

RehashSkip ==
  /\ pc = "rehash" /\ scan < OldCap /\ old[scan] = NULL
  /\ scan' = scan + 1
  /\ UNCHANGED <<table, pc, ctx, arg, elem, fh, want, limit, got, old, oldData>>

\* mutant: a moved key is hashed with the old capacity
RehashPutOldPow ==
  /\ pc = "rehash" /\ scan < OldCap /\ old[scan] # NULL
  /\ arg' = old[scan] /\ elem' = oldData[scan] /\ ctx' = "rehash"
  /\ fh' = Home(text[old[scan]], cap_pow - 1)
  /\ pc' = "put"
  /\ UNCHANGED <<table, want, limit, got, growing>>

\* mutant: a moved key gets the element of the first location
RehashPutFirstElem ==
  /\ pc = "rehash" /\ scan < OldCap /\ old[scan] # NULL
  /\ arg' = old[scan] /\ elem' = oldData[0] /\ ctx' = "rehash"
  /\ fh' = Home(text[old[scan]], cap_pow)
  /\ pc' = "put"
  /\ UNCHANGED <<table, want, limit, got, growing>>

RehashPut ==
  /\ pc = "rehash" /\ scan < OldCap /\ old[scan] # NULL
  /\ arg' = old[scan] /\ elem' = oldData[scan] /\ ctx' = "rehash"
  /\ fh' = Home(text[old[scan]], cap_pow)
  /\ pc' = "put"
  /\ UNCHANGED <<table, want, limit, got, growing>>

RehashEnd ==
  /\ pc = "rehash" /\ scan = OldCap
  /\ pc' = "idle" /\ ctx' = "user"
  /\ old' = <<>> /\ oldData' = <<>> /\ scan' = OldCap
  /\ UNCHANGED <<table, arg, elem, fh, want, limit, got>>

-----------------------------------------------------------------------------
(* hashmap_get *)

\* mutant: the search starts where the initial capacity put the key
GetCallStaleHome(k) ==
  /\ pc = "idle"
  /\ want' = k /\ limit' = cap /\ fh' = Home(k, InitPow)
  /\ pc' = "get"
  /\ UNCHANGED <<table, ctx, arg, elem, got, growing>>

GetCall(k) ==
  /\ pc = "idle"
  /\ want' = k /\ limit' = cap /\ fh' = Home(k, cap_pow)
  /\ pc' = "get"
  /\ UNCHANGED <<table, ctx, arg, elem, got, growing>>

GetProbe ==
  /\ pc = "get" /\ slots[fh] # NULL /\ limit > 0 /\ text[slots[fh]] # want
  /\ limit' = limit - 1 /\ fh' = NextSlot(fh)
  /\ UNCHANGED <<table, pc, ctx, arg, elem, want, got, growing>>

GetFound ==
  /\ pc = "get" /\ slots[fh] # NULL /\ limit > 0 /\ text[slots[fh]] = want
  /\ got' = data[fh] /\ pc' = "idle" /\ DropGetLocals
  /\ UNCHANGED <<table, ctx, arg, elem, growing>>

GetMissing ==
  /\ pc = "get" /\ (slots[fh] = NULL \/ limit = 0)
  /\ got' = Absent /\ pc' = "idle" /\ DropGetLocals
  /\ UNCHANGED <<table, ctx, arg, elem, growing>>

-----------------------------------------------------------------------------
(* hashmap_destroy *)

TableStrings == {slots[i] : i \in Slot} \ {NULL}

Destroy ==
  /\ pc = "idle"
  /\ freed' = freed \cup TableStrings
  /\ pc' = "destroyed"
  /\ UNCHANGED <<cap, cap_pow, len, slots, data, keys, text, ctx, arg, elem, fh,
                 want, limit, got, growing>>

-----------------------------------------------------------------------------
Step ==
  \/ PutProbe \/ PutReplace \/ PutInsert \/ PutOverruns
  \/ Grow \/ RehashSkip \/ RehashPut \/ RehashEnd
  \/ GetProbe \/ GetFound \/ GetMissing

Next ==
  \/ \E k \in Keys : GetCall(k) \/ \E v \in Vals : PutCall(k, v)
  \/ PutCallFails \/ GrowFails \/ Destroy
  \/ Step

Spec == Init /\ [][Next]_vars

\* a call that has been entered runs to its return
FairSpec == Spec /\ WF_vars(Step)

-----------------------------------------------------------------------------
(* What a table location or a call in progress says about a key *)

Holds(i, k) == slots[i] # NULL /\ text[slots[i]] = k
Stored(k) == \E i \in Slot : Holds(i, k)

\* the old locations that hashmap_grow has yet to move
Unmoved == {i \in scan..(OldCap - 1) : old[i] # NULL}

\* j is probed before i by a search that starts at h
Probed(h, j, i) == IF h <= i THEN h <= j /\ j < i ELSE h <= j \/ j < i

\* the strings that the running program still owns
Owned == TableStrings \cup {old[i] : i \in Unmoved} \cup (IF pc \in {"put", "overrun"} THEN {arg} ELSE {})

\* the names that hashmap_keys lists, as they were listed, and those of the locations
ListedKeys == {text[keys.items[n]] : n \in 1..Listed}
StoredKeys == {text[s] : s \in TableStrings}

-----------------------------------------------------------------------------
(* Properties *)

TableType ==
  /\ cap_pow \in InitPow..MaxPow /\ cap = CapOf[cap_pow] /\ len \in Nat
  /\ text \in Seq(Keys) /\ freed \subseteq Strings
  /\ slots \in [Slot -> Strings \cup {NULL}] /\ data \in [Slot -> Vals \cup {Absent}]
  /\ keys \in [items : Seq(Strings), cap : Nat, room : Nat]

PutType ==
  /\ pc \in {"idle", "put", "grow", "rehash", "get", "failed", "nested", "overrun", "destroyed"}
  /\ ctx \in {"user", "rehash"}
  /\ arg \in Strings \cup {NULL} /\ (pc = "put" => arg # NULL)
  /\ elem \in Vals \cup {Absent} /\ fh \in Slot

GetType ==
  /\ want \in Keys \cup {Absent} /\ (pc = "get" => want \in Keys)
  /\ limit \in 0..cap /\ got \in Vals \cup {Absent}

GrowType ==
  /\ scan \in 0..OldCap
  /\ scan < OldCap => /\ old \in [0..(OldCap - 1) -> Strings \cup {NULL}]
                      /\ oldData \in [0..(OldCap - 1) -> Vals \cup {Absent}]

\* The fields have their types, and every index is inside the table it indexes
\* (the assertion of hashmap_get_entry, line 216).
TypeOK == TableType /\ PutType /\ GetType /\ GrowType

\* No location between a key's home and where it is stored is empty, in every
\* state, the half-rehashed ones included: a probe of hashmap_get or of
\* hashmap_put never stops before the key it looks for.
ChainUnbroken ==
  \A i \in Slot : slots[i] # NULL =>
    \A j \in Slot : Probed(Home(text[slots[i]], cap_pow), j, i) => slots[j] # NULL

\* A key is stored at one location only, also while the table is rehashed
\* (otherwise a later put would change one copy and a get could read the other).
UniqueKeys ==
  \A i, j \in Slot : slots[i] # NULL /\ Holds(j, text[slots[i]]) => i = j

\* When a probe gives up, at an empty location or when its count runs out, the
\* key is not in the table.
MissIsTrue ==
  /\ pc = "put" /\ slots[fh] = NULL => ~Stored(text[arg])
  /\ pc = "get" /\ (slots[fh] = NULL \/ limit = 0) => ~Stored(want)

\* Every key string copied by hashmap_put is owned exactly once until it is
\* freed: by one location, by a location not yet moved or by the running put.
\* None leaks, none is freed twice, and hashmap_destroy frees what is left.
StringsOwned ==
  /\ \A i, j \in Slot : slots[i] # NULL /\ slots[i] = slots[j] => i = j
  /\ \A i \in Slot, j \in Unmoved : slots[i] # old[j]
  /\ pc # "destroyed" => Owned \cap freed = {} /\ Owned \cup freed = Strings
  /\ pc = "destroyed" => freed = Strings

\* len counts the occupied locations, and between calls less than half of the
\* table is occupied, whatever mixture of inserting and replacing puts came before.
LoadBelowHalf ==
  /\ len = Cardinality({i \in Slot : slots[i] # NULL})
  /\ pc \in {"idle", "get"} => 2 * len < cap

\* The put that hashmap_grow calls for each old location never calls
\* hashmap_grow again (it would free the table the outer loop is still reading).
GrowNeverNests == pc # "nested"

\* hashmap_keys lists no name that the table does not hold (main and
\* tests/core.c look up every listed name), and through any number of rehashes
\* it leaves out a stored key only after a growth of the vector was refused, and
\* then only one.
KeysComplete ==
  pc \in {"idle", "get"} =>
    /\ ListedKeys \subseteq StoredKeys
    /\ \A k, l \in StoredKeys \ ListedKeys : k = l /\ keys.room < keys.cap

\* Every call returns, or writes behind the vector of keys: the probe loop of
\* hashmap_put has no bound of its own and ends only because the table is never full.
CallsReturn ==
  pc \in {"put", "grow", "rehash", "get"} ~> pc \in {"idle", "failed", "overrun"}

\* hashmap_put of an existing key never frees a string the table or the caller
\* still reads: what a step frees is no longer in the table after it.
FreedLeavesTable ==
  [][pc' # "destroyed" => \A s \in freed' \ freed : s \notin TableStrings']_vars

(* The abstract map: a key not yet moved by hashmap_grow still counts *)
Contents ==
  [k \in Keys |->
     IF Stored(k) THEN data[CHOOSE i \in Slot : Holds(i, k)]
     ELSE IF \E i \in Unmoved : text[old[i]] = k
          THEN oldData[CHOOSE i \in Unmoved : text[old[i]] = k]
          ELSE Absent]

Map == INSTANCE KVMap WITH dict <- Contents

\* The table implements the map of KVMap: a put changes the value of its key
\* only, a get answers with the value last put, and growing changes nothing.
ImplementsMap == Map!Spec

(* Claims of the repository that the code does not keep *)

\* The names hashmap_keys lists can be read: tests/core.c:71-74 looks up and
\* prints every one of them.
ListedKeysReadable == pc = "idle" => \A n \in 1..Listed : keys.items[n] \notin freed

=============================================================================
