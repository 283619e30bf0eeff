------------------------------- MODULE KVMap -------------------------------
(***************************************************************************)
(* What hashmap.h promises to env.c and coregen.c: a finite map from names *)
(* to values.  A put replaces the value of its key and touches no other    *)
(* key; a get answers with the value last put, or says the key is absent.  *)
(* HashMap is shown to implement this specification.                       *)
(***************************************************************************)
CONSTANTS
  Keys,     \* the names that may be used as keys
  Vals,     \* the element values
  Absent    \* the NULL that hashmap_get returns for a missing key

VARIABLES
  dict,     \* the value of every key, Absent where there is none
  got       \* the answer of the last get

Init ==
  /\ dict = [k \in Keys |-> Absent]
  /\ got = Absent

Put(k, v) ==
  /\ dict' = [dict EXCEPT ![k] = v]
  /\ UNCHANGED got

Get(k) ==
  /\ got' = dict[k]
  /\ UNCHANGED dict

Next == \E k \in Keys : Get(k) \/ \E v \in Vals : Put(k, v)

Spec == Init /\ [][Next]_<<dict, got>>

=============================================================================
