-------------------------------- MODULE Heap --------------------------------
(***************************************************************************)
(* What allocator.h promises the parser and coregen: objects whose bytes   *)
(* change only when their owner writes them, whatever is allocated, grown  *)
(* or given back around them.  LinAlloc is shown to implement it.          *)
(***************************************************************************)
EXTENDS Naturals

CONSTANTS
  Sizes,   \* the sizes that are asked for
  Values   \* what the owner may fill an object with

VARIABLE objects   \* the bytes of every object, by the address of the object

Init == objects = <<>>

Alloc(p, n) ==
  /\ p \notin DOMAIN objects
  /\ DOMAIN objects' = DOMAIN objects \cup {p}
  /\ \A q \in DOMAIN objects : objects'[q] = objects[q]
  /\ DOMAIN objects'[p] = 0..(n - 1)

\* the bytes both sizes have keep their value, also when the object moves
Realloc(p, q, n) ==
  /\ q = p \/ q \notin DOMAIN objects
  /\ DOMAIN objects' = (DOMAIN objects \ {p}) \cup {q}
  /\ \A o \in DOMAIN objects \ {p} : objects'[o] = objects[o]
  /\ DOMAIN objects'[q] = 0..(n - 1)
  /\ \A i \in DOMAIN objects[p] \cap (0..(n - 1)) : objects'[q][i] = objects[p][i]

Write(p, v) == objects' = [objects EXCEPT ![p] = [i \in DOMAIN @ |-> v]]

Free(p) == objects' = [o \in DOMAIN objects \ {p} |-> objects[o]]

\* everything is given back at once
Destroy == objects' = <<>>

Next ==
  \/ \E p \in DOMAIN objects', n \in Sizes : Alloc(p, n)
  \/ \E p \in DOMAIN objects, q \in DOMAIN objects', n \in Sizes : Realloc(p, q, n)
  \/ \E p \in DOMAIN objects, v \in Values : Write(p, v)
  \/ \E p \in DOMAIN objects : Free(p)
  \/ Destroy

Spec == Init /\ [][Next]_objects

=============================================================================
