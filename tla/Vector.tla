------------------------------- MODULE Vector -------------------------------
(***************************************************************************)
(* src/data/vector.c, and src/data/stack.c, which is a vector used from    *)
(* its end.  The parser keeps its columns, its lists of nodes and its      *)
(* exports in vectors, hashmap its keys, linalloc its blocks, core_print   *)
(* the expressions it is inside of.                                        *)
(*                                                                         *)
(* A pointer is the number of the block of memory it points into and an    *)
(* index; a realloc that succeeds moves the elements to a new block.       *)
(* Growing can be refused at any time; the callers use TRYCR and stop, but *)
(* hashmap.c:134 and parser.c:189, 203 and 412 go on.  A refused vector_init *)
(* stops every caller, and is not a behaviour of the vector.               *)
(***************************************************************************)
EXTENDS Integers, Sequences

CONSTANTS
  Elems,        \* what is stored
  Garbage,      \* what memory holds before it is written
  Null,         \* the NULL that a call answers with
  DefaultCap,   \* VECTOR_DEFAULT_INITIAL_CAP: 4
  InitialCaps,  \* the capacities to start with: any, as vector.c:38 says
  MaxLen        \* bound: no more elements than this are added

ASSUME ElemsAssumption == Garbage \notin Elems /\ Null \notin Elems \cup {Garbage}
ASSUME CapAssumption == DefaultCap \in Nat \ {0} /\ InitialCaps \subseteq Nat /\ MaxLen \in Nat

VARIABLES
  mem,     \* the elements of the current block, by index from 0
  len, cap,
  block,   \* the number of the current block
  slot,    \* the pointer last handed out, which the caller may write through
  got,     \* what the last call answered: the element pointed to, or Null
  state    \* "whole", "refused" after a refused growth, "freed"

vars == <<mem, len, cap, block, slot, got, state>>

NoSlot == [block |-> 0, index |-> 0]

\* every element lies in the block; behind it is the memory of others
Inside == \A i \in 0..(len - 1) : i \in DOMAIN mem

Usable == state \in {"whole", "refused"} /\ Inside

Init ==
  /\ len = 0 /\ cap \in InitialCaps
  /\ mem = [i \in 0..(cap - 1) |-> Garbage]
  /\ block = 1 /\ slot = NoSlot /\ got = Null /\ state = "whole"

-----------------------------------------------------------------------------
(* Growing *)

\* memory m with x at index i, which may lie behind it
Stored(m, i, x) == [j \in DOMAIN m |-> IF j = i THEN x ELSE m[j]]
Loaded(m, i) == IF i \in DOMAIN m THEN m[i] ELSE Garbage

\* mutant: the capacity is checked one element late
FullLate == len > cap

Full == len >= cap

Grown == IF cap = 0 THEN DefaultCap ELSE 2 * cap

\* the memory, its capacity and its block after vector_alloc_elem has made room
Memory == IF Full THEN [i \in 0..(Grown - 1) |-> Loaded(mem, i)]
          ELSE mem
Cap == IF Full THEN Grown ELSE cap
Block == IF Full THEN block + 1 ELSE block

\* cap has been changed when realloc is asked, and stays so when it refuses
Refuse ==
  /\ Usable /\ len < MaxLen /\ Full
  /\ cap' = Grown /\ slot' = NoSlot /\ got' = Null /\ state' = "refused"
  /\ UNCHANGED <<mem, len, block>>

\* the element at len becomes part of the vector, wherever it lies
Extend ==
  /\ Usable /\ len < MaxLen
  /\ len' = len + 1 /\ cap' = Cap /\ block' = Block /\ UNCHANGED state

-----------------------------------------------------------------------------
(* Calls *)

\* mutant: the pointer is computed before the vector has grown
AllocElemEarly ==
  /\ Extend
  /\ mem' = Memory /\ slot' = [block |-> block, index |-> len]
  /\ got' = Loaded(Memory, len)

\* vector_alloc_elem: the element holds what was there before
AllocElem ==
  /\ Extend
  /\ mem' = Memory /\ slot' = [block |-> Block, index |-> len]
  /\ got' = Loaded(Memory, len)

\* mutant: the item is copied to where the vector was before it grew
PushBackEarly(x) ==
  /\ Extend
  /\ mem' = IF Full THEN Memory ELSE Stored(mem, len, x)
  /\ slot' = [block |-> Block, index |-> len] /\ got' = x

PushBack(x) ==
  /\ Extend
  /\ mem' = Stored(Memory, len, x) /\ slot' = [block |-> Block, index |-> len] /\ got' = x

\* the caller fills the element behind its pointer: identable lets the element's
\* rule do so, linalloc updates its newest block
Fill(x) ==
  /\ Usable /\ slot # NoSlot
  /\ mem' = IF slot.block = block THEN Stored(mem, slot.index, x) ELSE mem
  /\ UNCHANGED <<len, cap, block, slot, got, state>>

GetRef(i) ==
  /\ Usable
  /\ IF i >= len THEN slot' = NoSlot /\ got' = Null
     ELSE slot' = [block |-> block, index |-> i] /\ got' = mem[i]
  /\ UNCHANGED <<mem, len, cap, block, state>>

\* stack_peek; on an empty stack it answers NULL as vector_get_ref would
Peek == GetRef(IF len = 0 THEN 0 ELSE len - 1)

\* mutant: an empty stack is popped
PopUnchecked ==
  /\ Usable
  /\ len' = len - 1 /\ got' = IF len = 0 THEN Null ELSE mem[len - 1]
  /\ slot' = NoSlot /\ UNCHANGED <<mem, cap, block, state>>

\* stack_pop, and the len-- of identable and core_print after their own push
Pop ==
  /\ Usable
  /\ IF len = 0 THEN len' = len /\ got' = Null ELSE len' = len - 1 /\ got' = mem[len - 1]
  /\ slot' = NoSlot /\ UNCHANGED <<mem, cap, block, state>>

Destroy ==
  /\ Usable
  /\ state' = "freed" /\ slot' = NoSlot /\ got' = Null
  /\ UNCHANGED <<mem, len, cap, block>>

Next ==
  \/ Refuse \/ AllocElem
  \/ \E x \in Elems : PushBack(x) \/ Fill(x)
  \/ \E i \in 0..MaxLen : GetRef(i)
  \/ Peek \/ Pop \/ Destroy

Spec == Init /\ [][Next]_vars

-----------------------------------------------------------------------------
(* Properties *)

TypeOK ==
  /\ len \in 0..MaxLen /\ cap \in Nat /\ block \in Nat \ {0}
  /\ \E n \in 0..cap : mem \in [0..(n - 1) -> Elems \cup {Garbage}]
  /\ slot \in [block : Nat, index : Nat]
  /\ got \in Elems \cup {Garbage, Null}
  /\ state \in {"whole", "refused", "freed"}

\* No element lies behind the block of memory (vector.c:94) as long as no
\* growth was refused; afterwards cap may promise memory there is not
\* (vector.c:111-120), and a caller that ignored the refusal writes there.
ElementsInside == state = "whole" => Inside

\* The pointer a caller holds points into the memory of the vector, at one of
\* its elements, also when the call that handed it out had to move them
\* (vector.c:94 reads mem after the growth).
SlotIsElement == Usable /\ slot # NoSlot => slot.block = block /\ slot.index \in 0..(len - 1)

\* the vector as a sequence
Contents == IF Usable THEN [i \in 1..len |-> mem[i - 1]] ELSE <<>>

B == INSTANCE Buffer WITH
       items <- Contents,
       at <- IF Usable /\ slot # NoSlot THEN slot.index + 1 ELSE 0,
       got <- IF Usable THEN got ELSE Null,
       state <- IF state # "freed" /\ ~Inside THEN "outside" ELSE state

\* The vector is a sequence: what was pushed is there until it is popped, in its
\* order and wherever it was moved to; only a refusal that the caller ignored
\* loses it.
IsBuffer == B!Spec

=============================================================================
