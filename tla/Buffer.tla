------------------------------- MODULE Buffer -------------------------------
(***************************************************************************)
(* What vector.h and stack.h promise: a sequence that grows at its end, and*)
(* pointers into it that can be written through.  The callers that stop at *)
(* a refused call see no more than this; one that ignores a refusal may    *)
(* lose the whole buffer.  Vector is shown to implement it.                *)
(***************************************************************************)
EXTENDS Integers, Sequences

CONSTANTS
  Elems,     \* what is stored
  Garbage,   \* what an element holds before it is written
  Null       \* the NULL that a call answers with

VARIABLES
  items,     \* the elements
  at,        \* the element the last pointer points to, 0 for NULL
  got,       \* what the last call answered: an element, or Null
  state      \* "whole", "refused" once a call was refused, "outside", "freed"

vars == <<items, at, got, state>>

Usable == state \in {"whole", "refused"}

Init == items = <<>> /\ at = 0 /\ got = Null /\ state = "whole"

Push(x) ==
  /\ Usable /\ UNCHANGED state
  /\ items' = Append(items, x) /\ at' = Len(items) + 1 /\ got' = x

\* no memory: nothing has changed, and the caller is told
Refuse == Usable /\ items' = items /\ at' = 0 /\ got' = Null /\ state' = "refused"

Write(x) == Usable /\ at # 0 /\ items' = [items EXCEPT ![at] = x] /\ UNCHANGED <<at, got, state>>

Get(i) ==
  /\ Usable /\ UNCHANGED <<items, state>>
  /\ IF i \in 1..Len(items) THEN at' = i /\ got' = items[i] ELSE at' = 0 /\ got' = Null

Pop ==
  /\ Usable /\ UNCHANGED state /\ at' = 0
  /\ IF items = <<>> THEN UNCHANGED items /\ got' = Null
     ELSE items' = SubSeq(items, 1, Len(items) - 1) /\ got' = items[Len(items)]

\* only after a refusal was ignored
Lose == state = "refused" /\ items' = <<>> /\ at' = 0 /\ got' = Null /\ state' = "outside"

Free == Usable /\ items' = <<>> /\ at' = 0 /\ got' = Null /\ state' = "freed"

Next ==
  \/ \E x \in Elems \cup {Garbage} : Push(x)
  \/ \E x \in Elems : Write(x)
  \/ \E i \in 1..(Len(items) + 1) : Get(i)
  \/ Refuse \/ Pop \/ Lose \/ Free

Spec == Init /\ [][Next]_vars

=============================================================================
