------------------------------- MODULE HashFn -------------------------------
(***************************************************************************)
(* hash() of src/data/hashmap.c and the Fibonacci indexing of              *)
(* hashmap_put_no_alloc and hashmap_get, on words of Width bits.  A string *)
(* is the sequence of the words that strncpy puts into buf.                *)
(***************************************************************************)
EXTENDS Naturals, SequencesExt, Bitwise

CONSTANTS
  Width,   \* bits of a word (64)
  Mult     \* FIBONACCI_MULT

ASSUME HashAssumption == Width \in Nat \ {0} /\ Mult \in 0..(2^Width - 1)

Word == 0..(2^Width - 1)

\* (res << 23) || (res >> 41): a logical or, so 1 unless res is 0
Mix(res) == IF res = 0 THEN 0 ELSE 1

hash(str) == FoldLeft(LAMBDA res, buf : Mix(res) ^^ buf, 0, str)

\* (h * FIBONACCI_MULT) >> (64 - cap_pow)
Index(h, cap_pow) == ((h * Mult) % 2^Width) \div 2^(Width - cap_pow)

=============================================================================
