----------------------------- MODULE MCHashMap -----------------------------
(***************************************************************************)
(* Instances of HashMap for TLC: words of 4 bits, so that a table of 2     *)
(* locations grows to 16, the largest the hash can index.                  *)
(***************************************************************************)
EXTENDS HashMap, HashFn

\* Strings of one or two words.  Three hash alike (all but the last word of a
\* string counts as one bit) and their chain wraps round the end of the table
\* of 4 and of 8 locations, onto the home of the fourth.
CollidingKeys == {<<3>>, <<2, 2>>, <<5, 2>>, <<1, 1>>}

MCHome(k, p) == Index(hash(k), p)
MCCapOf == [p \in 0..MaxPow |-> 2^p]

=============================================================================
