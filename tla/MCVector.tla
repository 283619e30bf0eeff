------------------------------ MODULE MCVector ------------------------------
(***************************************************************************)
(* Vectors that start with room for 0, 1, 2 and 4 elements, so that growth *)
(* starts from nothing, is repeated, and meets a full default vector.      *)
(***************************************************************************)
EXTENDS Vector

CONSTANTS a, b

MCElems == {a, b}
MCInitialCaps == {0, 1, 2, 4}

=============================================================================
