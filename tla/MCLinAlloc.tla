----------------------------- MODULE MCLinAlloc -----------------------------
(***************************************************************************)
(* LinAlloc with a first block of 5 bytes and headers of 2: a piece of 1   *)
(* byte fits twice, one of 3 fits exactly, one of 9 needs a block that has *)
(* to be doubled first.                                                    *)
(***************************************************************************)
EXTENDS LinAlloc
=============================================================================
