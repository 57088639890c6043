----------------------------- MODULE MCHashMap -----------------------------
(***************************************************************************)
(* Blocks of two addresses, so that the chains of three addresses grow to  *)
(* a second block and shrink again; two directory pages; and, as in the    *)
(* code, the negative size of a full block, which wraps into the control   *)
(* block.                                                                  *)
(***************************************************************************)
EXTENDS HashMap

MCSize == {-1, 9}
MCRequest == {0, 10}
MCBlock == 0 .. 2
=============================================================================
