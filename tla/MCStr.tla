------------------------------- MODULE MCStr -------------------------------
(***************************************************************************)
(* Chunks of up to two characters in pages with a header of one byte and   *)
(* ids of two, the RID of a chunk counting as one byte: a page of 13 bytes *)
(* holds three chunks of one character, or two full ones.  The texts have  *)
(* no, one and two full chunks, and one character less or more.            *)
(***************************************************************************)
EXTENDS Str

CONSTANT noByte

MCText == {<<>>, <<1>>, <<1, 2>>, <<1, 2, 1>>, <<1, 2, 2, 1>>}

(* No step reads the bytes of a page outside its live items, nor the RID   *)
(* that table_insert answered once it has been taken over.                 *)
ReadState ==
  <<[b \in DOMAIN blocks |->
       [ids |-> blocks[b].ids, head |-> blocks[b].head, tail |-> blocks[b].tail,
        items |-> ItemsOf(blocks[b])]],
    fsm, strings, job>>
=============================================================================
