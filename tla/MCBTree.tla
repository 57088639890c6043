------------------------------ MODULE MCBTree ------------------------------
(***************************************************************************)
(* Nodes of two or three entries.  The first growth leaves a tree of two   *)
(* levels, the others trees of three levels whose root has two and three   *)
(* children; the calls that follow split, move and merge leaves and inner  *)
(* nodes and change the height either way.  Six frames are what a tree of  *)
(* three levels needs.                                                     *)
(***************************************************************************)
EXTENDS BTree

MCKey == 1 .. 15
Up(n) == [i \in 1 .. n |-> i]
Down(n) == [i \in 1 .. n |-> 16 - i]
Wide == <<3, 4, 5, 2, 13, 10, 6, 8, 9, 1, 11, 12, 14, 7, 15>>
MCGrowth == {Up(9), Down(13), Wide}

(* What the last call was has no effect on the next one.                   *)
IndexAndCalls == <<idx, prints, calls>>
=============================================================================
