----------------------------- MODULE SpaceIndex -----------------------------
(***************************************************************************)
(* What the free-space map promises to the tables: a set of pairs (size,   *)
(* block) with insertion, removal, and "any block of the least size that   *)
(* is large enough".  HashMap implements this specification and Table is   *)
(* built on its operators.                                                 *)
(***************************************************************************)
EXTENDS Integers

CONSTANTS Size,     \* sizes a block is listed under
          Request,  \* sizes a caller asks for
          Block,    \* block addresses
          NoBlock   \* the answer when nothing is large enough

VARIABLES free,     \* the pairs
          out       \* the answer to the last request

Init ==
  /\ free = {}
  /\ out = NoBlock

(* The pairs a request for size s may be answered with.                    *)
Candidates(F, s) ==
  {e \in F : e[1] >= s /\ \A d \in F : d[1] >= s => e[1] <= d[1]}

Insert(s, b) ==
  /\ \A e \in free : e[2] # b
  /\ free' = free \cup {<<s, b>>}
  /\ UNCHANGED out

PopLowerBound(s) ==
  \/ /\ Candidates(free, s) = {}
     /\ out' = NoBlock
     /\ UNCHANGED free
  \/ \E e \in Candidates(free, s) :
       /\ out' = e[2]
       /\ free' = free \ {e}

Pop(s, b) ==
  /\ <<s, b>> \in free
  /\ free' = free \ {<<s, b>>}
  /\ UNCHANGED out

Next ==
  \/ \E s \in Size, b \in Block : Insert(s, b) \/ Pop(s, b)
  \/ \E s \in Request : PopLowerBound(s)

Spec == Init /\ [][Next]_<<free, out>>
=============================================================================
