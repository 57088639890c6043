---------------------------- MODULE OrderedIndex ----------------------------
(***************************************************************************)
(* What the index promises: it is a set of keys, a search finds the key it *)
(* asks for exactly when the set has it, and the keys can be printed in    *)
(* order.  BTree implements this.                                          *)
(***************************************************************************)
EXTENDS Integers, FiniteSets

CONSTANTS Key, NoKey

VARIABLES keys,   \* the keys of the index
          last    \* the last call: what it did, to which key, its answer

Init ==
  /\ keys \subseteq Key
  /\ last = [op |-> "open", key |-> NoKey, answer |-> <<>>]

Called(op, k, answer) == last' = [op |-> op, key |-> k, answer |-> answer]

Insert(k) == Called("insert", k, <<>>) /\ keys' = keys \cup {k}
Delete(k) == Called("delete", k, <<>>) /\ keys' = keys \ {k}
Search(k) ==
  Called("search", k, IF k \in keys THEN <<k>> ELSE <<>>) /\ UNCHANGED keys

Ascending ==
  [i \in 1 .. Cardinality(keys) |->
     CHOOSE k \in keys : Cardinality({j \in keys : j < k}) = i - 1]
List == Called("list", NoKey, Ascending) /\ UNCHANGED keys

Next == List \/ \E k \in Key : Insert(k) \/ Delete(k) \/ Search(k)

Spec == Init /\ [][Next]_<<keys, last>>
=============================================================================
