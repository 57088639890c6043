------------------------------ MODULE MCMyJQL ------------------------------
(***************************************************************************)
(* A pointer has two characters here: keys shorter than that, the second   *)
(* at a difference of two from the first, one as long, and one longer that *)
(* begins with the latter.                                                 *)
(***************************************************************************)
EXTENDS MyJQL

MCKey == {<<1>>, <<3>>, <<1, 1>>, <<1, 1, 2>>}
MCTwoKeys == {<<1>>, <<2>>}
MCValue == {<<5>>, <<6>>}

MCRid == 1 .. 12   \* the strings of five keys and their values, and two more

(* A key set again in the next update gets the other value, and keys of    *)
(* neighbouring lengths differ in theirs.                                  *)
Alternating ==
  \A i \in DOMAIN updates :
    updates[i].value \in
      {NoValue, IF (i + Len(updates[i].key)) % 2 = 0 THEN <<5>> ELSE <<6>>}

(* Keys <<1>> and <<1, 1>> come and go; the others are set at most once.   *)
OthersOnce ==
  \A k \in {<<3>>, <<1, 1, 2>>} :
    LET of == {i \in DOMAIN updates : updates[i].key = k}
    IN Cardinality(of) <= 1 /\ \A i \in of : updates[i].value # NoValue

(* The answer of the last get has no effect on the calls after it.         *)
StoreAndUpdates == <<strs, recs, idx, strcmp, status, updates>>
=============================================================================
