---------------------------- MODULE RecordStore ----------------------------
(***************************************************************************)
(* What a table promises: a record is stored under a record id that was    *)
(* not in use, and stays there as it was until that id is deleted.  Table  *)
(* implements this specification.                                          *)
(***************************************************************************)
CONSTANTS Rid,      \* record ids
          Record    \* records

VARIABLES records,  \* record id -> record, for the ids in use
          rid       \* the id the last insertion returned

Init ==
  /\ records = [r \in {} |-> {}]
  /\ rid \notin Rid

Insert(rec) ==
  /\ rid' \in Rid \ DOMAIN records
  /\ records' = [r \in DOMAIN records \cup {rid'} |->
                   IF r = rid' THEN rec ELSE records[r]]

Delete(r) ==
  /\ r \in DOMAIN records
  /\ records' = [q \in DOMAIN records \ {r} |-> records[q]]
  /\ UNCHANGED rid

Next ==
  \/ \E rec \in Record : Insert(rec)
  \/ \E r \in Rid : Delete(r)

Spec == Init /\ [][Next]_<<records, rid>>
=============================================================================
