------------------------------- MODULE Table -------------------------------
(***************************************************************************)
(* The record tables of myjql/src/table.c: a file of blocks and a map of   *)
(* free space that lists every block under its get_block_size.  Each call  *)
(* is one step: the server runs one at a time.  The map is the set of      *)
(* pairs SpaceIndex promises, and the data file's pool one content per     *)
(* page (PageStore).                                                       *)
(*                                                                         *)
(* Block number b of the file is address (b - 1) * PAGE_SIZE; a RID is the *)
(* pair of a block number and an item index.                               *)
(***************************************************************************)
EXTENDS Block

CONSTANTS Record,      \* the items stored: sequences of bytes
          MaxBlocks    \* bound on the blocks of the data file

(* Records are sequences; tables do not handle records larger than one     *)
(* page (table.h).                                                         *)
ASSUME RecordAssumption ==
  \A rec \in Record : /\ rec = [j \in 1 .. Len(rec) |-> rec[j]]
                      /\ Len(rec) \in 1 .. PageSize - HeaderSize - IdSize

ASSUME BoundAssumption == MaxBlocks \in Nat

VARIABLES blocks,   \* the blocks of the data file
          fsm,      \* the free-space map
          rid       \* the RID the last table_insert returned

vars == <<blocks, fsm, rid>>

Index == 1 .. (PageSize - HeaderSize) \div IdSize
Rid == (1 .. MaxBlocks) \times Index
NoRid == <<0, 0>>

Map == INSTANCE SpaceIndex WITH
  Size <- Int, Request <- Nat, Block <- Nat, NoBlock <- 0, free <- fsm, out <- 0

-----------------------------------------------------------------------------
Init ==   \* table_init on new files
  /\ blocks = <<>>
  /\ fsm = {}
  /\ rid = NoRid

(* A block that has room is taken out of the map, filled, and listed again *)
(* under what is left; without one the file grows by a block.              *)
InsertInto_Unlisted(e, rec) ==
  LET b == e[2]
      new == NewItem(blocks[b], rec)
  IN /\ blocks' = [blocks EXCEPT ![b] = new.block]
     /\ fsm' = fsm \ {e}
     /\ rid' = <<b, new.idx>>
InsertInto(e, rec) ==
  LET b == e[2]
      new == NewItem(blocks[b], rec)
  IN /\ blocks' = [blocks EXCEPT ![b] = new.block]
     /\ fsm' = (fsm \ {e}) \cup {<<BlockSize(new.block), b>>}
     /\ rid' = <<b, new.idx>>

InsertAppend(rec) ==
  LET b == Len(blocks) + 1
      new == NewItem(EmptyBlock, rec)
  IN /\ Map!Candidates(fsm, Len(rec)) = {}
     /\ b <= MaxBlocks
     /\ blocks' = Append(blocks, new.block)
     /\ fsm' = fsm \cup {<<BlockSize(new.block), b>>}
     /\ rid' = <<b, new.idx>>

Insert(rec) ==
  \/ \E e \in Map!Candidates(fsm, Len(rec)) : InsertInto(e, rec)
  \/ InsertAppend(rec)

(* table_delete of a record: the block moves in the map from the size it   *)
(* had before the deletion to the size it has after it.                    *)
Delete_OldSizeAfter(b, i) ==
  LET after == DeleteItem(blocks[b], i)
  IN /\ blocks' = [blocks EXCEPT ![b] = after]
     /\ fsm' = (fsm \ {<<BlockSize(after), b>>}) \cup {<<BlockSize(after), b>>}
     /\ UNCHANGED rid
Delete(b, i) ==
  LET after == DeleteItem(blocks[b], i)
  IN /\ blocks' = [blocks EXCEPT ![b] = after]
     /\ fsm' = (fsm \ {<<BlockSize(blocks[b]), b>>}) \cup {<<BlockSize(after), b>>}
     /\ UNCHANGED rid

Next ==
  \/ \E rec \in Record : Insert(rec)
  \/ \E b \in 1 .. Len(blocks) : \E i \in LiveSlots(blocks[b]) : Delete(b, i)

Spec == Init /\ [][Next]_vars

-----------------------------------------------------------------------------
(* Every block stays a well-formed slotted page: compaction leaves neither *)
(* holes nor overlaps, and ids never run into items (block.c:72-109).      *)
BlocksWellFormed == \A b \in 1 .. Len(blocks) : WellFormed(blocks[b])

(* The map lists each block once, under the size get_block_size gives for  *)
(* it now.  A block listed too large would make new_item answer without    *)
(* writing (block.c:33-43); one listed under an old size could not be      *)
(* popped from the map any more (table.c:88-92, hash_map.c:174-182).       *)
FsmExact ==
  fsm = {<<BlockSize(blocks[b]), b>> : b \in 1 .. Len(blocks)}

(* The file grows only when no block of it has room (table.c:51-67).       *)
GrowsOnlyWhenFull ==
  [][\A rec \in Record :
       Insert(rec) /\ Len(blocks') > Len(blocks) =>
         \A b \in 1 .. Len(blocks) : BlockSize(blocks[b]) < Len(rec)]_vars

Stored ==
  [r \in {r \in Rid : r[1] <= Len(blocks) /\ r[2] \in LiveSlots(blocks[r[1]])} |->
     GetItem(blocks[r[1]], r[2])]

Abstract == INSTANCE RecordStore WITH records <- Stored

(* Compaction, reuse of ids and moves between the lists of the map never   *)
(* touch another record: under its RID it reads as it was inserted.        *)
ImplementsRecordStore == Abstract!Spec
=============================================================================
