------------------------------- MODULE Block -------------------------------
(***************************************************************************)
(* The slotted page of myjql/src/block.c.  After a header come the item    *)
(* ids, growing up to head, and at the other end the items, growing down   *)
(* to tail; an id is free (available) or gives the place of its item.      *)
(*                                                                         *)
(* A block here is a record of these fields.  ids is a sequence, so item   *)
(* index idx of the code is idx + 1 here and n_items is its length; data   *)
(* gives the bytes by their offset in the page.  An item is a sequence of  *)
(* bytes.  Offsets and sizes stay far below 2^15, the width of their       *)
(* fields in an ItemID.                                                    *)
(***************************************************************************)
EXTENDS Integers, Sequences

CONSTANTS PageSize,     \* PAGE_SIZE
          HeaderSize,   \* 3 * sizeof(short)
          IdSize,       \* sizeof(ItemID)
          NoByte        \* a byte nothing was written to

ASSUME LayoutAssumption ==
  /\ PageSize \in Nat
  /\ HeaderSize \in Nat
  /\ IdSize \in Nat \ {0}
  /\ HeaderSize + IdSize <= PageSize
  /\ PageSize < 2 ^ 15

NoItem == -1       \* new_item's answer when there is no room

Offset == 0 .. PageSize - 1

(* init_block on the new page of table_insert: its bytes are never read.   *)
EmptyBlock ==
  [ids |-> <<>>, head |-> HeaderSize, tail |-> PageSize,
   data |-> [k \in Offset |-> NoByte]]

Id(b, i) == b.ids[i]
Slots(b) == 1 .. Len(b.ids)
FreeSlots(b) == {i \in Slots(b) : b.ids[i].available}
LiveSlots(b) == Slots(b) \ FreeSlots(b)

(* The bytes an item id refers to.                                         *)
GetItem(b, i) == [j \in 1 .. Id(b, i).size |-> b.data[Id(b, i).offset + j - 1]]

Space(b) == b.tail - b.head

(* get_block_size: the size of the largest item that new_item has room for;*)
(* negative when not even an item id fits.                                 *)
BlockSize(b) == IF FreeSlots(b) # {} THEN Space(b) ELSE Space(b) - IdSize

-----------------------------------------------------------------------------
(* The item goes just below tail, under id i.                              *)
PutItem_SameTail(b, i, item) ==
  LET at == b.tail - Len(item) IN
  [ids |-> [k \in Slots(b) \cup {i} |->
              IF k = i THEN [available |-> FALSE, offset |-> at, size |-> Len(item)]
              ELSE Id(b, k)],
   head |-> b.head,
   tail |-> b.tail,
   data |-> [k \in Offset |-> IF k \in at .. b.tail - 1 THEN item[k - at + 1] ELSE b.data[k]]]
PutItem(b, i, item) ==
  LET at == b.tail - Len(item) IN
  [ids |-> [k \in Slots(b) \cup {i} |->
              IF k = i THEN [available |-> FALSE, offset |-> at, size |-> Len(item)]
              ELSE Id(b, k)],
   head |-> b.head,
   tail |-> at,
   data |-> [k \in Offset |-> IF k \in at .. b.tail - 1 THEN item[k - at + 1] ELSE b.data[k]]]

(* new_item: the first free id is used, or answered with nothing written   *)
(* when the item does not fit; without a free id one is added at head.     *)
NewItem(b, item) ==
  IF FreeSlots(b) # {}
  THEN LET i == CHOOSE i \in FreeSlots(b) : \A k \in FreeSlots(b) : i <= k
       IN [idx |-> i,
           block |-> IF Space(b) >= Len(item) THEN PutItem(b, i, item) ELSE b]
  ELSE IF Space(b) < IdSize + Len(item)
  THEN [idx |-> NoItem, block |-> b]
  ELSE LET i == Len(b.ids) + 1
       IN [idx |-> i,
           block |-> PutItem([b EXCEPT !.head = @ + IdSize], i, item)]

(* delete_item: the items below the deleted one move up over it, ids with  *)
(* a smaller offset follow (those of free ids as well), and the id becomes *)
(* free, or goes away when it is the last one.                             *)
Moved(b, pos, size) ==
  [k \in Slots(b) |-> IF Id(b, k).offset < pos
                      THEN [Id(b, k) EXCEPT !.offset = @ + size] ELSE Id(b, k)]

FreeId == [available |-> TRUE, offset |-> 0, size |-> 0]

DeleteItem_DropsLastId(b, i) ==
  LET pos == Id(b, i).offset
      size == Id(b, i).size
  IN [ids |-> SubSeq([Moved(b, pos, size) EXCEPT ![i] = FreeId], 1, Len(b.ids) - 1),
      head |-> b.head - IdSize,
      tail |-> b.tail + size,
      data |-> [k \in Offset |-> IF k \in b.tail + size .. pos + size - 1
                                 THEN b.data[k - size] ELSE b.data[k]]]
DeleteItem(b, i) ==
  LET pos == Id(b, i).offset
      size == Id(b, i).size
      last == i = Len(b.ids)
      ids == Moved(b, pos, size)
  IN [ids |-> IF last THEN SubSeq(ids, 1, i - 1) ELSE [ids EXCEPT ![i] = FreeId],
      head |-> IF last THEN b.head - IdSize ELSE b.head,
      tail |-> b.tail + size,
      data |-> [k \in Offset |-> IF k \in b.tail + size .. pos + size - 1
                                 THEN b.data[k - size] ELSE b.data[k]]]

-----------------------------------------------------------------------------
(* The ids end where the free space begins, and the live items, one after  *)
(* the other, fill the page from its tail to its end.                      *)
Extent(b, i) == Id(b, i).offset .. Id(b, i).offset + Id(b, i).size - 1

WellFormed(b) ==
  /\ b.head = HeaderSize + IdSize * Len(b.ids)
  /\ b.head <= b.tail
  /\ b.tail <= PageSize
  /\ UNION {Extent(b, i) : i \in LiveSlots(b)} = b.tail .. PageSize - 1
  /\ \A i, k \in LiveSlots(b) : i # k => Extent(b, i) \cap Extent(b, k) = {}

(* The items a block holds, by index.                                      *)
ItemsOf(b) == [i \in LiveSlots(b) |-> GetItem(b, i)]
=============================================================================
