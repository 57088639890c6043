---------------------------- MODULE TableProofs ----------------------------
(***************************************************************************)
(* What new_item and delete_item do to a slotted page; and tables keep     *)
(* their blocks well formed and their free-space map exact, grow only when *)
(* they must, and store records: for every layout of a page, every block   *)
(* and every set of records.                                               *)
(***************************************************************************)
EXTENDS Table, SequenceTheorems, WellFoundedInduction, TLAPS

ItemID == [available : BOOLEAN, offset : Int, size : Nat]

(* The shape of a block; what its bytes are does not matter.               *)
IsBlock(b) ==
  /\ b = [ids |-> b.ids, head |-> b.head, tail |-> b.tail, data |-> b.data]
  /\ b.ids \in Seq(ItemID)
  /\ b.head \in Int /\ b.tail \in Int
  /\ b.data = [k \in Offset |-> b.data[k]]

Taken(b, i) == [available |-> FALSE, offset |-> b.tail - i, size |-> i]

LEMMA BlockSlots ==
  ASSUME NEW b, IsBlock(b)
  PROVE  /\ Len(b.ids) \in Nat
         /\ b.ids \in [Slots(b) -> ItemID]
         /\ \A i \in Slots(b) : /\ Id(b, i).available \in BOOLEAN
                                /\ Id(b, i).offset \in Int
                                /\ Id(b, i).size \in Nat
<1>1. Len(b.ids) \in Nat /\ b.ids \in [Slots(b) -> ItemID]
  BY LenProperties DEF IsBlock, Slots
<1> QED
  BY <1>1 DEF Id, ItemID

LEMMA LiveIsUsed ==
  ASSUME NEW b
  PROVE  \A i : i \in LiveSlots(b) <=> i \in Slots(b) /\ ~Id(b, i).available
  BY DEF LiveSlots, FreeSlots, Id, Slots

(* A sequence given by its entries.                                        *)
LEMMA EntriesSeq ==
  ASSUME NEW S, NEW n \in Nat, NEW f \in [1 .. n -> S]
  PROVE  f \in Seq(S) /\ Len(f) = n
<1>1. f \in Seq(S)
  BY SeqDef
<1> QED
  BY <1>1, LenProperties

(* new_item under id i, one there is or the next one.                      *)
LEMMA PutItemShape ==
  ASSUME NEW b, IsBlock(b), NEW i \in 1 .. Len(b.ids) + 1, NEW item, Len(item) \in Nat
  PROVE  LET c == PutItem(b, i, item) IN
         /\ IsBlock(c)
         /\ Slots(c) = Slots(b) \cup {i}
         /\ Len(c.ids) = IF i = Len(b.ids) + 1 THEN i ELSE Len(b.ids)
         /\ c.head = b.head /\ c.tail = b.tail - Len(item)
         /\ \A k \in Slots(c) :
              Id(c, k) = IF k = i THEN Taken(b, Len(item)) ELSE Id(b, k)
         /\ \A k \in Offset :
              c.data[k] = IF k \in c.tail .. b.tail - 1 THEN item[k - c.tail + 1] ELSE b.data[k]
<1> DEFINE c == PutItem(b, i, item)
           n == IF i = Len(b.ids) + 1 THEN i ELSE Len(b.ids)
           ids == [k \in Slots(b) \cup {i} |-> IF k = i THEN Taken(b, Len(item)) ELSE Id(b, k)]
           at == b.tail - Len(item)
           data == [k \in Offset |-> IF k \in at .. b.tail - 1 THEN item[k - at + 1] ELSE b.data[k]]
<1>1. c = [ids |-> ids, head |-> b.head, tail |-> at, data |-> data]
  BY DEF PutItem, Taken
<1>2. n \in Nat /\ Slots(b) \cup {i} = 1 .. n
  BY BlockSlots DEF Slots
<1>3. Taken(b, Len(item)) \in ItemID
  BY DEF Taken, ItemID, IsBlock
<1>4. \A k \in Slots(b) : Id(b, k) \in ItemID
  BY BlockSlots DEF Id
<1>5. ids \in [1 .. n -> ItemID]
  BY <1>2, <1>3, <1>4
<1>6. \A k \in Slots(b) \cup {i} : ids[k] = IF k = i THEN Taken(b, Len(item)) ELSE Id(b, k)
  OBVIOUS
<1>7. /\ data = [k \in Offset |-> data[k]]
      /\ \A k \in Offset :
           data[k] = IF k \in at .. b.tail - 1 THEN item[k - at + 1] ELSE b.data[k]
  OBVIOUS
<1>8. at \in Int /\ b.head \in Int
  BY DEF IsBlock
<1> HIDE DEF c, n, ids, data, at
<1>9. ids \in Seq(ItemID) /\ Len(ids) = n
  BY <1>2, <1>5, EntriesSeq
<1>10. c.ids = ids /\ c.head = b.head /\ c.tail = at /\ c.data = data
  BY <1>1
<1>11. Slots(c) = Slots(b) \cup {i}
  BY <1>2, <1>9, <1>10 DEF Slots
<1>12. IsBlock(c)
  BY <1>1, <1>7, <1>8, <1>9, <1>10 DEF IsBlock
<1>13. \A k \in Slots(c) : Id(c, k) = IF k = i THEN Taken(b, Len(item)) ELSE Id(b, k)
  BY <1>6, <1>10, <1>11 DEF Id
<1> QED
  BY <1>7, <1>9, <1>10, <1>11, <1>12, <1>13 DEF c, n, at

-----------------------------------------------------------------------------
(* The live items fill the page from tail to its end, without overlaps.    *)
Inside(b, i, x) == Id(b, i).offset <= x /\ x < Id(b, i).offset + Id(b, i).size

Filled(b) ==
  /\ b.tail <= PageSize
  /\ \A x \in Int : (\E i \in LiveSlots(b) : Inside(b, i, x)) <=> b.tail <= x /\ x < PageSize
  /\ \A i, k \in LiveSlots(b) : \A x \in Int : Inside(b, i, x) /\ Inside(b, k, x) => i = k

LEMMA LiveSlot ==
  ASSUME NEW b, IsBlock(b), NEW i \in LiveSlots(b)
  PROVE  i \in Slots(b) /\ Id(b, i).offset \in Int /\ Id(b, i).size \in Nat
  BY BlockSlots DEF LiveSlots

LEMMA ExtentInside ==
  ASSUME NEW b, IsBlock(b), NEW i \in LiveSlots(b)
  PROVE  \A x : x \in Extent(b, i) <=> x \in Int /\ Inside(b, i, x)
<1>1. Id(b, i).offset \in Int /\ Id(b, i).size \in Nat
  BY LiveSlot
<1> QED
  BY <1>1 DEF Extent, Inside

LEMMA WellFormedFilled ==
  ASSUME NEW b, IsBlock(b)
  PROVE  WellFormed(b) <=>
           /\ b.head = HeaderSize + IdSize * Len(b.ids)
           /\ b.head <= b.tail
           /\ Filled(b)
<1> DEFINE E == UNION {Extent(b, i) : i \in LiveSlots(b)}
<1>1. \A x : x \in E <=> x \in Int /\ \E i \in LiveSlots(b) : Inside(b, i, x)
  BY ExtentInside
<1>2. \A x : x \in b.tail .. PageSize - 1 <=> x \in Int /\ b.tail <= x /\ x < PageSize
  BY LayoutAssumption DEF IsBlock
<1>3. E = b.tail .. PageSize - 1 <=>
        \A x \in Int : (\E i \in LiveSlots(b) : Inside(b, i, x)) <=> b.tail <= x /\ x < PageSize
  <2> HIDE DEF E
  <2>1. E = b.tail .. PageSize - 1 <=> \A x : x \in E <=> x \in b.tail .. PageSize - 1
    OBVIOUS
  <2> QED
    BY <1>1, <1>2, <2>1
<1>4. ASSUME NEW i \in LiveSlots(b), NEW k \in LiveSlots(b)
      PROVE  Extent(b, i) \cap Extent(b, k) = {} <=>
               \A x \in Int : ~(Inside(b, i, x) /\ Inside(b, k, x))
  BY ExtentInside
<1>5. (\A i, k \in LiveSlots(b) : i # k => Extent(b, i) \cap Extent(b, k) = {}) <=>
        \A i, k \in LiveSlots(b) : \A x \in Int : Inside(b, i, x) /\ Inside(b, k, x) => i = k
  BY <1>4
<1> QED
  BY <1>3, <1>5 DEF WellFormed, Filled

(* The bytes of an item.                                                   *)
LEMMA ItemBytes ==
  ASSUME NEW b, NEW c, IsBlock(b), IsBlock(c), NEW i \in LiveSlots(b), NEW k \in LiveSlots(c),
         Id(c, k).size = Id(b, i).size,
         \A x \in Int : Inside(b, i, x) =>
           b.data[x] = c.data[x + (Id(c, k).offset - Id(b, i).offset)]
  PROVE  GetItem(c, k) = GetItem(b, i)
<1>1. /\ Id(b, i).offset \in Int /\ Id(b, i).size \in Nat
      /\ Id(c, k).offset \in Int
  BY LiveSlot
<1>2. ASSUME NEW j \in 1 .. Id(b, i).size
      PROVE  c.data[Id(c, k).offset + j - 1] = b.data[Id(b, i).offset + j - 1]
  <2>1. Inside(b, i, Id(b, i).offset + j - 1)
    BY <1>1 DEF Inside
  <2>2. /\ Id(b, i).offset + j - 1 \in Int
        /\ (Id(b, i).offset + j - 1) + (Id(c, k).offset - Id(b, i).offset)
             = Id(c, k).offset + j - 1
    BY <1>1
  <2> QED
    BY <2>1, <2>2
<1> QED
  BY <1>2 DEF GetItem

(* An item put into free space leaves all others as they were.             *)
LEMMA PutItemFills ==
  ASSUME NEW b, IsBlock(b), Filled(b), NEW i \in 1 .. Len(b.ids) + 1, i \notin LiveSlots(b),
         NEW item, Len(item) \in Nat, 0 <= b.tail - Len(item)
  PROVE  LET c == PutItem(b, i, item) IN
         /\ LiveSlots(c) = LiveSlots(b) \cup {i}
         /\ Filled(c)
         /\ \A k \in LiveSlots(b) : GetItem(c, k) = GetItem(b, k)
         /\ GetItem(c, i) = [j \in 1 .. Len(item) |-> item[j]]
<1> DEFINE c == PutItem(b, i, item)
<1>1. /\ IsBlock(c)
      /\ Slots(c) = Slots(b) \cup {i}
      /\ c.tail = b.tail - Len(item)
      /\ \A k \in Slots(c) : Id(c, k) = IF k = i THEN Taken(b, Len(item)) ELSE Id(b, k)
      /\ \A k \in Offset :
           c.data[k] = IF k \in c.tail .. b.tail - 1 THEN item[k - c.tail + 1] ELSE b.data[k]
  BY PutItemShape
<1> HIDE DEF c
<1>2. b.tail \in Int /\ c.tail \in Int /\ PageSize \in Int
  BY <1>1, LayoutAssumption DEF IsBlock
<1>3. /\ Id(c, i).offset = c.tail /\ Id(c, i).size = Len(item)
      /\ ~Id(c, i).available
  BY <1>1 DEF Taken
<1>4. LiveSlots(c) = LiveSlots(b) \cup {i}
  <2>1. ASSUME NEW k, k # i PROVE k \in LiveSlots(c) <=> k \in LiveSlots(b)
    <3>1. k \in Slots(c) <=> k \in Slots(b)
      BY <1>1, <2>1
    <3>2. k \in Slots(c) => Id(c, k) = Id(b, k)
      BY <1>1, <2>1
    <3> QED
      BY <3>1, <3>2, LiveIsUsed
  <2>2. i \in LiveSlots(c)
    BY <1>1, <1>3, LiveIsUsed
  <2> QED
    BY <2>1, <2>2
<1>5. ASSUME NEW k \in LiveSlots(b) PROVE k # i /\ Id(c, k) = Id(b, k)
  BY <1>1 DEF LiveSlots
<1>6. \A k \in LiveSlots(b) : \A x \in Int : Inside(c, k, x) <=> Inside(b, k, x)
  BY <1>5 DEF Inside
<1>7. \A x \in Int : Inside(c, i, x) <=> c.tail <= x /\ x < b.tail
  BY <1>1, <1>2, <1>3 DEF Inside
<1>8. Filled(c)
  <2>1. c.tail <= PageSize
    BY <1>1, <1>2 DEF Filled
  <2>2. ASSUME NEW x \in Int
        PROVE  (\E k \in LiveSlots(c) : Inside(c, k, x)) <=> c.tail <= x /\ x < PageSize
    <3>1. (\E k \in LiveSlots(c) : Inside(c, k, x)) <=>
            Inside(c, i, x) \/ \E k \in LiveSlots(b) : Inside(b, k, x)
      BY <1>4, <1>6
    <3>2. (\E k \in LiveSlots(b) : Inside(b, k, x)) <=> b.tail <= x /\ x < PageSize
      BY DEF Filled
    <3> QED
      BY <1>1, <1>2, <1>7, <3>1, <3>2 DEF Filled
  <2>3. ASSUME NEW j \in LiveSlots(c), NEW k \in LiveSlots(c), NEW x \in Int,
               Inside(c, j, x), Inside(c, k, x)
        PROVE  j = k
    <3>1. \A m \in LiveSlots(b) : Inside(b, m, x) => ~Inside(c, i, x)
      BY <1>2, <1>7 DEF Filled
    <3> QED
      BY <1>4, <1>6, <2>3, <3>1 DEF Filled
  <2> QED
    BY <2>1, <2>2, <2>3 DEF Filled
<1>9. ASSUME NEW k \in LiveSlots(b) PROVE GetItem(c, k) = GetItem(b, k)
  <2>1. k \in LiveSlots(c) /\ Id(c, k) = Id(b, k)
    BY <1>4, <1>5
  <2>2. ASSUME NEW x \in Int, Inside(b, k, x) PROVE b.data[x] = c.data[x + 0]
    <3>1. b.tail <= x /\ x < PageSize
      BY <2>2 DEF Filled
    <3>2. x \in Offset /\ x \notin c.tail .. b.tail - 1
      BY <1>1, <1>2, <3>1 DEF Offset
    <3> QED
      BY <1>1, <3>2
  <2>3. Id(c, k).offset - Id(b, k).offset = 0
    BY <2>1, LiveSlot
  <2> QED
    BY <1>1, <2>1, <2>2, <2>3, ItemBytes
<1>10. GetItem(c, i) = [j \in 1 .. Len(item) |-> item[j]]
  <2>1. ASSUME NEW j \in 1 .. Len(item) PROVE c.data[Id(c, i).offset + j - 1] = item[j]
    <3>1. c.tail + j - 1 \in c.tail .. b.tail - 1 /\ c.tail + j - 1 \in Offset
      BY <1>1, <1>2 DEF Filled, Offset
    <3>2. (c.tail + j - 1) - c.tail + 1 = j
      BY <1>2
    <3> QED
      BY <1>1, <1>3, <3>1, <3>2
  <2> QED
    BY <1>3, <2>1 DEF GetItem
<1> QED
  BY <1>4, <1>8, <1>9, <1>10 DEF c

-----------------------------------------------------------------------------
LEMMA WellFormedBounds ==
  ASSUME NEW b, IsBlock(b), WellFormed(b)
  PROVE  /\ b.head \in Int /\ b.tail \in Int /\ PageSize \in Int
         /\ Len(b.ids) \in Nat
         /\ b.head = HeaderSize + IdSize * Len(b.ids)
         /\ 0 <= b.head /\ b.head <= b.tail /\ b.tail <= PageSize
         /\ Filled(b)
<1>1. IdSize \in Nat /\ HeaderSize \in Nat /\ PageSize \in Nat /\ Len(b.ids) \in Nat
  BY LayoutAssumption, BlockSlots
<1>2. IdSize * Len(b.ids) \in Nat
  BY <1>1
<1>3. Filled(b) /\ b.head = HeaderSize + IdSize * Len(b.ids) /\ b.head <= b.tail
  BY WellFormedFilled
<1> QED
  BY <1>1, <1>2, <1>3 DEF Filled, IsBlock

(* A set of naturals that is not empty has a least element.                *)
LEMMA LeastElement ==
  ASSUME NEW S \in SUBSET Nat, S # {}
  PROVE  \E m \in S : \A k \in S : m <= k
<1> DEFINE R == OpToRel(<, Nat)
<1>1. IsWellFoundedOn(R, Nat)
  BY NatLessThanWellFounded
<1>2. \A k, m \in Nat : <<k, m>> \in R <=> k < m
  BY DEF OpToRel
<1> HIDE DEF R
<1>3. PICK m \in S : \A k \in S : ~(<<k, m>> \in R)
  BY <1>1, WFMin
<1>4. ASSUME NEW k \in S PROVE m <= k
  <2>1. k \in Nat /\ m \in Nat /\ ~(<<k, m>> \in R)
    BY <1>3
  <2> QED
    BY <1>2, <2>1
<1> QED
  BY <1>4

(* The free space taken by one more item id.                               *)
LEMMA MoreHead ==
  ASSUME NEW b, IsBlock(b), NEW d \in Int
  PROVE  LET c == [b EXCEPT !.head = @ + d] IN
         /\ IsBlock(c)
         /\ c.head = b.head + d /\ c.tail = b.tail /\ c.ids = b.ids /\ c.data = b.data
<1> DEFINE c == [b EXCEPT !.head = @ + d]
<1>1. b = [ids |-> b.ids, head |-> b.head, tail |-> b.tail, data |-> b.data]
  BY DEF IsBlock
<1>2. c = [ids |-> b.ids, head |-> b.head + d, tail |-> b.tail, data |-> b.data]
  BY <1>1
<1> HIDE DEF c
<1>3. c.head = b.head + d /\ c.tail = b.tail /\ c.ids = b.ids /\ c.data = b.data
  BY <1>2
<1>4. IsBlock(c)
  BY <1>2, <1>3 DEF IsBlock
<1> QED
  BY <1>3, <1>4 DEF c

(* new_item of an item for which get_block_size says there is room.        *)
Holds(c, b, i, item) ==
  /\ LiveSlots(c) = LiveSlots(b) \cup {i}
  /\ \A k \in LiveSlots(b) : GetItem(c, k) = GetItem(b, k)
  /\ GetItem(c, i) = [j \in 1 .. Len(item) |-> item[j]]

LEMMA NewItemStores ==
  ASSUME NEW b, IsBlock(b), WellFormed(b),
         NEW item, Len(item) \in Nat, Len(item) <= BlockSize(b)
  PROVE  LET new == NewItem(b, item) IN
         /\ IsBlock(new.block) /\ WellFormed(new.block)
         /\ new.idx \in Slots(new.block) \ LiveSlots(b)
         /\ Holds(new.block, b, new.idx, item)
<1> DEFINE new == NewItem(b, item)
           n == Len(b.ids)
<1>1. /\ b.head \in Int /\ b.tail \in Int /\ PageSize \in Int /\ n \in Nat
      /\ b.head = HeaderSize + IdSize * n
      /\ 0 <= b.head /\ b.head <= b.tail /\ b.tail <= PageSize
      /\ Filled(b)
  BY WellFormedBounds
<1>2. IdSize \in Nat /\ HeaderSize \in Nat
  BY LayoutAssumption
<1>3. CASE FreeSlots(b) # {}
  <2> DEFINE i == CHOOSE i \in FreeSlots(b) : \A k \in FreeSlots(b) : i <= k
             c == PutItem(b, i, item)
  <2>1. i \in FreeSlots(b)
    <3>1. FreeSlots(b) \subseteq Nat
      BY <1>1 DEF FreeSlots, Slots
    <3>2. \E m \in FreeSlots(b) : \A k \in FreeSlots(b) : m <= k
      BY <1>3, <3>1, LeastElement
    <3> QED
      BY <3>2
  <2>2. Space(b) >= Len(item)
    BY <1>3 DEF BlockSize
  <2>3. new = [idx |-> i, block |-> c]
    BY <1>3, <2>2 DEF NewItem
  <2> HIDE DEF i
  <2>4. i \in 1 .. n /\ i \in 1 .. n + 1 /\ i \notin LiveSlots(b)
    BY <1>1, <2>1 DEF FreeSlots, LiveSlots, Slots
  <2>5. 0 <= b.tail - Len(item)
    BY <1>1, <2>2 DEF Space
  <2>6. /\ IsBlock(c) /\ Slots(c) = Slots(b) \cup {i}
        /\ Len(c.ids) = n /\ c.head = b.head /\ c.tail = b.tail - Len(item)
    BY <1>1, <2>4, PutItemShape
  <2>7. Holds(c, b, i, item) /\ Filled(c)
    BY <1>1, <2>4, <2>5, PutItemFills DEF Holds
  <2>8. c.head <= c.tail
    BY <1>1, <2>2, <2>6 DEF Space
  <2>9. WellFormed(c)
    BY <1>1, <2>6, <2>7, <2>8, WellFormedFilled
  <2> HIDE DEF c
  <2> QED
    BY <2>3, <2>4, <2>6, <2>7, <2>9
<1>4. CASE FreeSlots(b) = {}
  <2> DEFINE i == n + 1
             d == [b EXCEPT !.head = @ + IdSize]
             c == PutItem(d, i, item)
  <2>1. Space(b) - IdSize >= Len(item)
    BY <1>4 DEF BlockSize
  <2>2. Space(b) \in Int
    BY <1>1 DEF Space
  <2>3. ~(Space(b) < IdSize + Len(item))
    BY <1>2, <2>1, <2>2
  <2>4. new = [idx |-> i, block |-> c]
    BY <1>4, <2>3 DEF NewItem
  <2>5. /\ IsBlock(d)
        /\ d.head = b.head + IdSize /\ d.tail = b.tail /\ d.ids = b.ids /\ d.data = b.data
    BY <1>2, MoreHead
  <2> HIDE DEF d, c
  <2>6. /\ Slots(d) = Slots(b) /\ LiveSlots(d) = LiveSlots(b)
        /\ \A k : Id(d, k) = Id(b, k) /\ GetItem(d, k) = GetItem(b, k)
    BY <2>5 DEF Slots, LiveSlots, FreeSlots, Id, GetItem
  <2>7. Filled(d)
    BY <1>1, <2>5, <2>6 DEF Filled, Inside
  <2>8. i \in 1 .. Len(d.ids) + 1 /\ i \notin LiveSlots(d) /\ i \notin LiveSlots(b)
    BY <1>1, <2>5, <2>6 DEF LiveSlots, Slots
  <2>9. 0 <= d.tail - Len(item)
    BY <1>1, <1>2, <2>1, <2>5 DEF Space
  <2>10. /\ IsBlock(c) /\ Slots(c) = Slots(d) \cup {i}
         /\ Len(c.ids) = n + 1 /\ c.head = d.head /\ c.tail = d.tail - Len(item)
    <3>1. i = Len(d.ids) + 1 /\ i = n + 1
      BY <2>5
    <3> HIDE DEF i, n
    <3>2. i \in 1 .. Len(d.ids) + 1 /\ IsBlock(d) /\ Len(item) \in Nat
      BY <2>5, <2>8
    <3>3. /\ IsBlock(PutItem(d, i, item)) /\ Slots(PutItem(d, i, item)) = Slots(d) \cup {i}
          /\ Len(PutItem(d, i, item).ids) = i
          /\ PutItem(d, i, item).head = d.head
          /\ PutItem(d, i, item).tail = d.tail - Len(item)
      BY <3>1, <3>2, PutItemShape
    <3> QED
      BY <3>1, <3>3 DEF c
  <2>11. /\ LiveSlots(c) = LiveSlots(d) \cup {i} /\ Filled(c)
         /\ \A k \in LiveSlots(d) : GetItem(c, k) = GetItem(d, k)
         /\ GetItem(c, i) = [j \in 1 .. Len(item) |-> item[j]]
    <3> HIDE DEF i
    <3> QED
      BY <2>5, <2>7, <2>8, <2>9, PutItemFills DEF c
  <2>12. c.head <= c.tail
    BY <1>1, <1>2, <2>1, <2>5, <2>10 DEF Space
  <2>13. c.head = HeaderSize + IdSize * Len(c.ids)
    <3>1. IdSize * (n + 1) = IdSize * n + IdSize
      BY <1>1, <1>2
    <3>2. IdSize * n \in Nat
      BY <1>1, <1>2
    <3> QED
      BY <1>1, <1>2, <2>5, <2>10, <3>1, <3>2
  <2>14. WellFormed(c)
    BY <2>10, <2>11, <2>12, <2>13, WellFormedFilled
  <2>15. Holds(c, b, i, item)
    BY <2>6, <2>11 DEF Holds
  <2> QED
    BY <2>4, <2>8, <2>10, <2>14, <2>15
<1> QED
  BY <1>3, <1>4

-----------------------------------------------------------------------------
(* How far delete_item moves up the item of id k.                          *)
Lift(b, i, k) == IF Id(b, k).offset < Id(b, i).offset THEN Id(b, i).size ELSE 0

(* delete_item: the ids and the bytes it leaves.                           *)
LEMMA DeleteItemShape ==
  ASSUME NEW b, IsBlock(b), NEW i \in LiveSlots(b)
  PROVE  LET c == DeleteItem(b, i)
             pos == Id(b, i).offset
             size == Id(b, i).size IN
         /\ IsBlock(c)
         /\ Len(c.ids) = IF i = Len(b.ids) THEN i - 1 ELSE Len(b.ids)
         /\ c.head = IF i = Len(b.ids) THEN b.head - IdSize ELSE b.head
         /\ c.tail = b.tail + size
         /\ LiveSlots(c) = LiveSlots(b) \ {i}
         /\ \A k \in LiveSlots(b) \ {i} :
              /\ Id(c, k).offset = Id(b, k).offset + Lift(b, i, k)
              /\ Id(c, k).size = Id(b, k).size
         /\ \A x \in Offset :
              c.data[x] = IF x \in c.tail .. pos + size - 1 THEN b.data[x - size] ELSE b.data[x]
<1> DEFINE c == DeleteItem(b, i)
           pos == Id(b, i).offset
           size == Id(b, i).size
           n == Len(b.ids)
           moved == Moved(b, pos, size)
           ids == IF i = n THEN SubSeq(moved, 1, i - 1) ELSE [moved EXCEPT ![i] = FreeId]
           head == IF i = n THEN b.head - IdSize ELSE b.head
           tail == b.tail + size
           data == [k \in Offset |-> IF k \in tail .. pos + size - 1
                                     THEN b.data[k - size] ELSE b.data[k]]
<1>1. c = [ids |-> ids, head |-> head, tail |-> tail, data |-> data]
  BY DEF DeleteItem
<1>2. n \in Nat /\ b.ids \in [1 .. n -> ItemID] /\ i \in 1 .. n /\ pos \in Int /\ size \in Nat
  BY BlockSlots, LiveSlot DEF Slots
<1>3. FreeId \in ItemID
  BY DEF FreeId, ItemID
<1>4. /\ moved \in [1 .. n -> ItemID]
      /\ \A k \in 1 .. n :
           /\ moved[k].available = Id(b, k).available
           /\ moved[k].size = Id(b, k).size
           /\ moved[k].offset = IF Id(b, k).offset < pos THEN Id(b, k).offset + size
                                ELSE Id(b, k).offset
  <2> HIDE DEF pos, size, n
  <2>1. ASSUME NEW k \in 1 .. n
        PROVE  LET m == IF Id(b, k).offset < pos
                        THEN [Id(b, k) EXCEPT !.offset = @ + size] ELSE Id(b, k) IN
               /\ m \in ItemID
               /\ m.available = Id(b, k).available
               /\ m.size = Id(b, k).size
               /\ m.offset = IF Id(b, k).offset < pos THEN Id(b, k).offset + size
                             ELSE Id(b, k).offset
    <3>1. Id(b, k) \in ItemID
      BY <1>2 DEF Id
    <3> HIDE DEF ItemID
    <3>2. PICK t \in ItemID : t = Id(b, k)
      BY <3>1
    <3> QED
      BY <1>2, <3>2, SMTT(30) DEF ItemID
  <2>2. moved = [k \in 1 .. n |-> IF Id(b, k).offset < pos
                        THEN [Id(b, k) EXCEPT !.offset = @ + size] ELSE Id(b, k)]
    BY DEF Moved, Slots, n
  <2> HIDE DEF moved
  <2> QED
    BY <2>1, <2>2
<1>5. moved \in Seq(ItemID) /\ Len(moved) = n
  <2> HIDE DEF moved, n
  <2> QED
    BY <1>2, <1>4, EntriesSeq
<1> HIDE DEF c, moved, pos, size
<1> DEFINE m == IF i = n THEN i - 1 ELSE n
<1>6. /\ ids \in Seq(ItemID) /\ Len(ids) = m
      /\ \A k \in 1 .. m : ids[k] = IF k = i THEN FreeId ELSE moved[k]
  <2>1. CASE i = n
    <3>1. ids = SubSeq(moved, 1, i - 1) /\ m = i - 1
      BY <2>1
    <3>2. \A k \in 1 .. i - 1 : moved[k] \in ItemID
      BY <1>2, <1>4
    <3>3. /\ ids \in Seq(ItemID) /\ Len(ids) = i - 1
          /\ \A k \in 1 .. i - 1 : ids[k] = moved[k]
      <4> HIDE DEF ids, m, n
      <4>1. /\ ids \in Seq(ItemID) /\ Len(ids) = IF 1 <= i - 1 THEN (i - 1) - 1 + 1 ELSE 0
            /\ \A k \in 1 .. (i - 1) - 1 + 1 : ids[k] = moved[1 + k - 1]
        BY <1>2, <3>1, <3>2, SubSeqProperties
      <4> QED
        BY <1>2, <4>1
    <3> QED
      BY <1>2, <3>1, <3>3
  <2>2. CASE i # n
    <3>1. ids = [moved EXCEPT ![i] = FreeId] /\ m = n
      BY <2>2
    <3>2. /\ ids \in [1 .. n -> ItemID]
          /\ \A k \in 1 .. n : ids[k] = IF k = i THEN FreeId ELSE moved[k]
      BY <1>2, <1>3, <1>4, <3>1
    <3> HIDE DEF ids, m, n
    <3> QED
      BY <1>2, <3>1, <3>2, EntriesSeq
  <2> QED
    BY <2>1, <2>2
<1>7. /\ c.ids = ids /\ c.head = head /\ c.tail = tail /\ c.data = data
      /\ c = [ids |-> c.ids, head |-> c.head, tail |-> c.tail, data |-> c.data]
  BY <1>1
<1>8. /\ data = [k \in Offset |-> data[k]]
      /\ \A x \in Offset :
           data[x] = IF x \in tail .. pos + size - 1 THEN b.data[x - size] ELSE b.data[x]
  OBVIOUS
<1>9. head \in Int /\ tail \in Int
  <2>1. b.head \in Int /\ b.tail \in Int /\ IdSize \in Int
    BY LayoutAssumption DEF IsBlock
  <2> QED
    BY <1>2, <2>1
<1> HIDE DEF ids, head, tail, data
<1>10. IsBlock(c)
  BY <1>6, <1>7, <1>8, <1>9 DEF IsBlock
<1>11. m \in Nat /\ 1 .. m \subseteq 1 .. n /\ (1 .. n) \ (1 .. m) \subseteq {i}
  BY <1>2
<1>12. Slots(c) = 1 .. m /\ Slots(b) = 1 .. n
  BY <1>6, <1>7 DEF Slots
<1>13. ASSUME NEW k \in 1 .. m, k # i
       PROVE  /\ Id(c, k).available = Id(b, k).available
              /\ Id(c, k).offset = Id(b, k).offset + Lift(b, i, k)
              /\ Id(c, k).size = Id(b, k).size
  <2>1. k \in 1 .. n /\ Id(c, k) = moved[k]
    BY <1>6, <1>7, <1>11, <1>13 DEF Id
  <2>2. Id(b, k).offset \in Int
    BY <1>12, <2>1, BlockSlots
  <2> QED
    BY <1>2, <1>4, <2>1, <2>2 DEF Lift, pos, size
<1>14. i \in 1 .. m => Id(c, i).available
  BY <1>6, <1>7 DEF Id, FreeId
<1> HIDE DEF m, n
<1>15. LiveSlots(c) = LiveSlots(b) \ {i}
  <2>1. ASSUME NEW k, k # i PROVE k \in LiveSlots(c) <=> k \in LiveSlots(b)
    <3>1. k \in 1 .. m <=> k \in 1 .. n
      BY <1>11, <2>1
    <3>2. k \in 1 .. m => Id(c, k).available = Id(b, k).available
      BY <1>13, <2>1
    <3> QED
      BY <1>12, <3>1, <3>2, LiveIsUsed
  <2>2. i \notin LiveSlots(c)
    BY <1>12, <1>14, LiveIsUsed
  <2> QED
    BY <2>1, <2>2
<1>16. ASSUME NEW k \in LiveSlots(b) \ {i} PROVE k \in 1 .. m /\ k # i
  BY <1>12, <1>15 DEF LiveSlots
<1> QED
  BY <1>6, <1>7, <1>8, <1>10, <1>13, <1>15, <1>16 DEF c, m, n, head, tail, pos, size

(* delete_item: the other items keep their bytes and fill the page again.  *)
LEMMA DeleteItemFills ==
  ASSUME NEW b, IsBlock(b), WellFormed(b), NEW i \in LiveSlots(b)
  PROVE  LET c == DeleteItem(b, i) IN
         /\ IsBlock(c) /\ WellFormed(c)
         /\ LiveSlots(c) = LiveSlots(b) \ {i}
         /\ \A k \in LiveSlots(c) : GetItem(c, k) = GetItem(b, k)
<1> DEFINE c == DeleteItem(b, i)
           pos == Id(b, i).offset
           size == Id(b, i).size
           lift(k) == Lift(b, i, k)
<1>1. /\ b.head \in Int /\ b.tail \in Int /\ PageSize \in Int /\ Len(b.ids) \in Nat
      /\ b.head = HeaderSize + IdSize * Len(b.ids)
      /\ 0 <= b.tail /\ b.head <= b.tail /\ b.tail <= PageSize
      /\ Filled(b)
  BY WellFormedBounds
<1>2. /\ IsBlock(c)
      /\ Len(c.ids) = IF i = Len(b.ids) THEN i - 1 ELSE Len(b.ids)
      /\ c.head = IF i = Len(b.ids) THEN b.head - IdSize ELSE b.head
      /\ c.tail = b.tail + size
      /\ LiveSlots(c) = LiveSlots(b) \ {i}
      /\ \A k \in LiveSlots(b) \ {i} :
           Id(c, k).offset = Id(b, k).offset + lift(k) /\ Id(c, k).size = Id(b, k).size
      /\ \A x \in Offset :
           c.data[x] = IF x \in c.tail .. pos + size - 1 THEN b.data[x - size] ELSE b.data[x]
  BY DeleteItemShape
<1>3. pos \in Int /\ size \in Nat
  BY LiveSlot
<1>4. \A k \in LiveSlots(b) : /\ Id(b, k).offset \in Int /\ Id(b, k).size \in Nat
                              /\ lift(k) = IF Id(b, k).offset < pos THEN size ELSE 0
  BY LiveSlot DEF Lift
<1>5. \A x \in Int : Inside(b, i, x) <=> pos <= x /\ x < pos + size
  BY DEF Inside
<1> HIDE DEF c, pos, size, lift
<1>6. /\ \A x \in Int : (\E k \in LiveSlots(b) : Inside(b, k, x)) <=> b.tail <= x /\ x < PageSize
      /\ \A j, k \in LiveSlots(b) : \A x \in Int : Inside(b, j, x) /\ Inside(b, k, x) => j = k
  BY <1>1 DEF Filled
<1>7. size = 0 \/ (b.tail <= pos /\ pos + size <= PageSize)
  <2>1. ASSUME size # 0 PROVE b.tail <= pos /\ pos + size <= PageSize
    <3>1. Inside(b, i, pos) /\ Inside(b, i, pos + size - 1)
      BY <1>3, <1>5, <2>1
    <3>2. b.tail <= pos /\ pos + size - 1 < PageSize
      BY <1>3, <1>6, <3>1
    <3> QED
      BY <1>1, <1>3, <3>2
  <2> QED
    BY <2>1
(* An item other than i lies on one side of it.                            *)
<1>8. ASSUME NEW k \in LiveSlots(b) \ {i}, NEW x \in Int, Inside(b, k, x)
      PROVE  \/ x < pos /\ lift(k) = size
             \/ pos + size <= x /\ lift(k) = 0
  <2>1. ~Inside(b, i, x)
    BY <1>6, <1>8
  <2>2. x < pos \/ pos + size <= x
    BY <1>3, <1>5, <2>1
  <2>3. Id(b, k).offset <= x /\ x < Id(b, k).offset + Id(b, k).size
    BY <1>8 DEF Inside
  <2>4. CASE x < pos
    BY <1>3, <1>4, <2>3, <2>4
  <2>5. CASE pos + size <= x /\ size = 0
    BY <1>3, <1>4, <2>5
  <2>6. CASE pos + size <= x /\ size # 0
    <3>1. ASSUME Id(b, k).offset < pos PROVE FALSE
      <4>1. Inside(b, k, pos)
        BY <1>3, <1>4, <2>3, <2>6, <3>1 DEF Inside
      <4>2. Inside(b, i, pos)
        BY <1>3, <1>5, <2>6
      <4> QED
        BY <1>3, <1>6, <4>1, <4>2
    <3> QED
      BY <1>4, <2>6, <3>1
  <2> QED
    BY <2>2, <2>4, <2>5, <2>6
<1>9. ASSUME NEW k \in LiveSlots(b) \ {i}, NEW x \in Int
      PROVE  Inside(c, k, x) <=> Inside(b, k, x - lift(k))
  <2>1. /\ Id(c, k).offset = Id(b, k).offset + lift(k) /\ Id(c, k).size = Id(b, k).size
        /\ Id(b, k).offset \in Int /\ Id(b, k).size \in Nat /\ lift(k) \in Int
    BY <1>2, <1>3, <1>4
  <2> QED
    BY <2>1 DEF Inside
<1>10. \A k \in LiveSlots(b) : lift(k) \in Int
  BY <1>3, <1>4
<1>11. Filled(c)
  <2>1. c.tail <= PageSize /\ c.tail \in Int
    BY <1>1, <1>2, <1>3, <1>7
  <2>2. ASSUME NEW x \in Int, NEW k \in LiveSlots(c), Inside(c, k, x)
        PROVE  /\ c.tail <= x /\ x < PageSize
               /\ \/ x < pos + size /\ lift(k) = size
                  \/ pos + size <= x /\ lift(k) = 0
    <3> DEFINE y == x - lift(k)
    <3>1. k \in LiveSlots(b) \ {i} /\ y \in Int
      BY <1>2, <1>10
    <3>2. Inside(b, k, y)
      BY <1>9, <2>2, <3>1
    <3>3. b.tail <= y /\ y < PageSize
      BY <1>6, <3>1, <3>2
    <3>4. (y < pos /\ lift(k) = size) \/ (pos + size <= y /\ lift(k) = 0)
      BY <1>8, <3>1, <3>2
    <3> QED
      BY <1>1, <1>2, <1>3, <1>7, <3>3, <3>4
  <2>3. ASSUME NEW x \in Int, c.tail <= x, x < PageSize
        PROVE  \E k \in LiveSlots(c) : Inside(c, k, x)
    <3>1. CASE x < pos + size
      <4>1. x - size \in Int /\ b.tail <= x - size /\ x - size < PageSize /\ x - size < pos
        BY <1>1, <1>2, <1>3, <2>1, <2>3, <3>1
      <4>2. PICK k \in LiveSlots(b) : Inside(b, k, x - size)
        BY <1>6, <4>1
      <4>3. k # i
        BY <1>3, <1>5, <4>1, <4>2
      <4>4. lift(k) = size
        BY <1>3, <1>8, <4>1, <4>2, <4>3
      <4> QED
        BY <1>2, <1>9, <4>2, <4>3, <4>4
    <3>2. CASE pos + size <= x
      <4>1. b.tail <= x
        BY <1>1, <1>2, <1>3, <2>1, <2>3
      <4>2. PICK k \in LiveSlots(b) : Inside(b, k, x)
        BY <1>6, <2>3, <4>1
      <4>3. k # i
        BY <1>3, <1>5, <3>2, <4>2
      <4>4. lift(k) = 0
        BY <1>3, <1>8, <3>2, <4>2, <4>3
      <4>5. x - lift(k) = x
        BY <4>4
      <4> QED
        BY <1>2, <1>9, <4>2, <4>3, <4>5
    <3> QED
      BY <1>3, <3>1, <3>2
  <2>4. ASSUME NEW j \in LiveSlots(c), NEW k \in LiveSlots(c), NEW x \in Int,
               Inside(c, j, x), Inside(c, k, x)
        PROVE  j = k
    <3>1. lift(j) = lift(k)
      BY <1>3, <2>2, <2>4
    <3>2. j \in LiveSlots(b) \ {i} /\ k \in LiveSlots(b) \ {i} /\ x - lift(j) \in Int
      BY <1>2, <1>10
    <3>3. Inside(b, j, x - lift(j)) /\ Inside(b, k, x - lift(j))
      BY <1>9, <2>4, <3>1, <3>2
    <3> QED
      BY <1>6, <3>2, <3>3
  <2> QED
    BY <2>1, <2>2, <2>3, <2>4 DEF Filled
<1>12. ASSUME NEW k \in LiveSlots(c) PROVE GetItem(c, k) = GetItem(b, k)
  <2>1. k \in LiveSlots(b) \ {i}
    BY <1>2
  <2>2. ASSUME NEW x \in Int, Inside(b, k, x)
        PROVE  b.data[x] = c.data[x + lift(k)]
    <3>1. (x < pos /\ lift(k) = size) \/ (pos + size <= x /\ lift(k) = 0)
      BY <1>8, <2>1, <2>2
    <3>2. b.tail <= x /\ x < PageSize
      BY <1>6, <2>1, <2>2
    <3>3. CASE x < pos /\ lift(k) = size
      <4>1. x + size \in Offset /\ x + size \in c.tail .. pos + size - 1
        BY <1>1, <1>2, <1>3, <1>7, <3>2, <3>3 DEF Offset
      <4>2. (x + size) - size = x
        BY <1>3
      <4> QED
        BY <1>2, <3>3, <4>1, <4>2
    <3>4. CASE pos + size <= x /\ lift(k) = 0
      <4>1. x \in Offset /\ x \notin c.tail .. pos + size - 1 /\ x + lift(k) = x
        BY <1>1, <1>2, <1>3, <3>2, <3>4 DEF Offset
      <4> QED
        BY <1>2, <4>1
    <3> QED
      BY <3>1, <3>3, <3>4
  <2>3. Id(c, k).size = Id(b, k).size /\ Id(c, k).offset - Id(b, k).offset = lift(k)
    <3>1. /\ Id(c, k).offset = Id(b, k).offset + lift(k) /\ Id(c, k).size = Id(b, k).size
          /\ Id(b, k).offset \in Int /\ lift(k) \in Int
      BY <1>2, <1>4, <1>10, <2>1
    <3> QED
      BY <3>1
  <2> QED
    BY <1>2, <2>1, <2>2, <2>3, ItemBytes
<1>13. WellFormed(c)
  <2>1. IdSize \in Nat /\ HeaderSize \in Nat
    BY LayoutAssumption
  <2>2. c.head = HeaderSize + IdSize * Len(c.ids)
    <3>1. CASE i = Len(b.ids)
      <4>1. IdSize * (Len(b.ids) - 1) = IdSize * Len(b.ids) - IdSize
        BY <1>1, <2>1
      <4>2. IdSize * Len(b.ids) \in Int
        BY <1>1, <2>1
      <4> QED
        BY <1>1, <1>2, <2>1, <3>1, <4>1, <4>2
    <3>2. CASE i # Len(b.ids)
      BY <1>1, <1>2, <3>2
    <3> QED
      BY <3>1, <3>2
  <2>3. c.head <= c.tail
    BY <1>1, <1>2, <1>3, <2>1
  <2> QED
    BY <1>2, <1>11, <2>2, <2>3, WellFormedFilled
<1> QED
  BY <1>2, <1>12, <1>13 DEF c

-----------------------------------------------------------------------------
(* The invariant: both safety properties at once, since a map that is      *)
(* exact is what keeps new_item from being asked for too much.             *)
BlocksTyped ==
  /\ \E S : blocks \in Seq(S)
  /\ Len(blocks) <= MaxBlocks
  /\ \A b \in 1 .. Len(blocks) : IsBlock(blocks[b])

IInv == BlocksTyped /\ BlocksWellFormed /\ FsmExact

LEMMA BlocksLength == BlocksTyped => Len(blocks) \in Nat
  BY LenProperties DEF BlocksTyped

LEMMA Appended ==
  ASSUME NEW S, NEW s \in Seq(S), NEW x
  PROVE  LET t == Append(s, x) IN
         /\ \E T : t \in Seq(T)
         /\ Len(t) = Len(s) + 1
         /\ \A k \in 1 .. Len(s) : t[k] = s[k]
         /\ t[Len(s) + 1] = x
<1> DEFINE T == S \cup {x}
<1>1. s \in Seq(T)
  <2> DEFINE n == Len(s)
  <2>1. n \in Nat /\ s \in [1 .. n -> T]
    BY LenProperties
  <2> HIDE DEF n
  <2> QED
    BY <2>1, SeqDef
<1>2. x \in T
  OBVIOUS
<1> HIDE DEF T
<1> QED
  BY <1>1, <1>2, AppendProperties

-----------------------------------------------------------------------------
LEMMA SizeOfBlock ==
  ASSUME NEW b, IsBlock(b) PROVE BlockSize(b) \in Int
  BY LayoutAssumption DEF IsBlock, BlockSize, Space

(* A block the map offers has room for the record.                         *)
LEMMA Offered ==
  ASSUME IInv, NEW n \in Nat, NEW e \in Map!Candidates(fsm, n)
  PROVE  /\ e \in fsm /\ e[2] \in 1 .. Len(blocks)
         /\ e = <<BlockSize(blocks[e[2]]), e[2]>>
         /\ n <= BlockSize(blocks[e[2]])
<1>1. e \in fsm /\ e[1] >= n
  BY DEF Map!Candidates
<1>2. PICK b \in 1 .. Len(blocks) : e = <<BlockSize(blocks[b]), b>>
  BY <1>1 DEF IInv, FsmExact
<1>3. BlockSize(blocks[b]) \in Int
  BY SizeOfBlock DEF IInv, BlocksTyped
<1> QED
  BY <1>1, <1>2, <1>3

(* If the map offers nothing, no block has room.                           *)
LEMMA NothingOffered ==
  ASSUME IInv, NEW n \in Nat, Map!Candidates(fsm, n) = {}
  PROVE  \A b \in 1 .. Len(blocks) : BlockSize(blocks[b]) < n
<1> SUFFICES ASSUME NEW b \in 1 .. Len(blocks), ~(BlockSize(blocks[b]) < n)
             PROVE  FALSE
  OBVIOUS
<1>1. \A d \in fsm : d[1] \in Int
  BY SizeOfBlock DEF IInv, BlocksTyped, FsmExact
<1> DEFINE S == {k \in Nat : k >= n /\ \E d \in fsm : d[1] = k}
<1>2. S \in SUBSET Nat
  OBVIOUS
<1>3. <<BlockSize(blocks[b]), b>> \in fsm /\ BlockSize(blocks[b]) \in Int
  BY SizeOfBlock DEF IInv, BlocksTyped, FsmExact
<1>4. BlockSize(blocks[b]) \in S
  BY <1>3
<1>5. PICK m \in S : \A k \in S : m <= k
  BY <1>2, <1>4, LeastElement
<1>6. PICK d \in fsm : d[1] >= n /\ d[1] = m
  BY <1>5
<1>7. ASSUME NEW f \in fsm, f[1] >= n PROVE d[1] <= f[1]
  BY <1>1, <1>5, <1>6, <1>7
<1>8. d \in Map!Candidates(fsm, n)
  BY <1>6, <1>7 DEF Map!Candidates
<1> QED
  BY <1>8

LEMMA NewBlock ==
  /\ IsBlock(EmptyBlock) /\ WellFormed(EmptyBlock)
  /\ LiveSlots(EmptyBlock) = {}
  /\ BlockSize(EmptyBlock) = PageSize - HeaderSize - IdSize
<1> DEFINE b == EmptyBlock
<1>1. b.ids = <<>> /\ b.head = HeaderSize /\ b.tail = PageSize
  BY DEF EmptyBlock
<1>2. b.data = [k \in Offset |-> b.data[k]]
  BY DEF EmptyBlock
<1>3. b = [ids |-> b.ids, head |-> b.head, tail |-> b.tail, data |-> b.data]
  BY DEF EmptyBlock
<1>4. <<>> \in Seq(ItemID) /\ Len(<<>>) = 0
  BY EmptySeq
<1> HIDE DEF b
<1>5. IsBlock(b)
  BY <1>1, <1>2, <1>3, <1>4, LayoutAssumption DEF IsBlock
<1>6. LiveSlots(b) = {} /\ FreeSlots(b) = {}
  BY <1>1, <1>4 DEF LiveSlots, FreeSlots, Slots
<1>7. Filled(b)
  BY <1>1, <1>6, LayoutAssumption DEF Filled
<1>8. WellFormed(b)
  BY <1>1, <1>4, <1>5, <1>7, WellFormedFilled, LayoutAssumption
<1>9. BlockSize(b) = PageSize - HeaderSize - IdSize
  BY <1>1, <1>6, LayoutAssumption DEF BlockSize, Space
<1> QED
  BY <1>5, <1>6, <1>8, <1>9 DEF b

-----------------------------------------------------------------------------
(* A change of one block, of which the map learns, keeps the invariant.    *)
LEMMA OneBlockChanges ==
  ASSUME IInv, NEW b \in 1 .. Len(blocks), NEW new, IsBlock(new), WellFormed(new),
         blocks' = [blocks EXCEPT ![b] = new],
         fsm' = (fsm \ {<<BlockSize(blocks[b]), b>>}) \cup {<<BlockSize(new), b>>}
  PROVE  /\ IInv'
         /\ Len(blocks') = Len(blocks)
         /\ \A k \in 1 .. Len(blocks) : blocks'[k] = IF k = b THEN new ELSE blocks[k]
<1>1. /\ \E T : blocks' \in Seq(T)
      /\ Len(blocks') = Len(blocks)
      /\ \A k \in 1 .. Len(blocks) : blocks'[k] = IF k = b THEN new ELSE blocks[k]
  <2>1. PICK S : blocks \in Seq(S)
    BY DEF IInv, BlocksTyped
  <2> DEFINE n == Len(blocks)
             T == S \cup {new}
  <2>2. n \in Nat /\ blocks \in [1 .. n -> S]
    BY <2>1, LenProperties
  <2>3. blocks' \in [1 .. n -> T] /\ \A k \in 1 .. n : blocks'[k] = IF k = b THEN new ELSE blocks[k]
    BY <2>2
  <2> HIDE DEF n, T
  <2>4. blocks' \in Seq(T) /\ Len(blocks') = n
    BY <2>2, <2>3, EntriesSeq
  <2> QED
    BY <2>3, <2>4 DEF n
<1>2. BlocksTyped'
  BY <1>1 DEF IInv, BlocksTyped
<1>3. BlocksWellFormed'
  BY <1>1 DEF IInv, BlocksWellFormed
<1>4. FsmExact'
  <2>1. fsm = {<<BlockSize(blocks[k]), k>> : k \in 1 .. Len(blocks)}
    BY DEF IInv, FsmExact
  <2> DEFINE pair(k) == <<BlockSize(blocks[k]), k>>
             after(k) == <<BlockSize(blocks'[k]), k>>
  <2>2. after(b) = <<BlockSize(new), b>> /\ \A k \in 1 .. Len(blocks) : k # b => after(k) = pair(k)
    BY <1>1
  <2>3. ASSUME NEW k \in 1 .. Len(blocks), NEW j \in 1 .. Len(blocks)
        PROVE  (pair(k) = pair(j) => k = j) /\ (after(k) = after(j) => k = j)
    OBVIOUS
  <2>4. fsm' = (fsm \ {pair(b)}) \cup {after(b)}
    BY <2>2
  <2> HIDE DEF pair, after
  <2>5. fsm' = {after(k) : k \in 1 .. Len(blocks)}
    <3>1. ASSUME NEW x PROVE x \in fsm' <=> \E k \in 1 .. Len(blocks) : x = after(k)
      <4>1. x \in fsm' <=> (\E k \in 1 .. Len(blocks) : k # b /\ x = pair(k)) \/ x = after(b)
        BY <2>1, <2>3, <2>4 DEF pair
      <4> QED
        BY <2>2, <4>1
    <3> QED
      BY <3>1
  <2> QED
    BY <1>1, <2>5 DEF FsmExact, after
<1> QED
  BY <1>1, <1>2, <1>3, <1>4 DEF IInv

(* What the three operations do.                                           *)
LEMMA InsertIntoStep ==
  ASSUME IInv, NEW rec \in Record, NEW e \in Map!Candidates(fsm, Len(rec)),
         InsertInto(e, rec)
  PROVE  /\ IInv' /\ Len(blocks') = Len(blocks)
         /\ e[2] \in 1 .. Len(blocks)
         /\ rid' = <<e[2], rid'[2]>>
         /\ rid'[2] \in Slots(blocks'[e[2]]) \ LiveSlots(blocks[e[2]])
         /\ Holds(blocks'[e[2]], blocks[e[2]], rid'[2], rec)
         /\ \A k \in 1 .. Len(blocks) : k # e[2] => blocks'[k] = blocks[k]
<1> DEFINE b == e[2]
           new == NewItem(blocks[b], rec)
<1>1. Len(rec) \in Nat
  BY RecordAssumption
<1>2. /\ b \in 1 .. Len(blocks)
      /\ e = <<BlockSize(blocks[b]), b>>
      /\ Len(rec) <= BlockSize(blocks[b])
  BY <1>1, Offered
<1>3. IsBlock(blocks[b]) /\ WellFormed(blocks[b])
  BY <1>2 DEF IInv, BlocksTyped, BlocksWellFormed
<1>4. /\ blocks' = [blocks EXCEPT ![b] = new.block]
      /\ fsm' = (fsm \ {<<BlockSize(blocks[b]), b>>}) \cup {<<BlockSize(new.block), b>>}
      /\ rid' = <<b, new.idx>>
  BY <1>2 DEF InsertInto
<1>5. /\ IsBlock(new.block) /\ WellFormed(new.block)
      /\ new.idx \in Slots(new.block) \ LiveSlots(blocks[b])
      /\ Holds(new.block, blocks[b], new.idx, rec)
  BY <1>1, <1>2, <1>3, NewItemStores
<1> HIDE DEF new
<1> DEFINE nb == new.block
<1>6. /\ IInv' /\ Len(blocks') = Len(blocks)
      /\ \A k \in 1 .. Len(blocks) : blocks'[k] = IF k = b THEN nb ELSE blocks[k]
  <2> HIDE DEF b, nb
  <2>1. IsBlock(nb) /\ WellFormed(nb)
    BY <1>5 DEF nb
  <2>2. /\ blocks' = [blocks EXCEPT ![b] = nb]
        /\ fsm' = (fsm \ {<<BlockSize(blocks[b]), b>>}) \cup {<<BlockSize(nb), b>>}
    BY <1>4 DEF nb
  <2> QED
    BY <1>2, <2>1, <2>2, OneBlockChanges
<1>7. blocks'[b] = new.block
  BY <1>2, <1>6
<1> QED
  BY <1>2, <1>4, <1>5, <1>6, <1>7

LEMMA InsertAppendStep ==
  ASSUME IInv, NEW rec \in Record, InsertAppend(rec)
  PROVE  LET b == Len(blocks) + 1 IN
         /\ IInv' /\ Len(blocks') = b /\ b <= MaxBlocks
         /\ rid' = <<b, rid'[2]>>
         /\ rid'[2] \in Slots(blocks'[b])
         /\ Holds(blocks'[b], EmptyBlock, rid'[2], rec)
         /\ \A k \in 1 .. Len(blocks) : blocks'[k] = blocks[k]
<1> DEFINE b == Len(blocks) + 1
           new == NewItem(EmptyBlock, rec)
<1>1. Len(rec) \in Nat /\ Len(rec) <= BlockSize(EmptyBlock)
  BY RecordAssumption, LayoutAssumption, NewBlock
<1>2. /\ IsBlock(new.block) /\ WellFormed(new.block)
      /\ new.idx \in Slots(new.block) \ LiveSlots(EmptyBlock)
      /\ Holds(new.block, EmptyBlock, new.idx, rec)
  BY <1>1, NewBlock, NewItemStores
<1>3. /\ b <= MaxBlocks
      /\ blocks' = Append(blocks, new.block)
      /\ fsm' = fsm \cup {<<BlockSize(new.block), b>>}
      /\ rid' = <<b, new.idx>>
  BY DEF InsertAppend
<1>4. Len(blocks) \in Nat
  BY BlocksLength DEF IInv
<1> HIDE DEF new
<1>5. /\ \E T : blocks' \in Seq(T)
      /\ Len(blocks') = b
      /\ \A k \in 1 .. Len(blocks) : blocks'[k] = blocks[k]
      /\ blocks'[b] = new.block
  <2>1. PICK S : blocks \in Seq(S)
    BY DEF IInv, BlocksTyped
  <2>2. LET t == Append(blocks, new.block) IN
        /\ \E T : t \in Seq(T)
        /\ Len(t) = Len(blocks) + 1
        /\ \A k \in 1 .. Len(blocks) : t[k] = blocks[k]
        /\ t[Len(blocks) + 1] = new.block
    BY ONLY <2>1, Appended
  <2> QED
    BY ONLY <1>3, <2>2
<1>6. 1 .. Len(blocks') = (1 .. Len(blocks)) \cup {b}
  BY <1>4, <1>5
<1>7. BlocksTyped'
  BY <1>2, <1>3, <1>5, <1>6 DEF IInv, BlocksTyped
<1>8. BlocksWellFormed'
  BY <1>2, <1>5, <1>6 DEF IInv, BlocksWellFormed
<1>9. FsmExact'
  <2>1. fsm = {<<BlockSize(blocks[k]), k>> : k \in 1 .. Len(blocks)}
    BY DEF IInv, FsmExact
  <2>2. fsm' = {<<BlockSize(blocks'[k]), k>> : k \in (1 .. Len(blocks)) \cup {b}}
    <3> HIDE DEF b
    <3>1. b \notin 1 .. Len(blocks)
      BY <1>4 DEF b
    <3> QED
      BY <1>3, <1>5, <2>1, <3>1
  <2> QED
    BY <1>6, <2>2 DEF FsmExact
<1> QED
  BY <1>2, <1>3, <1>5, <1>7, <1>8, <1>9 DEF IInv

LEMMA DeleteStep ==
  ASSUME IInv, NEW b \in 1 .. Len(blocks), NEW i \in LiveSlots(blocks[b]), Delete(b, i)
  PROVE  /\ IInv' /\ Len(blocks') = Len(blocks)
         /\ LiveSlots(blocks'[b]) = LiveSlots(blocks[b]) \ {i}
         /\ \A k \in LiveSlots(blocks'[b]) : GetItem(blocks'[b], k) = GetItem(blocks[b], k)
         /\ \A k \in 1 .. Len(blocks) : k # b => blocks'[k] = blocks[k]
<1> DEFINE c == DeleteItem(blocks[b], i)
<1>1. IsBlock(blocks[b]) /\ WellFormed(blocks[b])
  BY DEF IInv, BlocksTyped, BlocksWellFormed
<1>2. /\ IsBlock(c) /\ WellFormed(c)
      /\ LiveSlots(c) = LiveSlots(blocks[b]) \ {i}
      /\ \A k \in LiveSlots(c) : GetItem(c, k) = GetItem(blocks[b], k)
  BY <1>1, DeleteItemFills
<1>3. /\ blocks' = [blocks EXCEPT ![b] = c]
      /\ fsm' = (fsm \ {<<BlockSize(blocks[b]), b>>}) \cup {<<BlockSize(c), b>>}
  BY DEF Delete
<1> HIDE DEF c
<1>4. /\ IInv' /\ Len(blocks') = Len(blocks)
      /\ \A k \in 1 .. Len(blocks) : blocks'[k] = IF k = b THEN c ELSE blocks[k]
  BY <1>2, <1>3, OneBlockChanges
<1> QED
  BY <1>2, <1>4

-----------------------------------------------------------------------------
LEMMA InvInit == Init => IInv
<1> SUFFICES ASSUME Init PROVE IInv
  OBVIOUS
<1>1. blocks \in Seq({}) /\ Len(blocks) = 0
  BY EmptySeq DEF Init
<1>2. BlocksTyped
  BY <1>1, BoundAssumption DEF BlocksTyped
<1> QED
  BY <1>1, <1>2 DEF IInv, Init, BlocksWellFormed, FsmExact

LEMMA InvNext == IInv /\ [Next]_vars => IInv'
<1> SUFFICES ASSUME IInv, [Next]_vars PROVE IInv'
  OBVIOUS
<1>1. ASSUME NEW rec \in Record, Insert(rec) PROVE IInv'
  BY <1>1, InsertIntoStep, InsertAppendStep DEF Insert
<1>2. ASSUME NEW b \in 1 .. Len(blocks), NEW i \in LiveSlots(blocks[b]), Delete(b, i)
      PROVE  IInv'
  BY <1>2, DeleteStep
<1>3. ASSUME UNCHANGED vars PROVE IInv'
  BY <1>3 DEF vars, IInv, BlocksTyped, BlocksWellFormed, FsmExact
<1> QED
  BY <1>1, <1>2, <1>3 DEF Next

LEMMA Invariance == Spec => []IInv
<1> QED
  BY InvInit, InvNext, PTL DEF Spec

(* Whatever is inserted and deleted, every block stays a well-formed       *)
(* slotted page (block.c:72-109).                                          *)
THEOREM WellFormedAlways == Spec => []BlocksWellFormed
<1>1. IInv => BlocksWellFormed
  BY DEF IInv
<1> QED
  BY Invariance, <1>1, PTL

(* The free-space map lists each block once, under the size it has now     *)
(* (table.c:51-92).                                                        *)
THEOREM FsmAlwaysExact == Spec => []FsmExact
<1>1. IInv => FsmExact
  BY DEF IInv
<1> QED
  BY Invariance, <1>1, PTL

(* The file grows only when no block of it has room (table.c:51-67).       *)
THEOREM GrowsWhenFull == Spec => GrowsOnlyWhenFull
<1> DEFINE A == \A rec \in Record :
                  Insert(rec) /\ Len(blocks') > Len(blocks) =>
                    \A b \in 1 .. Len(blocks) : BlockSize(blocks[b]) < Len(rec)
<1>1. IInv /\ [Next]_vars => [A]_vars
  <2> SUFFICES ASSUME IInv, NEW rec \in Record, Insert(rec), Len(blocks') > Len(blocks)
               PROVE  \A b \in 1 .. Len(blocks) : BlockSize(blocks[b]) < Len(rec)
    OBVIOUS
  <2>1. Len(blocks) \in Nat
    BY BlocksLength DEF IInv
  <2>2. \A e \in Map!Candidates(fsm, Len(rec)) : ~InsertInto(e, rec)
    BY <2>1, InsertIntoStep
  <2>3. Map!Candidates(fsm, Len(rec)) = {}
    BY <2>2 DEF Insert, InsertAppend
  <2>4. Len(rec) \in Nat
    BY RecordAssumption
  <2> QED
    BY <2>3, <2>4, NothingOffered
<1> QED
  BY <1>1, Invariance, PTL DEF Spec, GrowsOnlyWhenFull

-----------------------------------------------------------------------------
(* A table is a record store.  What is stored, seen from the blocks:       *)
LEMMA SlotsAreIndexes ==
  ASSUME NEW b, IsBlock(b), WellFormed(b)
  PROVE  Slots(b) \subseteq Index
<1> DEFINE n == Len(b.ids)
           room == PageSize - HeaderSize
<1>1. n \in Nat /\ HeaderSize + IdSize * n <= PageSize
  BY WellFormedBounds
<1>2. IdSize \in Nat \ {0} /\ room \in Nat
  BY LayoutAssumption
<1>3. IdSize * n \in Nat /\ IdSize * n <= room
  BY <1>1, <1>2, LayoutAssumption
<1> HIDE DEF n, room
<1>4. n <= room \div IdSize
  <2>1. room \div IdSize \in Int /\ room < IdSize * (room \div IdSize) + IdSize
    BY <1>2
  <2> DEFINE q == room \div IdSize
  <2> HIDE DEF q
  <2>2. SUFFICES ASSUME q + 1 <= n PROVE FALSE
    BY <1>1, <2>1 DEF q
  <2>3. q \in Int /\ IdSize * (q + 1) <= IdSize * n
    BY <1>1, <1>2, <2>1, <2>2 DEF q
  <2>4. IdSize * (q + 1) = IdSize * q + IdSize
    BY <1>2, <2>3
  <2>5. IdSize * q \in Int
    BY <1>2, <2>3
  <2> QED
    BY <1>2, <1>3, <2>1, <2>3, <2>4, <2>5 DEF q
<1>5. room \div IdSize \in Int
  BY <1>2
<1>6. Slots(b) = 1 .. n /\ Index = 1 .. room \div IdSize
  BY DEF Slots, Index, n, room
<1> QED
  BY <1>1, <1>4, <1>5, <1>6

Used(bs) == {r \in Rid : r[1] <= Len(bs) /\ r[2] \in LiveSlots(bs[r[1]])}

Sound(bs) ==
  /\ Len(bs) \in Nat /\ Len(bs) <= MaxBlocks
  /\ \A b \in 1 .. Len(bs) : IsBlock(bs[b]) /\ WellFormed(bs[b])

LEMMA StoredIs ==
  /\ Stored = [r \in Used(blocks) |-> GetItem(blocks[r[1]], r[2])]
  /\ Stored' = [r \in Used(blocks') |-> GetItem(blocks'[r[1]], r[2])]
  BY DEF Stored, Used

LEMMA InvSound == (IInv => Sound(blocks)) /\ (IInv' => Sound(blocks'))
  BY LenProperties DEF IInv, BlocksTyped, BlocksWellFormed, Sound

LEMMA UsedIs ==
  ASSUME NEW bs, Sound(bs)
  PROVE  \A b, i : <<b, i>> \in Used(bs) <=> b \in 1 .. Len(bs) /\ i \in LiveSlots(bs[b])
<1>1. Len(bs) \in Nat /\ Len(bs) <= MaxBlocks /\ MaxBlocks \in Nat
  BY BoundAssumption DEF Sound
<1>2. ASSUME NEW b \in 1 .. Len(bs), NEW i \in LiveSlots(bs[b]) PROVE <<b, i>> \in Rid
  <2>1. i \in Slots(bs[b])
    BY DEF LiveSlots
  <2>2. i \in Index
    BY <2>1, SlotsAreIndexes DEF Sound
  <2> QED
    BY <1>1, <2>2 DEF Rid
<1>3. ASSUME NEW b, NEW i, <<b, i>> \in Rid, b <= Len(bs) PROVE b \in 1 .. Len(bs)
  BY <1>1, <1>3 DEF Rid
<1>4. ASSUME NEW b, NEW i
      PROVE  <<b, i>> \in Used(bs) <=>
               <<b, i>> \in Rid /\ b <= Len(bs) /\ i \in LiveSlots(bs[b])
  BY DEF Used
<1>5. \A b \in 1 .. Len(bs) : b <= Len(bs)
  BY <1>1
<1> QED
  BY <1>2, <1>3, <1>4, <1>5

LEMMA UsedPairs ==
  ASSUME NEW bs, NEW r \in Used(bs) PROVE r = <<r[1], r[2]>>
  BY DEF Used, Rid

LEMMA RecordIs ==
  ASSUME NEW rec \in Record PROVE rec = [j \in 1 .. Len(rec) |-> rec[j]]
  BY RecordAssumption

(* A record is put under an index of block b that was not in use.          *)
LEMMA InsertRefines ==
  ASSUME IInv, IInv', NEW rec \in Record, NEW b, NEW i, rid' = <<b, i>>,
         b \in 1 .. Len(blocks'),
         1 .. Len(blocks') = (1 .. Len(blocks)) \cup {b},
         NEW old, b \in 1 .. Len(blocks) => blocks[b] = old,
         b \notin 1 .. Len(blocks) => LiveSlots(old) = {},
         i \notin LiveSlots(old),
         Holds(blocks'[b], old, i, rec),
         \A k \in 1 .. Len(blocks) : k # b => blocks'[k] = blocks[k]
  PROVE  Abstract!Insert(rec)
<1>1. /\ \A c, k : <<c, k>> \in Used(blocks) <=> c \in 1 .. Len(blocks) /\ k \in LiveSlots(blocks[c])
      /\ \A c, k : <<c, k>> \in Used(blocks') <=> c \in 1 .. Len(blocks') /\ k \in LiveSlots(blocks'[c])
  BY InvSound, UsedIs
<1>2. LiveSlots(blocks'[b]) = LiveSlots(old) \cup {i}
  BY DEF Holds
<1>3. /\ <<b, i>> \in Used(blocks') /\ <<b, i>> \notin Used(blocks)
  BY <1>1, <1>2
<1>4. rid' \in Rid \ DOMAIN Stored
  BY <1>3, StoredIs DEF Used
<1>5. ASSUME NEW c, NEW k
      PROVE  <<c, k>> \in Used(blocks') <=> <<c, k>> \in Used(blocks) \/ <<c, k>> = <<b, i>>
  BY <1>1, <1>2
<1>6. Used(blocks') = Used(blocks) \cup {rid'}
  BY <1>3, <1>5, UsedPairs
<1>7. ASSUME NEW c, NEW k, <<c, k>> \in Used(blocks)
      PROVE  GetItem(blocks'[c], k) = GetItem(blocks[c], k)
  BY <1>1, <1>7 DEF Holds
<1>8. GetItem(blocks'[b], i) = rec
  BY RecordIs DEF Holds
<1>9. ASSUME NEW r \in Used(blocks')
      PROVE  GetItem(blocks'[r[1]], r[2]) = IF r = rid' THEN rec ELSE Stored[r]
  <2>1. CASE r = rid'
    BY <1>8, <2>1
  <2>2. CASE r # rid'
    <3>1. r \in Used(blocks) /\ r = <<r[1], r[2]>>
      BY <1>6, <2>2, UsedPairs
    <3>2. Stored[r] = GetItem(blocks[r[1]], r[2])
      BY <3>1, StoredIs
    <3> QED
      BY <1>7, <2>2, <3>1, <3>2
  <2> QED
    BY <2>1, <2>2
<1>10. Stored' = [r \in DOMAIN Stored \cup {rid'} |-> IF r = rid' THEN rec ELSE Stored[r]]
  <2>1. DOMAIN Stored = Used(blocks)
    BY StoredIs
  <2> QED
    BY <1>6, <1>9, <2>1, StoredIs
<1> QED
  BY <1>4, <1>10 DEF Abstract!Insert

LEMMA DeleteRefines ==
  ASSUME IInv, IInv', NEW b \in 1 .. Len(blocks), NEW i \in LiveSlots(blocks[b]), Delete(b, i)
  PROVE  <<b, i>> \in Rid /\ Abstract!Delete(<<b, i>>)
<1> DEFINE r == <<b, i>>
<1>1. /\ \A c, k : <<c, k>> \in Used(blocks) <=> c \in 1 .. Len(blocks) /\ k \in LiveSlots(blocks[c])
      /\ \A c, k : <<c, k>> \in Used(blocks') <=> c \in 1 .. Len(blocks') /\ k \in LiveSlots(blocks'[c])
  BY InvSound, UsedIs
<1>2. /\ Len(blocks') = Len(blocks)
      /\ LiveSlots(blocks'[b]) = LiveSlots(blocks[b]) \ {i}
      /\ \A k \in LiveSlots(blocks'[b]) : GetItem(blocks'[b], k) = GetItem(blocks[b], k)
      /\ \A k \in 1 .. Len(blocks) : k # b => blocks'[k] = blocks[k]
  BY DeleteStep
<1>3. r \in Used(blocks) /\ r \in Rid
  BY <1>1 DEF Used
<1>4. ASSUME NEW c, NEW k
      PROVE  <<c, k>> \in Used(blocks') <=> <<c, k>> \in Used(blocks) /\ <<c, k>> # r
  BY <1>1, <1>2
<1>5. Used(blocks') = Used(blocks) \ {r}
  BY <1>4, UsedPairs
<1>6. ASSUME NEW q \in Used(blocks')
      PROVE  GetItem(blocks'[q[1]], q[2]) = Stored[q]
  <2>1. q \in Used(blocks) /\ q = <<q[1], q[2]>>
    BY <1>5, UsedPairs
  <2>2. q[1] \in 1 .. Len(blocks) /\ q[2] \in LiveSlots(blocks'[q[1]])
    BY <1>1, <2>1
  <2>3. GetItem(blocks'[q[1]], q[2]) = GetItem(blocks[q[1]], q[2])
    BY <1>2, <2>2
  <2> QED
    BY <2>1, <2>3, StoredIs
<1>7. Stored' = [q \in DOMAIN Stored \ {r} |-> Stored[q]]
  <2>1. DOMAIN Stored = Used(blocks)
    BY StoredIs
  <2> QED
    BY <1>5, <1>6, <2>1, StoredIs
<1>8. r \in DOMAIN Stored /\ UNCHANGED rid
  BY <1>3, StoredIs DEF Delete
<1>9. Abstract!Delete(r)
  BY <1>7, <1>8 DEF Abstract!Delete
<1> QED
  BY <1>3, <1>9

LEMMA InsertStores ==
  ASSUME IInv, IInv', NEW rec \in Record, Insert(rec)
  PROVE  Abstract!Insert(rec)
<1>1. ASSUME NEW e \in Map!Candidates(fsm, Len(rec)), InsertInto(e, rec)
      PROVE  Abstract!Insert(rec)
  <2> DEFINE b == e[2]
             i == rid'[2]
             old == blocks[b]
  <2>1. /\ Len(blocks') = Len(blocks) /\ b \in 1 .. Len(blocks)
        /\ rid' = <<b, i>> /\ i \notin LiveSlots(old)
        /\ Holds(blocks'[b], old, i, rec)
        /\ \A k \in 1 .. Len(blocks) : k # b => blocks'[k] = blocks[k]
    BY <1>1, InsertIntoStep
  <2>2. 1 .. Len(blocks') = (1 .. Len(blocks)) \cup {b} /\ blocks[b] = old
    BY <2>1
  <2> HIDE DEF b, i, old
  <2> QED
    BY <2>1, <2>2, InsertRefines
<1>2. ASSUME InsertAppend(rec)
      PROVE  Abstract!Insert(rec)
  <2> DEFINE b == Len(blocks) + 1
             i == rid'[2]
  <2>1. /\ Len(blocks') = b /\ rid' = <<b, i>>
        /\ Holds(blocks'[b], EmptyBlock, i, rec)
        /\ \A k \in 1 .. Len(blocks) : blocks'[k] = blocks[k]
    BY <1>2, InsertAppendStep
  <2>2. LiveSlots(EmptyBlock) = {}
    BY NewBlock
  <2>3. /\ b \in 1 .. Len(blocks') /\ b \notin 1 .. Len(blocks)
        /\ 1 .. Len(blocks') = (1 .. Len(blocks)) \cup {b}
    BY <2>1, BlocksLength DEF IInv
  <2> HIDE DEF b, i
  <2> QED
    BY <2>1, <2>2, <2>3, InsertRefines
<1> QED
  BY <1>1, <1>2 DEF Insert

LEMMA NextRefines ==
  ASSUME IInv, IInv', [Next]_vars
  PROVE  [Abstract!Next]_<<Stored, rid>>
<1>3. ASSUME NEW rec \in Record, Insert(rec) PROVE Abstract!Next
  BY <1>3, InsertStores DEF Abstract!Next
<1>4. ASSUME NEW b \in 1 .. Len(blocks), NEW i \in LiveSlots(blocks[b]), Delete(b, i)
      PROVE  Abstract!Next
  BY <1>4, DeleteRefines DEF Abstract!Next
<1>5. ASSUME UNCHANGED vars PROVE UNCHANGED <<Stored, rid>>
  BY <1>5, StoredIs DEF vars
<1> QED
  BY <1>3, <1>4, <1>5 DEF Next

LEMMA InitRefines == Init => Abstract!Init
<1> SUFFICES ASSUME Init PROVE Abstract!Init
  OBVIOUS
<1>1. Len(blocks) = 0
  BY EmptySeq DEF Init
<1>2. Used(blocks) = {}
  BY <1>1 DEF Used, Rid
<1>3. Stored = [r \in {} |-> {}]
  BY <1>2, StoredIs
<1>4. rid \notin Rid
  BY DEF Init, NoRid, Rid
<1> QED
  BY <1>3, <1>4 DEF Abstract!Init

(* Compaction, reuse of ids and the moves between the lists of the map     *)
(* never touch another record (table.c:51-92, block.c:24-109).             *)
THEOREM TableIsRecordStore == Spec => ImplementsRecordStore
<1>1. Init => Abstract!Init
  BY InitRefines
<1>2. IInv /\ IInv' /\ [Next]_vars => [Abstract!Next]_<<Stored, rid>>
  BY NextRefines
<1> QED
  BY <1>1, <1>2, Invariance, PTL DEF Spec, ImplementsRecordStore, Abstract!Spec
=============================================================================
