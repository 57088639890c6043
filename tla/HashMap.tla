------------------------------ MODULE HashMap ------------------------------
(***************************************************************************)
(* The free-space map of myjql/src/hash_map.c: a page file in which page 0 *)
(* is the control block, pages 1 .. NDirs are the directory, indexed by    *)
(* size, and the other pages are blocks of Capacity addresses, chained per *)
(* size or waiting in the free list.                                       *)
(*                                                                         *)
(* A page is its W words.  Pointers to pages of this file are page numbers *)
(* (offset / PAGE_SIZE); 0 is both the null pointer and the control block. *)
(* Sizes are C shorts divided by a size_t, so a negative size wraps, and   *)
(* the page and word it selects are computed with that width: the blocks   *)
(* a table has filled to the last byte or two are listed under the sizes   *)
(* -4 .. -1 of block.c:119, in unused words of the control block.          *)
(*                                                                         *)
(* The buffer pool appears as one content per page (PageStore).  The page  *)
(* just past the end of the file is created by the first get_page of it,   *)
(* with the stale bytes of an unpinned frame.                              *)
(***************************************************************************)
EXTENDS Integers

CONSTANTS
  W,          \* HASH_MAP_DIR_BLOCK_SIZE: words in a page
  OffSize,    \* sizeof(off_t)
  SizeBits,   \* bits of a size_t
  Capacity,   \* HASH_MAP_BLOCK_SIZE: addresses in a block, W - 2 in the code
  NBlocks,    \* blocks hash_table_init creates (200000)
  Size,       \* the sizes callers list blocks under
  Request,    \* the sizes callers ask for
  Block       \* the addresses listed: blocks of the data file

PageSize == W * OffSize
NDirs == PageSize \div W          \* n_directory_blocks, as table_init passes it
MaxSize == W * NDirs
FirstBlock == NDirs + 1
Sentinel == FirstBlock + NBlocks  \* free_block_last: one past the last block
NoBlock == -1

ASSUME ParameterAssumption ==
  /\ W \in Nat /\ W >= 8 /\ OffSize \in Nat \ {0}
  /\ Capacity \in 1 .. W - 2
  /\ NBlocks \in Nat \ {0}
  /\ SizeBits \in Nat /\ PageSize * PageSize < 2 ^ SizeBits
  /\ 2 ^ SizeBits % PageSize = 0
  /\ Size \subseteq -4 .. MaxSize - 1
  /\ Request \subseteq 0 .. MaxSize - 1
  /\ Block \subseteq Nat

(* Words of the control block.                                             *)
HEAD == 0
NDIRS_AtTheEnd == W - 1
NDIRS == 1
MAXSIZE == 2
LAST == 3

(* Words of a bucket block.                                                *)
NEXT == 0
NITEMS == 1
TABLE == 2

VARIABLES pages,     \* page number -> word -> value
          out,       \* the last answer of hash_table_pop_lower_bound
          spinning   \* a call entered a loop it cannot leave

vars == <<pages, out, spinning>>

Word == 0 .. W - 1
EmptyPage == [w \in Word |-> 0]
Pages == DOMAIN pages

-----------------------------------------------------------------------------
(* The directory word of a size: (size / W + 1) * PAGE_SIZE and size % W   *)
(* in size_t arithmetic.                                                   *)
Unsigned(n) == n % (2 ^ SizeBits)
DirPage(s) == (Unsigned(s) \div W + 1) % (2 ^ SizeBits \div PageSize)
DirWord(s) == Unsigned(s) % W
Directory(s) == pages[DirPage(s)][DirWord(s)]

NItems(p) == pages[p][NITEMS]
Items(p) == {pages[p][TABLE + i] : i \in 0 .. NItems(p) - 1}

(* The blocks reached from p through next, not going past block stop.      *)
Reached(pg, stop, near) == (near \cup {pg[q][NEXT] : q \in near \ {stop}}) \ {0}
Walk(pg, p, stop) ==
  LET reach[k \in 0 .. NBlocks + 1] ==
        IF k = 0 THEN {p} \ {0} ELSE Reached(pg, stop, reach[k - 1])
  IN reach[NBlocks + 1]
Chain(p) == Walk(pages, p, 0)
Tails(p) == {q \in Chain(p) : pages[q][NEXT] = 0}

(* hash_table_insert and hash_table_pop_lower_bound step to the next block *)
(* only from a full one, and otherwise test the same block again.          *)
Stuck(p) ==
  \/ Tails(p) = {}
  \/ \E q \in Chain(p) : pages[q][NEXT] # 0 /\ NItems(q) # Capacity

(* The file as get_page(p) leaves it: the sentinel page may be new.        *)
Touch(p, pinned) ==
  IF p \in Pages THEN {pages}
  ELSE {[q \in Pages \cup {p} |-> IF q = p THEN stale ELSE pages[q]] :
          stale \in {EmptyPage} \cup {pages[q] : q \in Pages \ pinned}}

-----------------------------------------------------------------------------
Init ==   \* hash_table_init on an empty file
  /\ pages = [p \in 0 .. Sentinel - 1 |->
       IF p = 0 THEN [w \in Word |-> CASE w = HEAD -> FirstBlock
                                       [] w = NDIRS -> NDirs
                                       [] w = MAXSIZE -> MaxSize
                                       [] w = LAST -> Sentinel
                                       [] OTHER -> 0]
       ELSE IF p \in FirstBlock .. Sentinel - 1
            THEN [EmptyPage EXCEPT ![NEXT] = p + 1]
            ELSE EmptyPage]
  /\ out = NoBlock
  /\ spinning = FALSE

Hang ==
  /\ spinning' = TRUE
  /\ UNCHANGED <<pages, out>>

(* Take block p off the free list and start it with address b.             *)
StartBlock_KeepsHead(pg, p, b) ==
  [pg EXCEPT ![p][NEXT] = 0, ![p][TABLE] = b, ![p][NITEMS] = @ + 1]
StartBlock(pg, p, b) ==
  [pg EXCEPT ![0][HEAD] = pg[p][NEXT], ![p][NEXT] = 0,
             ![p][TABLE] = b, ![p][NITEMS] = @ + 1]

InsertFirst(s, b) ==
  LET p == pages[0][HEAD] IN
  /\ Directory(s) = 0
  /\ \E pg \in Touch(p, {0, DirPage(s)}) :
       pages' = StartBlock([pg EXCEPT ![DirPage(s)][DirWord(s)] = p], p, b)

TailFull_OneEarly(tail) == NItems(tail) = Capacity - 1
TailFull_OneLate(tail) == NItems(tail) > Capacity
TailFull(tail) == NItems(tail) = Capacity

(* The tail of the chain takes the address, or gets a successor for it.    *)
InsertMore(s, b) ==
  \E tail \in Tails(Directory(s)) :
    IF TailFull(tail)
    THEN LET p == pages[0][HEAD] IN
         \E pg \in Touch(p, {0, DirPage(s)}) :
           pages' = StartBlock([pg EXCEPT ![tail][NEXT] = p], p, b)
    ELSE pages' = [pages EXCEPT ![tail][TABLE + NItems(tail)] = b,
                                ![tail][NITEMS] = @ + 1]

Insert(s, b) ==
  IF Directory(s) # 0 /\ Stuck(Directory(s)) THEN Hang
  ELSE /\ InsertFirst(s, b) \/ (Directory(s) # 0 /\ InsertMore(s, b))
       /\ UNCHANGED <<out, spinning>>

(* hash_table_pop past its early return: the tail's last address replaces  *)
(* the popped one.  A tail that became empty is unlinked; it does not go   *)
(* back to the free list, and the sentinel's next is pointed at the block  *)
(* that held the popped address.                                           *)
Unlink(pg, s, tail) ==
  IF Directory(s) = tail
  THEN [pg EXCEPT ![DirPage(s)][DirWord(s)] = 0]
  ELSE [pg EXCEPT ![CHOOSE q \in Chain(Directory(s)) : pages[q][NEXT] = tail][NEXT] = 0]

RemoveAt_DropsLast(s, target, i, tail) ==
  pages' = [pages EXCEPT ![tail][NITEMS] = @ - 1]
RemoveAt_KeepsEmpty(s, target, i, tail) ==
  LET last == NItems(tail) - 1
  IN pages' = [pages EXCEPT ![target][TABLE + i] = pages[tail][TABLE + last],
                            ![tail][TABLE + last] = 0,
                            ![tail][NITEMS] = last]
RemoveAt(s, target, i, tail) ==
  LET last == NItems(tail) - 1
      moved(pg) == [pg EXCEPT ![target][TABLE + i] = pages[tail][TABLE + last],
                              ![tail][TABLE + last] = 0,
                              ![tail][NITEMS] = last]
  IN IF last > 0 THEN pages' = moved(pages)
     ELSE \E pg \in Touch(pages[0][LAST], {0, DirPage(s), tail, target}) :
            pages' = [Unlink(moved(pg), s, tail) EXCEPT
                        ![tail][NEXT] = 0,
                        ![pages[0][LAST]][NEXT] = target]

Remove(s, b) ==
  \E tail \in Tails(Directory(s)), target \in Chain(Directory(s)) :
    \E i \in 0 .. NItems(target) - 1 :
      /\ pages[target][TABLE + i] = b
      /\ RemoveAt(s, target, i, tail)

ListedUnder(s) == UNION {Items(p) : p \in Chain(Directory(s))}

Pop(s, b) ==
  IF Directory(s) # 0 /\ Tails(Directory(s)) = {} THEN Hang
  ELSE /\ IF b \in ListedUnder(s) THEN Remove(s, b) ELSE UNCHANGED pages
       /\ UNCHANGED <<out, spinning>>

(* The scan of hash_table_pop_lower_bound over the directory.              *)
Found(s) == {i \in s .. pages[0][MAXSIZE] - 1 : Directory(i) # 0}

PopLowerBound(s) ==
  \/ /\ Found(s) = {}
     /\ out' = NoBlock
     /\ UNCHANGED <<pages, spinning>>
  \/ \E i \in Found(s) :
       /\ \A j \in Found(s) : i <= j
       /\ IF Stuck(Directory(i)) THEN Hang
          ELSE \E tail \in Tails(Directory(i)) :
                 LET b == pages[tail][TABLE + NItems(tail) - 1] IN
                 /\ Remove(i, b)
                 /\ out' = b
                 /\ UNCHANGED spinning

-----------------------------------------------------------------------------
(* The pairs the map lists.                                                *)
Contents == UNION {{s} \times ListedUnder(s) : s \in Size}

(* The callers list an address once (hash_map.h:41).                       *)
Unlisted(b) == \A s \in Size : b \notin ListedUnder(s)

Others ==
  \/ \E s \in Size, b \in Block : Pop(s, b)
  \/ \E s \in Request : PopLowerBound(s)

(* A block that was taken never comes back, so the map lives as long as    *)
(* hash_table_init's supply of blocks does.                                *)
Supplied(s) ==
  \/ pages[0][HEAD] # Sentinel
  \/ \E tail \in Tails(Directory(s)) : NItems(tail) < Capacity

Next ==
  /\ ~spinning
  /\ \/ \E s \in Size, b \in Block : Unlisted(b) /\ Supplied(s) /\ Insert(s, b)
     \/ Others

Spec == Init /\ [][Next]_vars

-----------------------------------------------------------------------------
TypeOK ==
  /\ Pages \in {0 .. Sentinel - 1, 0 .. Sentinel}
  /\ \A p \in Pages : pages[p] \in [Word -> Int]
  /\ \A p \in FirstBlock .. Sentinel - 1 : NItems(p) \in 0 .. Capacity
  /\ out \in Block \cup {NoBlock}
  /\ spinning \in BOOLEAN

Chained(s) == Chain(Directory(s))
FreeList == Walk(pages, pages[0][HEAD], Sentinel) \ {Sentinel}

(* Every block of a chain but the last is full, and the last is not empty: *)
(* the loops of hash_map.c:72-80 and 122-130 leave a block only when it is *)
(* full, and hash_map.c:132 reads the last address of the tail.            *)
ChainsPacked ==
  \A s \in Size : Directory(s) # 0 =>
    /\ Tails(Directory(s)) # {}
    /\ \A p \in Chained(s) : IF pages[p][NEXT] = 0
                              THEN NItems(p) \in 1 .. Capacity
                              ELSE NItems(p) = Capacity

(* No call loops for ever.                                                 *)
NeverSpins == ~spinning

(* A block belongs to one size, or to the free list, where it is empty, or *)
(* to nobody; the control block, the directory and the sentinel are never  *)
(* handed out as blocks.                                                   *)
OneOwner ==
  /\ \A s, t \in Size : s # t => Chained(s) \cap Chained(t) = {}
  /\ \A s \in Size : Chained(s) \subseteq FirstBlock .. Sentinel - 1
  /\ \A s \in Size : Chained(s) \cap FreeList = {}
  /\ FreeList \subseteq FirstBlock .. Sentinel - 1
  /\ \A p \in FreeList : NItems(p) = 0

(* The directory words of the sizes a table can produce, the wrapped       *)
(* negative ones included, are distinct and spare the control block's own  *)
(* fields (hash_map.c:54-59 with block.c:119).                             *)
ControlIntact ==
  /\ pages[0][NDIRS] = NDirs
  /\ pages[0][MAXSIZE] = MaxSize
  /\ pages[0][LAST] = Sentinel

Abstract == INSTANCE SpaceIndex WITH free <- Contents

(* Chains, moves within them, unlinked blocks and wrapped sizes together   *)
(* are a set of pairs: no address is lost, doubled or listed under another *)
(* size, and the scan finds one of the least sufficient size.              *)
ImplementsSpaceIndex == Abstract!Spec
=============================================================================
