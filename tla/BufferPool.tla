----------------------------- MODULE BufferPool -----------------------------
(***************************************************************************)
(* The page cache of myjql/src/buffer_pool.c over the page file of         *)
(* myjql/src/file_io.c: CACHE_PAGE frames, each with the page address it   *)
(* holds, a pin count and an "updated" mark.  get_page pins, release       *)
(* unpins and writes the page through, close_buffer_pool writes every      *)
(* frame.                                                                  *)
(*                                                                         *)
(* A page address is its offset divided by PAGE_SIZE.  The only address    *)
(* that is not a multiple of PAGE_SIZE that callers pass is -1 (the parent *)
(* of a B-tree root): read_page and write_page refuse it with              *)
(* INVALID_ADDR, and get_page then parks it on a frame all the same.       *)
(*                                                                         *)
(* held and ptr are the callers' side: how often each address is held and  *)
(* the frame get_page returned for it.  Callers may release a page they do *)
(* not hold (RecursiveInsert does, b_tree.c:113 and 147) but they write    *)
(* only through the pointer of a page they hold.                           *)
(***************************************************************************)
EXTENDS Integers

CONSTANTS
  CachePage,   \* CACHE_PAGE
  MaxPages,    \* bound on the length of the file, in pages
  MaxPins,     \* bound on how often one page is held at a time
  Data,        \* page contents
  EmptyPage    \* EMPTY_PAGE

ASSUME SizeAssumption ==
  /\ CachePage \in Nat \ {0}
  /\ MaxPages \in Nat
  /\ MaxPins \in Nat
ASSUME DataAssumption == EmptyPage \in Data

Frame == 1 .. CachePage
Page == 0 .. MaxPages - 1
NoPage == -1
Addr == Page \cup {NoPage}
NoFrame == 0          \* a NULL pointer

VARIABLES
  open,        \* between init_buffer_pool and close_buffer_pool
  length,      \* file.length, in pages
  disk,        \* the file
  addrs, ref, upd, pages,   \* the frames
  held, ptr    \* the callers' pins and pointers

frames == <<addrs, ref, upd, pages>>
callers == <<held, ptr>>
vars == <<open, length, disk, frames, callers>>

-----------------------------------------------------------------------------
First(i, S) == i \in S /\ \A j \in S : i <= j

(* The file after write_page on each frame of S in turn.  A page of the    *)
(* cache lies inside the file (InFile below), so no such write appends.    *)
WriteFrames(S) ==
  [a \in Page |->
     IF \E i \in S : addrs[i] = a
     THEN pages[CHOOSE i \in S : /\ addrs[i] = a
                                 /\ \A j \in S : addrs[j] = a => j <= i]
     ELSE disk[a]]

EmptyPool ==
  /\ addrs' = [i \in Frame |-> NoPage]
  /\ ref' = [i \in Frame |-> 0]
  /\ upd' = [i \in Frame |-> FALSE]
  /\ pages' = [i \in Frame |-> EmptyPage]

NoPins ==
  /\ held' = [a \in Addr |-> 0]
  /\ ptr' = [a \in Addr |-> NoFrame]

Init ==   \* init_buffer_pool on a file that does not exist yet
  /\ open = TRUE
  /\ length = 0
  /\ disk = [a \in Page |-> EmptyPage]
  /\ addrs = [i \in Frame |-> NoPage]
  /\ ref = [i \in Frame |-> 0]
  /\ upd = [i \in Frame |-> FALSE]
  /\ pages = [i \in Frame |-> EmptyPage]
  /\ held = [a \in Addr |-> 0]
  /\ ptr = [a \in Addr |-> NoFrame]

-----------------------------------------------------------------------------
(* The frames that hold address a, and those get_page may evict.           *)
Hits_SkipsLast(a) == {i \in Frame : addrs[i] = a /\ i # CachePage}
Hits(a) == {i \in Frame : addrs[i] = a}
Victims_IgnoresPins == Frame
Victims == {i \in Frame : ref[i] = 0}

(* The caller's side of a get_page that returned frame i.                  *)
Hold(a, i) ==
  /\ held' = [held EXCEPT ![a] = @ + 1]
  /\ ptr' = [ptr EXCEPT ![a] = i]

GetPageHit(a) ==
  \E i \in Frame :
    /\ First(i, Hits(a))
    /\ ref' = [ref EXCEPT ![i] = @ + 1]
    /\ Hold(a, i)
    /\ UNCHANGED <<open, length, disk, addrs, upd, pages>>

(* read_page of address a into frame i: refused outside the file.          *)
ReadPage(a, i, file) == IF a \in 0 .. length - 1 THEN file[a] ELSE pages[i]

(* The first unpinned frame is flushed if it was marked, then filled.  The *)
(* page at the end of the file is appended with whatever bytes the frame   *)
(* held before; NoPage leaves the frame's bytes alone.                     *)
GetPageMiss(a) ==
  /\ Hits(a) = {}
  /\ \E i \in Frame :
       /\ First(i, Victims)
       /\ LET flushed == IF upd[i] THEN WriteFrames({i}) ELSE disk
          IN /\ pages' = [pages EXCEPT ![i] = ReadPage(a, i, flushed)]
             /\ disk' = IF a = length THEN [flushed EXCEPT ![a] = pages[i]]
                                      ELSE flushed
       /\ length' = IF a = length THEN length + 1 ELSE length
       /\ addrs' = [addrs EXCEPT ![i] = a]
       /\ ref' = [ref EXCEPT ![i] = @ + 1]
       /\ upd' = [upd EXCEPT ![i] = FALSE]
       /\ Hold(a, i)
       /\ UNCHANGED open

(* Every frame is pinned: get_page returns NULL.                           *)
GetPageNull(a) ==
  /\ Hits(a) = {}
  /\ Victims = {}
  /\ UNCHANGED vars

(* Callers ask for a page of the file, for the page just past its end      *)
(* (CreateNewNode, table_insert, hash_table_pop's free_block_last), or for *)
(* the parent of a root.                                                   *)
GetPage(a) ==
  /\ open
  /\ a <= length
  /\ held[a] < MaxPins
  /\ GetPageHit(a) \/ GetPageMiss(a) \/ GetPageNull(a)

ReleasedFrames_Unwritten(a) == {}
ReleasedFrames(a) == {i \in Frame : addrs[i] = a /\ ref[i] > 0}

UnpinnedRef_Unguarded(a) == [i \in Frame |-> IF addrs[i] = a THEN ref[i] - 1 ELSE ref[i]]
UnpinnedRef(a) ==
  [i \in Frame |-> IF addrs[i] = a /\ ref[i] > 0 THEN ref[i] - 1 ELSE ref[i]]

(* release: unpin and write through.  The loop visits every frame with     *)
(* that address and does nothing to a frame that is not pinned.            *)
Release(a) ==
  /\ open
  /\ disk' = WriteFrames(ReleasedFrames(a))
  /\ ref' = UnpinnedRef(a)
  /\ upd' = [i \in Frame |-> IF addrs[i] = a THEN FALSE ELSE upd[i]]
  /\ held' = [held EXCEPT ![a] = IF @ > 0 THEN @ - 1 ELSE 0]
  /\ ptr' = [ptr EXCEPT ![a] = IF held[a] > 1 THEN @ ELSE NoFrame]
  /\ UNCHANGED <<open, length, addrs, pages>>

(* update: mark the frames of a page for a write at eviction.              *)
Update(a) ==
  /\ open
  /\ upd' = [i \in Frame |-> upd[i] \/ addrs[i] = a]
  /\ UNCHANGED <<open, length, disk, addrs, ref, pages, callers>>

(* A caller stores through the pointer of a page it holds.                 *)
Store(a) ==
  /\ open
  /\ held[a] > 0
  /\ \E d \in Data : pages' = [pages EXCEPT ![ptr[a]] = d]
  /\ UNCHANGED <<open, length, disk, addrs, ref, upd, callers>>

ClosedFrames_PinnedOnly == {i \in Frame : ref[i] > 0 /\ upd[i]}
ClosedFrames == Frame

(* close_buffer_pool: every frame is written, whatever its pin count.      *)
Close ==
  /\ open
  /\ open' = FALSE
  /\ disk' = WriteFrames(ClosedFrames)
  /\ EmptyPool
  /\ NoPins
  /\ UNCHANGED length

(* init_buffer_pool on the file that close_buffer_pool left.               *)
Reopen ==
  /\ ~open
  /\ open' = TRUE
  /\ UNCHANGED <<length, disk, frames, callers>>

Next ==
  \/ \E a \in Addr : GetPage(a) \/ Release(a) \/ Update(a) \/ Store(a)
  \/ Close
  \/ Reopen

Spec == Init /\ [][Next]_vars

-----------------------------------------------------------------------------
TypeOK ==
  /\ open \in BOOLEAN
  /\ length \in 0 .. MaxPages
  /\ disk \in [Page -> Data]
  /\ addrs \in [Frame -> Addr]
  /\ ref \in [Frame -> Nat]
  /\ upd \in [Frame -> BOOLEAN]
  /\ pages \in [Frame -> Data]
  /\ held \in [Addr -> Nat]
  /\ ptr \in [Addr -> Frame \cup {NoFrame}]

InFile == \A i \in Frame : addrs[i] < length

(* No page has two frames: a second copy would be the one a later get_page *)
(* misses and the one release writes last (the loop of release visits all  *)
(* frames of an address).                                                  *)
OneFramePerPage ==
  \A i, j \in Frame : addrs[i] = addrs[j] /\ addrs[i] # NoPage => i = j

(* The pin counts are exactly the callers' holds, and the pointer a caller *)
(* got still points at the page it asked for: get_page never evicts a page *)
(* under a caller, not even after releases too many (buffer_pool.c:64, 96) *)
PointersValid ==
  /\ \A a \in Addr : held[a] > 0 =>
       ptr[a] \in Frame /\ addrs[ptr[a]] = a /\ ref[ptr[a]] = held[a]
  /\ \A i \in Frame : ref[i] > 0 =>
       held[addrs[i]] = ref[i] /\ ptr[addrs[i]] = i

(* A page nobody holds is on disk as it is in its frame, so evicting it    *)
(* without the updated mark (buffer_pool.c:66) loses nothing.              *)
UnpinnedIsClean ==
  \A i \in Frame : ref[i] = 0 /\ addrs[i] # NoPage => pages[i] = disk[addrs[i]]

(* What makes the above inductive: of the frames parked at NoPage only the *)
(* first, the one get_page finds, is ever pinned.                          *)
PinnedIsFirst ==
  \A i, j \in Frame : ref[j] > 0 /\ addrs[i] = addrs[j] => j <= i

IInv ==
  /\ TypeOK
  /\ InFile
  /\ OneFramePerPage
  /\ PinnedIsFirst
  /\ PointersValid
  /\ UnpinnedIsClean

(* The content of a page, wherever it is.                                  *)
Content(a) ==
  IF a >= length THEN EmptyPage
  ELSE IF \E i \in Frame : addrs[i] = a
       THEN pages[CHOOSE i \in Frame : addrs[i] = a]
       ELSE disk[a]

Abstract == INSTANCE PageStore WITH
  size <- length,
  store <- [a \in Page |-> Content(a)],
  pins <- [a \in Page |-> held[a]]

(* The pool with its evictions, write-backs, reopenings and excess         *)
(* releases is one content per page that only holders change.              *)
ImplementsPageStore == Abstract!Spec
=============================================================================
