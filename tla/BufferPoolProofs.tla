-------------------------- MODULE BufferPoolProofs --------------------------
(***************************************************************************)
(* Theorems about BufferPool, for every number of frames, pages and pins.  *)
(***************************************************************************)
EXTENDS BufferPool, TLAPS

USE SizeAssumption, DataAssumption DEF Frame, Page, Addr, NoPage, NoFrame

(* Writing frames of a cache without duplicates: each page takes the bytes *)
(* of its frame, and every other page keeps its own (file_io.c:50-68).     *)
LEMMA WriteFramesValue ==
  ASSUME TypeOK, OneFramePerPage, NEW S \in SUBSET Frame
  PROVE  /\ WriteFrames(S) \in [Page -> Data]
         /\ \A i \in S : addrs[i] \in Page => WriteFrames(S)[addrs[i]] = pages[i]
         /\ \A a \in Page : (\A i \in S : addrs[i] # a) => WriteFrames(S)[a] = disk[a]
<1>1. ASSUME NEW a \in Page, NEW i \in S, addrs[i] = a
      PROVE  /\ WriteFrames(S)[a] = pages[i]
             /\ WriteFrames(S)[a] \in Data
  <2> DEFINE P(k) == addrs[k] = a /\ \A j \in S : addrs[j] = a => j <= k
  <2>1. \A j \in S : addrs[j] = a => j = i
    BY <1>1 DEF OneFramePerPage
  <2>2. i \in S /\ P(i)
    BY <1>1, <2>1
  <2>3. (CHOOSE k \in S : P(k)) = i
    BY <2>1, <2>2
  <2>4. WriteFrames(S)[a] = pages[CHOOSE k \in S : P(k)]
    BY <1>1 DEF WriteFrames
  <2> QED
    BY <2>3, <2>4 DEF TypeOK
<1>2. ASSUME NEW a \in Page, \A i \in S : addrs[i] # a
      PROVE  /\ WriteFrames(S)[a] = disk[a]
             /\ WriteFrames(S)[a] \in Data
  BY <1>2 DEF WriteFrames, TypeOK
<1>3. WriteFrames(S) = [a \in Page |-> WriteFrames(S)[a]]
  BY DEF WriteFrames
<1>4. \A a \in Page : WriteFrames(S)[a] \in Data
  BY <1>1, <1>2
<1> QED
  BY <1>1, <1>2, <1>3, <1>4

(* Flushing an unpinned frame changes nothing, marked or not: release has  *)
(* written it already (buffer_pool.c:98).                                  *)
LEMMA FlushIsIdle ==
  ASSUME TypeOK, OneFramePerPage, UnpinnedIsClean, NEW i \in Frame, ref[i] = 0
  PROVE  WriteFrames({i}) = disk
<1>1. WriteFrames({i}) \in [Page -> Data]
  BY WriteFramesValue
<1>2. ASSUME NEW a \in Page PROVE WriteFrames({i})[a] = disk[a]
  <2>1. CASE addrs[i] = a
    BY <2>1, WriteFramesValue DEF UnpinnedIsClean
  <2>2. CASE addrs[i] # a
    BY <2>2, WriteFramesValue
  <2> QED BY <2>1, <2>2
<1>3. disk \in [Page -> Data]
  BY DEF TypeOK
<1> HIDE DEF Page
<1> QED
  BY <1>1, <1>2, <1>3

-----------------------------------------------------------------------------
LEMMA InitIInv == Init => IInv
<1> SUFFICES ASSUME Init PROVE IInv
  OBVIOUS
<1> USE DEF Init
<1>1. TypeOK
  BY DEF TypeOK
<1>2. InFile /\ OneFramePerPage /\ PinnedIsFirst
  BY DEF InFile, OneFramePerPage, PinnedIsFirst
<1>3. PointersValid /\ UnpinnedIsClean
  BY DEF PointersValid, UnpinnedIsClean
<1> QED
  BY <1>1, <1>2, <1>3 DEF IInv

(* A hit pins the one frame that already holds the page, so the pointer is *)
(* the one earlier callers have (buffer_pool.c:56-61).                     *)
LEMMA GetPageHitStep ==
  ASSUME IInv, NEW a \in Addr, GetPageHit(a)
  PROVE  IInv'
<1> USE DEF IInv
<1>1. PICK i \in Frame : /\ First(i, Hits(a))
                         /\ ref' = [ref EXCEPT ![i] = @ + 1]
                         /\ Hold(a, i)
  BY DEF GetPageHit
<1>2. UNCHANGED <<open, length, disk, addrs, upd, pages>>
  BY DEF GetPageHit
<1>3. addrs[i] = a /\ \A j \in Frame : addrs[j] = a => i <= j
  BY <1>1 DEF First, Hits
<1>4. /\ held' = [held EXCEPT ![a] = @ + 1]
      /\ ptr' = [ptr EXCEPT ![a] = i]
  BY <1>1 DEF Hold
<1>5. TypeOK'
  <2>1. ref' \in [Frame -> Nat]
    BY <1>1 DEF TypeOK
  <2>2. held' \in [Addr -> Nat] /\ ptr' \in [Addr -> Frame \cup {NoFrame}]
    BY <1>4 DEF TypeOK
  <2> QED
    BY <1>2, <2>1, <2>2 DEF TypeOK
<1>6. InFile' /\ OneFramePerPage'
  BY <1>2 DEF InFile, OneFramePerPage
<1>7. PinnedIsFirst'
  BY <1>1, <1>2, <1>3 DEF PinnedIsFirst, TypeOK
<1>8. \A j \in Frame : ref[j] > 0 /\ addrs[j] = a => j = i
  BY <1>3 DEF PinnedIsFirst, TypeOK
<1>9. held[a] = ref[i]
  <2>1. CASE ref[i] > 0
    BY <1>3, <2>1 DEF PointersValid
  <2>2. CASE ~(ref[i] > 0)
    <3>1. ~(held[a] > 0)
      BY <1>8, <2>2 DEF PointersValid
    <3>2. held[a] \in Nat /\ ref[i] \in Nat
      BY DEF TypeOK
    <3> QED
      BY <2>2, <3>1, <3>2
  <2> QED
    BY <2>1, <2>2
<1>10. PointersValid'
  BY <1>1, <1>2, <1>3, <1>4, <1>8, <1>9 DEF PointersValid, TypeOK
<1>11. UnpinnedIsClean'
  BY <1>1, <1>2 DEF UnpinnedIsClean, TypeOK
<1> QED
  BY <1>5, <1>6, <1>7, <1>10, <1>11

(* A miss takes an unpinned frame, whose old page nobody points into, and  *)
(* fills it with the page on disk or appends it (buffer_pool.c:63-80).     *)
LEMMA GetPageMissStep ==
  ASSUME IInv, NEW a \in Addr, a <= length, GetPageMiss(a)
  PROVE  IInv'
<1> USE DEF IInv
<1>1. PICK i \in Frame :
        /\ First(i, Victims)
        /\ LET flushed == IF upd[i] THEN WriteFrames({i}) ELSE disk
           IN /\ pages' = [pages EXCEPT ![i] = ReadPage(a, i, flushed)]
              /\ disk' = IF a = length THEN [flushed EXCEPT ![a] = pages[i]]
                                       ELSE flushed
        /\ length' = IF a = length THEN length + 1 ELSE length
        /\ addrs' = [addrs EXCEPT ![i] = a]
        /\ ref' = [ref EXCEPT ![i] = @ + 1]
        /\ upd' = [upd EXCEPT ![i] = FALSE]
        /\ Hold(a, i)
        /\ UNCHANGED open
  BY DEF GetPageMiss
<1>2. ref[i] = 0 /\ \A j \in Frame : addrs[j] # a
  BY <1>1 DEF First, Victims, Hits, GetPageMiss
<1>3. (IF upd[i] THEN WriteFrames({i}) ELSE disk) = disk
  BY <1>2, FlushIsIdle
<1>4. /\ pages' = [pages EXCEPT ![i] = IF a \in 0 .. length - 1
                                       THEN disk[a] ELSE pages[i]]
      /\ disk' = IF a = length THEN [disk EXCEPT ![a] = pages[i]] ELSE disk
  BY <1>1, <1>3, Zenon DEF ReadPage
<1>5. /\ held' = [held EXCEPT ![a] = @ + 1]
      /\ ptr' = [ptr EXCEPT ![a] = i]
  BY <1>1 DEF Hold
<1>6. held[a] = 0
  <2>1. ~(held[a] > 0)
    BY <1>2 DEF PointersValid
  <2>2. held[a] \in Nat
    BY DEF TypeOK
  <2> QED
    BY <2>1, <2>2
<1>7. a \in 0 .. length - 1 => a \in Page
  BY DEF TypeOK
<1>8. TypeOK'
  <2>1. length' \in 0 .. MaxPages
    BY <1>1 DEF TypeOK
  <2>2. disk' \in [Page -> Data] /\ pages' \in [Frame -> Data]
    BY <1>4, <1>7 DEF TypeOK
  <2> QED
    <3>1. addrs' \in [Frame -> Addr] /\ ref' \in [Frame -> Nat]
      BY <1>1 DEF TypeOK
    <3>2. upd' \in [Frame -> BOOLEAN] /\ open' \in BOOLEAN
      BY <1>1 DEF TypeOK
    <3>3. held' \in [Addr -> Nat] /\ ptr' \in [Addr -> Frame \cup {NoFrame}]
      BY <1>5 DEF TypeOK
    <3> QED
      BY <2>1, <2>2, <3>1, <3>2, <3>3 DEF TypeOK
<1>9. InFile'
  <2> SUFFICES ASSUME NEW j \in Frame PROVE addrs'[j] < length'
    BY DEF InFile
  <2>1. addrs'[j] = IF j = i THEN a ELSE addrs[j]
    BY <1>1 DEF TypeOK
  <2>2. length \in Nat /\ length' = IF a = length THEN length + 1 ELSE length
    BY <1>1 DEF TypeOK
  <2>3. addrs[j] < length /\ addrs[j] \in Int
    BY DEF InFile, TypeOK
  <2> QED
    BY <2>1, <2>2, <2>3
<1>10. OneFramePerPage'
  BY <1>1, <1>2 DEF OneFramePerPage, TypeOK
<1>11. PinnedIsFirst'
  BY <1>1, <1>2 DEF PinnedIsFirst, TypeOK
<1>12. PointersValid'
  <2>1. \A b \in Addr : held'[b] > 0 =>
          ptr'[b] \in Frame /\ addrs'[ptr'[b]] = b /\ ref'[ptr'[b]] = held'[b]
    BY <1>1, <1>2, <1>5, <1>6 DEF PointersValid, TypeOK
  <2>2. \A j \in Frame : ref'[j] > 0 =>
          held'[addrs'[j]] = ref'[j] /\ ptr'[addrs'[j]] = j
    BY <1>1, <1>2, <1>5, <1>6 DEF PointersValid, TypeOK
  <2> QED
    BY <2>1, <2>2 DEF PointersValid
<1>13. UnpinnedIsClean'
  <2> SUFFICES ASSUME NEW j \in Frame, ref'[j] = 0, addrs'[j] # NoPage
               PROVE  pages'[j] = disk'[addrs'[j]]
    BY DEF UnpinnedIsClean
  <2>1. j # i
    BY <1>1, <1>2 DEF TypeOK
  <2>2. ref[j] = 0 /\ addrs'[j] = addrs[j] /\ pages'[j] = pages[j]
    BY <1>1, <1>4, <2>1 DEF TypeOK
  <2>3. disk'[addrs[j]] = disk[addrs[j]]
    BY <1>4, <2>2 DEF InFile, TypeOK
  <2> QED
    BY <2>2, <2>3 DEF UnpinnedIsClean
<1> QED
  BY <1>8, <1>9, <1>10, <1>11, <1>12, <1>13

(* A release writes the frame it unpins, so the page is clean when the     *)
(* last holder lets go; an excess release finds no pin and leaves the page *)
(* clean as it was (buffer_pool.c:93-103).                                 *)
LEMMA ReleaseStep ==
  ASSUME IInv, NEW a \in Addr, Release(a)
  PROVE  IInv'
<1> USE DEF IInv
<1> DEFINE S == ReleasedFrames(a)
<1>1. /\ disk' = WriteFrames(S)
      /\ ref' = [i \in Frame |-> IF addrs[i] = a /\ ref[i] > 0
                                 THEN ref[i] - 1 ELSE ref[i]]
      /\ upd' = [i \in Frame |-> IF addrs[i] = a THEN FALSE ELSE upd[i]]
      /\ held' = [held EXCEPT ![a] = IF @ > 0 THEN @ - 1 ELSE 0]
      /\ ptr' = [ptr EXCEPT ![a] = IF held[a] > 1 THEN @ ELSE NoFrame]
      /\ UNCHANGED <<open, length, addrs, pages>>
  BY DEF Release, UnpinnedRef
<1>2. S \in SUBSET Frame /\ \A i \in Frame : i \in S <=> addrs[i] = a /\ ref[i] > 0
  BY DEF ReleasedFrames
<1>3. /\ disk' \in [Page -> Data]
      /\ \A i \in S : addrs[i] \in Page => disk'[addrs[i]] = pages[i]
      /\ \A b \in Page : (\A i \in S : addrs[i] # b) => disk'[b] = disk[b]
  BY <1>1, <1>2, WriteFramesValue
<1> HIDE DEF S
<1>4. TypeOK'
  <2>1. ref' \in [Frame -> Nat]
    BY <1>1 DEF TypeOK
  <2>2. held' \in [Addr -> Nat] /\ ptr' \in [Addr -> Frame \cup {NoFrame}]
    BY <1>1 DEF TypeOK
  <2> QED
    BY <1>1, <1>3, <2>1, <2>2 DEF TypeOK
<1>5. InFile' /\ OneFramePerPage'
  BY <1>1 DEF InFile, OneFramePerPage
<1>6. PinnedIsFirst'
  BY <1>1 DEF PinnedIsFirst, TypeOK
<1>7. PointersValid'
  <2>1. \A b \in Addr : held'[b] > 0 =>
          ptr'[b] \in Frame /\ addrs'[ptr'[b]] = b /\ ref'[ptr'[b]] = held'[b]
    BY <1>1 DEF PointersValid, TypeOK
  <2>2. \A j \in Frame : ref'[j] > 0 =>
          held'[addrs'[j]] = ref'[j] /\ ptr'[addrs'[j]] = j
    BY <1>1 DEF PointersValid, TypeOK
  <2> QED
    BY <2>1, <2>2 DEF PointersValid
<1>8. UnpinnedIsClean'
  <2> SUFFICES ASSUME NEW j \in Frame, ref'[j] = 0, addrs[j] # NoPage
               PROVE  pages[j] = disk'[addrs[j]]
    BY <1>1 DEF UnpinnedIsClean
  <2>1. addrs[j] \in Page
    BY DEF TypeOK
  <2>2. CASE j \in S
    BY <1>3, <2>1, <2>2
  <2>3. CASE j \notin S
    <3>1. ref[j] = 0
      BY <1>1, <1>2, <2>3 DEF TypeOK
    <3>2. \A i \in S : addrs[i] # addrs[j]
      BY <1>2, <2>3, <2>1 DEF OneFramePerPage
    <3> QED
      BY <1>3, <2>1, <3>1, <3>2 DEF UnpinnedIsClean
  <2> QED
    BY <2>2, <2>3
<1> QED
  BY <1>4, <1>5, <1>6, <1>7, <1>8

(* A caller writes only into a pinned frame, so no clean frame changes.    *)
LEMMA StoreStep ==
  ASSUME IInv, NEW a \in Addr, Store(a)
  PROVE  IInv'
<1> USE DEF IInv
<1>1. PICK d \in Data : pages' = [pages EXCEPT ![ptr[a]] = d]
  BY DEF Store
<1>2. UNCHANGED <<open, length, disk, addrs, ref, upd, callers>>
  BY DEF Store
<1>3. ptr[a] \in Frame /\ ref[ptr[a]] > 0
  BY DEF Store, PointersValid, TypeOK
<1>4. TypeOK'
  BY <1>1, <1>2 DEF TypeOK, callers
<1>5. InFile' /\ OneFramePerPage' /\ PinnedIsFirst'
  BY <1>2 DEF InFile, OneFramePerPage, PinnedIsFirst
<1>6. PointersValid'
  BY <1>2 DEF PointersValid, callers
<1>7. UnpinnedIsClean'
  BY <1>1, <1>2, <1>3 DEF UnpinnedIsClean, TypeOK
<1> QED
  BY <1>4, <1>5, <1>6, <1>7

LEMMA CloseStep ==
  ASSUME IInv, Close
  PROVE  IInv'
<1> USE DEF IInv
<1>1. disk' \in [Page -> Data]
  BY WriteFramesValue DEF Close, ClosedFrames
<1>2. UNCHANGED length /\ open' = FALSE /\ EmptyPool /\ NoPins
  BY DEF Close
<1> USE <1>2 DEF EmptyPool, NoPins
<1>3. TypeOK'
  BY <1>1 DEF TypeOK
<1>4. InFile' /\ OneFramePerPage' /\ PinnedIsFirst'
  BY DEF InFile, OneFramePerPage, PinnedIsFirst, TypeOK
<1>5. PointersValid' /\ UnpinnedIsClean'
  BY DEF PointersValid, UnpinnedIsClean
<1> QED
  BY <1>3, <1>4, <1>5

LEMMA IdleStep ==
  ASSUME IInv, UNCHANGED <<length, disk, addrs, ref, pages, callers>>,
         open' \in BOOLEAN, upd' \in [Frame -> BOOLEAN]
  PROVE  IInv'
<1>1. TypeOK'
  BY DEF IInv, TypeOK, callers
<1>2. InFile' /\ OneFramePerPage' /\ PinnedIsFirst'
  BY DEF IInv, InFile, OneFramePerPage, PinnedIsFirst
<1>3. PointersValid' /\ UnpinnedIsClean'
  BY DEF IInv, PointersValid, UnpinnedIsClean, callers
<1> QED
  BY <1>1, <1>2, <1>3 DEF IInv

LEMMA NextIInv == IInv /\ [Next]_vars => IInv'
<1> SUFFICES ASSUME IInv, [Next]_vars PROVE IInv'
  OBVIOUS
<1> USE DEF IInv, TypeOK
<1>1. ASSUME NEW a \in Addr, GetPage(a) PROVE IInv'
  <2>1. CASE GetPageHit(a)
    BY <2>1, GetPageHitStep
  <2>2. CASE GetPageMiss(a)
    BY <1>1, <2>2, GetPageMissStep DEF GetPage
  <2>3. CASE GetPageNull(a)
    BY <2>3, IdleStep DEF GetPageNull, vars, frames
  <2> QED
    BY <1>1, <2>1, <2>2, <2>3 DEF GetPage
<1>2. ASSUME NEW a \in Addr, Release(a) PROVE IInv'
  BY <1>2, ReleaseStep
<1>3. ASSUME NEW a \in Addr, Update(a) PROVE IInv'
  BY <1>3, IdleStep DEF Update
<1>4. ASSUME NEW a \in Addr, Store(a) PROVE IInv'
  BY <1>4, StoreStep
<1>5. CASE Close
  BY <1>5, CloseStep
<1>6. CASE Reopen
  BY <1>6, IdleStep DEF Reopen, frames
<1>7. CASE UNCHANGED vars
  BY <1>7, IdleStep DEF vars, frames
<1> QED
  BY <1>1, <1>2, <1>3, <1>4, <1>5, <1>6, <1>7 DEF Next

(* The inductive invariant holds in every state of the pool.               *)
THEOREM InvariantHolds == Spec => []IInv
  BY InitIInv, NextIInv, PTL DEF Spec

(* Type correctness: in particular no pin count ever goes below zero, for  *)
(* all the releases too many that callers make (buffer_pool.c:96).         *)
THEOREM TypeCorrect == Spec => []TypeOK
<1>1. IInv => TypeOK
  BY DEF IInv
<1> QED
  BY <1>1, InvariantHolds, PTL

(* No page of the file ever has two frames (buffer_pool.c:56-79).          *)
THEOREM NoDuplicateFrames == Spec => []OneFramePerPage
<1>1. IInv => OneFramePerPage
  BY DEF IInv
<1> QED
  BY <1>1, InvariantHolds, PTL

(* A pointer that get_page returned stays a pointer to its page until the  *)
(* caller has released it as often as it got it (buffer_pool.c:53-103).    *)
THEOREM PointersStayValid == Spec => []PointersValid
<1>1. IInv => PointersValid
  BY DEF IInv
<1> QED
  BY <1>1, InvariantHolds, PTL

(* Every page that nobody holds is on disk (buffer_pool.c:98).             *)
THEOREM WriteThrough == Spec => []UnpinnedIsClean
<1>1. IInv => UnpinnedIsClean
  BY DEF IInv
<1> QED
  BY <1>1, InvariantHolds, PTL

-----------------------------------------------------------------------------
(* BufferPool implements PageStore: whatever is evicted, written back,     *)
(* released too often, closed and opened again, the content of a page      *)
(* changes only through its holders.                                       *)
HIDE DEF Frame

LEMMA ChosenFrame ==
  ASSUME NEW ad, NEW a, NEW i \in Frame, ad[i] = a, \A j \in Frame : ad[j] = a => j = i
  PROVE  (CHOOSE j \in Frame : ad[j] = a) = i
  OBVIOUS

(* Where the content of a page is, before and after a step.                *)
LEMMA ContentValue ==
  ASSUME IInv, NEW a \in Page
  PROVE  /\ \A i \in Frame : addrs[i] = a => Content(a) = pages[i]
         /\ (\A i \in Frame : addrs[i] # a) =>
              Content(a) = IF a >= length THEN EmptyPage ELSE disk[a]
<1>1. ASSUME NEW i \in Frame, addrs[i] = a PROVE Content(a) = pages[i]
  <2>1. a < length /\ length \in Nat
    BY <1>1 DEF IInv, InFile, TypeOK
  <2>2. (CHOOSE j \in Frame : addrs[j] = a) = i
    BY <1>1, ChosenFrame DEF IInv, OneFramePerPage
  <2>3. ~(a >= length)
    BY <2>1
  <2>4. Content(a) = pages[CHOOSE j \in Frame : addrs[j] = a]
    BY <1>1, <2>3, Zenon DEF Content
  <2> QED
    BY <2>2, <2>4, Zenon
<1>2. (\A i \in Frame : addrs[i] # a) =>
        Content(a) = IF a >= length THEN EmptyPage ELSE disk[a]
  BY DEF Content
<1> QED
  BY <1>1, <1>2

LEMMA ContentValueAfter ==
  ASSUME IInv', NEW a \in Page
  PROVE  /\ \A i \in Frame : addrs'[i] = a => Content(a)' = pages'[i]
         /\ (\A i \in Frame : addrs'[i] # a) =>
              Content(a)' = IF a >= length' THEN EmptyPage ELSE disk'[a]
<1>1. ASSUME NEW i \in Frame, addrs'[i] = a PROVE Content(a)' = pages'[i]
  <2>1. a < length' /\ length' \in Nat
    BY <1>1 DEF IInv, InFile, TypeOK
  <2>2. (CHOOSE j \in Frame : addrs'[j] = a) = i
    BY <1>1, ChosenFrame DEF IInv, OneFramePerPage
  <2>3. ~(a >= length')
    BY <2>1
  <2>4. Content(a)' = pages'[CHOOSE j \in Frame : addrs'[j] = a]
    BY <1>1, <2>3, Zenon DEF Content
  <2> QED
    BY <2>2, <2>4, Zenon
<1>2. (\A i \in Frame : addrs'[i] # a) =>
        Content(a)' = IF a >= length' THEN EmptyPage ELSE disk'[a]
  BY DEF Content
<1> QED
  BY <1>1, <1>2

-----------------------------------------------------------------------------
(* The abstract state, as the instance of PageStore sees it.               *)
Contents == [a \in Page |-> Content(a)]
Pins == [a \in Page |-> held[a]]

(* A step that keeps all contents: taking a page, giving it back, closing. *)
SameContents == \A a \in Page : Content(a)' = Content(a)

LEMMA SameStore == SameContents => Contents' = Contents
  BY DEF SameContents, Contents

(* A hit hands out a page of the file.                                     *)
LEMMA HitRefines ==
  ASSUME IInv, IInv', NEW a \in Addr, GetPageHit(a)
  PROVE  [Abstract!Next]_(Abstract!vars)
<1>1. PICK i \in Frame : First(i, Hits(a)) /\ Hold(a, i)
  BY DEF GetPageHit
<1>2. UNCHANGED <<length, disk, addrs, pages>>
  BY DEF GetPageHit
<1>3. Contents' = Contents
  BY <1>2 DEF Contents, Content
<1>4. held' = [held EXCEPT ![a] = @ + 1] /\ addrs[i] = a
  BY <1>1 DEF Hold, First, Hits
<1>5. CASE a \in Page
  <2>1. a < length
    BY <1>4 DEF IInv, InFile
  <2>2. Pins' = [Pins EXCEPT ![a] = @ + 1]
    BY <1>4, <1>5 DEF Pins, IInv, TypeOK
  <2>3. Abstract!Acquire(a)
    BY <1>2, <1>3, <2>1, <2>2 DEF Abstract!Acquire, Contents, Pins
  <2> QED
    BY <1>5, <2>3 DEF Abstract!Next, Abstract!Page
<1>6. CASE a = NoPage
  <2>1. Pins' = Pins
    BY <1>4, <1>6 DEF Pins, IInv, TypeOK
  <2> QED
    BY <1>2, <1>3, <2>1 DEF Abstract!vars, Contents, Pins
<1> QED
  BY <1>5, <1>6

(* A miss evicts a page that is on disk as it is in its frame, and reads   *)
(* the one asked for or appends it (buffer_pool.c:63-80).                  *)
LEMMA MissRefines ==
  ASSUME IInv, IInv', NEW a \in Addr, a <= length, GetPageMiss(a)
  PROVE  [Abstract!Next]_(Abstract!vars)
<1>1. PICK i \in Frame :
        /\ First(i, Victims)
        /\ LET flushed == IF upd[i] THEN WriteFrames({i}) ELSE disk
           IN /\ pages' = [pages EXCEPT ![i] = ReadPage(a, i, flushed)]
              /\ disk' = IF a = length THEN [flushed EXCEPT ![a] = pages[i]]
                                       ELSE flushed
        /\ length' = IF a = length THEN length + 1 ELSE length
        /\ addrs' = [addrs EXCEPT ![i] = a]
        /\ Hold(a, i)
  BY DEF GetPageMiss
<1>2. ref[i] = 0 /\ \A j \in Frame : addrs[j] # a
  BY <1>1 DEF First, Victims, Hits, GetPageMiss
<1>3. (IF upd[i] THEN WriteFrames({i}) ELSE disk) = disk
  BY <1>2, FlushIsIdle DEF IInv
<1>4. /\ pages' = [pages EXCEPT ![i] = IF a \in 0 .. length - 1
                                       THEN disk[a] ELSE pages[i]]
      /\ disk' = IF a = length THEN [disk EXCEPT ![a] = pages[i]] ELSE disk
  BY <1>1, <1>3, Zenon DEF ReadPage
<1>5. held' = [held EXCEPT ![a] = @ + 1] /\ length \in Nat
  BY <1>1 DEF Hold, IInv, TypeOK
<1>6. ASSUME NEW b \in Page, b # a PROVE Content(b)' = Content(b)
  <2>1. CASE \E j \in Frame : addrs[j] = b /\ j # i
    <3>1. PICK j \in Frame : addrs[j] = b /\ j # i
      BY <2>1
    <3>2. addrs'[j] = b /\ pages'[j] = pages[j]
      BY <1>1, <1>4, <3>1 DEF IInv, TypeOK
    <3> QED
      BY <3>1, <3>2, ContentValue, ContentValueAfter
  <2>2. CASE ~\E j \in Frame : addrs[j] = b /\ j # i
    <3>1. \A j \in Frame : addrs'[j] # b
      BY <1>1, <1>6, <2>2 DEF IInv, TypeOK
    <3>2. Content(b)' = IF b >= length' THEN EmptyPage ELSE disk'[b]
      BY <3>1, ContentValueAfter
    <3>3. b >= length' <=> b >= length
      BY <1>1, <1>5, <1>6
    <3>4. disk'[b] = disk[b]
      BY <1>4, <1>6 DEF IInv, TypeOK
    <3>5. CASE addrs[i] = b
      <4>1. Content(b) = pages[i] /\ pages[i] = disk[b]
        BY <1>2, <3>5, ContentValue DEF IInv, UnpinnedIsClean
      <4>2. b < length
        BY <3>5 DEF IInv, InFile
      <4> QED
        BY <1>5, <3>2, <3>3, <3>4, <4>1, <4>2
    <3>6. CASE addrs[i] # b
      <4>1. Content(b) = IF b >= length THEN EmptyPage ELSE disk[b]
        BY <2>2, <3>6, ContentValue
      <4> QED
        BY <3>2, <3>3, <3>4, <4>1
    <3> QED
      BY <3>5, <3>6
  <2> QED
    BY <2>1, <2>2
<1>7. addrs'[i] = a /\ pages'[i] \in Data
  BY <1>1 DEF IInv, TypeOK
<1>8. CASE a \in Page /\ a = length
  <2>1. Content(a)' = pages'[i]
    BY <1>7, <1>8, ContentValueAfter
  <2>2. Contents' = [Contents EXCEPT ![a] = pages'[i]]
    BY <1>6, <1>8, <2>1 DEF Contents
  <2>3. Pins' = [Pins EXCEPT ![a] = @ + 1]
    BY <1>5, <1>8 DEF Pins, IInv, TypeOK
  <2>4. Abstract!AcquireNew(a)
    BY <1>1, <1>7, <1>8, <2>2, <2>3 DEF Abstract!AcquireNew, Contents, Pins
  <2> QED
    BY <1>8, <2>4 DEF Abstract!Next, Abstract!Page
<1>9. CASE a \in Page /\ a # length
  <2>1. a < length /\ length' = length
    BY <1>1, <1>5, <1>9
  <2>2. Content(a)' = disk[a]
    BY <1>4, <1>7, <1>9, <2>1, ContentValueAfter DEF IInv, TypeOK
  <2>3. Content(a) = disk[a]
    BY <1>2, <1>5, <1>9, <2>1, ContentValue
  <2>4. Contents' = Contents
    BY <1>6, <2>2, <2>3, SameStore DEF SameContents
  <2>5. Pins' = [Pins EXCEPT ![a] = @ + 1]
    BY <1>5, <1>9 DEF Pins, IInv, TypeOK
  <2>6. Abstract!Acquire(a)
    BY <2>1, <2>4, <2>5 DEF Abstract!Acquire, Contents, Pins
  <2> QED
    BY <1>9, <2>6 DEF Abstract!Next, Abstract!Page
<1>10. CASE a = NoPage
  <2>1. length' = length /\ Pins' = Pins
    BY <1>1, <1>5, <1>10 DEF Pins, IInv, TypeOK
  <2>2. Contents' = Contents
    BY <1>6, <1>10, SameStore DEF SameContents
  <2> QED
    BY <2>1, <2>2 DEF Abstract!vars, Contents, Pins
<1> QED
  BY <1>8, <1>9, <1>10

(* A write-back leaves every content where it was.                         *)
LEMMA WriteBackKeeps ==
  ASSUME IInv, IInv', NEW S \in SUBSET Frame, disk' = WriteFrames(S),
         UNCHANGED <<length, addrs, pages>>
  PROVE  SameContents
<1> SUFFICES ASSUME NEW a \in Page PROVE Content(a)' = Content(a)
  BY DEF SameContents
<1>1. CASE \E i \in Frame : addrs[i] = a
  BY <1>1, ContentValue, ContentValueAfter
<1>2. CASE \A i \in Frame : addrs[i] # a
  <2>1. disk'[a] = disk[a]
    BY <1>2, WriteFramesValue DEF IInv
  <2> QED
    BY <1>2, <2>1, ContentValue, ContentValueAfter
<1> QED
  BY <1>1, <1>2

LEMMA ReleaseRefines ==
  ASSUME IInv, IInv', NEW a \in Addr, Release(a)
  PROVE  [Abstract!Next]_(Abstract!vars)
<1>1. Contents' = Contents
  BY WriteBackKeeps, SameStore DEF Release, ReleasedFrames
<1>2. length' = length /\ held' = [held EXCEPT ![a] = IF @ > 0 THEN @ - 1 ELSE 0]
  BY DEF Release
<1>3. CASE a \in Page /\ held[a] > 0
  <2>1. Pins' = [Pins EXCEPT ![a] = @ - 1] /\ Pins[a] > 0
    BY <1>2, <1>3 DEF Pins, IInv, TypeOK
  <2>2. Abstract!Release(a)
    BY <1>1, <1>2, <2>1 DEF Abstract!Release, Contents, Pins
  <2> QED
    BY <1>3, <2>2 DEF Abstract!Next, Abstract!Page
<1>4. CASE ~(a \in Page /\ held[a] > 0)
  <2>1. Pins' = Pins
    BY <1>2, <1>4 DEF Pins, IInv, TypeOK
  <2> QED
    BY <1>1, <1>2, <2>1 DEF Abstract!vars, Contents, Pins
<1> QED
  BY <1>3, <1>4

(* A caller changes the page it holds, and no other.                       *)
LEMMA StoreRefines ==
  ASSUME IInv, IInv', NEW a \in Addr, Store(a)
  PROVE  [Abstract!Next]_(Abstract!vars)
<1>1. PICK d \in Data : pages' = [pages EXCEPT ![ptr[a]] = d]
  BY DEF Store
<1>2. UNCHANGED <<length, disk, addrs, held>> /\ held[a] > 0
  BY DEF Store, callers
<1>3. ptr[a] \in Frame /\ addrs[ptr[a]] = a
  BY <1>2 DEF IInv, PointersValid
<1>4. ASSUME NEW b \in Page, b # a PROVE Content(b)' = Content(b)
  <2>1. CASE \E i \in Frame : addrs[i] = b
    <3>1. PICK i \in Frame : addrs[i] = b
      BY <2>1
    <3>2. addrs'[i] = b /\ pages'[i] = pages[i]
      BY <1>1, <1>2, <1>3, <1>4, <3>1 DEF IInv, TypeOK
    <3> QED
      BY <3>1, <3>2, ContentValue, ContentValueAfter
  <2>2. CASE \A i \in Frame : addrs[i] # b
    BY <1>2, <2>2, ContentValue, ContentValueAfter
  <2> QED
    BY <2>1, <2>2
<1>5. CASE a \in Page
  <2>1. pages'[ptr[a]] = d /\ addrs'[ptr[a]] = a
    BY <1>1, <1>2, <1>3 DEF IInv, TypeOK
  <2>2. Content(a)' = d
    BY <1>3, <1>5, <2>1, ContentValueAfter
  <2>3. Contents' = [Contents EXCEPT ![a] = d] /\ Pins' = Pins /\ Pins[a] > 0
    BY <1>2, <1>4, <1>5, <2>2 DEF Contents, Pins
  <2>4. Abstract!Modify(a)
    BY <1>2, <2>3 DEF Abstract!Modify, Contents, Pins
  <2> QED
    BY <1>5, <2>4 DEF Abstract!Next, Abstract!Page
<1>6. CASE a \notin Page
  <2>1. Contents' = Contents /\ Pins' = Pins
    BY <1>2, <1>4, <1>6, SameStore DEF SameContents, Pins
  <2> QED
    BY <1>2, <2>1 DEF Abstract!vars, Contents, Pins
<1> QED
  BY <1>5, <1>6

(* Closing writes every frame and loses the pins only.                     *)
LEMMA CloseRefines ==
  ASSUME IInv, IInv', Close
  PROVE  [Abstract!Next]_(Abstract!vars)
<1>1. disk' = WriteFrames(Frame) /\ length' = length
  BY DEF Close, ClosedFrames
<1>2. \A i \in Frame : addrs'[i] = NoPage
  BY DEF Close, EmptyPool
<1>3. ASSUME NEW a \in Page PROVE Content(a)' = Content(a)
  <2>1. Content(a)' = IF a >= length THEN EmptyPage ELSE disk'[a]
    BY <1>1, <1>2, ContentValueAfter
  <2>2. CASE \E i \in Frame : addrs[i] = a
    <3>1. PICK i \in Frame : addrs[i] = a
      BY <2>2
    <3>2. disk'[a] = pages[i]
      BY <1>1, <3>1, WriteFramesValue DEF IInv
    <3>3. a < length /\ length \in Nat
      BY <3>1 DEF IInv, InFile, TypeOK
    <3> QED
      BY <2>1, <3>1, <3>2, <3>3, ContentValue
  <2>3. CASE \A i \in Frame : addrs[i] # a
    <3>1. disk'[a] = disk[a]
      BY <1>1, <2>3, WriteFramesValue DEF IInv
    <3> QED
      BY <2>1, <2>3, <3>1, ContentValue
  <2> QED
    BY <2>2, <2>3
<1>4. Contents' = Contents
  BY <1>3, SameStore DEF SameContents
<1>5. Pins' = [a \in Page |-> 0]
  BY DEF Pins, Close, NoPins
<1>6. Abstract!DropPins
  BY <1>1, <1>4, <1>5 DEF Abstract!DropPins, Abstract!Page, Contents, Pins
<1> QED
  BY <1>6 DEF Abstract!Next

LEMMA IdleRefines ==
  UNCHANGED <<length, disk, addrs, pages, held>> => UNCHANGED Abstract!vars
  BY DEF Abstract!vars, Content

-----------------------------------------------------------------------------
LEMMA InitRefines == Init => Abstract!Init
  BY DEF Init, Abstract!Init, Abstract!Page, Content

LEMMA NextRefines ==
  ASSUME IInv, IInv', [Next]_vars
  PROVE  [Abstract!Next]_(Abstract!vars)
<1>1. ASSUME NEW a \in Addr, GetPage(a) PROVE [Abstract!Next]_(Abstract!vars)
  <2>1. CASE GetPageHit(a)
    BY <2>1, HitRefines
  <2>2. CASE GetPageMiss(a)
    BY <1>1, <2>2, MissRefines DEF GetPage
  <2>3. CASE GetPageNull(a)
    BY <2>3, IdleRefines DEF GetPageNull, vars, frames, callers
  <2> QED
    BY <1>1, <2>1, <2>2, <2>3 DEF GetPage
<1>2. ASSUME NEW a \in Addr, Update(a) PROVE [Abstract!Next]_(Abstract!vars)
  BY <1>2, IdleRefines DEF Update, callers
<1>3. CASE Reopen
  BY <1>3, IdleRefines DEF Reopen, frames, callers
<1>4. CASE UNCHANGED vars
  BY <1>4, IdleRefines DEF vars, frames, callers
<1> QED
  BY <1>1, <1>2, <1>3, <1>4, ReleaseRefines, StoreRefines, CloseRefines DEF Next

(* The pool is a PageStore: what a page contains depends on its holders'   *)
(* stores alone, for every size of the cache (buffer_pool.c:33-112).       *)
THEOREM PoolIsPageStore == Spec => ImplementsPageStore
<1>1. IInv /\ IInv' /\ [Next]_vars => [Abstract!Next]_(Abstract!vars)
  BY NextRefines
<1> QED
  BY <1>1, InitRefines, InvariantHolds, PTL DEF Spec, ImplementsPageStore, Abstract!Spec
=============================================================================
