---------------------------- MODULE MyJQLProofs ----------------------------
(***************************************************************************)
(* The properties of the key-value store of MyJQL, for every set of keys   *)
(* and values, every DEGREE and every size of the cache.                   *)
(*                                                                         *)
(* The first part, up to AnswersBelongAlways, is about the tables and what *)
(* a search answers, for an index of any shape that the calls can reach.   *)
(* The rest is about stores whose index is one leaf, as it is while no     *)
(* more keys were set than a leaf takes, or no two were held at a time: it *)
(* has two pages, its control block and its root, and three frames hold    *)
(* them and the parent that a root has not.                                *)
(***************************************************************************)
EXTENDS MyJQL, FiniteSetTheorems, SequenceTheorems, WellFoundedInduction, TLAPS

(* The index as a record whose null flag is down: get_page has not failed. *)
(* (FALSE has a name because the provers compare records with names, and   *)
(* not with truth values, in their fields.)                                *)
No == FALSE

IndexAs(at, ref, mem, file, env) ==
  [at |-> at, ref |-> ref, mem |-> mem, file |-> file, env |-> env, null |-> No]

(* A record changed in several fields is one changed in each in turn.      *)
LEMMA OneByOne ==
  ASSUME NEW s, NEW a, NEW r, NEW m, NEW l
  PROVE  /\ [s EXCEPT !.ref = r, !.file = l] = [[s EXCEPT !.ref = r] EXCEPT !.file = l]
         /\ [s EXCEPT !.at = a, !.ref = r, !.mem = m, !.file = l] =
            [[[[s EXCEPT !.at = a] EXCEPT !.ref = r] EXCEPT !.mem = m] EXCEPT !.file = l]
<1>1. [s EXCEPT !.ref = r, !.file = l] = [[s EXCEPT !.ref = r] EXCEPT !.file = l]
  OBVIOUS
<1>2. [s EXCEPT !.at = a, !.ref = r, !.mem = m, !.file = l] =
            [[[[s EXCEPT !.at = a] EXCEPT !.ref = r] EXCEPT !.mem = m] EXCEPT !.file = l]
  OBVIOUS
<1> QED
  BY <1>1, <1>2

(* The fields of an index, and the index with one of them changed.         *)
LEMMA Fields ==
  ASSUME NEW at, NEW ref, NEW mem, NEW file, NEW env, NEW s, s = IndexAs(at, ref, mem, file, env)
  PROVE  /\ s.at = at /\ s.ref = ref /\ s.mem = mem /\ s.file = file /\ s.env = env
         /\ ~s.null
         /\ \A a : [s EXCEPT !.at = a] = IndexAs(a, ref, mem, file, env)
         /\ \A r : [s EXCEPT !.ref = r] = IndexAs(at, r, mem, file, env)
         /\ \A m : [s EXCEPT !.mem = m] = IndexAs(at, ref, m, file, env)
         /\ \A l : [s EXCEPT !.file = l] = IndexAs(at, ref, mem, l, env)
         /\ \A e : [s EXCEPT !.env = e] = IndexAs(at, ref, mem, file, e)
<1>1. s.at = at /\ s.ref = ref /\ s.mem = mem /\ s.file = file /\ s.env = env
  BY DEF IndexAs
<1>2. ~s.null
  BY DEF IndexAs, No
<1>3. \A a : [s EXCEPT !.at = a] = IndexAs(a, ref, mem, file, env)
  BY DEF IndexAs
<1>4. \A r : [s EXCEPT !.ref = r] = IndexAs(at, r, mem, file, env)
  BY DEF IndexAs
<1>5. \A m : [s EXCEPT !.mem = m] = IndexAs(at, ref, m, file, env)
  BY DEF IndexAs
<1>6. \A l : [s EXCEPT !.file = l] = IndexAs(at, ref, mem, l, env)
  BY DEF IndexAs
<1>7. \A e : [s EXCEPT !.env = e] = IndexAs(at, ref, mem, file, e)
  BY DEF IndexAs
<1> QED
  BY <1>1, <1>2, <1>3, <1>4, <1>5, <1>6, <1>7

(* What get_page and release do to the pins, the frames and the file.      *)
Changed(fn, f, v) == [fn EXCEPT ![f] = v]
Pinned(ref, f) == [ref EXCEPT ![f] = @ + 1]
Unpinned(ref, held) == [f \in Frame |-> IF f \in held THEN ref[f] - 1 ELSE ref[f]]
LoadedFrom(file, a, node) == IF a \in 0 .. Len(file) - 1 THEN file[a + 1] ELSE node
Grown(file, a, node) == IF a = Len(file) THEN Append(file, node) ELSE file
Written(file, a, node) == IF a = NoPage THEN file ELSE [file EXCEPT ![a + 1] = node]

(* get_page of a page that a frame holds pins the frame, and does no       *)
(* more.                                                                   *)
LEMMA GetIs ==
  ASSUME NEW at, NEW ref, NEW mem, NEW file, NEW env, NEW a,
         NEW s, s = IndexAs(at, ref, mem, file, env),
         FramesOf(s, a) # {}
  PROVE  Get(s, a) = IndexAs(at, Pinned(ref, Ptr(s, a)), mem, file, env)
<1> DEFINE f == Ptr(s, a)
<1>1. ~s.null /\ s.ref = ref
  BY Fields
<1>2. f = Smallest(FramesOf(s, a))
  BY <1>1 DEF Ptr
<1>3. Get(s, a) = [s EXCEPT !.ref[f] = @ + 1]
  BY <1>1, <1>2, Zenon DEF Get
<1> HIDE DEF f
<1>4. [s EXCEPT !.ref[f] = @ + 1] = [s EXCEPT !.ref = Pinned(ref, f)]
  BY <1>1 DEF Pinned
<1>5. [s EXCEPT !.ref = Pinned(ref, f)] = IndexAs(at, Pinned(ref, f), mem, file, env)
  BY Fields
<1> QED
  BY <1>3, <1>4, <1>5 DEF f

(* release unpins every pinned frame of the address and writes the first   *)
(* of them through to the file.                                            *)
LEMMA ReleaseIs ==
  ASSUME NEW at, NEW ref, NEW mem, NEW file, NEW env, NEW a,
         NEW s, s = IndexAs(at, ref, mem, file, env),
         NEW held, held = {f \in FramesOf(s, a) : ref[f] > 0}
  PROVE  Release(s, a) =
           IF held = {} THEN s
           ELSE IndexAs(at, Unpinned(ref, held), mem, Written(file, a, mem[Smallest(held)]), env)
<1> DEFINE left == Unpinned(ref, held)
           saved == Written(file, a, mem[Smallest(held)])
<1>1. ~s.null /\ s.ref = ref /\ s.mem = mem /\ s.file = file
  BY Fields
<1>2. CASE held = {}
  BY <1>1, <1>2 DEF Release
<1>3. CASE held # {}
  <2>1. Release(s, a) = [s EXCEPT !.ref = left, !.file = saved]
    BY <1>1, <1>3, Zenon DEF Release, Unpinned, Written
  <2> HIDE DEF left, saved
  <2>2. [s EXCEPT !.ref = left, !.file = saved] = [[s EXCEPT !.ref = left] EXCEPT !.file = saved]
    BY OneByOne
  <2>3. [s EXCEPT !.ref = left] = IndexAs(at, left, mem, file, env)
    BY Fields
  <2>4. [[s EXCEPT !.ref = left] EXCEPT !.file = saved] = IndexAs(at, left, mem, saved, env)
    <3> DEFINE t == [s EXCEPT !.ref = left]
    <3>1. t = IndexAs(at, left, mem, file, env)
      BY <2>3
    <3> HIDE DEF t
    <3>2. [t EXCEPT !.file = saved] = IndexAs(at, left, mem, saved, env)
      BY <3>1, Fields
    <3> QED
      BY <3>2 DEF t
  <2> QED
    BY <1>3, <2>1, <2>2, <2>4 DEF left, saved
<1> QED
  BY <1>2, <1>3

-----------------------------------------------------------------------------
(* The two pages of a store that fits into one leaf: the control block,    *)
(* whose root_node is page 1, and the root, a leaf that holds rows.        *)
CtrlNode == [ZeroNode(1) EXCEPT !.n = 1, !.next = 2]
NoChildren == [k \in Slot |-> NoPage]
LeafRows(rows) == [k \in Slot |-> IF k < Len(rows) THEN rows[k + 1] ELSE NullRid]
LeafNode(rows) == [n |-> Len(rows), next |-> NoPage, child |-> NoChildren, row |-> LeafRows(rows)]

(* What the frame holds on which get_page parks the parent of the root:    *)
(* ReAdj and ReMove write row_ptr[0] of it.                                *)
ParkedNode(x) == [ZeroNode(1) EXCEPT !.row[0] = x]

(* The index with both pages in their frames: the control block pinned c   *)
(* times, the root r times and the parked frame p times; saved is what     *)
(* the file has of the root.                                               *)
Loaded == [f \in Frame |-> IF f = 1 THEN Ctrl ELSE IF f = 2 THEN 1 ELSE NoPage]
Pins(c, r, p) ==
  [f \in Frame |-> IF f = 1 THEN c ELSE IF f = 2 THEN r ELSE IF f = 3 THEN p ELSE 0]
Mem(x, leaf) ==
  [f \in Frame |-> IF f = 1 THEN CtrlNode ELSE IF f = 2 THEN leaf
                   ELSE IF f = 3 THEN ParkedNode(x) ELSE ZeroNode(1)]
Index(c, r, p, x, leaf, saved, env) ==
  IndexAs(Loaded, Pins(c, r, p), Mem(x, leaf), <<CtrlNode, saved>>, env)

LEMMA Frames ==
  /\ 1 \in Frame /\ 2 \in Frame /\ 3 \in Frame
  /\ Frame \subseteq Int
  /\ \A f \in Frame : f >= 1 /\ (f # 1 => f >= 2) /\ (f # 1 /\ f # 2 => f >= 3)
BY CacheAssumption DEF Frame

(* The least of a set of numbers is the one that is at most each.          *)
LEMMA SmallestIs ==
  ASSUME NEW S \in SUBSET Int, NEW m \in S, \A k \in S : m <= k
  PROVE  Smallest(S) = m
<1>1. \A x \in S : (\A y \in S : x <= y) => x = m
  OBVIOUS
<1> QED
  BY <1>1 DEF Smallest

(* Which frame each of the three addresses is found in.                    *)
LEMMA Pointers ==
  ASSUME NEW s, s.at = Loaded, ~s.null
  PROVE  /\ FramesOf(s, Ctrl) = {1} /\ FramesOf(s, 1) = {2}
         /\ FramesOf(s, NoPage) = {f \in Frame : f >= 3}
         /\ Ptr(s, Ctrl) = 1 /\ Ptr(s, 1) = 2 /\ Ptr(s, NoPage) = 3
<1>1. \A f \in Frame : s.at[f] = IF f = 1 THEN 0 ELSE IF f = 2 THEN 1 ELSE -1
  BY DEF Loaded, Ctrl, NoPage
<1>2. FramesOf(s, Ctrl) = {1}
  <2>1. \A f \in Frame : s.at[f] = Ctrl <=> f = 1
    BY <1>1, Frames DEF Ctrl
  <2> QED
    BY <2>1, Frames, Zenon DEF FramesOf
<1>3. FramesOf(s, 1) = {2}
  <2>1. \A f \in Frame : s.at[f] = 1 <=> f = 2
    BY <1>1, Frames
  <2> QED
    BY <2>1, Frames, Zenon DEF FramesOf
<1>4. FramesOf(s, NoPage) = {f \in Frame : f >= 3}
  <2>1. \A f \in Frame : s.at[f] = NoPage <=> f >= 3
    BY <1>1, Frames DEF NoPage
  <2> QED
    BY <2>1, Zenon DEF FramesOf
<1>5. Smallest({1}) = 1
  BY SmallestIs
<1>6. Smallest({2}) = 2
  BY SmallestIs
<1>7. Smallest({f \in Frame : f >= 3}) = 3
  BY Frames, SmallestIs
<1> QED
  BY <1>2, <1>3, <1>4, <1>5, <1>6, <1>7 DEF Ptr

(* Pinning one of the three frames.                                        *)
LEMMA PinsPinned ==
  ASSUME NEW c \in Nat, NEW r \in Nat, NEW p \in Nat
  PROVE  /\ Pinned(Pins(c, r, p), 1) = Pins(c + 1, r, p)
         /\ Pinned(Pins(c, r, p), 2) = Pins(c, r + 1, p)
         /\ Pinned(Pins(c, r, p), 3) = Pins(c, r, p + 1)
<1>1. \A i \in Frame : Pinned(Pins(c, r, p), i) =
        [f \in Frame |-> IF f = i THEN Pins(c, r, p)[f] + 1 ELSE Pins(c, r, p)[f]]
  BY DEF Pinned, Pins
<1>2. Pinned(Pins(c, r, p), 1) = Pins(c + 1, r, p)
  BY <1>1, Frames DEF Pins
<1>3. Pinned(Pins(c, r, p), 2) = Pins(c, r + 1, p)
  BY <1>1, Frames DEF Pins
<1>4. Pinned(Pins(c, r, p), 3) = Pins(c, r, p + 1)
  BY <1>1, Frames DEF Pins
<1> QED
  BY <1>2, <1>3, <1>4

(* Unpinning one of the three frames.                                      *)
LEMMA PinsUnpinned ==
  ASSUME NEW c \in Nat, NEW r \in Nat, NEW p \in Nat
  PROVE  /\ Unpinned(Pins(c, r, p), {1}) = Pins(c - 1, r, p)
         /\ Unpinned(Pins(c, r, p), {2}) = Pins(c, r - 1, p)
         /\ Unpinned(Pins(c, r, p), {3}) = Pins(c, r, p - 1)
<1>1. Unpinned(Pins(c, r, p), {1}) = Pins(c - 1, r, p)
  BY Frames DEF Pins, Unpinned
<1>2. Unpinned(Pins(c, r, p), {2}) = Pins(c, r - 1, p)
  BY Frames DEF Pins, Unpinned
<1>3. Unpinned(Pins(c, r, p), {3}) = Pins(c, r, p - 1)
  BY Frames DEF Pins, Unpinned
<1> QED
  BY <1>1, <1>2, <1>3

(* get_page of the control block, the root and the missing parent hit      *)
(* their frames.                                                           *)
LEMMA GetHeld ==
  ASSUME NEW c \in Nat, NEW r \in Nat, NEW p \in Nat, NEW x, NEW leaf, NEW saved, NEW env,
         NEW s, s = Index(c, r, p, x, leaf, saved, env)
  PROVE  /\ Get(s, Ctrl) = Index(c + 1, r, p, x, leaf, saved, env)
         /\ Get(s, 1) = Index(c, r + 1, p, x, leaf, saved, env)
         /\ Get(s, NoPage) = Index(c, r, p + 1, x, leaf, saved, env)
<1>1. s.at = Loaded /\ ~s.null
  BY Fields DEF Index
<1>2. Ptr(s, Ctrl) = 1 /\ Ptr(s, 1) = 2 /\ Ptr(s, NoPage) = 3
  BY <1>1, Pointers
<1>3. FramesOf(s, Ctrl) # {} /\ FramesOf(s, 1) # {} /\ FramesOf(s, NoPage) # {}
  BY <1>1, Pointers, Frames
<1>4. ASSUME NEW a, FramesOf(s, a) # {}
      PROVE  Get(s, a) = IndexAs(Loaded, Pinned(Pins(c, r, p), Ptr(s, a)), Mem(x, leaf),
                                 <<CtrlNode, saved>>, env)
  BY <1>4, GetIs DEF Index
<1> QED
  BY <1>2, <1>3, <1>4, PinsPinned DEF Index

(* release of the root writes it to the file; without a pin release does   *)
(* nothing.                                                                *)
LEMMA ReleaseHeld ==
  ASSUME NEW c \in Nat, NEW r \in Nat, NEW p \in Nat, NEW x, NEW leaf, NEW saved, NEW env,
         NEW s, s = Index(c, r, p, x, leaf, saved, env)
  PROVE  /\ c > 0 => Release(s, Ctrl) = Index(c - 1, r, p, x, leaf, saved, env)
         /\ r > 0 => Release(s, 1) = Index(c, r - 1, p, x, leaf, leaf, env)
         /\ r = 0 => Release(s, 1) = s
         /\ p > 0 => Release(s, NoPage) = Index(c, r, p - 1, x, leaf, saved, env)
         /\ p = 0 => Release(s, NoPage) = s
<1> DEFINE held(a) == {f \in FramesOf(s, a) : Pins(c, r, p)[f] > 0}
<1>1. s.at = Loaded /\ ~s.null
  BY Fields DEF Index
<1>2. ASSUME NEW a
      PROVE  Release(s, a) =
             IF held(a) = {} THEN s
             ELSE IndexAs(Loaded, Unpinned(Pins(c, r, p), held(a)), Mem(x, leaf),
                          Written(<<CtrlNode, saved>>, a, Mem(x, leaf)[Smallest(held(a))]), env)
  <2> DEFINE h == held(a)
  <2>1. h = {f \in FramesOf(s, a) : Pins(c, r, p)[f] > 0}
    OBVIOUS
  <2> HIDE DEF h, held
  <2>2. Release(s, a) =
             IF h = {} THEN s
             ELSE IndexAs(Loaded, Unpinned(Pins(c, r, p), h), Mem(x, leaf),
                          Written(<<CtrlNode, saved>>, a, Mem(x, leaf)[Smallest(h)]), env)
    BY <2>1, ReleaseIs DEF Index
  <2> QED
    BY <2>2 DEF h
<1>3. /\ c > 0 => held(Ctrl) = {1}
      /\ r > 0 => held(1) = {2}
      /\ r = 0 => held(1) = {}
      /\ p > 0 => held(NoPage) = {3}
      /\ p = 0 => held(NoPage) = {}
  BY <1>1, Pointers, Frames DEF Pins
<1>4. /\ Smallest({1}) = 1 /\ Smallest({2}) = 2
      /\ Mem(x, leaf)[1] = CtrlNode /\ Mem(x, leaf)[2] = leaf
  <2>1. Smallest({1}) = 1
    BY SmallestIs
  <2>2. Smallest({2}) = 2
    BY SmallestIs
  <2> QED
    BY <2>1, <2>2, Frames DEF Mem
<1>5. /\ Written(<<CtrlNode, saved>>, Ctrl, CtrlNode) = <<CtrlNode, saved>>
      /\ Written(<<CtrlNode, saved>>, 1, leaf) = <<CtrlNode, leaf>>
      /\ \A node : Written(<<CtrlNode, saved>>, NoPage, node) = <<CtrlNode, saved>>
  BY DEF Written, Ctrl, NoPage
<1> HIDE DEF held
<1>6. /\ Unpinned(Pins(c, r, p), {1}) = Pins(c - 1, r, p)
      /\ Unpinned(Pins(c, r, p), {2}) = Pins(c, r - 1, p)
      /\ Unpinned(Pins(c, r, p), {3}) = Pins(c, r, p - 1)
      /\ {1} # {} /\ {2} # {} /\ {3} # {}
  BY PinsUnpinned
<1>7. c > 0 => Release(s, Ctrl) = Index(c - 1, r, p, x, leaf, saved, env)
  BY <1>2, <1>3, <1>4, <1>5, <1>6 DEF Index
<1>8. r > 0 => Release(s, 1) = Index(c, r - 1, p, x, leaf, leaf, env)
  BY <1>2, <1>3, <1>4, <1>5, <1>6 DEF Index
<1>9. r = 0 => Release(s, 1) = s
  BY <1>2, <1>3
<1>10. p > 0 => Release(s, NoPage) = Index(c, r, p - 1, x, leaf, saved, env)
  BY <1>2, <1>3, <1>5, <1>6 DEF Index
<1>11. p = 0 => Release(s, NoPage) = s
  BY <1>2, <1>3
<1> QED
  BY <1>7, <1>8, <1>9, <1>10, <1>11

LEMMA ChangedAt ==
  ASSUME NEW fn, NEW f \in DOMAIN fn, NEW v
  PROVE  /\ Changed(fn, f, v)[f] = v
         /\ \A g \in DOMAIN fn : g # f => Changed(fn, f, v)[g] = fn[g]
BY DEF Changed

(* What the pointers to the three pages point to.                          *)
LEMMA AtHeld ==
  ASSUME NEW c, NEW r, NEW p, NEW x, NEW leaf, NEW saved, NEW env,
         NEW s, s = Index(c, r, p, x, leaf, saved, env)
  PROVE  /\ Ptr(s, Ctrl) = 1 /\ Ptr(s, 1) = 2 /\ Ptr(s, NoPage) = 3
         /\ At(s, Ctrl) = CtrlNode /\ At(s, 1) = leaf /\ At(s, NoPage) = ParkedNode(x)
         /\ s.mem = Mem(x, leaf) /\ s.mem[1] = CtrlNode /\ s.mem[2] = leaf
         /\ s.mem[3] = ParkedNode(x)
         /\ s.env = env /\ ~s.null
         /\ s.at = Loaded /\ s.file = <<CtrlNode, saved>> /\ Len(s.file) = 2
<1>1. /\ s.at = Loaded /\ s.mem = Mem(x, leaf) /\ s.file = <<CtrlNode, saved>>
      /\ s.env = env /\ ~s.null
  BY Fields DEF Index
<1>2. Ptr(s, Ctrl) = 1 /\ Ptr(s, 1) = 2 /\ Ptr(s, NoPage) = 3
  BY <1>1, Pointers
<1>3. s.mem[1] = CtrlNode /\ s.mem[2] = leaf /\ s.mem[3] = ParkedNode(x)
  BY <1>1, Frames DEF Mem
<1> QED
  BY <1>1, <1>2, <1>3 DEF At

(* A store through a pointer changes the bytes of one frame.               *)
LEMMA PutHeld ==
  ASSUME NEW c, NEW r, NEW p, NEW x, NEW leaf, NEW saved, NEW env, NEW f \in Frame, NEW node,
         NEW s, s = Index(c, r, p, x, leaf, saved, env)
  PROVE  Put(s, f, node) = IndexAs(Loaded, Pins(c, r, p), Changed(Mem(x, leaf), f, node),
                                   <<CtrlNode, saved>>, env)
<1>1. s.mem = Mem(x, leaf) /\ ~s.null
  BY AtHeld
<1>2. Put(s, f, node) = [s EXCEPT !.mem = Changed(Mem(x, leaf), f, node)]
  BY <1>1 DEF Put, Changed
<1> QED
  BY <1>2, Fields DEF Index

(* A store through the pointer to the root changes the leaf.               *)
LEMMA PutLeaf ==
  ASSUME NEW c, NEW r, NEW p, NEW x, NEW leaf, NEW saved, NEW env, NEW node,
         NEW s, s = Index(c, r, p, x, leaf, saved, env)
  PROVE  PutAt(s, 1, node) = Index(c, r, p, x, node, saved, env)
<1>1. Changed(Mem(x, leaf), 2, node) = Mem(x, node)
  <2>1. \A f \in Frame : Changed(Mem(x, leaf), 2, node)[f] = Mem(x, node)[f]
    BY ChangedAt, Frames DEF Mem
  <2> QED
    BY <2>1, Frames DEF Changed, Mem
<1> QED
  BY <1>1, AtHeld, PutHeld, Frames DEF PutAt, Index

(* A store into the missing parent changes what is parked there.           *)
LEMMA PutParked ==
  ASSUME NEW c, NEW r, NEW p, NEW x, NEW leaf, NEW saved, NEW env, NEW y,
         NEW s, s = Index(c, r, p, x, leaf, saved, env)
  PROVE  PutRow(s, Ptr(s, NoPage), 0, y) = Index(c, r, p, y, leaf, saved, env)
<1>1. [ParkedNode(x) EXCEPT !.row[0] = y] = ParkedNode(y)
  BY DegreeAssumption DEF ParkedNode, ZeroNode, Slot
<1>2. Changed(Mem(x, leaf), 3, ParkedNode(y)) = Mem(y, leaf)
  <2>1. \A f \in Frame : Changed(Mem(x, leaf), 3, ParkedNode(y))[f] = Mem(y, leaf)[f]
    BY ChangedAt, Frames DEF Mem
  <2> QED
    BY <2>1, Frames DEF Changed, Mem
<1> QED
  BY <1>1, <1>2, AtHeld, PutHeld, Frames DEF PutRow, Index

(* SetRoot stores the root that the control block has already.             *)
LEMMA PutRoot ==
  ASSUME NEW c, NEW r, NEW p, NEW x, NEW leaf, NEW saved, NEW env,
         NEW s, s = Index(c, r, p, x, leaf, saved, env)
  PROVE  Put(s, Ptr(s, Ctrl), [s.mem[Ptr(s, Ctrl)] EXCEPT !.n = 1]) = s
<1>1. [CtrlNode EXCEPT !.n = 1] = CtrlNode
  BY DEF CtrlNode, ZeroNode
<1>2. Changed(Mem(x, leaf), 1, CtrlNode) = Mem(x, leaf)
  BY Frames DEF Changed, Mem
<1> QED
  BY <1>1, <1>2, AtHeld, PutHeld, Frames DEF Index

(* get_page of a page that no frame holds takes the first frame without a  *)
(* pin, and reads the page into it if the file has it.                     *)
LEMMA MissIs ==
  ASSUME NEW at, NEW ref, NEW mem, NEW file, NEW env, NEW a,
         NEW s, s = IndexAs(at, ref, mem, file, env),
         FramesOf(s, a) = {},
         NEW victims, victims = {g \in Frame : ref[g] = 0}, victims # {},
         NEW f, f = Smallest(victims)
  PROVE  Get(s, a) =
           IndexAs(Changed(at, f, a), Changed(ref, f, 1),
                   Changed(mem, f, LoadedFrom(file, a, mem[f])), Grown(file, a, mem[f]), env)
<1> DEFINE m == LoadedFrom(file, a, mem[f])
           l == Grown(file, a, mem[f])
<1>1. ~s.null /\ s.at = at /\ s.ref = ref /\ s.mem = mem /\ s.file = file
  BY Fields
<1>2. Get(s, a) = [s EXCEPT !.at[f] = a, !.ref[f] = 1, !.mem[f] = m, !.file = l]
  BY <1>1, Zenon DEF Get, LoadedFrom, Grown
<1> HIDE DEF m, l
<1>3. [s EXCEPT !.at[f] = a, !.ref[f] = 1, !.mem[f] = m, !.file = l] =
      [s EXCEPT !.at = Changed(at, f, a), !.ref = Changed(ref, f, 1),
                !.mem = Changed(mem, f, m), !.file = l]
  BY ONLY <1>1 DEF Changed
<1>4. ASSUME NEW b, NEW d, NEW e
      PROVE  [s EXCEPT !.at = b, !.ref = d, !.mem = e, !.file = l] = IndexAs(b, d, e, l, env)
  <2> DEFINE t1 == [s EXCEPT !.at = b]
             t2 == [t1 EXCEPT !.ref = d]
             t3 == [t2 EXCEPT !.mem = e]
             t4 == [t3 EXCEPT !.file = l]
  <2>1. [s EXCEPT !.at = b, !.ref = d, !.mem = e, !.file = l] = t4
    BY OneByOne
  <2>2. t1 = IndexAs(b, ref, mem, file, env)
    BY Fields
  <2> HIDE DEF t1
  <2>3. t2 = IndexAs(b, d, mem, file, env)
    BY <2>2, Fields
  <2> HIDE DEF t2
  <2>4. t3 = IndexAs(b, d, e, file, env)
    BY <2>3, Fields
  <2> HIDE DEF t3
  <2>5. t4 = IndexAs(b, d, e, l, env)
    BY <2>4, Fields
  <2> QED
    BY <2>1, <2>5
<1>5. [s EXCEPT !.at = Changed(at, f, a), !.ref = Changed(ref, f, 1),
                !.mem = Changed(mem, f, m), !.file = l] =
      IndexAs(Changed(at, f, a), Changed(ref, f, 1), Changed(mem, f, m), l, env)
  BY ONLY <1>4
<1> QED
  BY <1>2, <1>3, <1>5 DEF m, l

(* The index as b_tree_open leaves it: no frame holds a page.              *)
Fresh(file, env) ==
  IndexAs([f \in Frame |-> NoPage], [f \in Frame |-> 0], [f \in Frame |-> ZeroNode(1)], file, env)

LEMMA ParkedOne == ParkedNode(1) = ZeroNode(1)
<1>1. [ZeroNode(1).row EXCEPT ![0] = 1] = ZeroNode(1).row
  BY DegreeAssumption DEF ZeroNode, Slot
<1>2. ParkedNode(1) = [ZeroNode(1) EXCEPT !.row = [ZeroNode(1).row EXCEPT ![0] = 1]]
  BY DEF ParkedNode, ZeroNode
<1> QED
  BY <1>1, <1>2 DEF ZeroNode

(* The first calls on an opened index read the control block and the root  *)
(* into the first two frames.                                              *)
LEMMA LoadsRoot ==
  ASSUME NEW leaf, NEW env, NEW s, s = Fresh(<<CtrlNode, leaf>>, env)
  PROVE  /\ At(Get(s, Ctrl), Ctrl) = CtrlNode
         /\ Len(Get(s, Ctrl).file) = 2
         /\ Get(s, Ctrl).env = env
         /\ Get(Get(s, Ctrl), 1) = Index(1, 1, 0, 1, leaf, leaf, env)
<1> DEFINE at0 == [f \in Frame |-> NoPage]
           ref0 == [f \in Frame |-> 0]
           mem0 == [f \in Frame |-> ZeroNode(1)]
           file == <<CtrlNode, leaf>>
           at1 == Changed(at0, 1, Ctrl)
           ref1 == Changed(ref0, 1, 1)
           mem1 == Changed(mem0, 1, CtrlNode)
           t == IndexAs(at1, ref1, mem1, file, env)
<1>1. Get(s, Ctrl) = t
  <2>1. FramesOf(s, Ctrl) = {}
    BY Fields DEF Fresh, FramesOf, Ctrl, NoPage
  <2>2. {g \in Frame : ref0[g] = 0} = Frame
    OBVIOUS
  <2>3. Smallest(Frame) = 1
    BY Frames, SmallestIs
  <2>4. /\ LoadedFrom(file, Ctrl, ZeroNode(1)) = CtrlNode
        /\ Grown(file, Ctrl, ZeroNode(1)) = file
        /\ mem0[1] = ZeroNode(1)
    BY Frames DEF Ctrl, LoadedFrom, Grown
  <2> HIDE DEF file
  <2>5. Get(s, Ctrl) = IndexAs(Changed(at0, 1, Ctrl), Changed(ref0, 1, 1),
          Changed(mem0, 1, LoadedFrom(file, Ctrl, mem0[1])), Grown(file, Ctrl, mem0[1]), env)
    <3> HIDE DEF at0, ref0, mem0
    <3>1. s = IndexAs(at0, ref0, mem0, file, env)
      BY DEF Fresh, file, at0, ref0, mem0
    <3> QED
      BY ONLY <2>1, <2>2, <2>3, <3>1, Frames, MissIs
  <2> QED
    BY <2>4, <2>5
<1>2. /\ \A f \in Frame : at1[f] = IF f = 1 THEN Ctrl ELSE NoPage
      /\ \A f \in Frame : ref1[f] = IF f = 1 THEN 1 ELSE 0
      /\ mem1[1] = CtrlNode
  BY Frames DEF Changed
<1> HIDE DEF at1, ref1, mem1, t
<1>3. t.at = at1 /\ t.mem = mem1 /\ t.file = file /\ t.env = env /\ ~t.null
  BY Fields DEF t
<1>4. At(t, Ctrl) = CtrlNode
  <2>1. FramesOf(t, Ctrl) = {1}
    <3>1. \A f \in Frame : t.at[f] = Ctrl <=> f = 1
      BY <1>2, <1>3 DEF Ctrl, NoPage
    <3> QED
      BY <3>1, Frames, Zenon DEF FramesOf
  <2>2. Smallest({1}) = 1
    BY SmallestIs
  <2> QED
    BY <1>2, <1>3, <2>1, <2>2 DEF At, Ptr
<1>5. Get(t, 1) = Index(1, 1, 0, 1, leaf, leaf, env)
  <2>1. FramesOf(t, 1) = {}
    BY <1>2, <1>3 DEF FramesOf, Ctrl, NoPage
  <2>2. {g \in Frame : ref1[g] = 0} = {g \in Frame : g >= 2}
    <3>1. \A g \in Frame : ref1[g] = 0 <=> g >= 2
      BY <1>2, Frames
    <3> QED
      BY <3>1, Zenon
  <2>3. Smallest({g \in Frame : g >= 2}) = 2 /\ 2 \in {g \in Frame : g >= 2}
    BY Frames, SmallestIs
  <2>4. \A old : LoadedFrom(file, 1, old) = leaf /\ Grown(file, 1, old) = file
    BY DEF LoadedFrom, Grown
  <2> HIDE DEF file
  <2>5. Get(t, 1) = IndexAs(Changed(at1, 2, 1), Changed(ref1, 2, 1),
          Changed(mem1, 2, LoadedFrom(file, 1, mem1[2])), Grown(file, 1, mem1[2]), env)
    <3> DEFINE victims == {g \in Frame : ref1[g] = 0}
    <3>1. victims # {} /\ Smallest(victims) = 2
      BY <2>2, <2>3
    <3>2. victims = {g \in Frame : ref1[g] = 0}
      OBVIOUS
    <3> HIDE DEF victims
    <3> QED
      BY ONLY <2>1, <3>1, <3>2, MissIs DEF t
  <2>6. Changed(at1, 2, 1) = Loaded
    <3>1. \A f \in Frame : Changed(at1, 2, 1)[f] = Loaded[f]
      BY <1>2, ChangedAt, Frames DEF Loaded, at1, Changed
    <3> QED
      BY <3>1, Frames DEF at1, Changed, Loaded
  <2>7. Changed(ref1, 2, 1) = Pins(1, 1, 0)
    BY Frames DEF ref1, Changed, Pins
  <2>8. Changed(mem1, 2, leaf) = Mem(1, leaf)
    <3>1. ParkedNode(1) = ZeroNode(1)
      BY ParkedOne
    <3>2. \A f \in Frame : Changed(mem1, 2, leaf)[f] = Mem(1, leaf)[f]
      BY <3>1, ChangedAt, Frames DEF Mem, mem1, Changed
    <3> QED
      BY <3>2, Frames DEF mem1, Changed, Mem
  <2> QED
    BY <2>4, <2>5, <2>6, <2>7, <2>8 DEF Index, file
<1> QED
  BY <1>1, <1>3, <1>4, <1>5

-----------------------------------------------------------------------------
(* A set of numbers that is not empty has a least one.                     *)
LEMMA LeastElement ==
  ASSUME NEW S \in SUBSET Nat, S # {}
  PROVE  \E m \in S : \A k \in S : m <= k
<1> DEFINE R == OpToRel(<, Nat)
<1>1. IsWellFoundedOn(R, Nat)
  BY NatLessThanWellFounded
<1>2. \A k, m \in Nat : <<k, m>> \in R <=> k < m
  BY DEF OpToRel
<1> HIDE DEF R
<1>3. PICK m \in S : \A k \in S : ~(<<k, m>> \in R)
  BY <1>1, WFMin
<1>4. ASSUME NEW k \in S PROVE m <= k
  <2>1. k \in Nat /\ m \in Nat /\ ~(<<k, m>> \in R)
    BY <1>3
  <2> QED
    BY <1>2, <2>1
<1> QED
  BY <1>4

(* What holds at 0, and at n + 1 if it does at n, holds at every number.   *)
LEMMA Induction ==
  ASSUME NEW S \in SUBSET Nat, 0 \in S, \A n \in S : n + 1 \in S
  PROVE  S = Nat
<1> SUFFICES ASSUME Nat \ S # {} PROVE FALSE
  OBVIOUS
<1>1. PICK m \in Nat \ S : \A k \in Nat \ S : m <= k
  <2>1. Nat \ S \in SUBSET Nat
    OBVIOUS
  <2> QED
    BY <2>1, LeastElement
<1>2. m # 0
  OBVIOUS
<1>3. m - 1 \in Nat /\ ~(m <= m - 1) /\ (m - 1) + 1 = m
  BY <1>2
<1>4. m - 1 \in S
  BY <1>1, <1>3
<1>5. m \in S
  BY <1>3, <1>4
<1> QED
  BY <1>5

(* A path that no call makes longer stays as it is.                        *)
LEMMA NeverChanges ==
  ASSUME NEW path, NEW calls, calls[0] = path,
         \A d \in 0 .. CachePage : d # 0 /\ calls[d - 1] = path => calls[d] = path
  PROVE  calls[CachePage] = path
<1> DEFINE S == {n \in Nat : n <= CachePage => calls[n] = path}
<1>1. 0 \in S
  OBVIOUS
<1>2. ASSUME NEW n \in S PROVE n + 1 \in S
  <2>1. CASE n + 1 <= CachePage
    <3>1. n \in Nat /\ n <= CachePage /\ n + 1 \in 0 .. CachePage /\ n + 1 # 0 /\ (n + 1) - 1 = n
      BY <2>1, CacheAssumption
    <3> QED
      BY <3>1
  <2>2. CASE ~(n + 1 <= CachePage)
    BY <2>2
  <2> QED
    BY <2>1, <2>2
<1>3. S = Nat
  <2>1. S \in SUBSET Nat
    OBVIOUS
  <2>2. \A n \in S : n + 1 \in S
    BY <1>2
  <2> HIDE DEF S
  <2> QED
    BY <1>1, <2>1, <2>2, Induction
<1> QED
  BY <1>3, CacheAssumption

(* RecursiveSearch on a tree of one node makes one call.                   *)
LEMMA SearchOneNode ==
  ASSUME NEW s, NEW a, NEW key, NEW first, first = SearchCall(s, a, key), first.end
  PROVE  /\ SearchPath(s, a, key) = <<first>>
         /\ RecursiveSearch(s, a, key) = [s |-> Release(first.s, first.a), rid |-> first.rid]
<1> DEFINE Down(c) == SearchCall(c.s, c.child, key)
           Back(c, below) == [s |-> Release(below.s, c.a), rid |-> below.rid]
           path == Calls(first, Down)
           bottom == [s |-> Release(first.s, first.a), rid |-> first.rid]
<1>1. path = <<first>>
  <2> DEFINE more(p) == Then(p, LAMBDA q : IF Last(q).end THEN q ELSE Append(q, Down(Last(q))))
             F(g) == [d \in 0 .. CachePage |-> IF d = 0 THEN <<first>> ELSE more(g[d - 1])]
             calls == CHOOSE g : g = F(g)
             all == [d \in 0 .. CachePage |-> <<first>>]
  <2>1. path = calls[CachePage]
    BY DEF Calls
  <2>2. more(<<first>>) = <<first>>
    BY DEF Then, Last
  <2> HIDE DEF more, path
  <2>3. \A d \in 0 .. CachePage : all[d] = IF d = 0 THEN <<first>> ELSE more(all[d - 1])
    <3>1. \A d \in 0 .. CachePage : all[d] = <<first>> /\ (d # 0 => all[d - 1] = <<first>>)
      BY CacheAssumption
    <3> HIDE DEF all
    <3> QED
      BY <2>2, <3>1
  <2>4. all = F(all)
    BY <2>3
  <2>5. calls = F(calls)
    BY <2>4
  <2> HIDE DEF calls, all
  <2>6. calls[0] = <<first>> /\ \A d \in 0 .. CachePage : d # 0 => calls[d] = more(calls[d - 1])
    BY <2>5, CacheAssumption
  <2>7. calls[CachePage] = <<first>>
    <3>1. \A d \in 0 .. CachePage : d # 0 /\ calls[d - 1] = <<first>> => calls[d] = <<first>>
      BY <2>2, <2>6
    <3> QED
      BY <2>6, <3>1, NeverChanges
  <2> QED
    BY <2>1, <2>7
<1>2. Returned(<<first>>, bottom, Back) = bottom
  <2> DEFINE up(c, b) == Then(b, LAMBDA below : Back(c, below))
             F(g) == [d \in 1 .. Len(<<first>>) |->
                        IF d = Len(<<first>>) THEN bottom ELSE up(<<first>>[d], g[d + 1])]
             returned == CHOOSE g : g = F(g)
             all == [d \in 1 .. 1 |-> bottom]
             result == Returned(<<first>>, bottom, Back)
  <2>1. result = returned[1]
    BY DEF Returned
  <2> HIDE DEF up, result
  <2>2. \A g : F(g) = all
    <3>1. 1 .. Len(<<first>>) = {1} /\ 1 .. 1 = {1} /\ Len(<<first>>) = 1
      OBVIOUS
    <3> HIDE DEF bottom
    <3> QED
      BY <3>1
  <2>3. returned = all
    BY <2>2
  <2>4. all[1] = bottom
    OBVIOUS
  <2>5. result = bottom
    BY <2>1, <2>3, <2>4
  <2> QED
    BY <2>5 DEF result
<1>3. Last(<<first>>) = first
  BY DEF Last
<1>4. RecursiveSearch(s, a, key) =
        Returned(path, [s |-> Release(Last(path).s, Last(path).a), rid |-> Last(path).rid], Back)
  BY DEF RecursiveSearch, SearchPath, Then
<1>5. SearchPath(s, a, key) = path
  BY DEF SearchPath
<1> HIDE DEF path, Down
<1> QED
  BY <1>1, <1>2, <1>3, <1>4, <1>5

(* Where b_tree_search stops on a leaf with these entries, and the RID it  *)
(* answers with: the entry it stops at if that compares as 0.              *)
Stop(env, key, rows) ==
  Smallest({k \in 0 .. Len(rows) : k = Len(rows) \/ PtrRow(env, key, rows[k + 1]) # 1})
Hit(env, key, rows) ==
  LET stop == Stop(env, key, rows)
  IN IF stop = Len(rows) \/ PtrRow(env, key, rows[stop + 1]) # 0 THEN NullRid ELSE rows[stop + 1]

(* The entries of a leaf and the places after them.                        *)
LEMMA LeafIs ==
  ASSUME NEW rows, Len(rows) \in 0 .. Limit, NEW leaf, leaf = LeafNode(rows)
  PROVE  /\ leaf.n = Len(rows) /\ IsLeaf(leaf)
         /\ \A k \in Slot : /\ leaf.child[k] = NoPage
                            /\ leaf.row[k] = IF k < Len(rows) THEN rows[k + 1] ELSE NullRid
         /\ 0 .. Len(rows) \subseteq Slot
         /\ leaf.row[Len(rows)] = NullRid
<1>1. 0 .. Len(rows) \subseteq Slot /\ 0 \in Slot /\ Len(rows) \in Slot
  BY DegreeAssumption DEF Limit, Slot
<1>2. leaf.n = Len(rows) /\ leaf.child = NoChildren /\ leaf.row = LeafRows(rows)
  BY DEF LeafNode
<1> QED
  BY <1>1, <1>2 DEF IsLeaf, NoChildren, LeafRows

(* The search stops at an entry that does not compare as 1 or at the end,  *)
(* after entries that do.                                                  *)
LEMMA StopExists ==
  ASSUME NEW env, NEW key, NEW rows, Len(rows) \in Nat
  PROVE  LET stop == Stop(env, key, rows) IN
         /\ stop \in 0 .. Len(rows)
         /\ stop = Len(rows) \/ PtrRow(env, key, rows[stop + 1]) # 1
         /\ \A k \in 0 .. stop - 1 : PtrRow(env, key, rows[k + 1]) = 1
<1> DEFINE S == {k \in 0 .. Len(rows) : k = Len(rows) \/ PtrRow(env, key, rows[k + 1]) # 1}
<1>1. \E m \in S : \A k \in S : m <= k
  <2>1. S \subseteq Nat /\ S # {}
    OBVIOUS
  <2> QED
    BY <2>1, LeastElement
<1> DEFINE stop == Smallest(S)
<1>2. stop \in S /\ \A k \in S : stop <= k
  BY <1>1 DEF Smallest
<1> HIDE DEF stop
<1>3. ASSUME NEW k \in 0 .. stop - 1 PROVE PtrRow(env, key, rows[k + 1]) = 1
  <2>1. stop \in 0 .. Len(rows)
    BY <1>2
  <2>2. k \in 0 .. Len(rows) /\ k # Len(rows) /\ ~(stop <= k)
    BY <2>1
  <2> QED
    BY <1>2, <2>2
<1> QED
  BY <1>2, <1>3 DEF Stop, stop

-----------------------------------------------------------------------------
(* A search of one call, which compares with entries of rows only.         *)
ComesUpon(s, key, rows) ==
  LET t == Get(s, Ctrl)
      first == SearchCall(t, 1, key)
  IN /\ SearchPath(t, OldRoot(t), key) = <<first>>
     /\ \A b \in first.met : b = NullRid \/ \E i \in 1 .. Len(rows) : b = rows[i]

(* b_tree_search on one leaf answers with its hit and leaves the index     *)
(* without a pin.                                                          *)
LEMMA SearchIs ==
  ASSUME NEW rows, Len(rows) \in 0 .. Limit, NEW x, NEW env, NEW key,
         NEW leaf, leaf = LeafNode(rows),
         NEW s, At(Get(s, Ctrl), Ctrl) = CtrlNode,
         Get(Get(s, Ctrl), 1) = Index(1, 1, 0, x, leaf, leaf, env)
  PROVE  /\ BTreeSearch(s, key) =
              [s |-> Index(0, 0, 0, x, leaf, leaf, env), rid |-> Hit(env, key, rows)]
         /\ ComesUpon(s, key, rows)
<1> DEFINE t == Get(s, Ctrl)
           u == Get(t, 1)
           first == SearchCall(t, 1, key)
<1>1. OldRoot(t) = 1
  BY DEF OldRoot, CtrlNode, ZeroNode
<1>2. At(u, 1) = leaf /\ u.env = env
  BY AtHeld
<1>3. first.s = u /\ first.a = 1 /\ first.end /\ first.rid = Hit(env, key, rows)
      /\ first.met \subseteq {rows[i] : i \in 1 .. Len(rows)} \cup {NullRid}
  <2> DEFINE cmp(k) == PtrRow(u.env, key, leaf.row[k])
             stop == Smallest({k \in 0 .. leaf.n : k = leaf.n \/ cmp(k) # 1})
             j == IF (stop = leaf.n \/ cmp(stop) < 0) /\ stop > 0 THEN stop - 1 ELSE stop
  <2>1. first = [s |-> u, a |-> 1, end |-> IsLeaf(leaf), child |-> leaf.child[j],
                 met |-> {leaf.row[k] : k \in 0 .. stop},
                 rid |-> IF stop = leaf.n \/ cmp(stop) # 0 THEN NullRid ELSE leaf.row[stop]]
    BY <1>2 DEF SearchCall, Then
  <2>2. {k \in 0 .. leaf.n : k = leaf.n \/ cmp(k) # 1} =
        {k \in 0 .. Len(rows) : k = Len(rows) \/ PtrRow(env, key, rows[k + 1]) # 1}
    BY <1>2, LeafIs
  <2>3. stop = Stop(env, key, rows)
    BY <2>2 DEF Stop
  <2>4. stop \in 0 .. Len(rows) /\ leaf.n = Len(rows)
    BY <2>3, LeafIs, StopExists
  <2>5. stop # Len(rows) => leaf.row[stop] = rows[stop + 1]
    <3>1. stop # Len(rows) => stop \in Slot /\ stop < Len(rows)
      BY <2>4, DegreeAssumption DEF Limit, Slot
    <3> HIDE DEF stop
    <3> QED
      BY <3>1, LeafIs
  <2> HIDE DEF stop, j
  <2>6. (IF stop = leaf.n \/ cmp(stop) # 0 THEN NullRid ELSE leaf.row[stop]) = Hit(env, key, rows)
    BY <1>2, <2>3, <2>4, <2>5 DEF Hit
  <2>7. IsLeaf(leaf)
    BY LeafIs
  <2>8. \A k \in 0 .. stop : leaf.row[k] \in {rows[i] : i \in 1 .. Len(rows)} \cup {NullRid}
    <3> SUFFICES ASSUME NEW k \in 0 .. stop PROVE leaf.row[k] \in {rows[i] : i \in 1 .. Len(rows)} \cup {NullRid}
      OBVIOUS
    <3>1. k \in 0 .. Len(rows) /\ k \in Slot
      BY <2>4, LeafIs
    <3>2. leaf.row[k] = IF k < Len(rows) THEN rows[k + 1] ELSE NullRid
      BY <3>1, LeafIs
    <3>3. k < Len(rows) => k + 1 \in 1 .. Len(rows)
      BY <3>1
    <3> QED
      BY <3>2, <3>3
  <2> HIDE DEF cmp
  <2> QED
    BY <2>1, <2>6, <2>7, <2>8
<1>4. /\ SearchPath(t, 1, key) = <<first>>
      /\ RecursiveSearch(t, 1, key) = [s |-> Release(u, 1), rid |-> Hit(env, key, rows)]
  <2>1. first = SearchCall(t, 1, key) /\ first.end
    BY <1>3
  <2> HIDE DEF first
  <2> QED
    BY <1>3, <2>1, SearchOneNode
<1>5. Release(u, 1) = Index(1, 0, 0, x, leaf, leaf, env)
  BY ReleaseHeld
<1>6. Release(Index(1, 0, 0, x, leaf, leaf, env), Ctrl) = Index(0, 0, 0, x, leaf, leaf, env)
  BY ReleaseHeld
<1>7. ComesUpon(s, key, rows)
  BY <1>1, <1>3, <1>4 DEF ComesUpon
<1> QED
  BY <1>1, <1>4, <1>5, <1>6, <1>7 DEF BTreeSearch, Then

(* RecursiveInsert on a tree of one node makes one call.                   *)
LEMMA InsertOneNode ==
  ASSUME NEW s, NEW a, NEW key, NEW i, NEW parent,
         NEW first, first = InsertCall(s, a, key, i, parent), first.end
  PROVE  RecursiveInsert(s, a, key, i, parent) = InsertIntoLeaf(first, key)
<1> DEFINE Down(c) == InsertCall(c.s, c.child, key, c.j, c.a)
           Back(c, below) == Inserted(PutChild(below.s, c.p, c.j, below.a), c)
           path == Calls(first, Down)
           bottom == InsertIntoLeaf(first, key)
<1>1. path = <<first>>
  <2> DEFINE more(p) == Then(p, LAMBDA q : IF Last(q).end THEN q ELSE Append(q, Down(Last(q))))
             F(g) == [d \in 0 .. CachePage |-> IF d = 0 THEN <<first>> ELSE more(g[d - 1])]
             calls == CHOOSE g : g = F(g)
             all == [d \in 0 .. CachePage |-> <<first>>]
  <2>1. path = calls[CachePage]
    BY DEF Calls
  <2>2. more(<<first>>) = <<first>>
    BY DEF Then, Last
  <2> HIDE DEF more, path
  <2>3. \A d \in 0 .. CachePage : all[d] = IF d = 0 THEN <<first>> ELSE more(all[d - 1])
    <3>1. \A d \in 0 .. CachePage : all[d] = <<first>> /\ (d # 0 => all[d - 1] = <<first>>)
      BY CacheAssumption
    <3> HIDE DEF all
    <3> QED
      BY <2>2, <3>1
  <2>4. all = F(all)
    BY <2>3
  <2>5. calls = F(calls)
    BY <2>4
  <2> HIDE DEF calls, all
  <2>6. calls[0] = <<first>> /\ \A d \in 0 .. CachePage : d # 0 => calls[d] = more(calls[d - 1])
    BY <2>5, CacheAssumption
  <2>7. calls[CachePage] = <<first>>
    <3>1. \A d \in 0 .. CachePage : d # 0 /\ calls[d - 1] = <<first>> => calls[d] = <<first>>
      BY <2>2, <2>6
    <3> QED
      BY <2>6, <3>1, NeverChanges
  <2> QED
    BY <2>1, <2>7
<1>2. Returned(<<first>>, bottom, Back) = bottom
  <2> DEFINE up(c, b) == Then(b, LAMBDA below : Back(c, below))
             F(g) == [d \in 1 .. Len(<<first>>) |->
                        IF d = Len(<<first>>) THEN bottom ELSE up(<<first>>[d], g[d + 1])]
             returned == CHOOSE g : g = F(g)
             all == [d \in 1 .. 1 |-> bottom]
             result == Returned(<<first>>, bottom, Back)
  <2>1. result = returned[1]
    BY DEF Returned
  <2> HIDE DEF up, result
  <2>2. \A g : F(g) = all
    <3>1. 1 .. Len(<<first>>) = {1} /\ 1 .. 1 = {1} /\ Len(<<first>>) = 1
      OBVIOUS
    <3> HIDE DEF bottom
    <3> QED
      BY <3>1
  <2>3. returned = all
    BY <2>2
  <2>4. all[1] = bottom
    OBVIOUS
  <2>5. result = bottom
    BY <2>1, <2>3, <2>4
  <2> QED
    BY <2>5 DEF result
<1>3. Last(<<first>>) = first
  BY DEF Last
<1>4. RecursiveInsert(s, a, key, i, parent) =
        Returned(path, InsertIntoLeaf(Last(path), key), Back)
  BY DEF RecursiveInsert, Then
<1> HIDE DEF path, Down
<1> QED
  BY <1>1, <1>2, <1>3, <1>4

(* RecursiveRemove on a tree of one node makes one call.                   *)
LEMMA RemoveOneNode ==
  ASSUME NEW s, NEW a, NEW key, NEW i, NEW parent,
         NEW first, first = RemoveCall(s, a, key, i, parent), first.end
  PROVE  RecursiveRemove(s, a, key, i, parent) = RemoveFromLeaf(first)
<1> DEFINE Down(c) == RemoveCall(c.s, c.child, key, c.j, c.a)
           Back(c, below) == Adjusted(PutChild(below.s, c.p, c.j, below.a), c.p, c.a, c.i, c.parent)
           path == Calls(first, Down)
           bottom == RemoveFromLeaf(first)
<1>1. path = <<first>>
  <2> DEFINE more(p) == Then(p, LAMBDA q : IF Last(q).end THEN q ELSE Append(q, Down(Last(q))))
             F(g) == [d \in 0 .. CachePage |-> IF d = 0 THEN <<first>> ELSE more(g[d - 1])]
             calls == CHOOSE g : g = F(g)
             all == [d \in 0 .. CachePage |-> <<first>>]
  <2>1. path = calls[CachePage]
    BY DEF Calls
  <2>2. more(<<first>>) = <<first>>
    BY DEF Then, Last
  <2> HIDE DEF more, path
  <2>3. \A d \in 0 .. CachePage : all[d] = IF d = 0 THEN <<first>> ELSE more(all[d - 1])
    <3>1. \A d \in 0 .. CachePage : all[d] = <<first>> /\ (d # 0 => all[d - 1] = <<first>>)
      BY CacheAssumption
    <3> HIDE DEF all
    <3> QED
      BY <2>2, <3>1
  <2>4. all = F(all)
    BY <2>3
  <2>5. calls = F(calls)
    BY <2>4
  <2> HIDE DEF calls, all
  <2>6. calls[0] = <<first>> /\ \A d \in 0 .. CachePage : d # 0 => calls[d] = more(calls[d - 1])
    BY <2>5, CacheAssumption
  <2>7. calls[CachePage] = <<first>>
    <3>1. \A d \in 0 .. CachePage : d # 0 /\ calls[d - 1] = <<first>> => calls[d] = <<first>>
      BY <2>2, <2>6
    <3> QED
      BY <2>6, <3>1, NeverChanges
  <2> QED
    BY <2>1, <2>7
<1>2. Returned(<<first>>, bottom, Back) = bottom
  <2> DEFINE up(c, b) == Then(b, LAMBDA below : Back(c, below))
             F(g) == [d \in 1 .. Len(<<first>>) |->
                        IF d = Len(<<first>>) THEN bottom ELSE up(<<first>>[d], g[d + 1])]
             returned == CHOOSE g : g = F(g)
             all == [d \in 1 .. 1 |-> bottom]
             result == Returned(<<first>>, bottom, Back)
  <2>1. result = returned[1]
    BY DEF Returned
  <2> HIDE DEF up, result
  <2>2. \A g : F(g) = all
    <3>1. 1 .. Len(<<first>>) = {1} /\ 1 .. 1 = {1} /\ Len(<<first>>) = 1
      OBVIOUS
    <3> HIDE DEF bottom
    <3> QED
      BY <3>1
  <2>3. returned = all
    BY <2>2
  <2>4. all[1] = bottom
    OBVIOUS
  <2>5. result = bottom
    BY <2>1, <2>3, <2>4
  <2> QED
    BY <2>5 DEF result
<1>3. Last(<<first>>) = first
  BY DEF Last
<1>4. RecursiveRemove(s, a, key, i, parent) =
        Returned(path, RemoveFromLeaf(Last(path)), Back)
  BY DEF RecursiveRemove, Then
<1> HIDE DEF path, Down
<1> QED
  BY <1>1, <1>2, <1>3, <1>4

(* ReAdj on a tree of one node makes one call.                             *)
LEMMA ReAdjOneNode ==
  ASSUME NEW s, NEW a, NEW key, NEW target,
         NEW first, first = ReAdjCall(s, a, key, target), first.end
  PROVE  ReAdj(s, a, key, target) = Release(first.s, first.a)
<1> DEFINE Down(c) == ReAdjCall(c.s, c.child, key, target)
           Back(c, below) == Release(PutChild(below, Ptr(c.s, c.a), c.k, c.child), c.a)
           path == Calls(first, Down)
           bottom == Release(first.s, first.a)
<1>1. path = <<first>>
  <2> DEFINE more(p) == Then(p, LAMBDA q : IF Last(q).end THEN q ELSE Append(q, Down(Last(q))))
             F(g) == [d \in 0 .. CachePage |-> IF d = 0 THEN <<first>> ELSE more(g[d - 1])]
             calls == CHOOSE g : g = F(g)
             all == [d \in 0 .. CachePage |-> <<first>>]
  <2>1. path = calls[CachePage]
    BY DEF Calls
  <2>2. more(<<first>>) = <<first>>
    BY DEF Then, Last
  <2> HIDE DEF more, path
  <2>3. \A d \in 0 .. CachePage : all[d] = IF d = 0 THEN <<first>> ELSE more(all[d - 1])
    <3>1. \A d \in 0 .. CachePage : all[d] = <<first>> /\ (d # 0 => all[d - 1] = <<first>>)
      BY CacheAssumption
    <3> HIDE DEF all
    <3> QED
      BY <2>2, <3>1
  <2>4. all = F(all)
    BY <2>3
  <2>5. calls = F(calls)
    BY <2>4
  <2> HIDE DEF calls, all
  <2>6. calls[0] = <<first>> /\ \A d \in 0 .. CachePage : d # 0 => calls[d] = more(calls[d - 1])
    BY <2>5, CacheAssumption
  <2>7. calls[CachePage] = <<first>>
    <3>1. \A d \in 0 .. CachePage : d # 0 /\ calls[d - 1] = <<first>> => calls[d] = <<first>>
      BY <2>2, <2>6
    <3> QED
      BY <2>6, <3>1, NeverChanges
  <2> QED
    BY <2>1, <2>7
<1>2. Returned(<<first>>, bottom, Back) = bottom
  <2> DEFINE up(c, b) == Then(b, LAMBDA below : Back(c, below))
             F(g) == [d \in 1 .. Len(<<first>>) |->
                        IF d = Len(<<first>>) THEN bottom ELSE up(<<first>>[d], g[d + 1])]
             returned == CHOOSE g : g = F(g)
             all == [d \in 1 .. 1 |-> bottom]
             result == Returned(<<first>>, bottom, Back)
  <2>1. result = returned[1]
    BY DEF Returned
  <2> HIDE DEF up, result
  <2>2. \A g : F(g) = all
    <3>1. 1 .. Len(<<first>>) = {1} /\ 1 .. 1 = {1} /\ Len(<<first>>) = 1
      OBVIOUS
    <3> HIDE DEF bottom
    <3> QED
      BY <3>1
  <2>3. returned = all
    BY <2>2
  <2>4. all[1] = bottom
    OBVIOUS
  <2>5. result = bottom
    BY <2>1, <2>3, <2>4
  <2> QED
    BY <2>5 DEF result
<1>3. Last(<<first>>) = first
  BY DEF Last
<1>4. ReAdj(s, a, key, target) =
        Returned(path, Release(Last(path).s, Last(path).a), Back)
  BY DEF ReAdj, Then
<1> HIDE DEF path, Down
<1> QED
  BY <1>1, <1>2, <1>3, <1>4

(* Two pages got and released one after the other.                         *)
LEMMA TwoInTurn ==
  ASSUME NEW s, NEW a, NEW b
  PROVE  /\ GetAll(s, <<a, b>>) = Get(Get(s, a), b)
         /\ ReleaseAll(s, <<a, b>>) = Release(Release(s, a), b)
<1> DEFINE as == <<a, b>>
           G(g) == [n \in 0 .. Len(as) |-> IF n = 0 THEN s ELSE Get(g[n - 1], as[n])]
           R(g) == [n \in 0 .. Len(as) |-> IF n = 0 THEN s ELSE Release(g[n - 1], as[n])]
           got == CHOOSE g : g = G(g)
           left == CHOOSE g : g = R(g)
<1>1. Len(as) = 2 /\ as[1] = a /\ as[2] = b
  OBVIOUS
<1>2. GetAll(s, as) = got[Len(as)] /\ ReleaseAll(s, as) = left[Len(as)]
  BY DEF GetAll, ReleaseAll
<1> HIDE DEF as
<1>3. \E g : g = G(g)
  <2> DEFINE g == [n \in 0 .. 2 |-> IF n = 0 THEN s ELSE IF n = 1 THEN Get(s, a) ELSE Get(Get(s, a), b)]
  <2>1. g[0] = s /\ g[1] = Get(g[0], as[1]) /\ g[2] = Get(g[1], as[2])
    BY <1>1
  <2>2. \A n \in 0 .. Len(as) : g[n] = IF n = 0 THEN s ELSE Get(g[n - 1], as[n])
    <3>1. \A n \in 0 .. Len(as) : n = 0 \/ n = 1 \/ n = 2
      BY <1>1
    <3>2. 1 - 1 = 0 /\ 2 - 1 = 1 /\ 1 # 0 /\ 2 # 0
      OBVIOUS
    <3> HIDE DEF g
    <3> QED
      BY ONLY <2>1, <3>1, <3>2, Zenon
  <2>3. g = G(g)
    BY <1>1, <2>2
  <2> QED
    BY <2>3
<1>4. \E g : g = R(g)
  <2> DEFINE g == [n \in 0 .. 2 |-> IF n = 0 THEN s ELSE IF n = 1 THEN Release(s, a)
                                    ELSE Release(Release(s, a), b)]
  <2>1. g[0] = s /\ g[1] = Release(g[0], as[1]) /\ g[2] = Release(g[1], as[2])
    BY <1>1
  <2>2. \A n \in 0 .. Len(as) : g[n] = IF n = 0 THEN s ELSE Release(g[n - 1], as[n])
    <3>1. \A n \in 0 .. Len(as) : n = 0 \/ n = 1 \/ n = 2
      BY <1>1
    <3>2. 1 - 1 = 0 /\ 2 - 1 = 1 /\ 1 # 0 /\ 2 # 0
      OBVIOUS
    <3> HIDE DEF g
    <3> QED
      BY ONLY <2>1, <3>1, <3>2, Zenon
  <2>3. g = R(g)
    BY <1>1, <2>2
  <2> QED
    BY <2>3
<1>5. got = G(got) /\ left = R(left)
  BY <1>3, <1>4
<1> HIDE DEF got, left
<1>6. got[2] = Get(Get(s, a), b)
  <2>1. \A n \in 0 .. Len(as) : got[n] = IF n = 0 THEN s ELSE Get(got[n - 1], as[n])
    BY <1>5
  <2>2. 0 \in 0 .. Len(as) /\ 1 \in 0 .. Len(as) /\ 2 \in 0 .. Len(as) 
        /\ 1 - 1 = 0 /\ 2 - 1 = 1 /\ 1 # 0 /\ 2 # 0
    BY <1>1
  <2>3. got[0] = s
    BY <2>1, <2>2
  <2>4. got[1] = Get(got[1 - 1], as[1])
    BY ONLY <2>1, <2>2, Zenon
  <2>5. got[2] = Get(got[2 - 1], as[2])
    BY ONLY <2>1, <2>2, Zenon
  <2> QED
    BY <1>1, <2>2, <2>3, <2>4, <2>5
<1>7. left[2] = Release(Release(s, a), b)
  <2>1. \A n \in 0 .. Len(as) : left[n] = IF n = 0 THEN s ELSE Release(left[n - 1], as[n])
    BY <1>5
  <2>2. 0 \in 0 .. Len(as) /\ 1 \in 0 .. Len(as) /\ 2 \in 0 .. Len(as) 
        /\ 1 - 1 = 0 /\ 2 - 1 = 1 /\ 1 # 0 /\ 2 # 0
    BY <1>1
  <2>3. left[0] = s
    BY <2>1, <2>2
  <2>4. left[1] = Release(left[1 - 1], as[1])
    BY ONLY <2>1, <2>2, Zenon
  <2>5. left[2] = Release(left[2 - 1], as[2])
    BY ONLY <2>1, <2>2, Zenon
  <2> QED
    BY <1>1, <2>2, <2>3, <2>4, <2>5
<1> QED
  BY <1>1, <1>2, <1>6, <1>7 DEF as

(* The root that the control block names, and the page it gives out next.  *)
LEMMA CtrlIs == CtrlNode.n = 1 /\ CtrlNode.next = 2
BY DEF CtrlNode, ZeroNode

(* A node as a record of its four fields, and with one of them changed.    *)
NodeOf(n, next, child, row) == [n |-> n, next |-> next, child |-> child, row |-> row]

LEMMA NodeFields ==
  ASSUME NEW n, NEW next, NEW child, NEW row, NEW m, NEW rows,
         NEW node, node = NodeOf(n, next, child, row)
  PROVE  /\ [node EXCEPT !.n = m] = NodeOf(m, next, child, row)
         /\ [node EXCEPT !.row = rows] = NodeOf(n, next, child, rows)
<1>1. [node EXCEPT !.n = m] = NodeOf(m, next, child, row)
  BY DEF NodeOf
<1>2. [node EXCEPT !.row = rows] = NodeOf(n, next, child, rows)
  BY DEF NodeOf
<1> QED
  BY <1>1, <1>2

(* A call on the tree starts with the control block and the root pinned.   *)
LEMMA HoldIs ==
  ASSUME NEW leaf, NEW x, NEW env, NEW s, At(Get(s, Ctrl), Ctrl) = CtrlNode,
         Get(Get(s, Ctrl), 1) = Index(1, 1, 0, x, leaf, leaf, env)
  PROVE  HoldRoot(s) = Index(1, 1, 0, x, leaf, leaf, env)
<1>1. OldRoot(Get(s, Ctrl)) = 1
  BY CtrlIs DEF OldRoot
<1> QED
  BY <1>1 DEF HoldRoot, Then

Left(s) == [s |-> s, a |-> 1]

(* A call on the tree ends with the root released, whether the call below  *)
(* it has released it already or not.                                      *)
LEMMA SetRootIs ==
  ASSUME NEW leaf, NEW saved, NEW x, NEW y, NEW old, NEW env, NEW r \in {0, 1},
         NEW t, t = Index(1, 1, 0, y, old, old, env),
         NEW u, u = Left(Index(1, r, 0, x, leaf, saved, env)),
         r = 0 => saved = leaf
  PROVE  SetRoot(t, u) = Index(0, 0, 0, x, leaf, leaf, env)
<1> DEFINE s == Index(1, r, 0, x, leaf, saved, env)
<1>1. OldRoot(t) = 1 /\ Ptr(t, Ctrl) = 1
  <2>1. At(t, Ctrl) = CtrlNode /\ Ptr(t, Ctrl) = 1
    BY AtHeld
  <2> QED
    BY <2>1, CtrlIs DEF OldRoot
<1>2. u.s = s /\ u.a = 1
  BY DEF Left
<1>3. Put(s, 1, [s.mem[1] EXCEPT !.n = 1]) = s
  <2>1. Ptr(s, Ctrl) = 1
    BY AtHeld
  <2> QED
    BY <2>1, PutRoot
<1>4. SetRoot(t, u) = ReleaseAll(s, <<1, Ctrl>>)
  <2> HIDE DEF s
  <2> QED
    BY <1>1, <1>2, <1>3 DEF SetRoot
<1>5. Release(s, 1) = Index(1, 0, 0, x, leaf, leaf, env)
  <2>1. CASE r = 0
    BY <2>1, ReleaseHeld
  <2>2. CASE r = 1
    BY <2>2, ReleaseHeld
  <2> QED
    BY <2>1, <2>2
<1>6. Release(Index(1, 0, 0, x, leaf, leaf, env), Ctrl) = Index(0, 0, 0, x, leaf, leaf, env)
  BY ReleaseHeld
<1> QED
  BY <1>4, <1>5, <1>6, TwoInTurn

(* b_tree_insert into one leaf that is not full appends the entry:         *)
(* RowRowCmp finds any two live records equal, and the loop over the       *)
(* entries goes on past what is equal.                                     *)
LEMMA InsertIs ==
  ASSUME NEW rows, rows \in Seq(Nat), Len(rows) < Limit, NullRid \notin Range(rows),
         NEW x, NEW env, NEW rid \in DOMAIN env.recs, rid \in Nat, rid # NullRid,
         NEW leaf, leaf = LeafNode(rows),
         NEW s, At(Get(s, Ctrl), Ctrl) = CtrlNode,
         Get(Get(s, Ctrl), 1) = Index(1, 1, 0, x, leaf, leaf, env)
  PROVE  LET more == LeafNode(Append(rows, rid))
         IN BTreeInsert(s, rid) = Index(0, 0, 0, x, more, more, env)
<1> DEFINE n == Len(rows)
           more == LeafNode(Append(rows, rid))
           t == Index(1, 1, 0, x, leaf, leaf, env)
           u == Index(1, 2, 0, x, leaf, leaf, env)
           c == InsertCall(t, 1, rid, 0, NoPage)
<1>1. HoldRoot(s) = t /\ OldRoot(t) = 1
  <2>1. HoldRoot(s) = t
    BY HoldIs
  <2>2. At(t, Ctrl) = CtrlNode
    BY AtHeld
  <2> QED
    BY <2>1, <2>2, CtrlIs DEF OldRoot
<1>2. n \in Nat /\ n \in Slot /\ n < Limit /\ n \in 0 .. Limit /\ n + 1 <= Limit
  BY DegreeAssumption DEF Slot, Limit
<1>3. \A j \in 0 .. n : RowRow(env, rid, leaf.row[j]) = IF j < n THEN 0 ELSE 1
  <2>1. \A j \in 0 .. n : leaf.row[j] = IF j < n THEN rows[j + 1] ELSE NullRid
    BY <1>2, LeafIs DEF Slot, Limit
  <2>2. \A j \in 0 .. n : j < n => rows[j + 1] # NullRid
    BY <1>2 DEF Range
  <2> QED
    BY <2>1, <2>2 DEF RowRow, NullRid
<1>4. /\ c.s = u /\ c.a = 1 /\ c.i = 0 /\ c.parent = NoPage /\ c.p = 2 /\ c.j = n
      /\ c.end
  <2>1. Get(t, 1) = u
    BY GetHeld
  <2>2. At(u, 1) = leaf /\ u.env = env /\ Ptr(u, 1) = 2
    BY AtHeld
  <2>3. StopAt(env, leaf, rid, {0, 1}) = n
    <3> DEFINE S == {j \in 0 .. leaf.n : j = leaf.n \/ RowRow(env, rid, leaf.row[j]) \notin {0, 1}}
    <3>1. leaf.n = n
      BY <1>2, LeafIs
    <3>2. S = {n}
      BY <1>2, <1>3, <3>1
    <3>3. Smallest({n}) = n
      <4>1. {n} \in SUBSET Int /\ n \in {n} /\ \A k \in {n} : n <= k
        BY <1>2
      <4> QED
        BY <4>1, SmallestIs
    <3> QED
      BY <3>2, <3>3 DEF StopAt
  <2>4. IsLeaf(leaf)
    BY <1>2, LeafIs
  <2> HIDE DEF t, u
  <2> QED
    BY <2>1, <2>2, <2>3, <2>4 DEF InsertCall, Then
<1>5. RecursiveInsert(t, 1, rid, 0, NoPage) = InsertIntoLeaf(c, rid)
  <2>1. c = InsertCall(t, 1, rid, 0, NoPage) /\ c.end
    BY <1>4
  <2> HIDE DEF c
  <2> QED
    BY <2>1, InsertOneNode
<1>6. InsertKey(Release(u, 1), NoPage, 1, rid, 0, n) = Index(1, 1, 0, x, more, more, env)
  <2>1. Release(u, 1) = t
    BY ReleaseHeld
  <2> DEFINE v == Index(1, 2, 1, x, leaf, leaf, env)
             w == Index(1, 2, 1, x, more, leaf, env)
  <2>2. GetAll(t, <<1, NoPage>>) = v
    <3>1. Get(t, 1) = u
      BY GetHeld
    <3>2. Get(u, NoPage) = v
      BY ONLY GetHeld DEF u, v
    <3> QED
      BY <3>1, <3>2, TwoInTurn
  <2>3. AddKey(v, 1, rid, n) = w
    <3>1. At(v, 1) = leaf
      BY AtHeld
    <3>2. leaf.n = n
      BY <1>2, LeafIs
    <3>3. [leaf EXCEPT !.n = n + 1, !.row = OpenGap(leaf.row, n, n, rid)] = more
      <4>1. \A k \in Slot : OpenGap(leaf.row, n, n, rid)[k] =
              IF k < n + 1 THEN Append(rows, rid)[k + 1] ELSE NullRid
        <5>1. \A k \in Slot : leaf.row[k] = IF k < n THEN rows[k + 1] ELSE NullRid
          BY <1>2, LeafIs
        <5>2. \A k \in Slot : k \in Nat
          BY DEF Slot
        <5>3. \A k \in Nat : k < n + 1 =>
                Append(rows, rid)[k + 1] = IF k = n THEN rid ELSE rows[k + 1]
          BY <1>2
        <5> QED
          BY <1>2, <5>1, <5>2, <5>3 DEF OpenGap
      <4>2. OpenGap(leaf.row, n, n, rid) =
              [k \in Slot |-> IF k < n + 1 THEN Append(rows, rid)[k + 1] ELSE NullRid]
        BY <4>1 DEF OpenGap
      <4>3. Len(Append(rows, rid)) = n + 1
        OBVIOUS
      <4> DEFINE open == OpenGap(leaf.row, n, n, rid)
      <4>4. [leaf EXCEPT !.n = n + 1, !.row = open] =
            [n |-> n + 1, next |-> NoPage, child |-> NoChildren, row |-> open]
        <5> HIDE DEF open
        <5>1. leaf = NodeOf(n, NoPage, NoChildren, leaf.row)
          BY DEF LeafNode, NodeOf
        <5>2. [leaf EXCEPT !.n = n + 1, !.row = open] = NodeOf(n + 1, NoPage, NoChildren, open)
          <6> DEFINE counted == [leaf EXCEPT !.n = n + 1]
          <6>1. [leaf EXCEPT !.n = n + 1, !.row = open] = [counted EXCEPT !.row = open]
            OBVIOUS
          <6>2. counted = NodeOf(n + 1, NoPage, NoChildren, leaf.row)
            BY ONLY <5>1, NodeFields
          <6> HIDE DEF counted
          <6>3. [counted EXCEPT !.row = open] = NodeOf(n + 1, NoPage, NoChildren, open)
            BY ONLY <6>2, NodeFields
          <6> QED
            BY <6>1, <6>3 DEF counted
        <5> QED
          BY <5>2 DEF NodeOf
      <4>5. open = LeafRows(Append(rows, rid))
        BY <4>2, <4>3 DEF LeafRows
      <4> HIDE DEF open
      <4>6. more = [n |-> n + 1, next |-> NoPage, child |-> NoChildren, row |-> open]
        BY <4>3, <4>5 DEF LeafNode
      <4>7. [leaf EXCEPT !.n = n + 1, !.row = open] = more
        BY <4>4, <4>6
      <4> QED
        BY <4>7 DEF open
    <3>4. PutAt(v, 1, more) = w
      BY PutLeaf
    <3> HIDE DEF v, w, more
    <3> QED
      BY <3>1, <3>2, <3>3, <3>4 DEF AddKey
  <2>4. ReleaseAll(w, <<1, NoPage>>) = Index(1, 1, 0, x, more, more, env)
    <3>1. Release(w, 1) = Index(1, 1, 1, x, more, more, env)
      BY ReleaseHeld
    <3>2. Release(Index(1, 1, 1, x, more, more, env), NoPage) = Index(1, 1, 0, x, more, more, env)
      BY ReleaseHeld
    <3> QED
      BY <3>1, <3>2, TwoInTurn
  <2> HIDE DEF t, u, v, w, more
  <2> QED
    BY <2>1, <2>2, <2>3, <2>4 DEF InsertKey, CopyFirst
<1>7. InsertIntoLeaf(c, rid) = Left(Index(1, 0, 0, x, more, more, env))
  <2> DEFINE v == Index(1, 1, 0, x, more, more, env)
  <2>1. At(u, 1) = leaf /\ u.env = env
    BY AtHeld
  <2>2. RowRow(env, rid, leaf.row[n]) = 1
    BY <1>2, <1>3
  <2>3. v.mem[2].n <= Limit
    <3>1. v.mem[2] = more
      BY AtHeld
    <3>2. more.n = n + 1
      BY DEF LeafNode
    <3> QED
      BY ONLY <1>2, <3>1, <3>2
  <2>4. Release(v, 1) = Index(1, 0, 0, x, more, more, env)
    BY ReleaseHeld
  <2> HIDE DEF c, u, v
  <2>5. InsertIntoLeaf(c, rid) = Inserted(v, c)
    BY <1>4, <1>6, <2>1, <2>2 DEF InsertIntoLeaf, v
  <2>6. Inserted(v, c) = Left(Release(v, 1))
    BY <1>4, <2>3 DEF Inserted, Fitted, CopyBack, Then, Left
  <2> QED
    BY <2>4, <2>5, <2>6
<1>8. SetRoot(t, Left(Index(1, 0, 0, x, more, more, env))) = Index(0, 0, 0, x, more, more, env)
  <2> HIDE DEF more
  <2> QED
    BY ONLY SetRootIs DEF t
<1> HIDE DEF t, c
<1> QED
  BY <1>1, <1>5, <1>7, <1>8 DEF BTreeInsert, Then

(* The first entry of a leaf.                                              *)
First(rows) == IF rows = <<>> THEN NullRid ELSE rows[1]

(* What is left when the first entry goes.                                 *)
LEMMA TailOf ==
  ASSUME NEW rows \in Seq(Nat), rows # <<>>
  PROVE  /\ Tail(rows) \in Seq(Nat) /\ Len(Tail(rows)) = Len(rows) - 1 /\ Len(rows) \in Nat \ {0}
         /\ \A k \in Nat : k < Len(rows) - 1 => Tail(rows)[k + 1] = rows[k + 2]
OBVIOUS

(* ReAdj changes no separator where the root is a leaf; it writes the      *)
(* root to the file.                                                       *)
LEMMA ReAdjAllIs ==
  ASSUME NEW r \in Nat, NEW p \in Nat, NEW y, NEW leaf, IsLeaf(leaf), NEW saved, NEW env,
         NEW old, NEW first, NEW s, s = Index(1, r, p, y, leaf, saved, env)
  PROVE  ReAdjAll(s, old, first) =
           IF first = NullRid THEN s ELSE Index(1, r, p, y, leaf, leaf, env)
<1> DEFINE t == Index(2, r, p, y, leaf, saved, env)
           u == Index(2, r + 1, p, y, leaf, saved, env)
           c == ReAdjCall(t, 1, old, first)
<1>1. CASE first = NullRid
  BY <1>1 DEF ReAdjAll
<1>2. CASE first # NullRid
  <2>1. Get(s, Ctrl) = t
    BY GetHeld
  <2>2. At(t, Ctrl).n = 1
    <3>1. At(t, Ctrl) = CtrlNode
      BY AtHeld
    <3> QED
      BY <3>1, CtrlIs
  <2>3. Get(t, 1) = u
    BY GetHeld
  <2>4. At(u, 1) = leaf
    BY AtHeld
  <2>5. c.s = u /\ c.a = 1 /\ c.end
    <3> HIDE DEF t, u
    <3> QED
      BY <2>3, <2>4 DEF ReAdjCall, Then
  <2>6. ReAdj(t, 1, old, first) = Release(u, 1)
    <3>1. c = ReAdjCall(t, 1, old, first) /\ c.end
      BY <2>5
    <3> HIDE DEF c
    <3>2. ReAdj(t, 1, old, first) = Release(c.s, c.a)
      BY <3>1, ReAdjOneNode
    <3> QED
      BY <2>5, <3>2
  <2>7. Release(u, 1) = Index(2, r, p, y, leaf, leaf, env)
    BY ReleaseHeld
  <2>8. Release(Index(2, r, p, y, leaf, leaf, env), Ctrl) = Index(1, r, p, y, leaf, leaf, env)
    BY ReleaseHeld
  <2> HIDE DEF t, u
  <2> QED
    BY <1>2, <2>1, <2>2, <2>6, <2>7, <2>8 DEF ReAdjAll, Then
<1> QED
  BY <1>1, <1>2

(* ReMove of the first entry of the root shifts the others and leaves the  *)
(* new first entry in the frame of the missing parent.                     *)
LEMMA RemoveKeyIs ==
  ASSUME NEW rows \in Seq(Nat), rows # <<>>, Len(rows) <= Limit, NEW x, NEW env,
         NEW leaf, leaf = LeafNode(rows), NEW rest, rest = LeafNode(Tail(rows)),
         NEW u, u = Index(1, 2, 0, x, leaf, leaf, env)
  PROVE  RemoveKey(u, NoPage, 1, 0, 0) = Index(1, 2, 0, First(Tail(rows)), rest, rest, env)
<1> DEFINE n == Len(rows)
           first == First(Tail(rows))
           taken == NodeOf(n, NoPage, NoChildren, LeafRows(Tail(rows)))
           v == Index(1, 3, 1, x, leaf, leaf, env)
           w == Index(1, 3, 1, x, taken, leaf, env)
           y == Index(1, 3, 1, first, taken, leaf, env)
<1>1. n \in Nat \ {0} /\ n <= Limit /\ n \in 0 .. Limit /\ n - 1 \in Slot /\ 0 \in Slot
  BY DegreeAssumption, TailOf DEF Slot, Limit
<1>2. GetAll(u, <<NoPage, 1>>) = v
  <2>1. Get(u, NoPage) = Index(1, 2, 1, x, leaf, leaf, env)
    BY ONLY GetHeld, u = Index(1, 2, 0, x, leaf, leaf, env)
  <2>2. Get(Index(1, 2, 1, x, leaf, leaf, env), 1) = v
    BY ONLY GetHeld DEF v
  <2> QED
    BY <2>1, <2>2, TwoInTurn
<1>3. TakeKey(v, 1, 0) = w
  <2>1. At(v, 1) = leaf
    BY AtHeld
  <2>2. leaf.n = n /\ leaf = NodeOf(n, NoPage, NoChildren, leaf.row)
    BY DEF LeafNode, NodeOf
  <2> DEFINE closed == CloseGap(leaf.row, 0, n, NullRid)
  <2>3. closed = LeafRows(Tail(rows))
    <3>1. \A k \in Slot : leaf.row[k] = IF k < n THEN rows[k + 1] ELSE NullRid
      BY <1>1, LeafIs
    <3>2. \A k \in Slot : k \in Nat /\ (k < n - 1 => k + 1 \in Slot)
      BY <1>1, DegreeAssumption DEF Slot, Limit
    <3>3. \A k \in Slot : closed[k] = IF k < n - 1 THEN rows[k + 2] ELSE NullRid
      <4> SUFFICES ASSUME NEW k \in Slot
                   PROVE  closed[k] = IF k < n - 1 THEN rows[k + 2] ELSE NullRid
        OBVIOUS
      <4>1. closed[k] = IF k = n - 1 THEN NullRid
                        ELSE IF k \in 0 .. n - 2 THEN leaf.row[k + 1] ELSE leaf.row[k]
        BY DEF CloseGap
      <4>2. CASE k < n - 1
        <5>1. k + 1 \in Slot /\ k + 1 < n /\ k \in 0 .. n - 2 /\ k # n - 1 /\ (k + 1) + 1 = k + 2
          BY <1>1, <3>2, <4>2
        <5>2. leaf.row[k + 1] = rows[(k + 1) + 1]
          BY <3>1, <5>1
        <5> HIDE DEF closed
        <5> QED
          BY <4>1, <4>2, <5>1, <5>2
      <4>3. CASE k = n - 1
        <5> HIDE DEF closed
        <5> QED
          BY <1>1, <4>1, <4>3
      <4>4. CASE k > n - 1
        <5>1. ~(k < n) /\ k \notin 0 .. n - 2 /\ k # n - 1
          <6>1. k \in Nat /\ n \in Nat
            BY <1>1, <3>2
          <6> HIDE DEF n
          <6> QED
            BY ONLY <4>4, <6>1
        <5> HIDE DEF closed
        <5> QED
          BY <1>1, <3>1, <3>2, <4>1, <4>4, <5>1
      <4> QED
        BY <1>1, <3>2, <4>2, <4>3, <4>4
    <3>4. \A k \in Slot : LeafRows(Tail(rows))[k] = IF k < n - 1 THEN rows[k + 2] ELSE NullRid
      BY <1>1, <3>2, TailOf DEF LeafRows
    <3> QED
      BY <3>3, <3>4 DEF CloseGap, LeafRows
  <2>4. [leaf EXCEPT !.row = closed] = taken
    <3> HIDE DEF closed
    <3> QED
      BY <2>2, <2>3, NodeFields
  <2>5. PutAt(v, 1, taken) = w
    BY PutLeaf
  <2> HIDE DEF v, w, taken
  <2> QED
    BY <2>1, <2>2, <2>4, <2>5 DEF TakeKey
<1>4. At(w, 1).row[0] = first /\ At(w, NoPage).row[0] = x
  <2>1. At(w, 1) = taken /\ At(w, NoPage) = ParkedNode(x)
    BY AtHeld
  <2>2. taken.row[0] = first
    <3>1. taken.row = LeafRows(Tail(rows))
      BY DEF NodeOf
    <3>2. Tail(rows) \in Seq(Nat)
      BY TailOf
    <3>3. Tail(rows) = <<>> <=> ~(0 < Len(Tail(rows)))
      <4>1. \A q \in Seq(Nat) : q = <<>> <=> ~(0 < Len(q))
        OBVIOUS
      <4> QED
        BY ONLY <3>2, <4>1
    <3>4. LeafRows(Tail(rows))[0] = IF 0 < Len(Tail(rows)) THEN Tail(rows)[1] ELSE NullRid
      BY <1>1 DEF LeafRows
    <3> QED
      BY <3>1, <3>3, <3>4 DEF First
  <2>3. ParkedNode(x).row[0] = x
    BY <1>1 DEF ParkedNode, ZeroNode
  <2> QED
    BY <2>1, <2>2, <2>3
<1>5. PutRow(w, Ptr(w, NoPage), 0, first) = y
  BY PutParked
<1>6. PICK saved : ReAdjAll(y, x, first) = Index(1, 3, 1, first, taken, saved, env)
  <2>1. IsLeaf(taken)
    BY <1>1 DEF IsLeaf, NodeOf, NoChildren
  <2> HIDE DEF taken, first
  <2>2. ReAdjAll(y, x, first) = IF first = NullRid THEN y ELSE Index(1, 3, 1, first, taken, taken, env)
    BY <2>1, ReAdjAllIs
  <2> QED
    BY <2>2
<1>7. CountDown(Index(1, 3, 1, first, taken, saved, env), 1) = Index(1, 3, 1, first, rest, saved, env)
  <2> DEFINE z == Index(1, 3, 1, first, taken, saved, env)
  <2>1. At(z, 1) = taken
    BY AtHeld
  <2>2. [taken EXCEPT !.n = taken.n - 1] = rest
    <3>1. taken.n = n /\ Len(Tail(rows)) = n - 1
      BY TailOf DEF NodeOf
    <3>2. [taken EXCEPT !.n = n - 1] = NodeOf(n - 1, NoPage, NoChildren, LeafRows(Tail(rows)))
      BY NodeFields
    <3> QED
      BY <3>1, <3>2 DEF NodeOf, LeafNode
  <2>3. PutAt(z, 1, rest) = Index(1, 3, 1, first, rest, saved, env)
    BY PutLeaf
  <2> HIDE DEF z, taken
  <2> QED
    BY <2>1, <2>2, <2>3 DEF CountDown, z
<1>8. ReleaseAll(Index(1, 3, 1, first, rest, saved, env), <<NoPage, 1>>) =
        Index(1, 2, 0, first, rest, rest, env)
  <2>1. Release(Index(1, 3, 1, first, rest, saved, env), NoPage) =
        Index(1, 3, 0, first, rest, saved, env)
    BY ReleaseHeld
  <2>2. Release(Index(1, 3, 0, first, rest, saved, env), 1) = Index(1, 2, 0, first, rest, rest, env)
    BY ReleaseHeld
  <2> QED
    BY <2>1, <2>2, TwoInTurn
<1> HIDE DEF v, w, y, first, taken
<1> QED
  BY <1>2, <1>3, <1>4, <1>5, <1>6, <1>7, <1>8 DEF RemoveKey, Then, first

(* Whether b_tree_delete of the key finds it, which is in the first entry. *)
Struck(env, key, rows) == rows # <<>> /\ (IF key \in DOMAIN env.recs THEN 0 ELSE env.guess) = 0

(* b_tree_delete takes the first entry away if it finds the key, and       *)
(* leaves the leaf as it was if not.                                       *)
LEMMA DeleteIs ==
  ASSUME NEW rows \in Seq(Nat), Len(rows) <= Limit, NullRid \notin Range(rows), NEW x,
         NEW env, NEW key \in Nat, key # NullRid,
         NEW leaf, leaf = LeafNode(rows), NEW rest, rest = LeafNode(Tail(rows)),
         NEW s, At(Get(s, Ctrl), Ctrl) = CtrlNode,
         Get(Get(s, Ctrl), 1) = Index(1, 1, 0, x, leaf, leaf, env)
  PROVE  BTreeDelete(s, key) =
           IF Struck(env, key, rows) THEN Index(0, 0, 0, First(Tail(rows)), rest, rest, env)
           ELSE Index(0, 0, 0, x, leaf, leaf, env)
<1> DEFINE n == Len(rows)
           t == Index(1, 1, 0, x, leaf, leaf, env)
           u == Index(1, 2, 0, x, leaf, leaf, env)
           c == RemoveCall(t, 1, key, 0, NoPage)
           stop == StopAt(env, leaf, key, {1})
           guess == IF key \in DOMAIN env.recs THEN 0 ELSE env.guess
           hit == rows # <<>> /\ guess = 0
<1>1. HoldRoot(s) = t /\ OldRoot(t) = 1
  <2>1. HoldRoot(s) = t
    BY HoldIs
  <2>2. At(t, Ctrl) = CtrlNode
    BY AtHeld
  <2> QED
    BY <2>1, <2>2, CtrlIs DEF OldRoot
<1>2. n \in Nat /\ n \in Slot /\ n \in 0 .. Limit /\ (n = 0 <=> rows = <<>>)
  BY DegreeAssumption DEF Slot, Limit
<1>3. \A j \in 0 .. n : RowRow(env, key, leaf.row[j]) = IF j < n THEN guess ELSE 1
  <2>1. \A j \in 0 .. n : leaf.row[j] = IF j < n THEN rows[j + 1] ELSE NullRid
    BY <1>2, LeafIs DEF Slot, Limit
  <2>2. \A j \in 0 .. n : j < n => rows[j + 1] # NullRid
    BY <1>2 DEF Range
  <2>3. RowRow(env, key, NullRid) = 1 /\ \A b : b # NullRid => RowRow(env, key, b) = guess
    BY DEF RowRow, NullRid
  <2> HIDE DEF guess
  <2> QED
    BY <2>1, <2>2, <2>3
<1>4. leaf.n = n /\ IsLeaf(leaf)
  BY <1>2, LeafIs
<1>5. stop \in 0 .. n /\ (n > 0 /\ guess = 0 => stop = 0)
  <2> DEFINE S == {j \in 0 .. leaf.n : j = leaf.n \/ RowRow(env, key, leaf.row[j]) \notin {1}}
  <2>1. S \in SUBSET Nat /\ n \in S
    BY <1>2, <1>4
  <2>2. PICK m \in S : \A k \in S : m <= k
    BY <2>1, LeastElement
  <2>3. Smallest(S) = m
    <3>1. S \in SUBSET Int
      BY <2>1
    <3> HIDE DEF S
    <3> QED
      BY <2>2, <3>1, SmallestIs
  <2>4. stop = m /\ m \in 0 .. n
    BY <1>4, <2>3 DEF StopAt
  <2>5. n > 0 /\ guess = 0 => 0 \in S
    BY <1>2, <1>3, <1>4
  <2> QED
    BY <2>2, <2>4, <2>5
<1>6. /\ c.s = u /\ c.a = 1 /\ c.i = 0 /\ c.parent = NoPage /\ c.p = 2 /\ c.stop = stop
      /\ c.end /\ (c.found <=> (stop # n /\ guess = 0))
  <2>1. Get(t, 1) = u
    BY GetHeld
  <2>2. At(u, 1) = leaf /\ u.env = env /\ Ptr(u, 1) = 2
    BY AtHeld
  <2> DEFINE cmp == RowRow(env, key, leaf.row[stop])
             j == IF (stop = n \/ cmp < 0) /\ stop > 0 THEN stop - 1 ELSE stop
  <2> HIDE DEF t, u, stop
  <2>3. c = [s |-> u, a |-> 1, i |-> 0, parent |-> NoPage, p |-> 2, end |-> IsLeaf(leaf),
             stop |-> stop, found |-> cmp = 0 /\ stop # n, j |-> j, child |-> leaf.child[j]]
    BY <1>4, <2>1, <2>2 DEF RemoveCall, Then, stop
  <2>4. cmp = IF stop < n THEN guess ELSE 1
    BY <1>3, <1>5
  <2> HIDE DEF cmp, j, c
  <2>5. /\ c.s = u /\ c.a = 1 /\ c.i = 0 /\ c.parent = NoPage /\ c.p = 2 /\ c.stop = stop
        /\ c.end = IsLeaf(leaf) /\ (c.found <=> (cmp = 0 /\ stop # n))
    BY <2>3
  <2> QED
    BY <1>2, <1>4, <1>5, <2>4, <2>5
<1>7. RecursiveRemove(t, 1, key, 0, NoPage) = RemoveFromLeaf(c)
  <2>1. c = RemoveCall(t, 1, key, 0, NoPage) /\ c.end
    BY <1>6
  <2> HIDE DEF c
  <2> QED
    BY <2>1, RemoveOneNode
<1>8. CASE ~hit
  <2>1. ~c.found
    BY <1>2, <1>5, <1>6, <1>8
  <2>2. Release(u, 1) = t
    BY ONLY ReleaseHeld DEF t, u
  <2>3. RemoveFromLeaf(c) = Left(t)
    <3> HIDE DEF c, t, u
    <3> QED
      BY <1>6, <2>1, <2>2 DEF RemoveFromLeaf, Left
  <2>4. SetRoot(t, Left(t)) = Index(0, 0, 0, x, leaf, leaf, env)
    BY ONLY SetRootIs DEF t
  <2> HIDE DEF t, c
  <2>5. BTreeDelete(s, key) = Index(0, 0, 0, x, leaf, leaf, env)
    BY <1>1, <1>7, <2>3, <2>4 DEF BTreeDelete, Then
  <2> QED
    BY <1>8, <2>5 DEF Struck
<1>9. CASE hit
  <2> DEFINE first == First(Tail(rows))
             v == Index(1, 2, 0, first, rest, rest, env)
             w == Index(1, 1, 0, first, rest, rest, env)
  <2>1. c.found /\ stop = 0
    BY <1>2, <1>5, <1>6, <1>9
  <2>2. RemoveKey(u, NoPage, 1, 0, 0) = v
    <3>1. rows # <<>> /\ u = Index(1, 2, 0, x, leaf, leaf, env)
      BY <1>9
    <3> QED
      BY <3>1, RemoveKeyIs
  <2>3. Adjusted(v, 2, 1, 0, NoPage) = Left(w)
    <3>1. v.mem[2] = rest
      BY AtHeld
    <3>2. IsLeaf(rest)
      BY DegreeAssumption DEF IsLeaf, LeafNode, NoChildren, Slot
    <3>3. Release(v, 1) = w
      BY ReleaseHeld
    <3> HIDE DEF v, w
    <3> QED
      BY <3>1, <3>2, <3>3 DEF Adjusted, Few, Left
  <2>4. RemoveFromLeaf(c) = Left(w)
    <3> HIDE DEF c, v, w, u, stop
    <3> QED
      BY <1>6, <2>1, <2>2, <2>3 DEF RemoveFromLeaf
  <2>5. SetRoot(t, Left(w)) = Index(0, 0, 0, first, rest, rest, env)
    <3> HIDE DEF first
    <3> QED
      BY ONLY SetRootIs DEF t, w
  <2> HIDE DEF t, c, w
  <2>6. BTreeDelete(s, key) = Index(0, 0, 0, first, rest, rest, env)
    BY <1>1, <1>7, <2>4, <2>5 DEF BTreeDelete, Then
  <2> QED
    BY <1>9, <2>6 DEF Struck
<1> QED
  BY <1>8, <1>9

Headed(node, n, next) == [node EXCEPT !.n = n, !.next = next]

(* A node with its n and next changed, as b_tree_init sets them.           *)
LEMMA HeadedNode ==
  ASSUME NEW n, NEW next, NEW child, NEW row, NEW m, NEW k,
         NEW node, node = NodeOf(n, next, child, row)
  PROVE  Headed(node, m, k) = NodeOf(m, k, child, row)
<1>1. [node EXCEPT !.n = m, !.next = k] = [[node EXCEPT !.n = m] EXCEPT !.next = k]
  OBVIOUS
<1>2. [node EXCEPT !.n = m] = NodeOf(m, next, child, row)
  BY DEF NodeOf
<1>3. [NodeOf(m, next, child, row) EXCEPT !.next = k] = NodeOf(m, k, child, row)
  BY DEF NodeOf
<1> QED
  BY <1>1, <1>2, <1>3 DEF Headed

(* Two pages of zeroes, as b_tree_init finds them in the file.             *)
LEMMA Twice ==
  ASSUME NEW z
  PROVE  Append(<<z>>, z) = <<z, z>>
<1> DEFINE s == Append(<<z>>, z)
           t == <<z, z>>
<1>1. <<z>> \in Seq({z}) /\ t \in Seq({z}) /\ Len(t) = 2 /\ t[1] = z /\ t[2] = z
  OBVIOUS
<1>2. s \in Seq({z}) /\ Len(s) = 2 /\ s[1] = z /\ s[2] = z
  BY <1>1
<1> HIDE DEF s, t
<1>3. \A i \in 1 .. Len(s) : s[i] = t[i]
  <2>1. \A i \in 1 .. Len(s) : i = 1 \/ i = 2
    BY <1>2
  <2> QED
    BY <1>1, <1>2, <2>1
<1>4. s = t
  BY <1>1, <1>2, <1>3, SeqEqual
<1> QED
  BY <1>4 DEF s, t

(* A store through a pointer, of any index.                                *)
LEMMA PutIs ==
  ASSUME NEW at, NEW ref, NEW mem, NEW file, NEW env, NEW f, NEW node,
         NEW s, s = IndexAs(at, ref, mem, file, env)
  PROVE  Put(s, f, node) = IndexAs(at, ref, Changed(mem, f, node), file, env)
<1>1. s.mem = mem /\ ~s.null
  BY Fields
<1>2. Put(s, f, node) = [s EXCEPT !.mem = Changed(mem, f, node)]
  BY <1>1 DEF Put, Changed
<1> QED
  BY <1>2, Fields

(* b_tree_init leaves an empty root, saved, and no pin.                    *)
LEMMA BTreeInitIs ==
  ASSUME NEW env
  PROVE  LET leaf == LeafNode(<<>>) IN BTreeInit(env, 1) = Index(0, 0, 0, 1, leaf, leaf, env)
<1> DEFINE Z == ZeroNode(1)
           at0 == [f \in Frame |-> NoPage]
           ref0 == [f \in Frame |-> 0]
           mem0 == [f \in Frame |-> Z]
           at1 == Changed(at0, 1, Ctrl)
           ref1 == Changed(ref0, 1, 1)
           A == [Z EXCEPT !.n = NoPage, !.next = 2]
           mem2 == Changed(mem0, 1, A)
           mem4 == Changed(mem2, 2, EmptyNode)
           s0 == Opened(<<>>, env, 1)
           s1 == IndexAs(at1, ref1, mem0, <<Z>>, env)
           s2 == IndexAs(at1, ref1, mem2, <<Z>>, env)
           s3 == IndexAs(Loaded, Pins(1, 1, 0), mem2, <<Z, Z>>, env)
           s4 == IndexAs(Loaded, Pins(1, 1, 0), mem4, <<Z, Z>>, env)
           s5 == IndexAs(Loaded, Pins(1, 0, 0), mem4, <<Z, EmptyNode>>, env)
           s6 == IndexAs(Loaded, Pins(1, 0, 0), Mem(1, EmptyNode), <<Z, EmptyNode>>, env)
           setCtrl(s, root) == PutAt(s, Ctrl, [At(s, Ctrl) EXCEPT !.n = root, !.next = 2])
<1>1. /\ \A f \in Frame : at1[f] = IF f = 1 THEN Ctrl ELSE NoPage
      /\ \A f \in Frame : ref1[f] = IF f = 1 THEN 1 ELSE 0
      /\ \A f \in Frame : mem0[f] = Z
      /\ DOMAIN mem0 = Frame
  BY Frames DEF Changed
<1>2. Smallest({1}) = 1 /\ Smallest({2}) = 2
  <2>1. Smallest({1}) = 1
    BY SmallestIs
  <2>2. Smallest({2}) = 2
    BY SmallestIs
  <2> QED
    BY <2>1, <2>2
<1>3. Get(s0, Ctrl) = s1
  <2>1. s0 = IndexAs(at0, ref0, mem0, <<>>, env)
    BY DEF Opened, IndexAs, No
  <2> HIDE DEF s0
  <2>2. FramesOf(s0, Ctrl) = {}
    <3>1. s0.at = at0
      BY <2>1, Fields
    <3> QED
      BY <3>1 DEF FramesOf, Ctrl, NoPage
  <2>3. {g \in Frame : ref0[g] = 0} = Frame /\ Frame # {}
    BY Frames
  <2>4. Smallest(Frame) = 1
    BY Frames, SmallestIs
  <2>5. LoadedFrom(<<>>, Ctrl, Z) = Z /\ Grown(<<>>, Ctrl, Z) = <<Z>> /\ mem0[1] = Z
    BY <1>1, Frames DEF LoadedFrom, Grown, Ctrl
  <2>6. Changed(mem0, 1, Z) = mem0
    BY DEF Changed
  <2>7. Get(s0, Ctrl) =
        IndexAs(Changed(at0, 1, Ctrl), Changed(ref0, 1, 1),
                Changed(mem0, 1, LoadedFrom(<<>>, Ctrl, mem0[1])), Grown(<<>>, Ctrl, mem0[1]), env)
    <3> DEFINE victims == {g \in Frame : ref0[g] = 0}
    <3>1. victims # {} /\ Smallest(victims) = 1
      BY <2>3, <2>4
    <3>2. victims = {g \in Frame : ref0[g] = 0}
      OBVIOUS
    <3> HIDE DEF victims, at0, ref0, mem0
    <3> QED
      BY ONLY <2>1, <2>2, <3>1, <3>2, MissIs
  <2> HIDE DEF at0, ref0, mem0, Z
  <2> QED
    BY <2>5, <2>6, <2>7
<1>4. \A s : s = s1 \/ s = s2 => Ptr(s, Ctrl) = 1
  <2> SUFFICES ASSUME NEW s, s = s1 \/ s = s2 PROVE Ptr(s, Ctrl) = 1
    OBVIOUS
  <2>1. s.at = at1 /\ ~s.null
    BY Fields
  <2>2. FramesOf(s, Ctrl) = {1}
    <3>1. \A f \in Frame : s.at[f] = Ctrl <=> f = 1
      BY <1>1, <2>1 DEF Ctrl, NoPage
    <3> QED
      BY <3>1, Frames, Zenon DEF FramesOf
  <2> QED
    BY <1>2, <2>1, <2>2 DEF Ptr
<1>5. setCtrl(s1, NoPage) = s2
  <2>1. At(s1, Ctrl) = Z
    <3>1. s1.mem = mem0 /\ Ptr(s1, Ctrl) = 1
      BY <1>4, Fields
    <3> HIDE DEF s1, mem0
    <3> QED
      BY <1>1, <3>1, Frames DEF At
  <2>2. Put(s1, 1, A) = s2
    <3> HIDE DEF A, mem0, at1, ref1, Z
    <3> QED
      BY PutIs
  <2> HIDE DEF s2
  <2>3. Ptr(s1, Ctrl) = 1
    BY <1>4
  <2> HIDE DEF s1, Z
  <2> QED
    BY <2>1, <2>2, <2>3 DEF PutAt
<1>6. Get(s2, 1) = s3
  <2>1. s2.at = at1
    BY Fields
  <2>2. FramesOf(s2, 1) = {}
    <3>1. \A f \in Frame : at1[f] # 1
      BY <1>1 DEF Ctrl, NoPage
    <3> HIDE DEF s2, at1
    <3> QED
      BY <2>1, <3>1 DEF FramesOf
  <2> DEFINE victims == {g \in Frame : ref1[g] = 0}
  <2>3. victims # {} /\ Smallest(victims) = 2
    <3>1. \A g \in Frame : ref1[g] = 0 <=> g >= 2
      <4> HIDE DEF ref1
      <4>1. \A g \in Frame : ref1[g] = IF g = 1 THEN 1 ELSE 0
        BY <1>1
      <4> QED
        BY ONLY <4>1, Frames
    <3>2. victims = {g \in Frame : g >= 2}
      BY <3>1, Zenon
    <3> HIDE DEF victims
    <3> QED
      BY <3>2, Frames, SmallestIs
  <2>4. victims = {g \in Frame : ref1[g] = 0}
    OBVIOUS
  <2>5. mem2[2] = Z
    BY Frames DEF Changed
  <2>6. LoadedFrom(<<Z>>, 1, Z) = Z /\ Grown(<<Z>>, 1, Z) = <<Z, Z>>
    <3> HIDE DEF Z
    <3>1. Len(<<Z>>) = 1 /\ 1 \notin 0 .. 1 - 1
      OBVIOUS
    <3>2. Append(<<Z>>, Z) = <<Z, Z>>
      BY Twice
    <3> QED
      BY <3>1, <3>2 DEF LoadedFrom, Grown
  <2>7. Changed(mem2, 2, Z) = mem2
    <3>1. mem2 = [f \in Frame |-> mem2[f]]
      BY DEF Changed
    <3> HIDE DEF mem2
    <3> QED
      BY <2>5, <3>1 DEF Changed
  <2>8. Changed(at1, 2, 1) = Loaded
    <3>1. \A f \in Frame : Changed(at1, 2, 1)[f] = Loaded[f]
      BY <1>1, ChangedAt, Frames DEF Loaded, Changed
    <3> QED
      BY <3>1, Frames DEF Changed, Loaded
  <2>9. Changed(ref1, 2, 1) = Pins(1, 1, 0)
    <3>1. \A f \in Frame : Changed(ref1, 2, 1)[f] = Pins(1, 1, 0)[f]
      BY <1>1, ChangedAt, Frames DEF Pins, Changed
    <3> QED
      BY <3>1, Frames DEF Changed, Pins
  <2> HIDE DEF victims, at1, ref1, mem2, Z
  <2>10. Get(s2, 1) =
         IndexAs(Changed(at1, 2, 1), Changed(ref1, 2, 1),
                 Changed(mem2, 2, LoadedFrom(<<Z>>, 1, mem2[2])), Grown(<<Z>>, 1, mem2[2]), env)
    BY ONLY <2>2, <2>3, <2>4, MissIs DEF s2
  <2> QED
    BY <2>5, <2>6, <2>7, <2>8, <2>9, <2>10
<1>7. \A s : s = s3 \/ s = s4 \/ s = s5 \/ s = s6 =>
        /\ Ptr(s, Ctrl) = 1 /\ Ptr(s, 1) = 2
        /\ FramesOf(s, Ctrl) = {1} /\ FramesOf(s, 1) = {2}
  <2> SUFFICES ASSUME NEW s, s = s3 \/ s = s4 \/ s = s5 \/ s = s6
               PROVE  /\ Ptr(s, Ctrl) = 1 /\ Ptr(s, 1) = 2
                      /\ FramesOf(s, Ctrl) = {1} /\ FramesOf(s, 1) = {2}
    OBVIOUS
  <2>1. s.at = Loaded /\ ~s.null
    BY Fields
  <2> QED
    BY <2>1, Pointers
<1>8. PutAt(s3, 1, EmptyNode) = s4
  <2> HIDE DEF mem2, Z
  <2>1. Ptr(s3, 1) = 2
    BY <1>7
  <2>2. Put(s3, 2, EmptyNode) = s4
    BY PutIs
  <2> HIDE DEF s3, s4
  <2> QED
    BY <2>1, <2>2 DEF PutAt
<1>9. mem4[1] = A /\ mem4[2] = EmptyNode
  BY Frames DEF Changed
<1>10. Release(s4, 1) = s5
  <2> DEFINE held == {f \in FramesOf(s4, 1) : Pins(1, 1, 0)[f] > 0}
  <2>1. held = {2}
    <3>1. FramesOf(s4, 1) = {2}
      BY <1>7
    <3>2. Pins(1, 1, 0)[2] > 0
      BY Frames DEF Pins
    <3> HIDE DEF s4
    <3> QED
      BY <3>1, <3>2
  <2>2. Unpinned(Pins(1, 1, 0), {2}) = Pins(1, 0, 0)
    <3>1. Unpinned(Pins(1, 1, 0), {2}) = Pins(1, 1 - 1, 0)
      BY PinsUnpinned
    <3> QED
      BY <3>1
  <2>3. Written(<<Z, Z>>, 1, EmptyNode) = <<Z, EmptyNode>>
    <3> HIDE DEF Z
    <3> QED
      BY DEF Written, NoPage
  <2>4. held = {f \in FramesOf(s4, 1) : Pins(1, 1, 0)[f] > 0}
    OBVIOUS
  <2> HIDE DEF held, mem4, Z
  <2>5. Release(s4, 1) =
        IF held = {} THEN s4
        ELSE IndexAs(Loaded, Unpinned(Pins(1, 1, 0), held), mem4,
                     Written(<<Z, Z>>, 1, mem4[Smallest(held)]), env)
    BY <2>4, ReleaseIs
  <2> QED
    BY <1>2, <1>9, <2>1, <2>2, <2>3, <2>5
<1>11. setCtrl(s5, 1) = s6
  <2>1. At(s5, Ctrl) = A
    <3>1. s5.mem = mem4 /\ Ptr(s5, Ctrl) = 1
      BY <1>7, Fields
    <3> HIDE DEF s5, mem4, A
    <3> QED
      BY <1>9, <3>1 DEF At
  <2>2. [A EXCEPT !.n = 1, !.next = 2] = CtrlNode
    <3>1. Z = NodeOf(0, 0, Z.child, Z.row)
      BY DEF ZeroNode, NodeOf
    <3>2. A = Headed(Z, NoPage, 2) /\ CtrlNode = Headed(Z, 1, 2)
      BY DEF Headed, CtrlNode
    <3> HIDE DEF A, Z
    <3>3. A = NodeOf(NoPage, 2, Z.child, Z.row) /\ CtrlNode = NodeOf(1, 2, Z.child, Z.row)
      BY <3>1, <3>2, HeadedNode
    <3>4. Headed(A, 1, 2) = CtrlNode
      BY <3>3, HeadedNode
    <3> QED
      BY <3>4 DEF Headed
  <2>3. Put(s5, 1, CtrlNode) =
        IndexAs(Loaded, Pins(1, 0, 0), Changed(mem4, 1, CtrlNode), <<Z, EmptyNode>>, env)
    <3> HIDE DEF mem4, Z
    <3> QED
      BY PutIs
  <2>4. Changed(mem4, 1, CtrlNode) = Mem(1, EmptyNode)
    <3>1. ParkedNode(1) = Z
      BY ParkedOne
    <3>2. \A f \in Frame : mem4[f] = IF f = 1 THEN A ELSE IF f = 2 THEN EmptyNode ELSE Z
      BY Frames DEF Changed
    <3>3. DOMAIN mem4 = Frame
      BY DEF Changed
    <3> HIDE DEF mem4, A
    <3>4. \A f \in Frame : Changed(mem4, 1, CtrlNode)[f] = Mem(1, EmptyNode)[f]
      BY <3>1, <3>2, <3>3, ChangedAt, Frames DEF Mem
    <3> QED
      BY <3>3, <3>4, Frames DEF Changed, Mem
  <2>5. Ptr(s5, Ctrl) = 1
    BY <1>7
  <2> HIDE DEF s5, A, mem4, Z
  <2> QED
    BY <2>1, <2>2, <2>3, <2>4, <2>5 DEF PutAt
<1>12. Release(s6, Ctrl) = Index(0, 0, 0, 1, EmptyNode, EmptyNode, env)
  <2> DEFINE held == {f \in FramesOf(s6, Ctrl) : Pins(1, 0, 0)[f] > 0}
  <2>1. held = {1}
    <3>1. FramesOf(s6, Ctrl) = {1}
      BY <1>7
    <3>2. Pins(1, 0, 0)[1] > 0
      BY Frames DEF Pins
    <3> HIDE DEF s6
    <3> QED
      BY <3>1, <3>2
  <2>2. Unpinned(Pins(1, 0, 0), {1}) = Pins(0, 0, 0)
    <3>1. Unpinned(Pins(1, 0, 0), {1}) = Pins(1 - 1, 0, 0)
      BY PinsUnpinned
    <3> QED
      BY <3>1
  <2>3. Written(<<Z, EmptyNode>>, Ctrl, CtrlNode) = <<CtrlNode, EmptyNode>>
    <3> HIDE DEF Z
    <3> QED
      BY DEF Written, NoPage, Ctrl
  <2>4. held = {f \in FramesOf(s6, Ctrl) : Pins(1, 0, 0)[f] > 0}
    OBVIOUS
  <2>5. Mem(1, EmptyNode)[1] = CtrlNode
    BY Frames DEF Mem
  <2> HIDE DEF held, Z
  <2>6. Release(s6, Ctrl) =
        IF held = {} THEN s6
        ELSE IndexAs(Loaded, Unpinned(Pins(1, 0, 0), held), Mem(1, EmptyNode),
                     Written(<<Z, EmptyNode>>, Ctrl, Mem(1, EmptyNode)[Smallest(held)]), env)
    BY <2>4, ReleaseIs
  <2> QED
    BY <1>2, <2>1, <2>2, <2>3, <2>5, <2>6 DEF Index
<1>13. EmptyNode = LeafNode(<<>>)
  <2>1. \A k \in Slot : ~(k < Len(<<>>))
    BY DEF Slot
  <2>2. LeafRows(<<>>) = [k \in Slot |-> NullRid]
    BY <2>1 DEF LeafRows
  <2> QED
    BY <2>2 DEF EmptyNode, LeafNode, NoChildren
<1> HIDE DEF s0, s1, s2, s3, s4, s5, s6
<1>14. BTreeInit(env, 1) = Index(0, 0, 0, 1, EmptyNode, EmptyNode, env)
  <2>1. BTreeInit(env, 1) =
          Release(setCtrl(Release(PutAt(Get(setCtrl(Get(s0, Ctrl), NoPage), 1), 1, EmptyNode), 1), 1),
                  Ctrl)
    BY DEF BTreeInit, s0
  <2> HIDE DEF setCtrl
  <2> QED
    BY <1>3, <1>5, <1>6, <1>8, <1>10, <1>11, <1>12, <2>1
<1> QED
  BY <1>13, <1>14

-----------------------------------------------------------------------------
(* What a search of any index answers with, however many nodes it has and  *)
(* whatever they hold.                                                     *)

(* A function on 0 .. n, extended by one value.                            *)
LEMMA OneMore ==
  ASSUME NEW n \in Nat, NEW g, NEW v,
         NEW h, h = [k \in 0 .. n + 1 |-> IF k = n + 1 THEN v ELSE g[k]]
  PROVE  h[n + 1] = v /\ \A k \in 0 .. n : h[k] = g[k]
<1>1. n + 1 \in 0 .. n + 1
  OBVIOUS
<1>2. \A k \in 0 .. n : k \in 0 .. n + 1 /\ k # n + 1
  OBVIOUS
<1>3. h[n + 1] = v
  BY <1>1
<1>4. \A k \in 0 .. n : h[k] = g[k]
  BY <1>2
<1> QED
  BY <1>3, <1>4

(* The calls of a search, one more each time, and what each of them        *)
(* returns once the one it made has.                                       *)
Longer(key, path) ==
  IF Last(path).end THEN path ELSE Append(path, SearchCall(Last(path).s, Last(path).child, key))
Back(c, below) == [s |-> Release(below.s, c.a), rid |-> below.rid]
Step(kind, p, x, k) == IF kind = "call" THEN Longer(p, x) ELSE Back(p[1][p[2] - k], x)
Steps(kind, p, start, n, g) ==
  g = [k \in 0 .. n |-> IF k = 0 THEN start ELSE Step(kind, p, g[k - 1], k)]

(* The paths or answers after 0 to n steps.                                *)
LEMMA StepsExist ==
  ASSUME NEW kind, NEW p, NEW start
  PROVE  \A n \in Nat : \E g : Steps(kind, p, start, n, g)
<1> DEFINE S == {n \in Nat : \E g : Steps(kind, p, start, n, g)}
<1>1. 0 \in S
  <2> DEFINE g == [k \in 0 .. 0 |-> start]
  <2>1. Steps(kind, p, start, 0, g)
    BY DEF Steps
  <2> QED
    BY <2>1
<1>2. ASSUME NEW n \in Nat, NEW g, Steps(kind, p, start, n, g)
      PROVE  \E h : Steps(kind, p, start, n + 1, h)
  <2> DEFINE v == Step(kind, p, g[n], n + 1)
             h == [k \in 0 .. n + 1 |-> IF k = n + 1 THEN v ELSE g[k]]
  <2>1. h[n + 1] = v /\ \A k \in 0 .. n : h[k] = g[k]
    <3> HIDE DEF v
    <3> QED
      BY OneMore
  <2>2. \A k \in 0 .. n : g[k] = IF k = 0 THEN start ELSE Step(kind, p, g[k - 1], k)
    BY <1>2 DEF Steps
  <2>3. h = [k \in 0 .. n + 1 |-> h[k]]
    OBVIOUS
  <2> HIDE DEF h
  <2>4. ASSUME NEW k \in 0 .. n + 1
        PROVE  h[k] = IF k = 0 THEN start ELSE Step(kind, p, h[k - 1], k)
    <3>1. CASE k = n + 1
      <4>1. k # 0 /\ k - 1 = n /\ n \in 0 .. n
        BY <3>1
      <4>2. h[k - 1] = g[n] /\ h[k] = v
        BY <2>1, <3>1, <4>1
      <4> QED
        BY <3>1, <4>1, <4>2
    <3>2. CASE k \in 1 .. n
      <4>1. k \in 0 .. n /\ k - 1 \in 0 .. n /\ k # 0
        BY <3>2
      <4>2. h[k - 1] = g[k - 1] /\ h[k] = g[k]
        BY <2>1, <4>1
      <4> QED
        BY <2>2, <4>1, <4>2
    <3>3. CASE k = 0
      <4>1. k \in 0 .. n
        BY <3>3
      <4> QED
        BY <2>1, <2>2, <3>3, <4>1
    <3>4. k = n + 1 \/ k \in 1 .. n \/ k = 0
      OBVIOUS
    <3> QED
      BY <3>1, <3>2, <3>3, <3>4, Zenon
  <2>5. Steps(kind, p, start, n + 1, h)
    BY <2>3, <2>4 DEF Steps
  <2> QED
    BY <2>5
<1>3. S = Nat
  <2>1. \A n \in S : n + 1 \in S
    <3>1. \A n \in Nat : n + 1 \in Nat
      OBVIOUS
    <3> QED
      BY <1>2, <3>1, Zenon
  <2> HIDE DEF S
  <2>2. S \in SUBSET Nat
    BY DEF S
  <2> QED
    BY <1>1, <2>1, <2>2, Induction
<1> QED
  BY <1>3

(* What the comparators read is not changed by getting a page, and a call  *)
(* answers with NullRid or with an entry that compares as 0.               *)
Carries(s, env) == "env" \in DOMAIN s /\ s.env = env
Meets(env, key, r) == r = NullRid \/ PtrRow(env, key, r) = 0

LEMMA GetCarries ==
  ASSUME NEW s, NEW env, Carries(s, env), NEW a
  PROVE  Carries(Get(s, a), env)
<1>1. \A v : Carries([s EXCEPT !.ref = v], env)
  BY DEF Carries
<1>2. Carries(Lost(s), env)
  BY DEF Carries, Lost
<1>3. \A at, ref, mem, file : Carries([s EXCEPT !.at = at, !.ref = ref, !.mem = mem, !.file = file], env)
  BY DEF Carries
<1> QED
  BY <1>1, <1>2, <1>3 DEF Get, Carries

LEMMA CallMeets ==
  ASSUME NEW s, NEW env, Carries(s, env), NEW a, NEW key, NEW c, c = SearchCall(s, a, key)
  PROVE  Carries(c.s, env) /\ Meets(env, key, c.rid)
<1> DEFINE t == Get(s, a)
<1>1. Carries(t, env)
  BY GetCarries
<1>2. c.s = t
  BY DEF SearchCall, Then
<1>3. \E b : c.rid = IF PtrRow(t.env, key, b) # 0 THEN NullRid ELSE b
  BY DEF SearchCall, Then
<1> HIDE DEF t
<1> QED
  BY <1>1, <1>2, <1>3 DEF Carries, Meets

(* The last call of a path does so.                                        *)
IsPath(path) == \E S : path \in Seq(S) /\ path # <<>>
EndMeets(env, key, path) ==
  IsPath(path) /\ Carries(Last(path).s, env) /\ Meets(env, key, Last(path).rid)

LEMMA LongerMeets ==
  ASSUME NEW env, NEW key, NEW path, EndMeets(env, key, path)
  PROVE  EndMeets(env, key, Longer(key, path))
<1> DEFINE c == Last(path)
           next == SearchCall(c.s, c.child, key)
           e == Append(path, next)
<1>1. Carries(next.s, env) /\ Meets(env, key, next.rid)
  BY CallMeets DEF EndMeets
<1> HIDE DEF next
<1>2. PICK S : path \in Seq(S)
  BY DEF EndMeets, IsPath
<1>3. IsPath(e) /\ Last(e) = next
  <2> DEFINE T == S \cup {next}
  <2>1. path \in Seq(T) /\ next \in T
    BY <1>2
  <2> HIDE DEF T
  <2>2. e \in Seq(T) /\ Len(e) = Len(path) + 1 /\ Len(path) \in Nat /\ e[Len(path) + 1] = next
    BY <2>1
  <2>3. Len(e) # 0
    BY <2>2
  <2> HIDE DEF e
  <2> QED
    BY <2>2, <2>3 DEF IsPath, Last
<1>4. Longer(key, path) = IF c.end THEN path ELSE e
  BY DEF Longer, next
<1> HIDE DEF e
<1> QED
  BY <1>1, <1>3, <1>4 DEF EndMeets

(* So does the path of a search.                                           *)
LEMMA PathMeets ==
  ASSUME NEW s, NEW env, Carries(s, env), NEW a, NEW key
  PROVE  EndMeets(env, key, SearchPath(s, a, key))
<1> DEFINE first == SearchCall(s, a, key)
           Down(c) == SearchCall(c.s, c.child, key)
           more(p) == Then(p, LAMBDA q : IF Last(q).end THEN q ELSE Append(q, Down(Last(q))))
           n == CachePage
           F(g) == [d \in 0 .. n |-> IF d = 0 THEN <<first>> ELSE more(g[d - 1])]
           made == CHOOSE g : g = F(g)
<1>1. Carries(first.s, env) /\ Meets(env, key, first.rid)
  BY CallMeets
<1>2. n \in Nat
  BY CacheAssumption
<1>3. SearchPath(s, a, key) = made[n]
  BY DEF SearchPath, Calls
<1>4. \A p : more(p) = Longer(key, p)
  BY DEF Longer, Then
<1> HIDE DEF more, n, first
<1>5. PICK h : Steps("call", key, <<first>>, n, h)
  BY <1>2, StepsExist
<1>6. \A g : F(g) = [d \in 0 .. n |-> IF d = 0 THEN <<first>> ELSE Step("call", key, g[d - 1], d)]
  BY <1>4 DEF Step
<1>7. h = F(h)
  BY <1>5, <1>6 DEF Steps
<1> HIDE DEF F
<1>8. made = F(made)
  BY <1>7
<1> HIDE DEF made
<1>9. \A d \in 0 .. n : made[d] = IF d = 0 THEN <<first>> ELSE Longer(key, made[d - 1])
  BY <1>6, <1>8 DEF Step
<1> DEFINE S == {d \in Nat : d <= n => EndMeets(env, key, made[d])}
<1>10. 0 \in S
  <2>1. <<first>> \in Seq({first}) /\ <<first>> # <<>> /\ Last(<<first>>) = first
    BY DEF Last
  <2>2. EndMeets(env, key, <<first>>)
    BY <1>1, <2>1 DEF EndMeets, IsPath
  <2>3. made[0] = <<first>>
    BY <1>2, <1>9
  <2> QED
    BY <2>2, <2>3
<1>11. ASSUME NEW d \in S PROVE d + 1 \in S
  <2>1. CASE d + 1 <= n
    <3>1. d \in Nat /\ d <= n /\ d + 1 \in 0 .. n /\ d + 1 # 0 /\ (d + 1) - 1 = d
      BY <1>2, <2>1
    <3>2. made[d + 1] = Longer(key, made[d]) /\ EndMeets(env, key, made[d])
      BY <1>9, <3>1
    <3> QED
      BY <3>2, LongerMeets
  <2>2. CASE ~(d + 1 <= n)
    BY <2>2
  <2> QED
    BY <2>1, <2>2
<1>12. S = Nat
  <2>1. S \in SUBSET Nat /\ \A d \in S : d + 1 \in S
    BY <1>11
  <2> HIDE DEF S
  <2> QED
    BY <1>10, <2>1, Induction
<1>13. EndMeets(env, key, made[n])
  BY <1>2, <1>12
<1> QED
  BY <1>3, <1>13

(* On the way back every call returns what the last one answered.          *)
LEMMA RidReturned ==
  ASSUME NEW path, IsPath(path), NEW bottom
  PROVE  Returned(path, bottom, Back).rid = bottom.rid
<1> DEFINE len == Len(path)
           up(c, z) == Then(z, LAMBDA below : Back(c, below))
           F(g) == [d \in 1 .. len |-> IF d = len THEN bottom ELSE up(path[d], g[d + 1])]
           made == CHOOSE g : g = F(g)
<1>1. len \in Nat \ {0}
  BY DEF IsPath
<1>2. Returned(path, bottom, Back) = made[1]
  BY DEF Returned
<1>3. \A c, z : up(c, z) = Back(c, z)
  BY DEF Then
<1> HIDE DEF len, up
<1>4. PICK h : Steps("return", <<path, len>>, bottom, len - 1, h)
  BY <1>1, StepsExist
<1>5. \A m \in 0 .. len - 1 : h[m] = IF m = 0 THEN bottom ELSE Back(path[len - m], h[m - 1])
  BY <1>4 DEF Steps, Step
<1>6. \E r : r = F(r)
  <2> DEFINE r == [d \in 1 .. len |-> h[len - d]]
  <2>1. ASSUME NEW d \in 1 .. len
        PROVE  r[d] = IF d = len THEN bottom ELSE up(path[d], r[d + 1])
    <3>1. r[d] = h[len - d]
      OBVIOUS
    <3>2. CASE d = len
      <4>1. len - d = 0 /\ 0 \in 0 .. len - 1
        BY <1>1, <3>2
      <4> QED
        BY <1>5, <3>1, <3>2, <4>1
    <3>3. CASE d # len
      <4>1. /\ d + 1 \in 1 .. len /\ len - d \in 0 .. len - 1 /\ len - d # 0
            /\ len - (len - d) = d /\ (len - d) - 1 = len - (d + 1)
        BY <1>1, <3>3
      <4>2. h[len - d] = Back(path[d], h[len - (d + 1)])
        BY <1>5, <4>1
      <4>3. r[d + 1] = h[len - (d + 1)]
        BY <4>1
      <4> QED
        BY <1>3, <3>1, <3>3, <4>2, <4>3
    <3> QED
      BY <3>2, <3>3
  <2>2. r = [d \in 1 .. len |-> r[d]]
    OBVIOUS
  <2> HIDE DEF r
  <2>3. r = F(r)
    BY <2>1, <2>2
  <2> QED
    BY <2>3
<1>7. made = F(made)
  BY <1>6
<1> HIDE DEF made
<1>8. \A d \in 1 .. len : made[d] = IF d = len THEN bottom ELSE Back(path[d], made[d + 1])
  BY <1>3, <1>7
<1> DEFINE S == {m \in Nat : m <= len - 1 => made[len - m].rid = bottom.rid}
<1>9. 0 \in S
  <2>1. len \in 1 .. len /\ len - 0 = len
    BY <1>1
  <2> QED
    BY <1>8, <2>1
<1>10. ASSUME NEW m \in S PROVE m + 1 \in S
  <2>1. CASE m + 1 <= len - 1
    <3> DEFINE d == len - (m + 1)
    <3>1. /\ m \in Nat /\ d \in 1 .. len /\ d # len /\ d + 1 = len - m /\ m <= len - 1
      BY <1>1, <2>1
    <3>2. made[d] = Back(path[d], made[len - m]) /\ made[len - m].rid = bottom.rid
      BY <1>8, <3>1
    <3>3. made[d].rid = bottom.rid
      BY <3>2 DEF Back
    <3> QED
      BY <3>1, <3>3
  <2>2. CASE ~(m + 1 <= len - 1)
    BY <2>2
  <2> QED
    BY <2>1, <2>2
<1>11. S = Nat
  <2>1. S \in SUBSET Nat /\ \A m \in S : m + 1 \in S
    BY <1>10
  <2> HIDE DEF S
  <2> QED
    BY <1>9, <2>1, Induction
<1>12. len - 1 \in Nat /\ len - (len - 1) = 1
  BY <1>1
<1> QED
  BY <1>2, <1>11, <1>12

(* b_tree_search answers with NullRid or with an entry that compares as 0. *)
LEMMA SearchMeets ==
  ASSUME NEW s, NEW env, Carries(s, env), NEW key
  PROVE  Meets(env, key, BTreeSearch(s, key).rid)
<1> DEFINE t == Get(s, Ctrl)
           a == OldRoot(t)
           path == SearchPath(t, a, key)
           bottom == [s |-> Release(Last(path).s, Last(path).a), rid |-> Last(path).rid]
<1>1. Carries(t, env)
  BY GetCarries
<1> HIDE DEF t
<1>2. EndMeets(env, key, path)
  BY <1>1, PathMeets
<1>3. RecursiveSearch(t, a, key) = Returned(path, bottom, Back)
  BY DEF RecursiveSearch, Then, Back
<1> HIDE DEF a, path
<1>4. Returned(path, bottom, Back).rid = Last(path).rid
  <2>1. bottom.rid = Last(path).rid
    OBVIOUS
  <2> HIDE DEF bottom
  <2> QED
    BY <1>2, <2>1, RidReturned DEF EndMeets
<1>5. RecursiveSearch(t, a, key).rid = Last(path).rid
  BY <1>3, <1>4
<1>6. BTreeSearch(s, key).rid = RecursiveSearch(t, a, key).rid
  BY DEF BTreeSearch, Then, t, a
<1> QED
  BY <1>2, <1>5, <1>6 DEF EndMeets

-----------------------------------------------------------------------------
(* What holds of the two tables between two calls.                         *)
Text == Key \cup Value
Owns(f, r) == {f.recs[r].key, f.recs[r].value}
Tables(f) ==
  /\ IsFiniteSet(DOMAIN f.strs) /\ DOMAIN f.strs \subseteq Nat \ {NullRid}
  /\ IsFiniteSet(DOMAIN f.recs) /\ DOMAIN f.recs \subseteq Nat \ {NullRid}
  /\ \A s \in DOMAIN f.strs : f.strs[s] \in Text
Owned(f) ==
  /\ \A r \in DOMAIN f.recs : f.recs[r].key # f.recs[r].value
  /\ \A q, r \in DOMAIN f.recs : q # r => Owns(f, q) \cap Owns(f, r) = {}
  /\ DOMAIN f.strs = UNION {Owns(f, r) : r \in DOMAIN f.recs}
  /\ Cardinality(DOMAIN f.strs) = 2 * Cardinality(DOMAIN f.recs)
Pair(f, r) == [key |-> f.strs[f.recs[r].key], value |-> f.strs[f.recs[r].value]]
Given(f, us) == \A r \in DOMAIN f.recs : Pair(f, r) \in Range(us)

(* A place that is free has a number, and in a table of one block there is *)
(* one that is taken first.                                                *)
LEMMA PlacesAre ==
  ASSUME NEW S, NEW r \in Places(S)
  PROVE  /\ r \in Nat \ {NullRid} /\ r \notin S
         /\ OneBlock => \A q \in Places(S) : q = r
<1>1. r \in Rid \ S /\ \A q \in Places(S) : q \in Rid \ S
  BY DEF Places
<1>2. \A q \in Rid : q \in Nat \ {NullRid}
  BY RidAssumption DEF NullRid
<1>3. ASSUME OneBlock, NEW q \in Places(S) PROVE q = r
  <2>1. r <= q /\ q <= r
    BY <1>1, <1>3 DEF Places
  <2> QED
    BY <1>1, <1>2, <2>1
<1> QED
  BY <1>1, <1>2, <1>3

(* A record that goes together with its two strings leaves every other     *)
(* record with its own.                                                    *)
LEMMA DropsRecord ==
  ASSUME NEW f, Tables(f), Owned(f), NEW r \in DOMAIN f.recs,
         NEW g, DOMAIN g.strs = DOMAIN f.strs \ Owns(f, r), DOMAIN g.recs = DOMAIN f.recs \ {r},
         \A s \in DOMAIN g.strs : g.strs[s] = f.strs[s],
         \A q \in DOMAIN g.recs : g.recs[q] = f.recs[q]
  PROVE  /\ Tables(g) /\ Owned(g)
         /\ \A q \in DOMAIN g.recs : Pair(g, q) = Pair(f, q)
<1>1. /\ DOMAIN g.strs = DOMAIN f.strs \ Owns(f, r)
      /\ \A s \in DOMAIN g.strs : g.strs[s] = f.strs[s]
  OBVIOUS
<1>2. /\ DOMAIN g.recs = DOMAIN f.recs \ {r}
      /\ \A q \in DOMAIN g.recs : g.recs[q] = f.recs[q]
  OBVIOUS
<1>3. \A q \in DOMAIN g.recs : Owns(g, q) = Owns(f, q) /\ Owns(f, q) \cap Owns(f, r) = {}
  BY <1>2 DEF Owns, Owned
<1>4. \A q \in DOMAIN f.recs : Owns(f, q) \subseteq DOMAIN f.strs
  BY DEF Owned
<1>5. \A q \in DOMAIN g.recs : Owns(f, q) \subseteq DOMAIN g.strs
  BY <1>1, <1>2, <1>3, <1>4
<1>6. Tables(g)
  <2>1. IsFiniteSet(DOMAIN f.strs) /\ IsFiniteSet(DOMAIN f.recs)
    BY DEF Tables
  <2>2. IsFiniteSet(DOMAIN f.strs \ Owns(f, r)) /\ IsFiniteSet(DOMAIN f.recs \ {r})
    BY ONLY <2>1, FS_Difference
  <2> QED
    BY <1>1, <1>2, <2>2 DEF Tables
<1>7. \A q \in DOMAIN g.recs : Pair(g, q) = Pair(f, q)
  BY <1>1, <1>2, <1>5 DEF Pair, Owns
<1>8. DOMAIN g.strs = UNION {Owns(g, q) : q \in DOMAIN g.recs}
  <2>1. \A s : s \in DOMAIN f.strs <=> \E q \in DOMAIN f.recs : s \in Owns(f, q)
    BY DEF Owned
  <2>2. \A s : s \in DOMAIN g.strs <=> \E q \in DOMAIN g.recs : s \in Owns(g, q)
    BY <1>1, <1>2, <1>3, <1>4, <1>5, <2>1
  <2> QED
    BY <2>2
<1>9. Cardinality(DOMAIN g.strs) = 2 * Cardinality(DOMAIN g.recs)
  <2> DEFINE key == f.recs[r].key
             value == f.recs[r].value
  <2>1. key \in DOMAIN f.strs /\ value \in DOMAIN f.strs /\ key # value
    BY <1>4 DEF Owns, Owned
  <2>2. DOMAIN g.strs = (DOMAIN f.strs \ {key}) \ {value}
    BY <1>1 DEF Owns
  <2> HIDE DEF key, value
  <2>3. IsFiniteSet(DOMAIN f.strs) /\ IsFiniteSet(DOMAIN f.recs)
    BY DEF Tables
  <2>4. /\ IsFiniteSet(DOMAIN f.strs \ {key})
        /\ Cardinality(DOMAIN f.strs \ {key}) = Cardinality(DOMAIN f.strs) - 1
    BY <2>1, <2>3, FS_RemoveElement
  <2>5. Cardinality(DOMAIN g.strs) = Cardinality(DOMAIN f.strs) - 1 - 1
    BY ONLY <2>1, <2>2, <2>4, FS_RemoveElement
  <2>6. Cardinality(DOMAIN g.recs) = Cardinality(DOMAIN f.recs) - 1
    BY <1>2, <2>3, FS_RemoveElement
  <2>7. Cardinality(DOMAIN f.strs) \in Nat /\ Cardinality(DOMAIN f.recs) \in Nat
    BY <2>3, FS_CardinalityType
  <2> QED
    BY <2>5, <2>6, <2>7 DEF Owned
<1>10. Owned(g)
  <2>1. \A q \in DOMAIN g.recs : g.recs[q].key # g.recs[q].value
    BY <1>2 DEF Owned
  <2>2. \A p, q \in DOMAIN g.recs : p # q => Owns(g, p) \cap Owns(g, q) = {}
    BY <1>2, <1>3 DEF Owned
  <2> QED
    BY <1>8, <1>9, <2>1, <2>2 DEF Owned
<1> QED
  BY <1>2, <1>6, <1>7, <1>10

(* A record that comes with two new strings leaves every other record      *)
(* with its own.                                                           *)
LEMMA AddsRecord ==
  ASSUME NEW f, Tables(f), Owned(f),
         NEW key \in Nat \ {NullRid}, NEW value \in Nat \ {NullRid}, key # value,
         key \notin DOMAIN f.strs, value \notin DOMAIN f.strs,
         NEW r \in Nat \ {NullRid}, r \notin DOMAIN f.recs,
         NEW g, DOMAIN g.strs = DOMAIN f.strs \cup {key, value}, DOMAIN g.recs = DOMAIN f.recs \cup {r},
         g.strs[key] \in Text, g.strs[value] \in Text,
         g.recs[r].key = key, g.recs[r].value = value,
         \A s \in DOMAIN f.strs : g.strs[s] = f.strs[s],
         \A q \in DOMAIN f.recs : g.recs[q] = f.recs[q]
  PROVE  /\ Tables(g) /\ Owned(g)
         /\ \A q \in DOMAIN f.recs : Pair(g, q) = Pair(f, q)
<1>1. IsFiniteSet(DOMAIN f.strs) /\ IsFiniteSet(DOMAIN f.recs)
  BY DEF Tables
<1>2. \A q \in DOMAIN f.recs : Owns(g, q) = Owns(f, q) /\ Owns(f, q) \subseteq DOMAIN f.strs
  <2>1. \A q \in DOMAIN f.recs : Owns(g, q) = Owns(f, q)
    BY DEF Owns
  <2>2. \A q \in DOMAIN f.recs : Owns(f, q) \subseteq DOMAIN f.strs
    BY DEF Owned
  <2> QED
    BY <2>1, <2>2
<1>3. Owns(g, r) = {key, value}
  BY DEF Owns
<1>4. /\ IsFiniteSet(DOMAIN g.strs) /\ IsFiniteSet(DOMAIN g.recs)
      /\ Cardinality(DOMAIN g.strs) = Cardinality(DOMAIN f.strs) + 2
      /\ Cardinality(DOMAIN g.recs) = Cardinality(DOMAIN f.recs) + 1
  <2> DEFINE one == DOMAIN f.strs \cup {key}
  <2>1. IsFiniteSet(one) /\ Cardinality(one) = Cardinality(DOMAIN f.strs) + 1
    <3>1. IsFiniteSet(DOMAIN f.strs) /\ one = DOMAIN f.strs \cup {key} /\ key \notin DOMAIN f.strs
      BY <1>1
    <3> HIDE DEF one
    <3> QED
      BY ONLY <3>1, FS_AddElement
  <2>2. DOMAIN g.strs = one \cup {value} /\ value \notin one
    OBVIOUS
  <2> HIDE DEF one
  <2>3. IsFiniteSet(DOMAIN g.strs) /\ Cardinality(DOMAIN g.strs) = Cardinality(one) + 1
    BY ONLY <2>1, <2>2, FS_AddElement
  <2>4. IsFiniteSet(DOMAIN g.recs) /\ Cardinality(DOMAIN g.recs) = Cardinality(DOMAIN f.recs) + 1
    <3>1. DOMAIN g.recs = DOMAIN f.recs \cup {r} /\ r \notin DOMAIN f.recs
      OBVIOUS
    <3> QED
      BY ONLY <1>1, <3>1, FS_AddElement
  <2>5. Cardinality(DOMAIN f.strs) \in Nat
    BY <1>1, FS_CardinalityType
  <2> QED
    BY ONLY <2>1, <2>3, <2>4, <2>5
<1>5. Tables(g)
  <2>1. DOMAIN g.strs \subseteq Nat \ {NullRid} /\ DOMAIN g.recs \subseteq Nat \ {NullRid}
    BY DEF Tables
  <2>2. \A s \in DOMAIN g.strs : g.strs[s] \in Text
    BY DEF Tables
  <2> QED
    BY <1>4, <2>1, <2>2 DEF Tables
<1>6. \A q \in DOMAIN f.recs : Pair(g, q) = Pair(f, q)
  <2>1. \A q \in DOMAIN f.recs : f.recs[q].key \in DOMAIN f.strs /\ f.recs[q].value \in DOMAIN f.strs
    BY <1>2 DEF Owns
  <2> QED
    BY <2>1 DEF Pair
<1>7. Owned(g)
  <2>1. \A q \in DOMAIN g.recs : g.recs[q].key # g.recs[q].value
    BY DEF Owned
  <2>2. \A p, q \in DOMAIN g.recs : p # q => Owns(g, p) \cap Owns(g, q) = {}
    <3>1. \A p, q \in DOMAIN f.recs : p # q => Owns(f, p) \cap Owns(f, q) = {}
      BY DEF Owned
    <3> QED
      BY <1>2, <1>3, <3>1
  <2>3. DOMAIN g.strs = UNION {Owns(g, q) : q \in DOMAIN g.recs}
    <3>1. \A s : s \in DOMAIN f.strs <=> \E q \in DOMAIN f.recs : s \in Owns(f, q)
      BY DEF Owned
    <3>2. \A s : s \in DOMAIN g.strs <=> \E q \in DOMAIN g.recs : s \in Owns(g, q)
      BY <1>2, <1>3, <3>1
    <3> QED
      BY <3>2
  <2>4. Cardinality(DOMAIN g.strs) = 2 * Cardinality(DOMAIN g.recs)
    <3>1. Cardinality(DOMAIN f.strs) \in Nat /\ Cardinality(DOMAIN f.recs) \in Nat
      BY <1>1, FS_CardinalityType
    <3> QED
      BY <1>4, <3>1 DEF Owned
  <2> QED
    BY <2>1, <2>2, <2>3, <2>4 DEF Owned
<1> QED
  BY <1>5, <1>6, <1>7

-----------------------------------------------------------------------------
(* strcmp answers 0 exactly for equal texts, whichever library it is of.   *)
LEMMA CompareIs ==
  ASSUME NEW lib, NEW s \in Seq(Nat \ {0}), NEW t \in Seq(Nat \ {0})
  PROVE  Compare(lib, s, t) = 0 <=> s = t
<1> DEFINE apart == {i \in 1 .. Len(s) + 1 : CharAt(s, i) # CharAt(t, i)}
           first == CHOOSE i \in apart : \A k \in apart : i <= k
<1>1. \A i \in Nat \ {0} : /\ CharAt(s, i) \in Nat /\ (CharAt(s, i) = 0 <=> i > Len(s))
                           /\ CharAt(t, i) \in Nat /\ (CharAt(t, i) = 0 <=> i > Len(t))
  BY DEF CharAt
<1>2. CASE apart = {}
  <2>1. \A i \in 1 .. Len(s) + 1 : CharAt(s, i) = CharAt(t, i)
    BY <1>2
  <2>2. Len(s) = Len(t)
    <3>1. Len(s) \in Nat /\ Len(t) \in Nat
      OBVIOUS
    <3>2. CharAt(t, Len(s) + 1) = 0
      BY <1>1, <2>1, <3>1
    <3>3. ~(Len(t) + 1 <= Len(s))
      BY <1>1, <2>1, <3>1
    <3> QED
      BY <1>1, <3>1, <3>2, <3>3
  <2>3. \A i \in 1 .. Len(s) : s[i] = t[i]
    BY <2>1, <2>2 DEF CharAt
  <2>4. s = t
    BY <2>2, <2>3, SeqEqual
  <2> QED
    BY <1>2, <2>4 DEF Compare
<1>3. CASE apart # {}
  <2>1. apart \subseteq Nat
    OBVIOUS
  <2>2. \E m \in apart : \A k \in apart : m <= k
    BY <1>3, <2>1, LeastElement
  <2>3. first \in apart
    BY <2>2
  <2>4. CharAt(s, first) - CharAt(t, first) # 0
    BY <1>1, <2>3
  <2>5. CharAt(s, first) - CharAt(t, first) \in Int
    BY <1>1, <2>3
  <2>6. s # t
    BY <2>3
  <2> HIDE DEF apart, first
  <2>7. Compare(lib, s, t) =
          IF apart = {} THEN 0
          ELSE IF lib = "differences" THEN CharAt(s, first) - CharAt(t, first)
          ELSE IF CharAt(s, first) - CharAt(t, first) > 0 THEN 1 ELSE -1
    BY DEF Compare, apart, first
  <2> QED
    BY <1>3, <2>4, <2>5, <2>6, <2>7
<1> QED
  BY <1>2, <1>3

(* Where strcmp answers with signs, a text after another is before it the  *)
(* other way round.                                                        *)
LEMMA CompareTurned ==
  ASSUME NEW s \in Seq(Nat \ {0}), NEW t \in Seq(Nat \ {0}), Compare("signs", s, t) = -1
  PROVE  Compare("signs", t, s) = 1
<1> DEFINE apart(u, w) == {i \in 1 .. Len(u) + 1 : CharAt(u, i) # CharAt(w, i)}
           first(u, w) == CHOOSE i \in apart(u, w) : \A k \in apart(u, w) : i <= k
<1>1. \A i \in Nat \ {0} : /\ CharAt(s, i) \in Nat /\ (CharAt(s, i) = 0 <=> i > Len(s))
                           /\ CharAt(t, i) \in Nat /\ (CharAt(t, i) = 0 <=> i > Len(t))
  BY DEF CharAt
<1>2. apart(s, t) # {}
  BY DEF Compare
<1>3. PICK m \in apart(s, t) : \A k \in apart(s, t) : m <= k
  <2>1. apart(s, t) \subseteq Nat
    OBVIOUS
  <2> QED
    BY <1>2, <2>1, LeastElement
<1>4. m \in Nat \ {0} /\ m <= Len(s) + 1 /\ CharAt(s, m) # CharAt(t, m)
  BY <1>3
<1>5. m <= Len(t) + 1
  <2>1. Len(s) \in Nat /\ Len(t) \in Nat
    OBVIOUS
  <2>2. ASSUME Len(t) + 1 < m PROVE FALSE
    <3> DEFINE j == Len(t) + 1
    <3>1. j \in 1 .. Len(s) /\ j \in Nat \ {0}
      BY <1>4, <2>1, <2>2
    <3>2. CharAt(s, j) # 0 /\ CharAt(t, j) = 0
      BY <1>1, <2>1, <3>1
    <3>3. j \in apart(s, t)
      BY <2>1, <3>1, <3>2
    <3> QED
      BY <1>3, <1>4, <2>1, <2>2, <3>3
  <2> QED
    BY <1>4, <2>1, <2>2
<1>6. m \in apart(t, s) /\ \A k \in apart(t, s) : m <= k
  <2>1. m \in apart(t, s)
    BY <1>4, <1>5
  <2>2. ASSUME NEW k \in apart(t, s), k < m PROVE FALSE
    <3>1. k \in apart(s, t)
      BY <1>4, <2>2
    <3> QED
      BY <1>3, <1>4, <2>2, <3>1
  <2> QED
    BY <1>4, <2>1, <2>2
<1>7. first(s, t) = m /\ first(t, s) = m /\ apart(t, s) # {}
  <2>1. \A i \in apart(s, t) : (\A k \in apart(s, t) : i <= k) => i = m
    BY <1>3
  <2>2. \A i \in apart(t, s) : (\A k \in apart(t, s) : i <= k) => i = m
    BY <1>6
  <2> HIDE DEF apart
  <2> QED
    BY <1>3, <1>6, <2>1, <2>2
<1>8. /\ Compare("signs", s, t) = IF CharAt(s, m) - CharAt(t, m) > 0 THEN 1 ELSE -1
      /\ Compare("signs", t, s) = IF CharAt(t, m) - CharAt(s, m) > 0 THEN 1 ELSE -1
  <2> HIDE DEF apart, first
  <2>1. \A u, w : Compare("signs", u, w) =
                    IF apart(u, w) = {} THEN 0
                    ELSE IF CharAt(u, first(u, w)) - CharAt(w, first(u, w)) > 0 THEN 1 ELSE -1
    BY DEF Compare, apart, first
  <2> QED
    BY <1>2, <1>7, <2>1
<1> QED
  BY <1>1, <1>4, <1>8

(* rid_ptr_row_cmp sees the whole of a text that is no longer than a       *)
(* pointer, and a text that comes out shorter is the whole.                *)
LEMMA StartIs ==
  ASSUME NEW t \in Seq(Nat \ {0})
  PROVE  /\ Start(t) \in Seq(Nat \ {0})
         /\ Len(t) <= PtrSize => Start(t) = t
         /\ Len(Start(t)) < PtrSize => Start(t) = t
<1> DEFINE n == IF Len(t) < PtrSize THEN Len(t) ELSE PtrSize
<1>1. /\ n \in 0 .. Len(t) /\ Len(t) \in Nat
      /\ Len(t) <= PtrSize => n = Len(t)
      /\ n < PtrSize => n = Len(t)
  BY PtrAssumption
<1>2. \A i \in 1 .. n : t[i] \in Nat \ {0}
  BY <1>1
<1> HIDE DEF n
<1>3. /\ SubSeq(t, 1, n) \in Seq(Nat \ {0})
      /\ Len(SubSeq(t, 1, n)) = n
  <2>1. /\ SubSeq(t, 1, n) \in Seq(Nat \ {0})
        /\ Len(SubSeq(t, 1, n)) = IF 1 <= n THEN n - 1 + 1 ELSE 0
    BY <1>1, <1>2, SubSeqProperties
  <2> QED
    BY <1>1, <2>1
<1>4. SubSeq(t, 1, Len(t)) = t
  BY SubSeqFull
<1>5. Start(t) = SubSeq(t, 1, n)
  BY DEF Start, n
<1>6. n = Len(t) => Start(t) = t
  BY <1>4, <1>5
<1> QED
  BY ONLY <1>1, <1>3, <1>5, <1>6

LEMMA TextIs ==
  /\ \A t \in Text : t \in Seq(Nat \ {0}) /\ t # NoValue
  /\ Key \subseteq Text /\ Value \subseteq Text
BY TextAssumption DEF Text, NoValue

-----------------------------------------------------------------------------
(* The index of f with what its comparators read; a pair of texts; and f   *)
(* as the record it is.                                                    *)
Env(f, guess) == [strs |-> f.strs, recs |-> f.recs, strcmp |-> strcmp, guess |-> guess]
Both(k, v) == [key |-> k, value |-> v]
Three(f) == f = [strs |-> f.strs, recs |-> f.recs, idx |-> f.idx]

LEMMA FilesIs ==
  /\ Three(Files) /\ Files.strs = strs /\ Files.recs = recs /\ Files.idx = idx
BY DEF Files, Three

(* The parts of f that change alone.                                       *)
LEMMA IndexChanged ==
  ASSUME NEW f, Three(f), NEW i, NEW g, g = [f EXCEPT !.idx = i]
  PROVE  Three(g) /\ g.idx = i /\ g.strs = f.strs /\ g.recs = f.recs
<1>1. g = [strs |-> f.strs, recs |-> f.recs, idx |-> i]
  BY DEF Three
<1> QED
  BY <1>1 DEF Three

WithTables(f, s, r) == [f EXCEPT !.strs = s, !.recs = r]

LEMMA TablesChanged ==
  ASSUME NEW f, Three(f), NEW s, NEW r, NEW g, g = WithTables(f, s, r)
  PROVE  Three(g) /\ g.idx = f.idx /\ g.strs = s /\ g.recs = r
<1>1. [f EXCEPT !.strs = s] = [strs |-> s, recs |-> f.recs, idx |-> f.idx]
  BY DEF Three
<1>2. g = [[f EXCEPT !.strs = s] EXCEPT !.recs = r]
  BY DEF WithTables
<1>3. g = [strs |-> s, recs |-> r, idx |-> f.idx]
  BY <1>1, <1>2
<1> QED
  BY <1>3 DEF Three

(* A search changes neither table.  If it finds a record, that one is live *)
(* and its key, as far as it was loaded, compares as 0.                    *)
LEMMA SearchedIs ==
  ASSUME NEW f, Three(f), NEW k, NEW g, g = Searched(f, k)
  PROVE  Three(g) /\ g.strs = f.strs /\ g.recs = f.recs /\ g.idx = Search(f, k).s
<1>1. g = [f EXCEPT !.idx = Search(f, k).s]
  BY DEF Searched
<1> QED
  BY <1>1, IndexChanged

LEMMA FoundIs ==
  ASSUME NEW f, NEW k, NEW r, r = Search(f, k).rid, r # NullRid
  PROVE  r \in DOMAIN f.recs /\ Compare(strcmp, k, Start(f.strs[f.recs[r].key])) = 0
<1> DEFINE e == Equipped(f, 0)
           now == Env(f, 0)
<1>1. now.recs = f.recs /\ now.strs = f.strs /\ now.strcmp = strcmp
  BY DEF Env
<1>2. e = WithEnv(f.idx, now)
  BY DEF Equipped, Env
<1> HIDE DEF now, e
<1>3. Carries(e, now)
  BY <1>2 DEF Carries, WithEnv
<1>4. Meets(now, k, r)
  BY <1>3, SearchMeets DEF Search, e
<1>5. PtrRow(now, k, r) = 0
  BY <1>4 DEF Meets
<1>6. r \in DOMAIN now.recs /\ Compare(now.strcmp, k, Start(now.strs[now.recs[r].key])) = 0
  BY <1>5 DEF PtrRow, Unknown
<1> QED
  BY <1>1, <1>6

(* myjql_del of a record: it goes with its two strings.                    *)
LEMMA DeletedIs ==
  ASSUME NEW f, Tables(f), Owned(f), NEW r \in DOMAIN f.recs, NEW guess,
         NEW g, g = Deleted(f, r, guess)
  PROVE  /\ Three(g) /\ Tables(g) /\ Owned(g)
         /\ DOMAIN g.recs = DOMAIN f.recs \ {r}
         /\ DOMAIN g.strs = DOMAIN f.strs \ Owns(f, r)
         /\ \A q \in DOMAIN g.recs : Pair(g, q) = Pair(f, q) /\ g.recs[q] = f.recs[q]
         /\ g.idx = BTreeDelete(Equipped(f, guess), f.recs[r].key)
<1>1. /\ g.strs = Without(f.strs, Owns(f, r)) /\ g.recs = Without(f.recs, {r})
      /\ g.idx = BTreeDelete(Equipped(f, guess), f.recs[r].key)
      /\ Three(g)
  BY DEF Deleted, Owns, Three
<1>2. /\ DOMAIN g.strs = DOMAIN f.strs \ Owns(f, r) /\ DOMAIN g.recs = DOMAIN f.recs \ {r}
      /\ \A s \in DOMAIN g.strs : g.strs[s] = f.strs[s]
      /\ \A q \in DOMAIN g.recs : g.recs[q] = f.recs[q]
  BY <1>1 DEF Without
<1>3. /\ Tables(g) /\ Owned(g)
      /\ \A q \in DOMAIN g.recs : Pair(g, q) = Pair(f, q)
  BY ONLY <1>2, Tables(f), Owned(f), r \in DOMAIN f.recs, DropsRecord
<1> QED
  BY <1>1, <1>2, <1>3

(* myjql_del of a key leaves every record it does not delete as it was.    *)
LEMMA AfterDelKeeps ==
  ASSUME NEW f, Three(f), Tables(f), Owned(f), NEW k, NEW g \in AfterDel(f, k)
  PROVE  /\ Three(g) /\ Tables(g) /\ Owned(g)
         /\ DOMAIN g.recs \subseteq DOMAIN f.recs
         /\ \A q \in DOMAIN g.recs : Pair(g, q) = Pair(f, q)
<1> DEFINE r == Search(f, k).rid
           h == Searched(f, k)
<1>1. Three(h) /\ h.strs = f.strs /\ h.recs = f.recs
  BY SearchedIs
<1>2. Tables(h) /\ Owned(h) /\ \A q : Pair(h, q) = Pair(f, q)
  BY <1>1 DEF Tables, Owned, Owns, Pair
<1>3. g = h \/ (r # NullRid /\ \E guess : g = Deleted(h, r, guess))
  BY DEF AfterDel
<1>4. r # NullRid => r \in DOMAIN f.recs
  BY FoundIs
<1> HIDE DEF h, r
<1>5. CASE g = h
  BY <1>1, <1>2, <1>5
<1>6. CASE r # NullRid /\ \E guess : g = Deleted(h, r, guess)
  <2>1. PICK guess : g = Deleted(h, r, guess)
    BY <1>6
  <2>2. r \in DOMAIN h.recs
    BY <1>1, <1>4, <1>6
  <2>3. /\ Three(g) /\ Tables(g) /\ Owned(g) /\ DOMAIN g.recs = DOMAIN h.recs \ {r}
        /\ \A q \in DOMAIN g.recs : Pair(g, q) = Pair(h, q)
    BY <1>2, <2>1, <2>2, DeletedIs
  <2> QED
    BY <1>1, <1>2, <2>3
<1> QED
  BY <1>3, <1>5, <1>6

(* The second half of myjql_set adds one record with its two strings.      *)
Adds(f, k, v, a, b, r, guess, h) ==
  /\ k \in Key /\ v \in Value
  /\ a \in Places(DOMAIN f.strs) /\ b \in Places(DOMAIN f.strs \cup {a})
  /\ r \in Places(DOMAIN f.recs)
  /\ h = Entered(Recorded(f, k, v, a, b, r), r, guess)

LEMMA EnteredIs ==
  ASSUME NEW f, Three(f), Tables(f), Owned(f), NEW k, NEW v, NEW a, NEW b, NEW r, NEW guess,
         NEW h, Adds(f, k, v, a, b, r, guess, h)
  PROVE  /\ Three(h) /\ Tables(h) /\ Owned(h)
         /\ r \in Nat \ {NullRid} /\ r \notin DOMAIN f.recs
         /\ DOMAIN h.recs = DOMAIN f.recs \cup {r}
         /\ h.recs[r].key = a /\ h.recs[r].value = b
         /\ DOMAIN h.strs = DOMAIN f.strs \cup {a, b}
         /\ h.strs[a] = k /\ h.strs[b] = v
         /\ Pair(h, r) = Both(k, v)
         /\ \A q \in DOMAIN f.recs : Pair(h, q) = Pair(f, q)
         /\ LET g == Recorded(f, k, v, a, b, r)
            IN /\ h.idx = BTreeInsert(Equipped(g, guess), r)
               /\ g.idx = f.idx /\ g.recs = h.recs /\ g.strs = h.strs
<1> DEFINE withKey == With(f.strs, a, k)
           newStrs == With(withKey, b, v)
           newRecs == With(f.recs, r, [key |-> a, value |-> b])
           g == Recorded(f, k, v, a, b, r)
<1>0. /\ k \in Key /\ v \in Value /\ r \in Places(DOMAIN f.recs)
      /\ a \in Places(DOMAIN f.strs) /\ b \in Places(DOMAIN f.strs \cup {a})
      /\ h = Entered(g, r, guess)
  BY DEF Adds
<1>1. /\ a \in Nat \ {NullRid} /\ a \notin DOMAIN f.strs
      /\ b \in Nat \ {NullRid} /\ b \notin DOMAIN f.strs /\ a # b
      /\ r \in Nat \ {NullRid} /\ r \notin DOMAIN f.recs
  BY <1>0, PlacesAre
<1>2. /\ DOMAIN newStrs = DOMAIN f.strs \cup {a, b}
      /\ newStrs[a] = k /\ newStrs[b] = v
      /\ \A s \in DOMAIN f.strs : newStrs[s] = f.strs[s]
  <2>1. /\ DOMAIN withKey = DOMAIN f.strs \cup {a}
        /\ withKey[a] = k
        /\ \A s \in DOMAIN f.strs : withKey[s] = f.strs[s]
    BY <1>1 DEF With
  <2>2. /\ DOMAIN newStrs = DOMAIN withKey \cup {b}
        /\ newStrs[b] = v
        /\ \A s \in DOMAIN withKey : s # b => newStrs[s] = withKey[s]
    BY DEF With
  <2> HIDE DEF withKey, newStrs
  <2> QED
    BY <1>1, <2>1, <2>2
<1>3. /\ DOMAIN newRecs = DOMAIN f.recs \cup {r}
      /\ newRecs[r].key = a /\ newRecs[r].value = b
      /\ \A q \in DOMAIN f.recs : newRecs[q] = f.recs[q]
  BY <1>1 DEF With
<1>4. g = WithTables(f, newStrs, newRecs)
  BY DEF Recorded, WithTables
<1> HIDE DEF newStrs, newRecs, g
<1>5. Three(g) /\ g.idx = f.idx /\ g.strs = newStrs /\ g.recs = newRecs
  BY ONLY <1>4, Three(f), TablesChanged
<1>6. /\ Three(h) /\ h.strs = newStrs /\ h.recs = newRecs
      /\ h.idx = BTreeInsert(Equipped(g, guess), r)
  <2>1. h = [g EXCEPT !.idx = BTreeInsert(Equipped(g, guess), r)]
    BY <1>0 DEF Entered
  <2> QED
    BY ONLY <1>5, <2>1, IndexChanged
<1>7. k \in Text /\ v \in Text
  BY <1>0, TextIs
<1>8. Tables(h) /\ Owned(h) /\ \A q \in DOMAIN f.recs : Pair(h, q) = Pair(f, q)
  <2>1. /\ DOMAIN h.strs = DOMAIN f.strs \cup {a, b} /\ DOMAIN h.recs = DOMAIN f.recs \cup {r}
        /\ h.strs[a] \in Text /\ h.strs[b] \in Text
        /\ h.recs[r].key = a /\ h.recs[r].value = b
        /\ \A s \in DOMAIN f.strs : h.strs[s] = f.strs[s]
        /\ \A q \in DOMAIN f.recs : h.recs[q] = f.recs[q]
    BY <1>2, <1>3, <1>6, <1>7
  <2> QED
    BY ONLY <1>1, <2>1, Tables(f), Owned(f), AddsRecord
<1>9. Pair(h, r) = Both(k, v)
  BY <1>2, <1>3, <1>6 DEF Pair, Both
<1> QED
  BY <1>1, <1>2, <1>3, <1>5, <1>6, <1>8, <1>9 DEF g

-----------------------------------------------------------------------------
(* The inductive invariant.  The tables own their strings, and every       *)
(* record is the key and the value of some update.  Nothing is said of the *)
(* index: its entries may be of records long gone, in any order.           *)
UpdateType == [key : Key, value : Value \cup {NoValue}]
FilesInv ==
  Tables(Files) /\ Owned(Files) /\ Given(Files, updates) /\ updates \in Seq(UpdateType)

(* The empty store satisfies the invariant.                                *)
LEMMA FilesInvInit == Init => FilesInv
<1> SUFFICES ASSUME Init PROVE FilesInv
  OBVIOUS
<1>1. DOMAIN strs = {} /\ DOMAIN recs = {} /\ updates = <<>>
  BY DEF Init
<1>2. Tables(Files) /\ Owned(Files) /\ Given(Files, updates)
  BY <1>1, FilesIs, FS_EmptySet DEF Tables, Owned, Given
<1> QED
  BY <1>1, <1>2 DEF FilesInv

(* A call that leaves the files as g, or as they were.                     *)
LEMMA LeftAs ==
  ASSUME NEW g, Leave(g)
  PROVE  \/ Files' = Files
         \/ /\ Files'.strs = g.strs /\ Files'.recs = g.recs
            /\ Tables(g) => Tables(Files')
            /\ Owned(g) => Owned(Files')
            /\ \A r : Pair(Files', r) = Pair(g, r)
<1>1. CASE Misread
  BY <1>1 DEF Misread, Files
<1>2. CASE strs' = g.strs /\ recs' = g.recs
  <2> DEFINE h == Files'
  <2>1. h.strs = g.strs /\ h.recs = g.recs
    BY <1>2 DEF Files
  <2> HIDE DEF h
  <2>2. (Tables(g) => Tables(h)) /\ (Owned(g) => Owned(h)) /\ \A r : Pair(h, r) = Pair(g, r)
    BY <2>1 DEF Tables, Owned, Owns, Pair
  <2> QED
    BY <2>1, <2>2 DEF h
<1> QED
  BY <1>1, <1>2 DEF Leave

(* A sequence with one more element.                                       *)
LEMMA Appended ==
  ASSUME NEW S, NEW us \in Seq(S), NEW e
  PROVE  /\ Len(Append(us, e)) = Len(us) + 1 /\ Len(us) \in Nat
         /\ \A i \in 1 .. Len(us) : Append(us, e)[i] = us[i]
         /\ Append(us, e)[Len(us) + 1] = e
         /\ \A z : z \in Range(Append(us, e)) <=> z \in Range(us) \/ z = e
<1>1. /\ Len(Append(us, e)) = Len(us) + 1 /\ Len(us) \in Nat
      /\ \A i \in 1 .. Len(us) : Append(us, e)[i] = us[i]
      /\ Append(us, e)[Len(us) + 1] = e
      /\ DOMAIN Append(us, e) = 1 .. Len(us) + 1 /\ DOMAIN us = 1 .. Len(us)
  OBVIOUS
<1>2. \A z : z \in Range(Append(us, e)) <=> \E i \in 1 .. Len(us) + 1 : z = Append(us, e)[i]
  BY <1>1 DEF Range
<1>3. \A z : z \in Range(us) <=> \E i \in 1 .. Len(us) : z = us[i]
  BY <1>1 DEF Range
<1>4. \A i : i \in 1 .. Len(us) + 1 <=> i \in 1 .. Len(us) \/ i = Len(us) + 1
  BY <1>1
<1>5. \A z : z \in Range(Append(us, e)) <=> z \in Range(us) \/ z = e
  <2> SUFFICES ASSUME NEW z PROVE z \in Range(Append(us, e)) <=> z \in Range(us) \/ z = e
    OBVIOUS
  <2>1. CASE z \in Range(us)
    BY <1>1, <1>2, <1>3, <1>4, <2>1
  <2>2. CASE z = e
    BY <1>1, <1>2, <2>2
  <2>3. CASE z \notin Range(us) /\ z # e
    BY <1>1, <1>2, <1>3, <1>4, <2>3
  <2> QED
    BY <2>1, <2>2, <2>3
<1> QED
  BY <1>1, <1>5

(* An update keeps the invariant if every record that it leaves is an old  *)
(* one or the one it wrote.                                                *)
LEMMA UpdateKeeps ==
  ASSUME FilesInv, NEW k \in Key, NEW v \in Value \cup {NoValue}, Update(k, v),
         Tables(Files'), Owned(Files'),
         \A r \in DOMAIN Files'.recs :
           Pair(Files', r) \in Range(updates) \/ Pair(Files', r) = Both(k, v)
  PROVE  FilesInv'
<1> DEFINE e == Both(k, v)
           g == Files'
<1>1. updates' = Append(updates, e) /\ updates \in Seq(UpdateType)
  BY DEF Update, FilesInv, Both
<1>2. e \in UpdateType
  BY DEF UpdateType, Both
<1> HIDE DEF e
<1>3. updates' \in Seq(UpdateType)
  BY <1>1, <1>2
<1>4. \A z : z \in Range(updates') <=> z \in Range(updates) \/ z = e
  BY <1>1, Appended
<1>5. \A r \in DOMAIN g.recs : Pair(g, r) \in Range(updates')
  BY <1>4 DEF e
<1> HIDE DEF g
<1>6. Tables(g) /\ Owned(g) /\ Given(g, updates')
  BY <1>5 DEF Given, g
<1> QED
  BY <1>3, <1>6 DEF FilesInv, g

(* Files whose tables are those of g.                                      *)
LEMMA SameTables ==
  ASSUME NEW g, Tables(g), Owned(g), NEW h, h.strs = g.strs, h.recs = g.recs
  PROVE  Tables(h) /\ Owned(h) /\ \A r : Pair(h, r) = Pair(g, r)
BY DEF Tables, Owned, Owns, Pair

(* A call that is no update and changes neither table.                     *)
LEMMA ReadKeeps ==
  ASSUME FilesInv, UNCHANGED <<strs, recs, updates>>
  PROVE  FilesInv'
<1> DEFINE h == Files'
<1>1. h.strs = Files.strs /\ h.recs = Files.recs
  BY DEF Files
<1>2. Tables(Files) /\ Owned(Files) /\ Given(Files, updates) /\ updates \in Seq(UpdateType)
  BY DEF FilesInv
<1> HIDE DEF h
<1>3. Tables(h) /\ Owned(h) /\ \A r : Pair(h, r) = Pair(Files, r)
  BY ONLY <1>1, <1>2, SameTables
<1>4. Given(h, updates)
  BY <1>1, <1>2, <1>3 DEF Given
<1> QED
  BY <1>2, <1>3, <1>4 DEF FilesInv, h

(* What myjql_del leaves, or nothing that can be told.                     *)
LEMMA DelKeeps ==
  ASSUME FilesInv, NEW k \in Key, Del(k)
  PROVE  FilesInv'
<1>1. /\ Three(Files) /\ Tables(Files) /\ Owned(Files) /\ Given(Files, updates)
      /\ Update(k, NoValue)
  BY FilesIs DEF FilesInv, Del
<1>2. CASE Files' = Files
  BY <1>1, <1>2, UpdateKeeps DEF Given
<1>3. ASSUME NEW g \in AfterDel(Files, k), Leave(g), Files' # Files PROVE FilesInv'
  <2>1. /\ Tables(g) /\ Owned(g) /\ DOMAIN g.recs \subseteq DOMAIN Files.recs
        /\ \A q \in DOMAIN g.recs : Pair(g, q) = Pair(Files, q)
    BY <1>1, AfterDelKeeps
  <2>2. /\ Files'.recs = g.recs /\ Tables(Files') /\ Owned(Files')
        /\ \A r : Pair(Files', r) = Pair(g, r)
    BY <1>3, <2>1, LeftAs
  <2>3. \A r \in DOMAIN Files'.recs : Pair(Files', r) \in Range(updates)
    BY <1>1, <2>1, <2>2 DEF Given
  <2> QED
    BY <1>1, <2>2, <2>3, UpdateKeeps
<1>4. Misread => Files' = Files
  BY DEF Misread, Files
<1> QED
  BY <1>2, <1>3, <1>4 DEF Del

(* What myjql_set leaves.                                                  *)
LEMMA SetKeeps ==
  ASSUME FilesInv, NEW k \in Key, NEW v \in Value, Set(k, v)
  PROVE  FilesInv'
<1>1. /\ Three(Files) /\ Tables(Files) /\ Owned(Files) /\ Given(Files, updates)
      /\ Update(k, v)
  BY FilesIs DEF FilesInv, Set
<1>2. CASE Files' = Files
  BY <1>1, <1>2, UpdateKeeps DEF Given
<1> DEFINE f == IF Search(Files, k).rid = NullRid THEN Files ELSE Searched(Files, k)
<1>3. Three(f) /\ f.strs = Files.strs /\ f.recs = Files.recs
  BY <1>1, SearchedIs
<1>4. Misread => Files' = Files
  BY DEF Misread, Files
<1>5. Misread \/ \E g \in AfterDel(f, k) : Store(g, k, v)
  BY DEF Set
<1> HIDE DEF f
<1>6. Tables(f) /\ Owned(f) /\ \A q : Pair(f, q) = Pair(Files, q)
  BY ONLY <1>1, <1>3, SameTables
<1>7. ASSUME NEW g \in AfterDel(f, k), Store(g, k, v), Files' # Files PROVE FilesInv'
  <2>1. /\ Three(g) /\ Tables(g) /\ Owned(g) /\ DOMAIN g.recs \subseteq DOMAIN f.recs
        /\ \A q \in DOMAIN g.recs : Pair(g, q) = Pair(f, q)
    BY <1>3, <1>6, AfterDelKeeps
  <2>2. PICK a \in Places(DOMAIN g.strs), r \in Places(DOMAIN g.recs) :
        \E b \in Places(DOMAIN g.strs \cup {a}) :
          LET h == Recorded(g, k, v, a, b, r) IN
          \/ Stale(h) /\ Misread
          \/ \E guess \in Guesses(Stale(h)) : Leave(Entered(h, r, guess))
    BY <1>7 DEF Store
  <2>3. PICK b \in Places(DOMAIN g.strs \cup {a}) :
          LET h == Recorded(g, k, v, a, b, r) IN
          \/ Stale(h) /\ Misread
          \/ \E guess \in Guesses(Stale(h)) : Leave(Entered(h, r, guess))
    BY <2>2
  <2>4. PICK guess : Leave(Entered(Recorded(g, k, v, a, b, r), r, guess))
    BY <1>4, <1>7, <2>3
  <2> DEFINE h == Entered(Recorded(g, k, v, a, b, r), r, guess)
  <2>5. /\ Tables(h) /\ Owned(h) /\ DOMAIN h.recs = DOMAIN g.recs \cup {r}
        /\ Pair(h, r) = Both(k, v)
        /\ \A q \in DOMAIN g.recs : Pair(h, q) = Pair(g, q)
    <3>1. Adds(g, k, v, a, b, r, guess, h)
      BY DEF Adds
    <3> HIDE DEF h
    <3> QED
      BY ONLY <2>1, <3>1, EnteredIs
  <2> HIDE DEF h
  <2>6. /\ Files'.recs = h.recs /\ Tables(Files') /\ Owned(Files')
        /\ \A q : Pair(Files', q) = Pair(h, q)
    BY <1>7, <2>4, <2>5, LeftAs DEF h
  <2>7. \A q \in DOMAIN Files'.recs :
          Pair(Files', q) \in Range(updates) \/ Pair(Files', q) = Both(k, v)
    BY <1>1, <1>3, <1>6, <2>1, <2>5, <2>6 DEF Given
  <2> QED
    BY <1>1, <2>6, <2>7, UpdateKeeps
<1> QED
  BY <1>2, <1>4, <1>5, <1>7

(* Every call keeps the invariant.                                         *)
LEMMA FilesInvNext == FilesInv /\ [Next]_vars => FilesInv'
<1> SUFFICES ASSUME FilesInv, [Next]_vars PROVE FilesInv'
  OBVIOUS
<1>1. ASSUME NEW k \in Key, MyGet(k) PROVE FilesInv'
  <2>1. UNCHANGED updates /\ (Misread \/ Leave(Searched(Files, k)))
    BY <1>1 DEF MyGet
  <2>2. Searched(Files, k).strs = strs /\ Searched(Files, k).recs = recs
    BY FilesIs, SearchedIs
  <2>3. UNCHANGED <<strs, recs>>
    BY <2>1, <2>2 DEF Leave, Misread
  <2> QED
    BY <2>1, <2>3, ReadKeeps
<1>2. ASSUME NEW k \in Key, Del(k) PROVE FilesInv'
  BY <1>2, DelKeeps
<1>3. ASSUME NEW k \in Key, NEW v \in Value, Set(k, v) PROVE FilesInv'
  BY <1>3, SetKeeps
<1>4. CASE Reopen
  BY <1>4, ReadKeeps DEF Reopen
<1>5. CASE UNCHANGED vars
  BY <1>5, ReadKeeps DEF vars
<1> QED
  BY <1>1, <1>2, <1>3, <1>4, <1>5 DEF Next

(* After any calls, however many and whatever the index has come to hold,  *)
(* each string of tbl_str belongs to one record, each record has a string  *)
(* for its key and one for its value, and the two were given together in   *)
(* one call of myjql_set (myjql.c:110-135).                                *)
THEOREM FilesAlways == Spec => []FilesInv
<1> QED
  BY FilesInvInit, FilesInvNext, PTL DEF Spec

(* Every string of tbl_str belongs to one record, as its key or as its     *)
(* value, and every record has both, after any calls (myjql.c:110-157).    *)
(* (A record that the search misses stays, with its strings.)              *)
THEOREM OwnedOnceAlways == Spec => []OwnedOnce
<1>1. FilesInv => OwnedOnce
  <2> SUFFICES ASSUME FilesInv PROVE OwnedOnce
    OBVIOUS
  <2>1. Owned(Files) /\ Files.strs = strs /\ Files.recs = recs
    BY FilesIs DEF FilesInv
  <2>2. DOMAIN strs = UNION {{recs[r].key, recs[r].value} : r \in DOMAIN recs}
    BY <2>1 DEF Owned, Owns
  <2>3. \A r \in DOMAIN recs : {recs[r].key, recs[r].value} \subseteq DOMAIN strs
    BY <2>2
  <2>4. Cardinality(DOMAIN strs) = 2 * Cardinality(DOMAIN recs)
    BY <2>1 DEF Owned
  <2> QED
    BY <2>2, <2>3, <2>4 DEF OwnedOnce
<1> QED
  BY <1>1, FilesAlways, PTL

(* A live record's key and value are texts of tbl_str.                     *)
LEMMA RecordTexts ==
  ASSUME NEW f, Tables(f), Owned(f), NEW r \in DOMAIN f.recs
  PROVE  /\ f.strs[f.recs[r].key] \in Seq(Nat \ {0}) /\ f.strs[f.recs[r].value] \in Seq(Nat \ {0})
         /\ Pair(f, r).key = f.strs[f.recs[r].key] /\ Pair(f, r).value = f.strs[f.recs[r].value]
         /\ f.recs[r].key \in DOMAIN f.strs /\ f.recs[r].value \in DOMAIN f.strs
<1>1. f.recs[r].key \in DOMAIN f.strs /\ f.recs[r].value \in DOMAIN f.strs
  BY DEF Owned, Owns
<1>2. f.strs[f.recs[r].key] \in Text /\ f.strs[f.recs[r].value] \in Text
  BY <1>1 DEF Tables
<1> QED
  BY <1>1, <1>2, TextIs DEF Pair

(* A myjql_get that meets no entry of a deleted record answers with -1 or  *)
(* with a value that was set under a key whose first PtrSize characters,   *)
(* all that rid_ptr_row_cmp loads of it (myjql.c:92), are the key asked    *)
(* for.  The entry it hits may be a deleted record's whose place another   *)
(* record took.                                                            *)
THEOREM AnswersBelongAlways == Spec => []AnswersBelong
<1>1. FilesInv => AnswersBelong
  <2> SUFFICES ASSUME FilesInv, NEW k \in Key
               PROVE  \/ Answer(Search(Files, k).rid) = NoValue
                      \/ \E i \in DOMAIN updates :
                           /\ updates[i].value = Answer(Search(Files, k).rid)
                           /\ Start(updates[i].key) = k
    BY DEF AnswersBelong
  <2> DEFINE r == Search(Files, k).rid
  <2>1. /\ Tables(Files) /\ Owned(Files) /\ Given(Files, updates)
        /\ Files.strs = strs /\ Files.recs = recs
    BY FilesIs DEF FilesInv
  <2>2. CASE r = NullRid
    BY <2>2 DEF Answer
  <2>3. CASE r # NullRid
    <3> DEFINE t == strs[recs[r].key]
    <3>1. r \in DOMAIN Files.recs /\ Compare(strcmp, k, Start(Files.strs[Files.recs[r].key])) = 0
      BY <2>3, FoundIs
    <3>2. Answer(r) = strs[recs[r].value]
      BY <2>3 DEF Answer
    <3> HIDE DEF r
    <3>3. /\ t \in Seq(Nat \ {0})
          /\ Pair(Files, r).key = t /\ Pair(Files, r).value = strs[recs[r].value]
      BY <2>1, <3>1, RecordTexts
    <3>4. k \in Seq(Nat \ {0})
      BY TextIs
    <3>5. Compare(strcmp, k, Start(t)) = 0
      BY <2>1, <3>1
    <3> HIDE DEF t
    <3>6. k = Start(t)
      BY <3>3, <3>4, <3>5, StartIs, CompareIs
    <3>7. Pair(Files, r) \in Range(updates)
      BY <2>1, <3>1 DEF Given
    <3>8. PICK i \in DOMAIN updates : updates[i] = Pair(Files, r)
      BY <3>7 DEF Range
    <3>9. updates[i].value = Answer(r) /\ Start(updates[i].key) = k
      BY <3>2, <3>3, <3>6, <3>8
    <3> QED
      BY <3>9 DEF r
  <2> QED
    BY <2>2, <2>3
<1> QED
  BY <1>1, FilesAlways, PTL

-----------------------------------------------------------------------------
(* What remains is of stores whose index is one leaf.  Between two calls   *)
(* it holds the entries rows and has the number x parked on the third      *)
(* frame, or was just opened.                                              *)
IndexHolds(s, rows, x, env) ==
  LET leaf == LeafNode(rows)
  IN \/ s = Index(0, 0, 0, x, leaf, leaf, env)
     \/ x = 1 /\ s = Fresh(<<CtrlNode, leaf>>, env)

(* A call finds both pages, in their frames or in the file.                *)
LEMMA Ready ==
  ASSUME NEW rows, NEW x, NEW env, NEW s, IndexHolds(s, rows, x, env),
         NEW leaf, leaf = LeafNode(rows)
  PROVE  /\ At(Get(s, Ctrl), Ctrl) = CtrlNode
         /\ Get(Get(s, Ctrl), 1) = Index(1, 1, 0, x, leaf, leaf, env)
         /\ ~s.null
<1>1. CASE s = Index(0, 0, 0, x, leaf, leaf, env)
  <2>1. Get(s, Ctrl) = Index(1, 0, 0, x, leaf, leaf, env)
    BY ONLY <1>1, GetHeld
  <2>2. Get(Index(1, 0, 0, x, leaf, leaf, env), 1) = Index(1, 1, 0, x, leaf, leaf, env)
    BY ONLY GetHeld
  <2>3. At(Index(1, 0, 0, x, leaf, leaf, env), Ctrl) = CtrlNode
    BY AtHeld
  <2>4. ~s.null
    BY <1>1, AtHeld
  <2> QED
    BY <2>1, <2>2, <2>3, <2>4
<1>2. CASE x = 1 /\ s = Fresh(<<CtrlNode, leaf>>, env)
  <2>1. ~s.null
    BY <1>2, Fields DEF Fresh
  <2> QED
    BY <1>2, <2>1, LoadsRoot
<1> QED
  BY <1>1, <1>2 DEF IndexHolds

(* What the comparators read between two calls does not matter.            *)
LEMMA Carried ==
  ASSUME NEW rows, NEW x, NEW old, NEW env, NEW s, IndexHolds(s, rows, x, old)
  PROVE  IndexHolds(WithEnv(s, env), rows, x, env)
<1> DEFINE leaf == LeafNode(rows)
<1>1. ASSUME NEW at, NEW ref, NEW mem, NEW file
      PROVE  WithEnv(IndexAs(at, ref, mem, file, old), env) = IndexAs(at, ref, mem, file, env)
  BY DEF WithEnv, IndexAs
<1>2. CASE s = Index(0, 0, 0, x, leaf, leaf, old)
  <2>1. WithEnv(s, env) = Index(0, 0, 0, x, leaf, leaf, env)
    BY <1>1, <1>2 DEF Index
  <2> QED
    BY <2>1 DEF IndexHolds
<1>3. CASE x = 1 /\ s = Fresh(<<CtrlNode, leaf>>, old)
  <2>1. WithEnv(s, env) = Fresh(<<CtrlNode, leaf>>, env)
    BY <1>1, <1>3 DEF Fresh
  <2> QED
    BY <1>3, <2>1 DEF IndexHolds
<1> QED
  BY <1>2, <1>3 DEF IndexHolds


(* myjql_close and myjql_init leave the entries as they were.              *)
LEMMA Closes ==
  ASSUME NEW rows, NEW x, NEW env, NEW s, IndexHolds(s, rows, x, env)
  PROVE  Opened(BTreeClose(s).file, NoEnv, 1) = Fresh(<<CtrlNode, LeafNode(rows)>>, NoEnv)
<1> DEFINE leaf == LeafNode(rows)
           file == <<CtrlNode, leaf>>
           frameOf(a) == CHOOSE f \in FramesOf(s, a) : \A g \in FramesOf(s, a) : g <= f
           closed == [k \in DOMAIN s.file |->
                        IF FramesOf(s, k - 1) = {} THEN s.file[k] ELSE s.mem[frameOf(k - 1)]]
<1>1. s.file = file
  BY AtHeld, Fields DEF IndexHolds, Fresh
<1>2. BTreeClose(s).file = closed
  <2> HIDE DEF closed
  <2>1. BTreeClose(s) = [s EXCEPT !.file = closed]
    BY DEF BTreeClose, closed
  <2>2. \A l : [s EXCEPT !.file = l].file = l
    <3>1. \A l : [Index(0, 0, 0, x, leaf, leaf, env) EXCEPT !.file = l].file = l
      BY DEF Index, IndexAs
    <3>2. \A l : [Fresh(<<CtrlNode, leaf>>, env) EXCEPT !.file = l].file = l
      BY DEF Fresh, IndexAs
    <3> QED
      BY <3>1, <3>2 DEF IndexHolds
  <2> QED
    BY <2>1, <2>2
<1>3. closed = file
  <2>1. \A k \in 1 .. 2 : (IF FramesOf(s, k - 1) = {} THEN s.file[k] ELSE s.mem[frameOf(k - 1)]) = file[k]
    <3>1. CASE s = Index(0, 0, 0, x, leaf, leaf, env)
      <4>1. /\ s.at = Loaded /\ ~s.null /\ s.mem[1] = CtrlNode /\ s.mem[2] = leaf
        BY <3>1, AtHeld
      <4>2. FramesOf(s, 0) = {1} /\ FramesOf(s, 1) = {2}
        BY <4>1, Pointers DEF Ctrl
      <4>3. frameOf(0) = 1 /\ frameOf(1) = 2
        BY <4>2
      <4> HIDE DEF frameOf, file
      <4>4. file[1] = CtrlNode /\ file[2] = leaf
        BY DEF file
      <4>5. \A k \in 1 .. 2 : (k = 1 /\ k - 1 = 0) \/ (k = 2 /\ k - 1 = 1)
        OBVIOUS
      <4> QED
        BY <4>1, <4>2, <4>3, <4>4, <4>5
    <3>2. CASE s = Fresh(<<CtrlNode, leaf>>, env)
      <4>1. \A g \in Frame : s.at[g] = NoPage
        BY <3>2, Fields DEF Fresh
      <4>2. FramesOf(s, 0) = {} /\ FramesOf(s, 1) = {}
        BY <4>1 DEF FramesOf, NoPage
      <4>3. \A k \in 1 .. 2 : (k = 1 /\ k - 1 = 0) \/ (k = 2 /\ k - 1 = 1)
        OBVIOUS
      <4> HIDE DEF frameOf, file
      <4> QED
        BY <1>1, <4>2, <4>3
    <3> QED
      BY <3>1, <3>2 DEF IndexHolds
  <2>2. DOMAIN s.file = 1 .. 2 /\ file = [k \in 1 .. 2 |-> file[k]]
    BY <1>1
  <2> HIDE DEF file, frameOf
  <2> QED
    BY <2>1, <2>2
<1> HIDE DEF closed, file
<1>4. Opened(file, NoEnv, 1) = Fresh(file, NoEnv)
  BY DEF Opened, Fresh, IndexAs, No
<1> QED
  BY <1>2, <1>3, <1>4 DEF file

-----------------------------------------------------------------------------
(* The files whose index holds rows.                                       *)
Holds(f, rows, x) ==
  /\ rows \in Seq(Nat) /\ Len(rows) <= Limit
  /\ \A i \in 1 .. Len(rows) : rows[i] # NullRid
  /\ \E env : IndexHolds(f.idx, rows, x, env)

(* A call on the index starts from the leaf that it holds.                 *)
LEMMA HoldsIs ==
  ASSUME NEW f, NEW rows, NEW x, Holds(f, rows, x), NEW guess,
         NEW leaf, leaf = LeafNode(rows), NEW e, e = Equipped(f, guess)
  PROVE  /\ Len(rows) \in 0 .. Limit /\ NullRid \notin Range(rows)
         /\ At(Get(e, Ctrl), Ctrl) = CtrlNode
         /\ Get(Get(e, Ctrl), 1) = Index(1, 1, 0, x, leaf, leaf, Env(f, guess))
<1> DEFINE now == Env(f, guess)
<1>1. PICK env : IndexHolds(f.idx, rows, x, env)
  BY DEF Holds
<1>2. e = WithEnv(f.idx, now)
  BY DEF Equipped, Env
<1> HIDE DEF now
<1>3. IndexHolds(e, rows, x, now)
  BY <1>1, <1>2, Carried
<1>4. /\ At(Get(e, Ctrl), Ctrl) = CtrlNode
      /\ Get(Get(e, Ctrl), 1) = Index(1, 1, 0, x, leaf, leaf, now)
  BY <1>3, Ready
<1>5. Len(rows) \in 0 .. Limit /\ NullRid \notin Range(rows)
  BY DegreeAssumption DEF Holds, Limit, Range
<1> QED
  BY <1>4, <1>5 DEF now

(* The root is a leaf, so that no call compares entries one by one.        *)
LEMMA NeverStale ==
  ASSUME NEW f, NEW rows, NEW x, Holds(f, rows, x)
  PROVE  Leaf(f) = LeafNode(rows) /\ ~Stale(f)
<1> DEFINE s == f.idx
           leaf == LeafNode(rows)
<1>1. PICK env : IndexHolds(s, rows, x, env)
  BY DEF Holds
<1>2. Leaf(f) = leaf
  <2>1. CASE s = Index(0, 0, 0, x, leaf, leaf, env)
    <3>1. s.at = Loaded /\ s.mem[1] = CtrlNode /\ s.mem[2] = leaf
      BY <2>1, AtHeld
    <3>2. \A g \in Frame : (s.at[g] = Ctrl <=> g = 1) /\ (s.at[g] = 1 <=> g = 2)
      BY <3>1, Frames DEF Loaded, Ctrl, NoPage
    <3>3. (CHOOSE g \in Frame : s.at[g] = Ctrl) = 1 /\ (CHOOSE g \in Frame : s.at[g] = 1) = 2
      BY <3>2, Frames
    <3> HIDE DEF s, leaf
    <3>4. Page(s, Ctrl) = CtrlNode /\ Page(s, 1) = leaf
      BY <3>1, <3>2, <3>3, Frames DEF Page
    <3> QED
      BY <3>4, CtrlIs DEF Leaf, Root, s
  <2>2. CASE x = 1 /\ s = Fresh(<<CtrlNode, leaf>>, env)
    <3>1. s.at = [g \in Frame |-> NoPage] /\ s.file = <<CtrlNode, leaf>>
      BY <2>2, Fields DEF Fresh
    <3>2. \A g \in Frame : s.at[g] # Ctrl /\ s.at[g] # 1
      BY <3>1 DEF Ctrl, NoPage
    <3>3. s.file[Ctrl + 1] = CtrlNode /\ s.file[1 + 1] = leaf
      BY <3>1 DEF Ctrl
    <3> HIDE DEF s, leaf
    <3>4. Page(s, Ctrl) = CtrlNode /\ Page(s, 1) = leaf
      BY <3>2, <3>3 DEF Page
    <3> QED
      BY <3>4, CtrlIs DEF Leaf, Root, s
  <2> QED
    BY <1>1, <2>1, <2>2 DEF IndexHolds
<1>3. IsLeaf(leaf)
  <2>1. Len(rows) \in 0 .. Limit
    BY DegreeAssumption DEF Holds, Limit
  <2> QED
    BY <2>1, LeafIs
<1> QED
  BY <1>2, <1>3 DEF Stale

(* b_tree_delete reads the parked number only if the leaf has two entries. *)
LEMMA DeleteReads ==
  ASSUME NEW f, NEW rows, NEW x, Holds(f, rows, x), Len(rows) <= 1, NEW r,
         f.recs[r].key \in DOMAIN f.recs
  PROVE  ~DeleteMisreads(f, r)
<1>1. Leaf(f) = LeafNode(rows) /\ ~Stale(f)
  BY NeverStale
<1>3. Leaf(f).n = Len(rows) /\ Len(rows) \in Nat
  BY <1>1 DEF LeafNode, Holds
<1>2. ~Gone(f, {f.recs[r].key})
  BY DEF Gone
<1> QED
  BY <1>1, <1>2, <1>3 DEF DeleteMisreads

(* myjql_get leaves the index with the entries it had.                     *)
LEMMA SearchFinds ==
  ASSUME NEW f, NEW rows, NEW x, Holds(f, rows, x), NEW k,
         NEW leaf, leaf = LeafNode(rows)
  PROVE  /\ Search(f, k) =
              [s |-> Index(0, 0, 0, x, leaf, leaf, Env(f, 0)), rid |-> Hit(Env(f, 0), k, rows)]
         /\ (\A i \in 1 .. Len(rows) : rows[i] \in DOMAIN f.recs) => ~SearchMisreads(f, k)
<1> DEFINE e == Equipped(f, 0)
           now == Env(f, 0)
           c == SearchCall(Get(e, Ctrl), 1, k)
<1>1. /\ Len(rows) \in 0 .. Limit
      /\ At(Get(e, Ctrl), Ctrl) = CtrlNode
      /\ Get(Get(e, Ctrl), 1) = Index(1, 1, 0, x, leaf, leaf, now)
  BY HoldsIs
<1>2. Search(f, k) = BTreeSearch(e, k)
  BY DEF Search
<1>3. Descent(f, k) = SearchPath(Get(e, Ctrl), OldRoot(Get(e, Ctrl)), k)
  BY DEF Descent, Then
<1> HIDE DEF e, now
<1>4. /\ BTreeSearch(e, k) = [s |-> Index(0, 0, 0, x, leaf, leaf, now), rid |-> Hit(now, k, rows)]
      /\ ComesUpon(e, k, rows)
  BY ONLY <1>1, leaf = LeafNode(rows), SearchIs
<1>5. Search(f, k) = [s |-> Index(0, 0, 0, x, leaf, leaf, now), rid |-> Hit(now, k, rows)]
  BY <1>2, <1>4
<1>6. ~Search(f, k).s.null
  BY <1>5, AtHeld
<1>7. /\ Descent(f, k) = <<c>>
      /\ \A b \in c.met : b = NullRid \/ \E i \in 1 .. Len(rows) : b = rows[i]
  BY <1>3, <1>4 DEF ComesUpon
<1> HIDE DEF c
<1>8. ASSUME \A i \in 1 .. Len(rows) : rows[i] \in DOMAIN f.recs PROVE ~SearchMisreads(f, k)
  <2>1. ~Gone(f, c.met)
    BY <1>7, <1>8 DEF Gone
  <2>2. \A d \in DOMAIN Descent(f, k) : Descent(f, k)[d] = c
    BY <1>7
  <2> QED
    BY <1>6, <2>1, <2>2 DEF SearchMisreads
<1> QED
  BY <1>5, <1>8 DEF now

(* The RID that a search answers with, and the files that it leaves.       *)
LEMMA SearchRid ==
  ASSUME NEW f, Three(f), NEW rows, NEW x, Holds(f, rows, x), NEW k
  PROVE  /\ Search(f, k).rid = Hit(Env(f, 0), k, rows) /\ Len(rows) \in Nat
         /\ Holds(Searched(f, k), rows, x)
<1> DEFINE leaf == LeafNode(rows)
           g == Searched(f, k)
<1>1. Search(f, k) = [s |-> Index(0, 0, 0, x, leaf, leaf, Env(f, 0)), rid |-> Hit(Env(f, 0), k, rows)]
  BY SearchFinds
<1>2. g.idx = Search(f, k).s
  BY SearchedIs
<1> HIDE DEF g
<1>3. IndexHolds(g.idx, rows, x, Env(f, 0))
  BY <1>1, <1>2 DEF IndexHolds
<1>4. Holds(g, rows, x)
  BY <1>3 DEF Holds
<1> QED
  BY <1>1, <1>4 DEF Holds, g

(* myjql_del of a record takes the first entry out, if the RID of the      *)
(* key's string is that of a live record too (myjql.c:148).                *)
LEMMA DeleteHits ==
  ASSUME NEW f, Tables(f), Owned(f), NEW rows, NEW x, Holds(f, rows, x), rows # <<>>,
         NEW r \in DOMAIN f.recs, f.recs[r].key \in DOMAIN f.recs, NEW guess,
         NEW g, g = Deleted(f, r, guess)
  PROVE  Holds(g, Tail(rows), First(Tail(rows)))
<1> DEFINE now == Env(f, guess)
           e == Equipped(f, guess)
           leaf == LeafNode(rows)
           rest == LeafNode(Tail(rows))
           key == f.recs[r].key
<1>1. /\ Len(rows) \in 0 .. Limit /\ NullRid \notin Range(rows)
      /\ At(Get(e, Ctrl), Ctrl) = CtrlNode
      /\ Get(Get(e, Ctrl), 1) = Index(1, 1, 0, x, leaf, leaf, now)
  BY HoldsIs
<1>2. g.idx = BTreeDelete(e, key)
  BY DeletedIs
<1>3. Struck(now, key, rows)
  BY DEF Env, Struck
<1>4. rows \in Seq(Nat) /\ Len(rows) <= Limit /\ key \in Nat /\ key # NullRid
  BY DEF Holds, Tables
<1> HIDE DEF now, e, leaf, rest, key
<1>5. BTreeDelete(e, key) = Index(0, 0, 0, First(Tail(rows)), rest, rest, now)
  <2>1. leaf = LeafNode(rows) /\ rest = LeafNode(Tail(rows))
    BY DEF leaf, rest
  <2>2. BTreeDelete(e, key) =
          IF Struck(now, key, rows) THEN Index(0, 0, 0, First(Tail(rows)), rest, rest, now)
          ELSE Index(0, 0, 0, x, leaf, leaf, now)
    BY ONLY <1>1, <1>4, <2>1, DeleteIs
  <2> QED
    BY <1>3, <2>2
<1>6. IndexHolds(g.idx, Tail(rows), First(Tail(rows)), now)
  BY <1>2, <1>5 DEF IndexHolds, rest
<1>7. /\ Tail(rows) \in Seq(Nat) /\ Len(Tail(rows)) = Len(rows) - 1 /\ Len(rows) \in Nat \ {0}
      /\ \A i \in Nat : i < Len(rows) - 1 => Tail(rows)[i + 1] = rows[i + 2]
  BY <1>4, TailOf
<1>8. ASSUME NEW i \in 1 .. Len(Tail(rows)) PROVE Tail(rows)[i] # NullRid
  <2>1. i - 1 \in Nat /\ i - 1 < Len(rows) - 1 /\ (i - 1) + 1 = i /\ (i - 1) + 2 \in 1 .. Len(rows)
    BY <1>7
  <2>2. Tail(rows)[(i - 1) + 1] = rows[(i - 1) + 2]
    BY <1>7, <2>1
  <2> QED
    BY <2>1, <2>2 DEF Holds
<1>9. Len(Tail(rows)) <= Limit
  BY <1>1, <1>7, DegreeAssumption DEF Limit
<1> QED
  BY <1>6, <1>7, <1>8, <1>9 DEF Holds

(* b_tree_insert of a new record makes it the last entry.                  *)
LEMMA InsertHolds ==
  ASSUME NEW f, NEW rows, NEW x, Holds(f, rows, x), Len(rows) < Limit,
         NEW rid \in DOMAIN f.recs, rid \in Nat, rid # NullRid, NEW guess,
         NEW g, g.idx = BTreeInsert(Equipped(f, guess), rid)
  PROVE  Holds(g, Append(rows, rid), x)
<1> DEFINE now == Env(f, guess)
           e == Equipped(f, guess)
           leaf == LeafNode(rows)
           more == LeafNode(Append(rows, rid))
<1>1. /\ NullRid \notin Range(rows)
      /\ At(Get(e, Ctrl), Ctrl) = CtrlNode
      /\ Get(Get(e, Ctrl), 1) = Index(1, 1, 0, x, leaf, leaf, now)
  BY HoldsIs
<1>2. rows \in Seq(Nat) /\ rid \in DOMAIN now.recs
  BY DEF Holds, Env
<1> HIDE DEF now, e
<1>3. BTreeInsert(e, rid) = Index(0, 0, 0, x, more, more, now)
  BY <1>1, <1>2, InsertIs
<1>4. IndexHolds(g.idx, Append(rows, rid), x, now)
  BY <1>3 DEF IndexHolds, e
<1>5. /\ Append(rows, rid) \in Seq(Nat) /\ Len(Append(rows, rid)) = Len(rows) + 1
      /\ \A i \in 1 .. Len(rows) : Append(rows, rid)[i] = rows[i]
      /\ Append(rows, rid)[Len(rows) + 1] = rid /\ Len(rows) \in Nat
  BY <1>2
<1>6. Len(Append(rows, rid)) <= Limit
  BY <1>5, DegreeAssumption DEF Limit
<1>7. \A i \in 1 .. Len(Append(rows, rid)) : Append(rows, rid)[i] # NullRid
  BY <1>5 DEF Holds
<1> QED
  BY <1>4, <1>5, <1>6, <1>7 DEF Holds

(* A call that leaves the files as g, whose index is one leaf.             *)
LEMMA LeftHolding ==
  ASSUME NEW g, NEW rows, NEW x, Holds(g, rows, x), Leave(g)
  PROVE  /\ Files'.strs = g.strs /\ Files'.recs = g.recs /\ UNCHANGED status
         /\ Three(Files') /\ Holds(Files', rows, x)
<1> DEFINE h == Files'
<1>1. PICK env : IndexHolds(g.idx, rows, x, env)
  BY DEF Holds
<1>2. ~g.idx.null /\ IndexHolds(WithEnv(g.idx, NoEnv), rows, x, NoEnv)
  BY <1>1, Ready, Carried
<1>3. /\ strs' = g.strs /\ recs' = g.recs /\ idx' = WithEnv(g.idx, NoEnv) /\ UNCHANGED status
  BY <1>2 DEF Leave
<1>4. h.strs = g.strs /\ h.recs = g.recs /\ h.idx = WithEnv(g.idx, NoEnv) /\ Three(h)
  BY <1>3 DEF Files, Three
<1> HIDE DEF h
<1>5. Holds(h, rows, x)
  BY <1>2, <1>4 DEF Holds
<1> QED
  BY <1>3, <1>4, <1>5 DEF h

(* A call of myjql_get that meets live records only, and a reopening,      *)
(* change no record and no entry.                                          *)
LEMMA ReadsHolding ==
  ASSUME NEW rows, NEW x, Holds(Files, rows, x),
         \/ \E k \in Key : MyGet(k) /\ ~SearchMisreads(Files, k)
         \/ Reopen
         \/ UNCHANGED vars
  PROVE  /\ UNCHANGED <<strs, recs, status, strcmp, updates>>
         /\ \E y : Holds(Files', rows, y)
<1>1. ASSUME NEW k \in Key, MyGet(k), ~SearchMisreads(Files, k)
      PROVE  UNCHANGED <<strs, recs, status, strcmp, updates>> /\ Holds(Files', rows, x)
  <2> DEFINE g == Searched(Files, k)
  <2>1. Leave(g) /\ UNCHANGED <<strcmp, updates>>
    BY <1>1 DEF MyGet
  <2>2. g.strs = strs /\ g.recs = recs /\ Holds(g, rows, x)
    BY FilesIs, SearchedIs, SearchRid
  <2> HIDE DEF g
  <2>3. Files'.strs = g.strs /\ Files'.recs = g.recs /\ UNCHANGED status /\ Holds(Files', rows, x)
    BY <2>1, <2>2, LeftHolding
  <2>4. Files'.strs = strs' /\ Files'.recs = recs'
    BY DEF Files
  <2> QED
    BY <2>1, <2>2, <2>3, <2>4
<1>2. ASSUME Reopen
      PROVE  UNCHANGED <<strs, recs, status, strcmp, updates>> /\ Holds(Files', rows, 1)
  <2> DEFINE leaf == LeafNode(rows)
             g == Files'
  <2>1. PICK env : IndexHolds(idx, rows, x, env)
    BY FilesIs DEF Holds
  <2>2. Opened(BTreeClose(idx).file, NoEnv, 1) = Fresh(<<CtrlNode, leaf>>, NoEnv)
    BY <2>1, Closes
  <2>3. UNCHANGED <<strs, recs, status, strcmp, updates>> /\ g.idx = Fresh(<<CtrlNode, leaf>>, NoEnv)
    BY <1>2, <2>2 DEF Reopen, Files
  <2> HIDE DEF g
  <2>4. Holds(g, rows, 1)
    BY <2>3 DEF Holds, IndexHolds
  <2> QED
    BY <2>3, <2>4 DEF g
<1>3. ASSUME UNCHANGED vars
      PROVE  UNCHANGED <<strs, recs, status, strcmp, updates>> /\ Holds(Files', rows, x)
  <2>1. Files' = Files
    BY <1>3 DEF vars, Files
  <2> QED
    BY <1>3, <2>1 DEF vars
<1> QED
  BY <1>1, <1>2, <1>3

(* The second half of a set, made on the files f with room in their leaf,  *)
(* adds a record and, at the end, its entry.                               *)
SetLeaves(f, rows, x, k, v, a, b, r, g) ==
  /\ a \in Places(DOMAIN f.strs) /\ b \in Places(DOMAIN f.strs \cup {a})
  /\ r \in Places(DOMAIN f.recs)
  /\ DOMAIN g.recs = DOMAIN f.recs \cup {r} /\ DOMAIN g.strs = DOMAIN f.strs \cup {a, b}
  /\ g.recs[r].key = a /\ g.recs[r].value = b /\ g.strs[a] = k /\ g.strs[b] = v
  /\ Pair(g, r) = Both(k, v)
  /\ \A q \in DOMAIN f.recs : Pair(g, q) = Pair(f, q)
  /\ Holds(g, Append(rows, r), x)

LEMMA StoreHolds ==
  ASSUME NEW f, Three(f), Tables(f), Owned(f), NEW rows, NEW x, Holds(f, rows, x),
         Len(rows) < Limit, NEW k \in Key, NEW v \in Value, Store(f, k, v)
  PROVE  UNCHANGED status /\ \E a, b, r : SetLeaves(f, rows, x, k, v, a, b, r, Files')
<1>1. PICK a \in Places(DOMAIN f.strs), r \in Places(DOMAIN f.recs) :
        \E b \in Places(DOMAIN f.strs \cup {a}) :
          LET g == Recorded(f, k, v, a, b, r) IN
          \/ Stale(g) /\ Misread
          \/ \E guess \in Guesses(Stale(g)) : Leave(Entered(g, r, guess))
  BY DEF Store
<1>2. PICK b \in Places(DOMAIN f.strs \cup {a}) :
          LET g == Recorded(f, k, v, a, b, r) IN
          \/ Stale(g) /\ Misread
          \/ \E guess \in Guesses(Stale(g)) : Leave(Entered(g, r, guess))
  BY <1>1
<1> DEFINE g == Recorded(f, k, v, a, b, r)
<1>3. g.idx = f.idx
  <2>1. Adds(f, k, v, a, b, r, 0, Entered(g, r, 0))
    BY DEF Adds
  <2> QED
    BY <2>1, EnteredIs
<1>4. (Stale(g) /\ Misread) \/ \E guess : Leave(Entered(g, r, guess))
  BY <1>2
<1> HIDE DEF g
<1>5. Holds(g, rows, x)
  BY <1>3 DEF Holds
<1>6. ~Stale(g)
  BY <1>5, NeverStale
<1>7. PICK guess : Leave(Entered(g, r, guess))
  BY <1>4, <1>6
<1> DEFINE h == Entered(g, r, guess)
<1>8. Adds(f, k, v, a, b, r, guess, h)
  BY DEF Adds, g
<1> HIDE DEF h
<1>9. /\ r \in Nat \ {NullRid} /\ DOMAIN h.recs = DOMAIN f.recs \cup {r}
      /\ h.recs[r].key = a /\ h.recs[r].value = b
      /\ DOMAIN h.strs = DOMAIN f.strs \cup {a, b} /\ h.strs[a] = k /\ h.strs[b] = v
      /\ Pair(h, r) = Both(k, v)
      /\ \A q \in DOMAIN f.recs : Pair(h, q) = Pair(f, q)
      /\ h.idx = BTreeInsert(Equipped(g, guess), r) /\ g.recs = h.recs
  BY <1>8, EnteredIs DEF g
<1>10. Holds(h, Append(rows, r), x)
  BY <1>5, <1>9, InsertHolds
<1>11. Files'.strs = h.strs /\ Files'.recs = h.recs /\ UNCHANGED status /\ Holds(Files', Append(rows, r), x)
  BY <1>7, <1>10, LeftHolding DEF h
<1> DEFINE z == Files'
<1> HIDE DEF z
<1>12. z.strs = h.strs /\ z.recs = h.recs /\ Holds(z, Append(rows, r), x)
  BY <1>11 DEF z
<1>13. \A q : Pair(z, q) = Pair(h, q)
  BY <1>12 DEF Pair
<1>14. SetLeaves(f, rows, x, k, v, a, b, r, z)
  BY <1>9, <1>12, <1>13 DEF SetLeaves
<1> QED
  BY <1>11, <1>14 DEF z

-----------------------------------------------------------------------------
(* rid_ptr_row_cmp of a short key compares the two keys.                   *)
LEMMA RowCompares ==
  ASSUME NEW f, Tables(f), Owned(f), NEW k, NEW b \in DOMAIN f.recs, Len(Pair(f, b).key) <= PtrSize
  PROVE  PtrRow(Env(f, 0), k, b) = Compare(strcmp, k, Pair(f, b).key)
<1> DEFINE now == Env(f, 0)
           t == f.strs[f.recs[b].key]
<1>1. now.recs = f.recs /\ now.strs = f.strs /\ now.strcmp = strcmp
  BY DEF Env
<1>2. b # NullRid /\ t \in Seq(Nat \ {0}) /\ t = Pair(f, b).key
  BY RecordTexts DEF Tables
<1> HIDE DEF now, t
<1>3. Start(t) = t
  BY <1>2, StartIs
<1>4. PtrRow(now, k, b) = Compare(strcmp, k, Start(t))
  BY <1>1, <1>2 DEF PtrRow, t
<1> QED
  BY <1>2, <1>3, <1>4 DEF now

(* The search passes the entries that compare as 1, up to one that does    *)
(* not.                                                                    *)
LEMMA StopsAt ==
  ASSUME NEW env, NEW k, NEW rows, Len(rows) \in Nat,
         NEW n \in 0 .. Len(rows), n = Len(rows) \/ PtrRow(env, k, rows[n + 1]) # 1,
         \A i \in 1 .. n : PtrRow(env, k, rows[i]) = 1
  PROVE  Stop(env, k, rows) = n
<1> DEFINE S == {j \in 0 .. Len(rows) : j = Len(rows) \/ PtrRow(env, k, rows[j + 1]) # 1}
<1>1. n \in S
  OBVIOUS
<1>2. ASSUME NEW j \in S PROVE n <= j
  <2>1. j \in Nat /\ (j = Len(rows) \/ PtrRow(env, k, rows[j + 1]) # 1)
    OBVIOUS
  <2>2. ASSUME j < n PROVE FALSE
    <3>1. j + 1 \in 1 .. n /\ j # Len(rows)
      BY <2>1, <2>2
    <3> QED
      BY <2>1, <3>1
  <2> QED
    BY <2>1, <2>2
<1>3. S \subseteq Nat
  OBVIOUS
<1> HIDE DEF S
<1>4. \A m \in S : (\A j \in S : m <= j) => m = n
  BY <1>1, <1>2, <1>3
<1>5. Smallest(S) = n
  BY <1>1, <1>2, <1>4 DEF Smallest
<1> QED
  BY <1>5 DEF Stop, S

(* A search that every entry compares as 1 with finds nothing.             *)
LEMMA Misses ==
  ASSUME NEW f, Three(f), NEW rows, NEW x, Holds(f, rows, x), NEW k,
         \A i \in 1 .. Len(rows) : PtrRow(Env(f, 0), k, rows[i]) = 1
  PROVE  Search(f, k).rid = NullRid
<1> DEFINE now == Env(f, 0)
<1>1. Search(f, k).rid = Hit(now, k, rows) /\ Len(rows) \in Nat
  BY SearchRid
<1>2. \A i \in 1 .. Len(rows) : PtrRow(now, k, rows[i]) = 1
  OBVIOUS
<1> HIDE DEF now
<1>3. Stop(now, k, rows) = Len(rows)
  BY <1>1, <1>2, StopsAt
<1> QED
  BY <1>1, <1>3 DEF Hit

(* A search finds the entry that compares as 0, if those before it         *)
(* compare as 1.                                                           *)
LEMMA Finds ==
  ASSUME NEW f, Three(f), NEW rows, NEW x, Holds(f, rows, x), NEW k,
         NEW n \in 1 .. Len(rows), PtrRow(Env(f, 0), k, rows[n]) = 0,
         \A i \in 1 .. n - 1 : PtrRow(Env(f, 0), k, rows[i]) = 1
  PROVE  Search(f, k).rid = rows[n]
<1> DEFINE now == Env(f, 0)
<1>1. Search(f, k).rid = Hit(now, k, rows) /\ Len(rows) \in Nat
  BY SearchRid
<1>2. PtrRow(now, k, rows[n]) = 0 /\ \A i \in 1 .. n - 1 : PtrRow(now, k, rows[i]) = 1
  OBVIOUS
<1> HIDE DEF now
<1>3. n - 1 \in 0 .. Len(rows) /\ n - 1 # Len(rows) /\ n - 1 + 1 = n
  BY <1>1
<1>4. Stop(now, k, rows) = n - 1
  BY <1>1, <1>2, <1>3, StopsAt
<1> QED
  BY <1>1, <1>2, <1>3, <1>4 DEF Hit

(* A sequence with one more element.                                       *)
LEMMA Extended ==
  ASSUME NEW S, NEW us \in Seq(S), NEW e, NEW more, more = Append(us, e)
  PROVE  /\ Len(more) = Len(us) + 1 /\ Len(us) \in Nat
         /\ DOMAIN more = 1 .. Len(us) + 1 /\ DOMAIN us = 1 .. Len(us)
         /\ \A i \in 1 .. Len(us) : more[i] = us[i]
         /\ more[Len(us) + 1] = e
OBVIOUS

(* The entries of the index are the records of the updates, in their order. *)
Follows(f, rows, us) ==
  /\ Len(rows) = Len(us)
  /\ \A i \in 1 .. Len(us) : rows[i] \in DOMAIN f.recs /\ Pair(f, rows[i]) = us[i]

(* Sets in ascending order, few enough for one leaf.  As long as there are *)
(* no others, no record is replaced, and the entries follow the updates.   *)
FewAscending == ShortKeys /\ Ascending /\ strcmp = "signs" /\ Len(updates) <= Limit
AscendingInv ==
  FewAscending =>
    /\ status = "running"
    /\ \E rows, x : Holds(Files, rows, x) /\ Follows(Files, rows, updates)

(* An entry with a lesser key compares as 1 with a key, its own as 0.      *)
LEMMA AscendingCompares ==
  ASSUME FilesInv, FewAscending, NEW rows, Follows(Files, rows, updates),
         NEW k \in Key, NEW i \in 1 .. Len(updates)
  PROVE  /\ Compare("signs", updates[i].key, k) = -1 => PtrRow(Env(Files, 0), k, rows[i]) = 1
         /\ updates[i].key = k => PtrRow(Env(Files, 0), k, rows[i]) = 0
<1> DEFINE b == rows[i]
           t == updates[i].key
<1>1. b \in DOMAIN Files.recs /\ Pair(Files, b).key = t
  BY DEF Follows
<1>2. i \in DOMAIN updates /\ Len(t) <= PtrSize /\ t \in Key
  <2>1. i \in DOMAIN updates /\ updates[i] \in UpdateType
    BY DEF FilesInv
  <2> QED
    BY <2>1 DEF ShortKeys, FewAscending, UpdateType
<1>3. Tables(Files) /\ Owned(Files) /\ strcmp = "signs"
  BY DEF FilesInv, FewAscending
<1>4. t \in Seq(Nat \ {0}) /\ k \in Seq(Nat \ {0})
  BY <1>2, TextIs
<1> HIDE DEF b, t
<1>5. PtrRow(Env(Files, 0), k, b) = Compare("signs", k, t)
  BY <1>1, <1>2, <1>3, RowCompares
<1>6. Compare("signs", t, k) = -1 => Compare("signs", k, t) = 1
  BY <1>4, CompareTurned
<1>7. t = k => Compare("signs", k, t) = 0
  BY <1>4, CompareIs
<1> QED
  BY <1>5, <1>6, <1>7 DEF b, t

(* Before the last of such updates they were such already, and it sets a   *)
(* key above all others.                                                   *)
LEMMA AscendingBefore ==
  ASSUME FilesInv, FewAscending', NEW k \in Key, NEW v \in Value \cup {NoValue}, Update(k, v)
  PROVE  /\ FewAscending /\ Len(updates) < Limit /\ v # NoValue
         /\ updates' = Append(updates, Both(k, v))
         /\ \A i \in 1 .. Len(updates) : Compare("signs", updates[i].key, k) = -1
<1> DEFINE n == Len(updates)
<1>1. updates' = Append(updates, Both(k, v)) /\ strcmp' = strcmp /\ updates \in Seq(UpdateType)
  BY DEF Update, Both, FilesInv
<1>2. /\ n \in Nat /\ Len(updates') = n + 1
      /\ DOMAIN updates' = 1 .. n + 1 /\ DOMAIN updates = 1 .. n
      /\ \A i \in 1 .. n : updates'[i] = updates[i]
      /\ updates'[n + 1] = Both(k, v)
  BY <1>1, Extended
<1>3. Both(k, v).key = k /\ Both(k, v).value = v
  BY DEF Both
<1>4. \A i \in 1 .. n + 1 : Len(updates'[i].key) <= PtrSize /\ updates'[i].value # NoValue
  BY <1>2 DEF FewAscending, ShortKeys, Ascending
<1>5. \A i, j \in 1 .. n + 1 : i < j => Compare("signs", updates'[i].key, updates'[j].key) = -1
  BY <1>2, <1>4 DEF FewAscending, Ascending, SetsAscend
<1>6. n + 1 <= Limit /\ strcmp = "signs"
  BY <1>1, <1>2 DEF FewAscending
<1> HIDE DEF n
<1>7. \A i \in 1 .. n : i \in 1 .. n + 1 /\ i < n + 1
  BY <1>2
<1>8. n + 1 \in 1 .. n + 1
  BY <1>2
<1>9. ShortKeys /\ \A i \in DOMAIN updates : updates[i].value # NoValue
  BY <1>2, <1>4, <1>7 DEF ShortKeys
<1>10. SetsAscend
  BY <1>2, <1>5, <1>7 DEF SetsAscend
<1>11. n <= Limit /\ n < Limit
  BY <1>2, <1>6, DegreeAssumption DEF Limit
<1>12. FewAscending
  BY <1>6, <1>9, <1>10, <1>11 DEF FewAscending, Ascending, n
<1>13. v # NoValue
  BY <1>2, <1>3, <1>4, <1>8
<1>14. \A i \in 1 .. n : Compare("signs", updates[i].key, k) = -1
  <2> TAKE i \in 1 .. n
  <2>1. Compare("signs", updates'[i].key, updates'[n + 1].key) = -1
    BY <1>5, <1>7, <1>8
  <2> QED
    BY <1>2, <1>3, <2>1
<1> QED
  BY <1>1, <1>11, <1>12, <1>13, <1>14 DEF n

(* A set of a key above all others finds no entry, so that it deletes      *)
(* none and appends its own.                                               *)
LEMMA AscendingSet ==
  ASSUME FilesInv, AscendingInv, FewAscending', NEW k \in Key, NEW v \in Value, Set(k, v)
  PROVE  /\ status' = "running"
         /\ \E rows, x : Holds(Files', rows, x) /\ Follows(Files', rows, updates')
<1>1. /\ Update(k, v)
      /\ LET f == IF Search(Files, k).rid = NullRid THEN Files ELSE Searched(Files, k) IN
           \/ DelMisreads(f, k) /\ Misread
           \/ \E g \in AfterDel(f, k) : Store(g, k, v)
  BY DEF Set
<1>2. /\ FewAscending /\ Len(updates) < Limit
      /\ updates' = Append(updates, Both(k, v))
      /\ \A i \in 1 .. Len(updates) : Compare("signs", updates[i].key, k) = -1
  BY <1>1, AscendingBefore
<1>3. status = "running"
  BY <1>2 DEF AscendingInv
<1>4. PICK rows, x : Holds(Files, rows, x) /\ Follows(Files, rows, updates)
  BY <1>2 DEF AscendingInv
<1>5. /\ Three(Files) /\ Tables(Files) /\ Owned(Files) /\ updates \in Seq(UpdateType)
      /\ rows \in Seq(Nat) /\ Len(rows) = Len(updates) /\ Len(rows) \in Nat
  BY <1>4, FilesIs DEF FilesInv, Holds, Follows
<1>6. Search(Files, k).rid = NullRid
  <2>1. \A i \in 1 .. Len(rows) : PtrRow(Env(Files, 0), k, rows[i]) = 1
    BY <1>2, <1>4, <1>5, AscendingCompares
  <2> QED
    BY <1>4, <1>5, <2>1, Misses
<1>7. ~SearchMisreads(Files, k)
  <2>1. \A i \in 1 .. Len(rows) : rows[i] \in DOMAIN Files.recs
    BY <1>4, <1>5 DEF Follows
  <2> QED
    BY <1>4, <2>1, SearchFinds
<1> DEFINE g == Searched(Files, k)
<1>8. ~DelMisreads(Files, k) /\ AfterDel(Files, k) = {g}
  BY <1>6, <1>7 DEF DelMisreads, AfterDel
<1>9. Store(g, k, v)
  BY <1>1, <1>6, <1>8
<1>10. Three(g) /\ g.strs = Files.strs /\ g.recs = Files.recs /\ Holds(g, rows, x)
  BY <1>4, <1>5, SearchedIs, SearchRid
<1> HIDE DEF g
<1>11. Tables(g) /\ Owned(g) /\ \A q : Pair(g, q) = Pair(Files, q)
  BY ONLY <1>5, <1>10, SameTables
<1> DEFINE h == Files'
<1>12. UNCHANGED status /\ \E a, b, r : SetLeaves(g, rows, x, k, v, a, b, r, h)
  BY <1>2, <1>5, <1>9, <1>10, <1>11, StoreHolds
<1> HIDE DEF h
<1>13. PICK r : /\ r \in Places(DOMAIN g.recs) /\ DOMAIN h.recs = DOMAIN g.recs \cup {r}
                /\ Pair(h, r) = Both(k, v) /\ \A q \in DOMAIN g.recs : Pair(h, q) = Pair(g, q)
                /\ Holds(h, Append(rows, r), x)
  BY <1>12 DEF SetLeaves
<1>14. r \in Nat
  BY <1>13, PlacesAre
<1>15. /\ Len(updates') = Len(updates) + 1
       /\ \A i \in 1 .. Len(updates) : updates'[i] = updates[i]
       /\ updates'[Len(updates) + 1] = Both(k, v)
  BY <1>2, <1>5, Extended
<1> DEFINE more == Append(rows, r)
<1>16. /\ Len(more) = Len(rows) + 1
       /\ \A i \in 1 .. Len(rows) : more[i] = rows[i]
       /\ more[Len(rows) + 1] = r
  BY <1>5, <1>14, Extended
<1> HIDE DEF more
<1>17. ASSUME NEW i \in 1 .. Len(updates')
       PROVE  more[i] \in DOMAIN h.recs /\ Pair(h, more[i]) = updates'[i]
  <2>1. i \in 1 .. Len(updates) \/ i = Len(updates) + 1
    BY <1>5, <1>15
  <2>2. CASE i = Len(updates) + 1
    BY <1>5, <1>13, <1>15, <1>16, <2>2
  <2>3. CASE i \in 1 .. Len(updates)
    <3>1. more[i] = rows[i] /\ rows[i] \in DOMAIN Files.recs /\ Pair(Files, rows[i]) = updates[i]
      BY <1>4, <1>5, <1>16, <2>3 DEF Follows
    <3> QED
      BY <1>10, <1>11, <1>13, <1>15, <2>3, <3>1
  <2> QED
    BY <2>1, <2>2, <2>3
<1>18. Follows(h, more, updates')
  BY <1>5, <1>15, <1>16, <1>17 DEF Follows
<1>19. Holds(h, more, x)
  BY <1>13 DEF more
<1> QED
  BY <1>3, <1>12, <1>18, <1>19 DEF h

LEMMA AscendingInvNext == FilesInv /\ AscendingInv /\ [Next]_vars => AscendingInv'
<1> SUFFICES ASSUME FilesInv, AscendingInv, [Next]_vars, FewAscending'
             PROVE  /\ status' = "running"
                    /\ \E rows, x : Holds(Files', rows, x) /\ Follows(Files', rows, updates')
  BY DEF AscendingInv
<1>1. CASE UNCHANGED <<strcmp, updates>> /\ (Reopen \/ UNCHANGED vars \/ \E k \in Key : MyGet(k))
  <2>1. FewAscending
    BY <1>1 DEF FewAscending, ShortKeys, Ascending, SetsAscend
  <2>2. status = "running"
    BY <2>1 DEF AscendingInv
  <2>3. PICK rows, x : Holds(Files, rows, x) /\ Follows(Files, rows, updates)
    BY <2>1 DEF AscendingInv
  <2>4. \A i \in 1 .. Len(rows) : rows[i] \in DOMAIN Files.recs
    BY <2>3 DEF Follows
  <2>5. \A k : ~SearchMisreads(Files, k)
    BY <2>3, <2>4, SearchFinds
  <2>6. UNCHANGED <<strs, recs, status, strcmp, updates>> /\ \E y : Holds(Files', rows, y)
    BY <1>1, <2>3, <2>5, ReadsHolding
  <2> DEFINE h == Files'
  <2>7. h.recs = Files.recs /\ h.strs = Files.strs
    BY <2>6 DEF Files
  <2> HIDE DEF h
  <2>8. Follows(h, rows, updates)
    BY <2>3, <2>7 DEF Follows, Pair
  <2> QED
    BY <2>2, <2>6, <2>8 DEF h
<1>2. ASSUME NEW k \in Key, NEW v \in Value, Set(k, v)
      PROVE  /\ status' = "running"
             /\ \E rows, x : Holds(Files', rows, x) /\ Follows(Files', rows, updates')
  BY <1>2, AscendingSet
<1>3. ASSUME NEW k \in Key, Del(k) PROVE FALSE
  <2>1. Update(k, NoValue) /\ NoValue \in Value \cup {NoValue}
    BY <1>3 DEF Del
  <2> QED
    BY <2>1, AscendingBefore
<1>4. ASSUME NEW k \in Key, MyGet(k) PROVE UNCHANGED <<strcmp, updates>>
  BY <1>4 DEF MyGet
<1>5. Reopen \/ UNCHANGED vars => UNCHANGED <<strcmp, updates>>
  BY DEF Reopen, vars
<1> QED
  BY <1>1, <1>2, <1>3, <1>4, <1>5 DEF Next

(* Keys no longer than a pointer (myjql.c:92), set in ascending order and  *)
(* no more of them than one leaf takes, are all found with their values,   *)
(* and no others, where strcmp answers with signs: b_tree_search goes on   *)
(* past an entry only if it compares as exactly 1 (b_tree.c:647).          *)
THEOREM AscendingServedAlways == Spec => []AscendingServed
<1>1. Init => AscendingInv
  <2> SUFFICES ASSUME Init PROVE AscendingInv
    OBVIOUS
  <2>1. updates = <<>> /\ status = "running" /\ idx = BTreeInit(NoEnv, 1)
    BY DEF Init
  <2>2. idx = Index(0, 0, 0, 1, LeafNode(<<>>), LeafNode(<<>>), NoEnv)
    BY <2>1, BTreeInitIs
  <2>3. <<>> \in Seq(Nat) /\ Len(<<>>) = 0 /\ 0 <= Limit
    BY DegreeAssumption DEF Limit
  <2>4. Holds(Files, <<>>, 1)
    BY <2>2, <2>3, FilesIs DEF Holds, IndexHolds
  <2>5. Follows(Files, <<>>, updates)
    BY <2>1, <2>3 DEF Follows
  <2> QED
    BY <2>1, <2>4, <2>5 DEF AscendingInv
<1>2. FilesInv /\ AscendingInv => AscendingServed
  <2> SUFFICES ASSUME FilesInv, AscendingInv, FewAscending, NEW k \in Key PROVE Served(k)
    BY DEF AscendingServed, FewAscending
  <2> DEFINE of == {i \in 1 .. Len(updates) : updates[i].key = k}
             r == Search(Files, k).rid
  <2>0. PICK rows, x : Holds(Files, rows, x) /\ Follows(Files, rows, updates)
    BY DEF AscendingInv
  <2>1. /\ Three(Files) /\ Tables(Files) /\ Owned(Files) /\ Given(Files, updates)
        /\ rows \in Seq(Nat) /\ updates \in Seq(UpdateType)
        /\ Len(rows) \in Nat /\ Len(updates) \in Nat /\ Len(rows) = Len(updates)
        /\ Files.recs = recs /\ Files.strs = strs /\ DOMAIN updates = 1 .. Len(updates)
    BY <2>0, FilesIs DEF FilesInv, Follows, Holds
  <2>2. ~SearchMisreads(Files, k)
    <3>1. \A i \in 1 .. Len(rows) : rows[i] \in DOMAIN Files.recs
      BY <2>0, <2>1 DEF Follows
    <3> QED
      BY <2>0, <3>1, SearchFinds
  <2>3. k \in Seq(Nat \ {0})
    BY TextIs
  <2>10. /\ \A i, j \in 1 .. Len(updates) : i < j => Compare("signs", updates[i].key, updates[j].key) = -1
         /\ \A i \in 1 .. Len(updates) : Len(updates[i].key) <= PtrSize
    BY <2>1 DEF FewAscending, Ascending, SetsAscend, ShortKeys
  <2>4. CASE \E j \in 1 .. Len(updates) : updates[j].key = k
    <3>1. PICK j \in 1 .. Len(updates) : updates[j].key = k
      BY <2>4
    <3>2. \A i \in 1 .. Len(updates) : i < j => Compare("signs", updates[i].key, k) = -1
      BY <2>10, <3>1
    <3>3. r = rows[j]
      <4>1. PtrRow(Env(Files, 0), k, rows[j]) = 0
        BY <2>0, <3>1, AscendingCompares
      <4>2. \A i \in 1 .. j - 1 : i \in 1 .. Len(updates) /\ i < j
        BY <2>1
      <4>3. \A i \in 1 .. j - 1 : PtrRow(Env(Files, 0), k, rows[i]) = 1
        BY <2>0, <3>2, <4>2, AscendingCompares
      <4>4. j \in 1 .. Len(rows)
        BY <2>1
      <4> QED
        BY <2>0, <2>1, <4>1, <4>3, <4>4, Finds
    <3>4. rows[j] # NullRid /\ rows[j] \in DOMAIN recs /\ Pair(Files, rows[j]) = updates[j]
      BY <2>0, <2>1 DEF Holds, Follows
    <3>5. Pair(Files, rows[j]).value = strs[recs[rows[j]].value]
      BY <2>1 DEF Pair
    <3>6. Answer(r) = updates[j].value
      BY <3>3, <3>4, <3>5 DEF Answer
    <3>7. \A i \in of : i = j
      <4> SUFFICES ASSUME NEW i \in 1 .. Len(updates), updates[i].key = k, i # j PROVE FALSE
        OBVIOUS
      <4>1. Compare("signs", k, k) = -1
        <5>1. i < j \/ j < i
          BY <2>1
        <5> QED
          BY <2>10, <3>1, <5>1
      <4> QED
        BY <2>3, <4>1, CompareIs
    <3>8. of = {j} /\ (CHOOSE i \in of : \A m \in of : m <= i) = j
      <4>1. of = {j}
        BY <3>1, <3>7
      <4> HIDE DEF of
      <4> QED
        BY <4>1
    <3>9. Meant(k) = updates[j].value
      BY <3>8 DEF Meant, MeantAfter
    <3> QED
      BY <2>2, <3>6, <3>9 DEF Served
  <2>5. CASE \A j \in 1 .. Len(updates) : updates[j].key # k
    <3>1. Meant(k) = NoValue
      <4>1. of = {}
        BY <2>5
      <4> QED
        BY <4>1 DEF Meant, MeantAfter
    <3>2. r = NullRid
      <4> SUFFICES ASSUME r # NullRid PROVE FALSE
        OBVIOUS
      <4> DEFINE t == Pair(Files, r).key
      <4>1. r \in DOMAIN Files.recs /\ Compare(strcmp, k, Start(Files.strs[Files.recs[r].key])) = 0
        BY FoundIs
      <4> HIDE DEF r
      <4>2. t \in Seq(Nat \ {0}) /\ t = Files.strs[Files.recs[r].key]
        BY <2>1, <4>1, RecordTexts
      <4>3. PICK j \in 1 .. Len(updates) : Pair(Files, r) = updates[j]
        BY <2>1, <4>1 DEF Given, Range
      <4>4. Len(t) <= PtrSize /\ t = updates[j].key
        BY <2>10, <4>3
      <4> HIDE DEF t
      <4>6. Start(t) = t
        BY <4>2, <4>4, StartIs
      <4>7. Compare(strcmp, k, t) = 0
        BY <4>1, <4>2, <4>6
      <4>8. k = t
        BY <2>3, <4>2, <4>7, CompareIs
      <4> QED
        BY <2>5, <4>4, <4>8
    <3> QED
      BY <2>2, <3>1, <3>2 DEF Served, Answer
  <2> QED
    BY <2>4, <2>5
<1> QED
  BY <1>1, <1>2, FilesInvInit, FilesInvNext, AscendingInvNext, PTL DEF Spec

-----------------------------------------------------------------------------
(* MeantAfter and Held of the updates us.                                   *)
MeantIn(us, n, k) ==
  LET of == {i \in 1 .. n : us[i].key = k}
  IN IF of = {} THEN NoValue ELSE us[CHOOSE i \in of : \A j \in of : j <= i].value
HeldIn(us, n) == {k \in Key : MeantIn(us, n, k) # NoValue}
Lone(us) == \A n \in DOMAIN us : Cardinality(HeldIn(us, n)) <= 1

(* A set of numbers up to n that is not empty has a greatest one.          *)
LEMMA GreatestElement ==
  ASSUME NEW n \in Nat, NEW S \in SUBSET (1 .. n), S # {}
  PROVE  \E m \in S : \A j \in S : j <= m
<1> DEFINE T == {n - j : j \in S}
<1>1. \A j \in S : j \in Nat /\ n - j \in Nat
  OBVIOUS
<1>2. T \in SUBSET Nat /\ T # {}
  BY <1>1
<1>3. PICK t \in T : \A u \in T : t <= u
  BY <1>2, LeastElement
<1>4. PICK m \in S : t = n - m
  BY <1>3
<1>5. ASSUME NEW j \in S PROVE j <= m
  <2>1. t <= n - j
    BY <1>3
  <2>2. m \in Nat /\ j \in Nat
    BY <1>1
  <2> QED
    BY <1>4, <2>1, <2>2
<1> QED
  BY <1>5

(* What is meant after n updates depends on these only.                    *)
Agree(us, ws, n) == \A i \in 1 .. n : ws[i] = us[i]

LEMMA MeantSame ==
  ASSUME NEW n \in Nat, NEW us, NEW ws, Agree(us, ws, n), NEW k
  PROVE  MeantIn(ws, n, k) = MeantIn(us, n, k)
<1> DEFINE of == {i \in 1 .. n : us[i].key = k}
           now == {i \in 1 .. n : ws[i].key = k}
           m == CHOOSE i \in of : \A j \in of : j <= i
<1>1. \A i \in 1 .. n : ws[i] = us[i]
  BY DEF Agree
<1>2. now = of /\ of \in SUBSET (1 .. n)
  BY <1>1
<1>3. MeantIn(us, n, k) = (IF of = {} THEN NoValue ELSE us[m].value)
  BY DEF MeantIn
<1>4. MeantIn(ws, n, k) = (IF now = {} THEN NoValue ELSE ws[CHOOSE i \in now : \A j \in now : j <= i].value)
  BY DEF MeantIn
<1> HIDE DEF of, now
<1>5. of # {} => m \in of
  BY <1>2, GreatestElement
<1>6. of # {} => ws[m] = us[m]
  BY <1>1, <1>2, <1>5
<1> QED
  BY <1>2, <1>3, <1>4, <1>6

(* One more update changes what is meant for its key, and no other.        *)
LEMMA MeantNext ==
  ASSUME NEW us \in Seq(UpdateType), NEW e, NEW ws, ws = Append(us, e), NEW k
  PROVE  MeantIn(ws, Len(us) + 1, k) = IF e.key = k THEN e.value ELSE MeantIn(us, Len(us), k)
<1> DEFINE n == Len(us)
           of == {i \in 1 .. n : ws[i].key = k}
           now == {i \in 1 .. n + 1 : ws[i].key = k}
<1>1. n \in Nat /\ ws[n + 1] = e /\ \A i \in 1 .. n : ws[i] = us[i]
  BY Extended
<1>2. MeantIn(ws, n + 1, k) = (IF now = {} THEN NoValue ELSE ws[CHOOSE i \in now : \A j \in now : j <= i].value)
  BY DEF MeantIn
<1>3. MeantIn(ws, n, k) = (IF of = {} THEN NoValue ELSE ws[CHOOSE i \in of : \A j \in of : j <= i].value)
  BY DEF MeantIn
<1>4. MeantIn(ws, n, k) = MeantIn(us, n, k)
  <2>1. Agree(us, ws, n)
    BY <1>1 DEF Agree
  <2> HIDE DEF n
  <2> QED
    BY <1>1, <2>1, MeantSame
<1>5. now \in SUBSET Nat /\ \A j \in now : j <= n + 1
  BY <1>1
<1>6. e.key = k => n + 1 \in now
  BY <1>1
<1>7. e.key # k => now = of
  BY <1>1
<1> HIDE DEF of, now, n
<1>8. e.key = k => (CHOOSE i \in now : \A j \in now : j <= i) = n + 1
  <2>1. ASSUME e.key = k, NEW i \in now, \A j \in now : j <= i PROVE i = n + 1
    BY <1>1, <1>5, <1>6, <2>1
  <2> QED
    BY <1>5, <1>6, <2>1
<1>9. MeantIn(ws, n + 1, k) = IF e.key = k THEN e.value ELSE MeantIn(us, n, k)
  <2>1. CASE e.key = k
    BY <1>1, <1>2, <1>6, <1>8, <2>1
  <2>2. CASE e.key # k
    BY <1>2, <1>3, <1>4, <1>7, <2>2
  <2> QED
    BY <2>1, <2>2
<1> QED
  BY <1>9 DEF n

(* A store that never held two keys held none before its last update.      *)
LEMMA LoneBefore ==
  ASSUME NEW us \in Seq(UpdateType), NEW e, NEW ws, ws = Append(us, e), Lone(ws)
  PROVE  Lone(us)
<1>1. /\ Len(us) \in Nat /\ DOMAIN ws = 1 .. Len(us) + 1 /\ DOMAIN us = 1 .. Len(us)
      /\ \A i \in 1 .. Len(us) : ws[i] = us[i]
  BY Extended
<1>2. ASSUME NEW n \in 1 .. Len(us) PROVE Cardinality(HeldIn(us, n)) <= 1
  <2>1. n \in Nat /\ n \in DOMAIN ws /\ Agree(us, ws, n)
    BY <1>1 DEF Agree
  <2>2. \A k : MeantIn(ws, n, k) = MeantIn(us, n, k)
    BY <2>1, MeantSame
  <2>3. HeldIn(ws, n) = HeldIn(us, n)
    BY <2>2 DEF HeldIn
  <2> QED
    BY <2>1, <2>3 DEF Lone
<1> QED
  BY <1>1, <1>2 DEF Lone

(* If at most one key is held, any two are the same.                       *)
LEMMA LoneIs ==
  ASSUME NEW us, NEW n \in Nat, n \in DOMAIN us, Lone(us),
         NEW k \in HeldIn(us, n), NEW l \in HeldIn(us, n)
  PROVE  k = l
<1> DEFINE keys == [i \in 1 .. n |-> us[i].key]
           named == {us[i].key : i \in 1 .. n}
           held == HeldIn(us, n)
<1>1. IsFiniteSet(named)
  <2>1. IsFiniteSet(1 .. n)
    BY FS_Interval
  <2>2. keys \in Surjection(1 .. n, named)
    BY DEF Surjection
  <2> HIDE DEF keys, named
  <2> QED
    BY <2>1, <2>2, FS_Surjection
<1>2. held \subseteq named
  BY DEF HeldIn, MeantIn
<1> HIDE DEF held, named
<1>3. IsFiniteSet(held) /\ Cardinality(held) \in Nat
  BY <1>1, <1>2, FS_Subset, FS_CardinalityType
<1>4. Cardinality(held) <= 1
  BY DEF Lone, held
<1>5. k \in held /\ l \in held
  BY DEF held
<1> SUFFICES ASSUME k # l PROVE FALSE
  OBVIOUS
<1>6. IsFiniteSet({k, l}) /\ Cardinality({k, l}) = 2
  <2>1. IsFiniteSet({k}) /\ Cardinality({k}) = 1
    BY FS_Singleton
  <2> DEFINE one == {k}
             both == one \cup {l}
  <2>2. {k, l} = both /\ l \notin one
    OBVIOUS
  <2>3. IsFiniteSet(both) /\ Cardinality(both) = Cardinality(one) + 1
    <3>1. IsFiniteSet(one) /\ both = one \cup {l}
      BY <2>1
    <3> HIDE DEF one, both
    <3> QED
      BY ONLY <2>2, <3>1, FS_AddElement
  <2>4. Cardinality(one) = 1
    BY <2>1
  <2> HIDE DEF one, both
  <2> QED
    BY <2>2, <2>3, <2>4
<1>7. Cardinality({k, l}) <= Cardinality(held)
  BY <1>3, <1>5, FS_Subset
<1> QED
  BY <1>3, <1>4, <1>6, <1>7

(* The files of a store that holds no key, and of one that holds only k.   *)
(* The string of its key has the same RID in tbl_str as its record in      *)
(* tbl_rec.                                                                *)
Kept(f) == Three(f) /\ Tables(f) /\ Owned(f)
Vacant(f) == DOMAIN f.recs = {} /\ \E x : Holds(f, <<>>, x)
SingleAt(f, m, k, v) ==
  /\ DOMAIN f.recs = {m} /\ f.recs[m].key = m /\ Pair(f, m) = Both(k, v)
  /\ \E x : Holds(f, <<m>>, x)
Single(f, k, v) == \E m : SingleAt(f, m, k, v)

NoneMeant(us) == \A k \in Key : MeantIn(us, Len(us), k) = NoValue
OneMeant(us, k, v) == \A l \in Key : MeantIn(us, Len(us), l) = IF l = k THEN v ELSE NoValue

(* The inductive invariant of a store that never held two keys: it is      *)
(* vacant, or has the one record that is meant.                            *)
LoneInv ==
  OneBlock /\ ShortKeys /\ Lone(updates) =>
    /\ status = "running"
    /\ \/ Vacant(Files) /\ NoneMeant(updates)
       \/ \E k \in Key, v \in Value : Single(Files, k, v) /\ OneMeant(updates, k, v)

(* A search leaves the store vacant, or with its one record.               *)
LEMMA SearchedLone ==
  ASSUME NEW f, Kept(f), NEW k, NEW g, g = Searched(f, k)
  PROVE  /\ Kept(g)
         /\ Vacant(f) => Vacant(g)
         /\ \A m, key, v : SingleAt(f, m, key, v) => SingleAt(g, m, key, v)
<1>1. Three(f) /\ Tables(f) /\ Owned(f)
  BY DEF Kept
<1>2. Three(g) /\ g.strs = f.strs /\ g.recs = f.recs
  BY <1>1, SearchedIs
<1>3. Tables(g) /\ Owned(g) /\ \A q : Pair(g, q) = Pair(f, q)
  BY ONLY <1>1, <1>2, SameTables
<1>4. \A rows, x : Holds(f, rows, x) => Holds(g, rows, x)
  BY <1>1, SearchRid
<1>5. Vacant(f) => Vacant(g)
  BY <1>2, <1>4 DEF Vacant
<1>6. \A m, key, v : SingleAt(f, m, key, v) => SingleAt(g, m, key, v)
  BY <1>2, <1>3, <1>4 DEF SingleAt
<1> QED
  BY <1>2, <1>3, <1>5, <1>6 DEF Kept

(* A search of a vacant store finds nothing.                               *)
LEMMA VacantReads ==
  ASSUME NEW f, Kept(f), Vacant(f), NEW k
  PROVE  ~SearchMisreads(f, k) /\ Search(f, k).rid = NullRid
<1> DEFINE rows == <<>>
<1>1. PICK x : Holds(f, rows, x)
  BY DEF Vacant
<1>2. 1 .. Len(rows) = {}
  OBVIOUS
<1> HIDE DEF rows
<1>3. Search(f, k).rid = NullRid
  <2>1. Three(f)
    BY DEF Kept
  <2>2. \A i \in 1 .. Len(rows) : PtrRow(Env(f, 0), k, rows[i]) = 1
    BY <1>2
  <2> QED
    BY <1>1, <2>1, <2>2, Misses
<1>4. ~SearchMisreads(f, k)
  BY <1>1, <1>2, SearchFinds
<1> QED
  BY <1>3, <1>4

(* A search of a store with one record finds it by its key, and by no      *)
(* other.                                                                  *)
LEMMA SingleReads ==
  ASSUME NEW f, Kept(f), NEW m, NEW key \in Key, NEW v, SingleAt(f, m, key, v), Len(key) <= PtrSize,
         NEW k \in Key
  PROVE  /\ ~SearchMisreads(f, k) /\ ~DeleteMisreads(f, m) /\ m # NullRid /\ m \in Nat
         /\ k = key => Search(f, k).rid = m
         /\ k # key => Search(f, k).rid = NullRid
<1> DEFINE rows == <<m>>
<1>1. PICK x : Holds(f, rows, x)
  BY DEF SingleAt
<1>2. Len(rows) = 1 /\ rows[1] = m /\ \A i \in 1 .. Len(rows) : rows[i] = m
  OBVIOUS
<1> HIDE DEF rows
<1>3. /\ Three(f) /\ Tables(f) /\ Owned(f)
      /\ m \in DOMAIN f.recs /\ Pair(f, m).key = key /\ f.recs[m].key = m /\ DOMAIN f.recs = {m}
  BY DEF Kept, SingleAt, Both
<1>4. m # NullRid /\ m \in Nat
  BY <1>3 DEF Tables
<1>5. ~SearchMisreads(f, k)
  BY <1>1, <1>2, <1>3, SearchFinds
<1>6. ~DeleteMisreads(f, m)
  <2>1. Len(rows) <= 1 /\ f.recs[m].key \in DOMAIN f.recs
    BY <1>2, <1>3
  <2> QED
    BY ONLY <1>1, <2>1, DeleteReads
<1>7. key \in Seq(Nat \ {0}) /\ k \in Seq(Nat \ {0})
  BY TextIs
<1>8. CASE k = key
  <2>1. PtrRow(Env(f, 0), k, m) = Compare(strcmp, k, key)
    BY <1>3, RowCompares
  <2>2. PtrRow(Env(f, 0), k, m) = 0
    BY <1>7, <1>8, <2>1, CompareIs
  <2>3. /\ 1 \in 1 .. Len(rows) /\ PtrRow(Env(f, 0), k, rows[1]) = 0
        /\ \A i \in 1 .. 1 - 1 : PtrRow(Env(f, 0), k, rows[i]) = 1
    BY <1>2, <2>2
  <2>4. Search(f, k).rid = rows[1]
    BY <1>1, <1>3, <2>3, Finds
  <2> QED
    BY <1>2, <1>4, <1>5, <1>6, <1>8, <2>4
<1>9. ASSUME k # key, Search(f, k).rid # NullRid PROVE FALSE
  <2> DEFINE r == Search(f, k).rid
  <2>1. r \in DOMAIN f.recs /\ Compare(strcmp, k, Start(f.strs[f.recs[r].key])) = 0
    BY <1>9, FoundIs
  <2> HIDE DEF r
  <2>2. r = m /\ f.strs[f.recs[m].key] = key
    BY <1>3, <2>1 DEF Pair
  <2>3. Start(key) = key
    BY <1>7, StartIs
  <2>4. Compare(strcmp, k, key) = 0
    BY <2>1, <2>2, <2>3
  <2> QED
    BY <1>7, <1>9, <2>4, CompareIs
<1> QED
  BY <1>4, <1>5, <1>6, <1>8, <1>9

(* A set on vacant files leaves one record.  In tables of one block the    *)
(* first free places of the two are the same.                              *)
LEMMA SetOnVacant ==
  ASSUME OneBlock, NEW g, Kept(g), Vacant(g), NEW k \in Key, NEW v \in Value, Store(g, k, v)
  PROVE  Single(Files', k, v) /\ UNCHANGED status
<1> DEFINE rows == <<>>
<1>1. PICK x : Holds(g, rows, x)
  BY DEF Vacant
<1>2. Len(rows) < Limit /\ \A r : Append(rows, r) = <<r>>
  BY DegreeAssumption DEF Limit
<1>3. Three(g) /\ Tables(g) /\ Owned(g) /\ DOMAIN g.recs = {} /\ DOMAIN g.strs = {}
  BY DEF Kept, Vacant, Owned
<1> HIDE DEF rows
<1> DEFINE h == Files'
<1>4. UNCHANGED status /\ \E a, b, r : SetLeaves(g, rows, x, k, v, a, b, r, h)
  BY <1>1, <1>2, <1>3, StoreHolds
<1> HIDE DEF h
<1>5. PICK a, b, r : SetLeaves(g, rows, x, k, v, a, b, r, h)
  BY <1>4
<1>6. a \in Places({}) /\ r \in Places({}) /\ DOMAIN h.recs = {r} /\ h.recs[r].key = a
      /\ Pair(h, r) = Both(k, v) /\ Holds(h, <<r>>, x)
  BY <1>2, <1>3, <1>5 DEF SetLeaves
<1>7. a = r
  BY <1>6, PlacesAre
<1>8. SingleAt(h, r, k, v)
  BY <1>6, <1>7 DEF SingleAt
<1> QED
  BY <1>4, <1>8 DEF Single, h

(* A delete of the one record leaves the store vacant: the string of its   *)
(* key has the RID of the record, and b_tree_delete takes it for that      *)
(* (myjql.c:148).                                                          *)
LEMMA DeletedVacant ==
  ASSUME NEW f, Kept(f), NEW m, NEW k, NEW v, SingleAt(f, m, k, v), NEW guess,
         NEW g, g = Deleted(f, m, guess)
  PROVE  Vacant(g) /\ Kept(g)
<1> DEFINE rows == <<m>>
<1>1. PICK x : Holds(f, rows, x)
  BY DEF SingleAt
<1>2. Tail(rows) = <<>> /\ rows # <<>>
  OBVIOUS
<1> HIDE DEF rows
<1>3. Tables(f) /\ Owned(f) /\ m \in DOMAIN f.recs /\ f.recs[m].key \in DOMAIN f.recs /\ DOMAIN f.recs = {m}
  BY DEF Kept, SingleAt
<1>4. Three(g) /\ Tables(g) /\ Owned(g) /\ DOMAIN g.recs = DOMAIN f.recs \ {m}
  BY <1>3, DeletedIs
<1>5. Holds(g, Tail(rows), First(Tail(rows)))
  BY <1>1, <1>2, <1>3, DeleteHits
<1> QED
  BY <1>2, <1>3, <1>4, <1>5 DEF Vacant, Kept

(* What myjql_del makes of the files: of a key that is not held, or of the *)
(* one that is.                                                            *)
Drops(f, k) == ~DelMisreads(f, k) /\ \A g \in AfterDel(f, k) : Kept(g)

LEMMA VacantDrops ==
  ASSUME NEW f, Kept(f), Vacant(f), NEW k
  PROVE  Drops(f, k) /\ \A g \in AfterDel(f, k) : Vacant(g)
<1> DEFINE h == Searched(f, k)
<1>1. ~SearchMisreads(f, k) /\ Search(f, k).rid = NullRid
  BY VacantReads
<1>2. ~DelMisreads(f, k) /\ AfterDel(f, k) = {h}
  BY <1>1 DEF DelMisreads, AfterDel
<1>3. Kept(h) /\ Vacant(h)
  BY SearchedLone
<1> QED
  BY <1>2, <1>3 DEF Drops

LEMMA SingleDrops ==
  ASSUME NEW f, Kept(f), NEW key \in Key, NEW v, Single(f, key, v), Len(key) <= PtrSize, NEW k \in Key
  PROVE  /\ Drops(f, k)
         /\ k = key => \A g \in AfterDel(f, k) : Vacant(g)
         /\ k # key => \A g \in AfterDel(f, k) : Single(g, key, v)
<1> DEFINE h == Searched(f, k)
<1>1. PICK m : SingleAt(f, m, key, v)
  BY DEF Single
<1>2. Kept(h) /\ SingleAt(h, m, key, v) /\ h = Searched(f, k)
  BY <1>1, SearchedLone
<1> HIDE DEF h
<1>3. /\ ~SearchMisreads(f, k) /\ m # NullRid
      /\ k = key => Search(f, k).rid = m
      /\ k # key => Search(f, k).rid = NullRid
  BY <1>1, SingleReads
<1>4. ~DeleteMisreads(h, m)
  BY <1>2, SingleReads
<1>5. CASE k = key
  <2>1. ~DelMisreads(f, k)
    BY <1>2, <1>3, <1>4, <1>5 DEF DelMisreads
  <2>2. \A g \in AfterDel(f, k) : \E guess : g = Deleted(h, m, guess)
    BY <1>2, <1>3, <1>5 DEF AfterDel
  <2>3. \A g \in AfterDel(f, k) : Vacant(g) /\ Kept(g)
    BY <1>2, <2>2, DeletedVacant
  <2> QED
    BY <1>5, <2>1, <2>3 DEF Drops
<1>6. CASE k # key
  <2>1. ~DelMisreads(f, k) /\ AfterDel(f, k) = {h}
    BY <1>2, <1>3, <1>6 DEF DelMisreads, AfterDel
  <2> QED
    BY <1>2, <1>6, <2>1 DEF Drops, Single
<1> QED
  BY <1>5, <1>6

(* A call that leaves the store vacant, or with its one record.            *)
LEMMA LeftLone ==
  ASSUME NEW g, Leave(g)
  PROVE  /\ Vacant(g) => Vacant(Files') /\ UNCHANGED status
         /\ \A k, v : Single(g, k, v) => Single(Files', k, v) /\ UNCHANGED status
<1> DEFINE h == Files'
<1>1. \A rows, x : Holds(g, rows, x) =>
        h.strs = g.strs /\ h.recs = g.recs /\ UNCHANGED status /\ Holds(h, rows, x)
  BY LeftHolding
<1> HIDE DEF h
<1>2. ASSUME Vacant(g) PROVE Vacant(h) /\ UNCHANGED status
  BY <1>1, <1>2 DEF Vacant
<1>3. ASSUME NEW k, NEW v, Single(g, k, v) PROVE Single(h, k, v) /\ UNCHANGED status
  <2>1. PICK m, x : SingleAt(g, m, k, v) /\ Holds(g, <<m>>, x)
    BY <1>3 DEF Single, SingleAt
  <2>2. h.strs = g.strs /\ h.recs = g.recs /\ UNCHANGED status /\ Holds(h, <<m>>, x)
    BY <1>1, <2>1
  <2>3. Pair(h, m) = Pair(g, m)
    BY <2>2 DEF Pair
  <2> QED
    BY <2>1, <2>2, <2>3 DEF Single, SingleAt
<1> QED
  BY <1>2, <1>3 DEF h

(* A read leaves the store vacant, or with its one record.                 *)
LEMMA LoneReads ==
  ASSUME FilesInv, \/ \E k \in Key : MyGet(k) /\ ~SearchMisreads(Files, k)
                   \/ Reopen
                   \/ UNCHANGED vars
  PROVE  /\ Vacant(Files) => Vacant(Files') /\ UNCHANGED <<status, updates>>
         /\ \A k, v : Single(Files, k, v) => Single(Files', k, v) /\ UNCHANGED <<status, updates>>
<1> DEFINE h == Files'
<1>1. \A rows, x : Holds(Files, rows, x) =>
        UNCHANGED <<strs, recs, status, updates>> /\ \E y : Holds(h, rows, y)
  BY ReadsHolding
<1>2. UNCHANGED <<strs, recs>> => h.strs = Files.strs /\ h.recs = Files.recs
  BY DEF Files
<1> HIDE DEF h
<1>3. ASSUME Vacant(Files) PROVE Vacant(h) /\ UNCHANGED <<status, updates>>
  BY <1>1, <1>2, <1>3 DEF Vacant
<1>4. ASSUME NEW k, NEW v, Single(Files, k, v) PROVE Single(h, k, v) /\ UNCHANGED <<status, updates>>
  <2>1. PICK m, x : SingleAt(Files, m, k, v) /\ Holds(Files, <<m>>, x)
    BY <1>4 DEF Single, SingleAt
  <2>2. h.strs = Files.strs /\ h.recs = Files.recs /\ UNCHANGED <<status, updates>> /\ \E y : Holds(h, <<m>>, y)
    BY <1>1, <1>2, <2>1
  <2>3. Pair(h, m) = Pair(Files, m)
    BY <2>2 DEF Pair
  <2> QED
    BY <2>1, <2>2, <2>3 DEF Single, SingleAt
<1> QED
  BY <1>3, <1>4 DEF h

(* Before the last update of such a store, its keys were short and lone    *)
(* too; what is meant changes for the key of the update only.              *)
LEMMA LoneUpdate ==
  ASSUME FilesInv, LoneInv, OneBlock, ShortKeys', Lone(updates'),
         NEW k \in Key, NEW v \in Value \cup {NoValue}, Update(k, v)
  PROVE  /\ status = "running"
         /\ \/ Vacant(Files) /\ NoneMeant(updates)
            \/ \E key \in Key, old \in Value : Single(Files, key, old) /\ OneMeant(updates, key, old)
         /\ \A l : MeantIn(updates', Len(updates'), l) =
                     IF l = k THEN v ELSE MeantIn(updates, Len(updates), l)
         /\ \A i \in Key, j \in Key :
              /\ MeantIn(updates', Len(updates'), i) # NoValue
              /\ MeantIn(updates', Len(updates'), j) # NoValue
              => i = j
         /\ \A i \in DOMAIN updates : Len(updates[i].key) <= PtrSize
<1> DEFINE n == Len(updates)
           us == updates'
<1>1. us = Append(updates, Both(k, v)) /\ updates \in Seq(UpdateType)
  BY DEF Update, Both, FilesInv
<1>2. Both(k, v).key = k /\ Both(k, v).value = v
  BY DEF Both
<1>3. /\ Len(us) = n + 1 /\ n \in Nat
      /\ DOMAIN us = 1 .. n + 1 /\ DOMAIN updates = 1 .. n
      /\ \A i \in 1 .. n : us[i] = updates[i]
      /\ us[n + 1] = Both(k, v)
  BY <1>1, Extended
<1>4. \A i \in 1 .. n + 1 : Len(us[i].key) <= PtrSize
  BY <1>3 DEF ShortKeys
<1>5. Lone(us)
  OBVIOUS
<1> HIDE DEF us
<1>6. Lone(updates)
  BY <1>1, <1>5, LoneBefore
<1>7. ShortKeys /\ \A i \in DOMAIN updates : Len(updates[i].key) <= PtrSize
  <2>1. \A i \in 1 .. n : i \in 1 .. n + 1
    BY <1>3
  <2> QED
    BY <1>3, <1>4, <2>1 DEF ShortKeys
<1>8. /\ status = "running"
      /\ \/ Vacant(Files) /\ NoneMeant(updates)
         \/ \E key \in Key, old \in Value : Single(Files, key, old) /\ OneMeant(updates, key, old)
  BY <1>6, <1>7 DEF LoneInv
<1>9. \A l : MeantIn(us, Len(us), l) = IF l = k THEN v ELSE MeantIn(updates, n, l)
  <2> TAKE l
  <2>1. MeantIn(us, n + 1, l) = IF Both(k, v).key = l THEN Both(k, v).value ELSE MeantIn(updates, n, l)
    BY ONLY <1>1, MeantNext
  <2> QED
    BY <1>2, <1>3, <2>1
<1>10. ASSUME NEW i \in Key, NEW j \in Key,
              MeantIn(us, Len(us), i) # NoValue, MeantIn(us, Len(us), j) # NoValue
       PROVE  i = j
  <2> DEFINE m == Len(us)
  <2>1. m \in Nat /\ m \in DOMAIN us
    BY <1>3
  <2>2. i \in HeldIn(us, m) /\ j \in HeldIn(us, m)
    BY <1>10 DEF HeldIn
  <2> HIDE DEF m
  <2> QED
    BY <1>5, <2>1, <2>2, LoneIs
<1> QED
  BY <1>7, <1>8, <1>9, <1>10 DEF us

(* The key of the one record is short.                                     *)
LEMMA SingleShort ==
  ASSUME FilesInv, NEW key, NEW v, Single(Files, key, v),
         \A i \in DOMAIN updates : Len(updates[i].key) <= PtrSize
  PROVE  Len(key) <= PtrSize
<1>1. PICK m : m \in DOMAIN Files.recs /\ Pair(Files, m).key = key
  BY DEF Single, SingleAt, Both
<1>2. PICK i \in DOMAIN updates : Pair(Files, m) = updates[i]
  BY <1>1 DEF FilesInv, Given, Range
<1> QED
  BY <1>1, <1>2

(* What the first half of an update leaves, made on the files f, which are *)
(* Files, searched or not: nothing, or the one record of another key.      *)
LEMMA LoneDrops ==
  ASSUME FilesInv, LoneInv, OneBlock, ShortKeys', Lone(updates'),
         NEW k \in Key, NEW v \in Value \cup {NoValue}, Update(k, v),
         NEW f, f = Files \/ f = Searched(Files, k)
  PROVE  /\ Drops(f, k)
         /\ \/ /\ \A g \in AfterDel(f, k) : Vacant(g)
               /\ \A l \in Key : l # k => MeantIn(updates', Len(updates'), l) = NoValue
            \/ \E key \in Key, old \in Value :
                 /\ key # k /\ \A g \in AfterDel(f, k) : Single(g, key, old)
                 /\ \A l \in Key : l # k => MeantIn(updates', Len(updates'), l) =
                                              IF l = key THEN old ELSE NoValue
<1>1. /\ \/ Vacant(Files) /\ NoneMeant(updates)
         \/ \E key \in Key, old \in Value : Single(Files, key, old) /\ OneMeant(updates, key, old)
      /\ \A l : MeantIn(updates', Len(updates'), l) =
                  IF l = k THEN v ELSE MeantIn(updates, Len(updates), l)
      /\ \A i \in DOMAIN updates : Len(updates[i].key) <= PtrSize
  BY LoneUpdate
<1>2. Kept(Files)
  BY FilesIs DEF FilesInv, Kept
<1>3. /\ Kept(f)
      /\ Vacant(Files) => Vacant(f)
      /\ \A key, old : Single(Files, key, old) => Single(f, key, old)
  BY <1>2, SearchedLone DEF Single
<1>4. CASE Vacant(Files) /\ NoneMeant(updates)
  <2>1. Drops(f, k) /\ \A g \in AfterDel(f, k) : Vacant(g)
    BY <1>3, <1>4, VacantDrops
  <2> QED
    BY <1>1, <1>4, <2>1 DEF NoneMeant
<1>5. ASSUME NEW key \in Key, NEW old \in Value, Single(Files, key, old), OneMeant(updates, key, old)
      PROVE  /\ Drops(f, k)
             /\ \/ /\ \A g \in AfterDel(f, k) : Vacant(g)
                   /\ \A l \in Key : l # k => MeantIn(updates', Len(updates'), l) = NoValue
                \/ /\ key # k /\ \A g \in AfterDel(f, k) : Single(g, key, old)
                   /\ \A l \in Key : l # k => MeantIn(updates', Len(updates'), l) =
                                                IF l = key THEN old ELSE NoValue
  <2>1. Len(key) <= PtrSize
    BY <1>1, <1>5, SingleShort
  <2>2. /\ Drops(f, k)
        /\ k = key => \A g \in AfterDel(f, k) : Vacant(g)
        /\ k # key => \A g \in AfterDel(f, k) : Single(g, key, old)
    BY <1>3, <1>5, <2>1, SingleDrops
  <2>3. \A l \in Key : l # k => MeantIn(updates', Len(updates'), l) = IF l = key THEN old ELSE NoValue
    BY <1>1, <1>5 DEF OneMeant
  <2> QED
    BY <2>2, <2>3
<1> QED
  BY <1>1, <1>4, <1>5

(* Every call keeps the store vacant or with the one record that is        *)
(* meant, as long as no two keys are held.                                 *)
LEMMA LoneInvNext == FilesInv /\ LoneInv /\ [Next]_vars => LoneInv'
<1> SUFFICES ASSUME FilesInv, LoneInv, [Next]_vars, OneBlock, ShortKeys', Lone(updates')
             PROVE  /\ status' = "running"
                    /\ \/ Vacant(Files') /\ NoneMeant(updates')
                       \/ \E k \in Key, v \in Value : Single(Files', k, v) /\ OneMeant(updates', k, v)
  BY DEF LoneInv
<1> DEFINE Goal == /\ status' = "running"
                   /\ \/ Vacant(Files') /\ NoneMeant(updates')
                      \/ \E k \in Key, v \in Value : Single(Files', k, v) /\ OneMeant(updates', k, v)
<1>1. Kept(Files)
  BY FilesIs DEF FilesInv, Kept
<1>2. CASE UNCHANGED <<strcmp, updates>> /\ (Reopen \/ UNCHANGED vars \/ \E k \in Key : MyGet(k))
  <2>1. ShortKeys /\ Lone(updates)
    BY <1>2 DEF ShortKeys
  <2>2. /\ status = "running"
        /\ \/ Vacant(Files) /\ NoneMeant(updates)
           \/ \E k \in Key, v \in Value : Single(Files, k, v) /\ OneMeant(updates, k, v)
    BY <2>1 DEF LoneInv
  <2>3. \A k \in Key : ~SearchMisreads(Files, k)
    <3> TAKE k \in Key
    <3>1. CASE Vacant(Files)
      BY <1>1, <3>1, VacantReads
    <3>2. ASSUME NEW key \in Key, NEW v \in Value, Single(Files, key, v) PROVE ~SearchMisreads(Files, k)
      <4>1. Len(key) <= PtrSize
        BY <2>1, <3>2, SingleShort DEF ShortKeys
      <4> QED
        BY <1>1, <3>2, <4>1, SingleReads DEF Single
    <3> QED
      BY <2>2, <3>1, <3>2
  <2>4. Reopen \/ UNCHANGED vars \/ \E k \in Key : MyGet(k) /\ ~SearchMisreads(Files, k)
    BY <1>2, <2>3
  <2>5. /\ Vacant(Files) => Vacant(Files') /\ UNCHANGED <<status, updates>>
        /\ \A k, v : Single(Files, k, v) => Single(Files', k, v) /\ UNCHANGED <<status, updates>>
    BY <2>4, LoneReads
  <2> QED
    BY <2>2, <2>5
<1>3. ASSUME NEW k \in Key, NEW v \in Value, Set(k, v) PROVE Goal
  <2> DEFINE f == IF Search(Files, k).rid = NullRid THEN Files ELSE Searched(Files, k)
  <2>1. /\ Update(k, v) /\ v \in Value \cup {NoValue}
        /\ \/ DelMisreads(f, k) /\ Misread
           \/ \E g \in AfterDel(f, k) : Store(g, k, v)
    BY <1>3 DEF Set
  <2>2. f = Files \/ f = Searched(Files, k)
    OBVIOUS
  <2> HIDE DEF f
  <2>3. /\ status = "running" /\ v # NoValue /\ MeantIn(updates', Len(updates'), k) = v
        /\ \A i \in Key, j \in Key :
             /\ MeantIn(updates', Len(updates'), i) # NoValue
             /\ MeantIn(updates', Len(updates'), j) # NoValue
             => i = j
    BY <2>1, LoneUpdate, TextIs
  <2>4. /\ Drops(f, k)
        /\ \/ /\ \A g \in AfterDel(f, k) : Vacant(g)
              /\ \A l \in Key : l # k => MeantIn(updates', Len(updates'), l) = NoValue
           \/ \E key \in Key, old \in Value :
                /\ key # k
                /\ \A l \in Key : l # k => MeantIn(updates', Len(updates'), l) =
                                             IF l = key THEN old ELSE NoValue
    BY <2>1, <2>2, LoneDrops
  <2>5. PICK g \in AfterDel(f, k) : Store(g, k, v)
    BY <2>1, <2>4 DEF Drops
  <2>6. Kept(g)
    BY <2>4 DEF Drops
  <2>7. CASE Vacant(g) /\ \A l \in Key : l # k => MeantIn(updates', Len(updates'), l) = NoValue
    <3>1. Single(Files', k, v) /\ UNCHANGED status
      BY <2>5, <2>6, <2>7, SetOnVacant
    <3>2. OneMeant(updates', k, v)
      BY <2>3, <2>7 DEF OneMeant
    <3> QED
      BY <2>3, <3>1, <3>2
  <2>8. ASSUME NEW key \in Key, NEW old \in Value, key # k,
               MeantIn(updates', Len(updates'), key) = old
        PROVE  FALSE
    <3>1. old # NoValue
      BY TextIs
    <3> QED
      BY <2>3, <2>8, <3>1
  <2> QED
    BY <2>4, <2>7, <2>8
<1>4. ASSUME NEW k \in Key, Del(k) PROVE Goal
  <2>1. /\ Update(k, NoValue) /\ NoValue \in Value \cup {NoValue}
        /\ (DelMisreads(Files, k) /\ Misread) \/ \E g \in AfterDel(Files, k) : Leave(g)
    BY <1>4 DEF Del
  <2>2. status = "running" /\ MeantIn(updates', Len(updates'), k) = NoValue
    BY <2>1, LoneUpdate
  <2>3. /\ Drops(Files, k)
        /\ \/ /\ \A g \in AfterDel(Files, k) : Vacant(g)
              /\ \A l \in Key : l # k => MeantIn(updates', Len(updates'), l) = NoValue
           \/ \E key \in Key, old \in Value :
                /\ key # k /\ \A g \in AfterDel(Files, k) : Single(g, key, old)
                /\ \A l \in Key : l # k => MeantIn(updates', Len(updates'), l) =
                                             IF l = key THEN old ELSE NoValue
    BY <2>1, LoneDrops
  <2>4. PICK g \in AfterDel(Files, k) : Leave(g)
    BY <2>1, <2>3 DEF Drops
  <2>5. CASE Vacant(g) /\ \A l \in Key : l # k => MeantIn(updates', Len(updates'), l) = NoValue
    <3>1. Vacant(Files') /\ UNCHANGED status
      BY <2>4, <2>5, LeftLone
    <3>2. NoneMeant(updates')
      BY <2>2, <2>5 DEF NoneMeant
    <3> QED
      BY <2>2, <3>1, <3>2
  <2>6. ASSUME NEW key \in Key, NEW old \in Value, key # k, Single(g, key, old),
               \A l \in Key : l # k => MeantIn(updates', Len(updates'), l) =
                                         IF l = key THEN old ELSE NoValue
        PROVE  Goal
    <3>1. Single(Files', key, old) /\ UNCHANGED status
      BY <2>4, <2>6, LeftLone
    <3>2. OneMeant(updates', key, old)
      BY <2>2, <2>6 DEF OneMeant
    <3> QED
      BY <2>2, <3>1, <3>2
  <2> QED
    BY <2>3, <2>5, <2>6
<1>5. ASSUME NEW k \in Key, MyGet(k) PROVE UNCHANGED <<strcmp, updates>>
  BY <1>5 DEF MyGet
<1>6. Reopen \/ UNCHANGED vars => UNCHANGED <<strcmp, updates>>
  BY DEF Reopen, vars
<1> QED
  BY <1>2, <1>3, <1>4, <1>5, <1>6 DEF Next

(* A store whose tables are one block each, whose keys are no longer than  *)
(* a pointer (myjql.c:92) and that never held two of them at a time        *)
(* answers every key as it was last set, under either strcmp, and never    *)
(* misreads memory, however many calls are made.                           *)
THEOREM LoneKeyServedAlways == Spec => []LoneKeyServed
<1>1. Init => LoneInv
  <2> SUFFICES ASSUME Init PROVE LoneInv
    OBVIOUS
  <2>1. updates = <<>> /\ status = "running" /\ idx = BTreeInit(NoEnv, 1) /\ DOMAIN recs = {}
    BY DEF Init
  <2>2. idx = Index(0, 0, 0, 1, LeafNode(<<>>), LeafNode(<<>>), NoEnv)
    BY <2>1, BTreeInitIs
  <2>3. <<>> \in Seq(Nat) /\ Len(<<>>) = 0 /\ 0 <= Limit
    BY DegreeAssumption DEF Limit
  <2>4. Holds(Files, <<>>, 1)
    BY <2>2, <2>3, FilesIs DEF Holds, IndexHolds
  <2>5. Vacant(Files)
    BY <2>1, <2>4, FilesIs DEF Vacant
  <2>6. NoneMeant(updates)
    BY <2>1 DEF NoneMeant, MeantIn
  <2> QED
    BY <2>1, <2>5, <2>6 DEF LoneInv
<1>2. FilesInv /\ LoneInv => LoneKeyServed
  <2> SUFFICES ASSUME FilesInv, LoneInv, OneBlock, ShortKeys, OneKey
               PROVE  status = "running" /\ \A k \in Key : Served(k)
    BY DEF LoneKeyServed
  <2>1. \A n, k : MeantAfter(n, k) = MeantIn(updates, n, k)
    BY DEF MeantAfter, MeantIn
  <2>2. \A n : Held(n) = HeldIn(updates, n)
    BY <2>1 DEF Held, HeldIn
  <2>3. Lone(updates)
    BY <2>2 DEF Lone, OneKey
  <2>4. /\ status = "running"
        /\ \/ Vacant(Files) /\ NoneMeant(updates)
           \/ \E k \in Key, v \in Value : Single(Files, k, v) /\ OneMeant(updates, k, v)
    BY <2>3 DEF LoneInv
  <2>5. \A k : Meant(k) = MeantIn(updates, Len(updates), k)
    BY <2>1 DEF Meant
  <2>6. Kept(Files) /\ Files.recs = recs /\ Files.strs = strs
    BY FilesIs DEF FilesInv, Kept
  <2>7. CASE Vacant(Files) /\ NoneMeant(updates)
    <3> SUFFICES ASSUME NEW k \in Key PROVE Served(k)
      BY <2>4
    <3>1. ~SearchMisreads(Files, k) /\ Search(Files, k).rid = NullRid
      BY <2>6, <2>7, VacantReads
    <3> QED
      BY <2>5, <2>7, <3>1 DEF Served, Answer, NoneMeant
  <2>8. ASSUME NEW key \in Key, NEW v \in Value, Single(Files, key, v), OneMeant(updates, key, v),
               NEW k \in Key
        PROVE  Served(k)
    <3>1. PICK m : SingleAt(Files, m, key, v)
      BY <2>8 DEF Single
    <3>2. Len(key) <= PtrSize
      BY <2>8, SingleShort DEF ShortKeys
    <3>3. /\ ~SearchMisreads(Files, k) /\ m # NullRid
          /\ k = key => Search(Files, k).rid = m
          /\ k # key => Search(Files, k).rid = NullRid
      BY <2>6, <3>1, <3>2, SingleReads
    <3>4. Meant(k) = IF k = key THEN v ELSE NoValue
      BY <2>5, <2>8 DEF OneMeant
    <3>5. strs[recs[m].value] = v
      BY <2>6, <3>1 DEF SingleAt, Pair, Both
    <3> QED
      BY <3>3, <3>4, <3>5 DEF Served, Answer
  <2> QED
    BY <2>4, <2>7, <2>8
<1> QED
  BY <1>1, <1>2, FilesInvInit, FilesInvNext, LoneInvNext, PTL DEF Spec

=============================================================================
