------------------------------ MODULE BTreeOps ------------------------------
(***************************************************************************)
(* The functions of myjql/src/b_tree.c, as operators from the state of the *)
(* index to the state they leave.  The index is one record: the frames of  *)
(* its buffer pool (buffer_pool.c), its file, and what its comparators     *)
(* read besides their arguments.  A pointer that get_page returned is the  *)
(* number of a frame and stays that number, so a function that uses it     *)
(* after release reads or writes whatever the frame holds by then.         *)
(*                                                                         *)
(* Pages are numbered: 0 is the control block, 1 the first root.  A node   *)
(* is a record with n, next, child and row (row_ptr); the control block    *)
(* is a page too, its root_node and free_node_head lie over n and next.    *)
(*                                                                         *)
(* Nothing of this file marks a page as updated, so get_page writes        *)
(* nothing when it evicts.  Once get_page has answered NULL the process    *)
(* is about to crash: null is set, and from there on pages read as         *)
(* DeadNode and nothing is written.  So it is when an entry has been       *)
(* stored outside of the array row_ptr.                                    *)
(***************************************************************************)
EXTENDS Integers, Sequences, SequencesExt, FiniteSets

CONSTANTS
  DEGREE,            \* DEGREE: a node has at most 2 * DEGREE - 1 entries
  CachePage,         \* CACHE_PAGE
  NullRid,           \* the RID with block address -1
  RowRowCmp(_, _, _),  \* b_tree_row_row_cmp_t: environment, RID, RID
  PtrRowCmp(_, _, _)   \* b_tree_ptr_row_cmp_t: environment, key, RID

NoPage == -1
Ctrl == 0
Slot == 0 .. 2 * DEGREE - 1
Limit == 2 * DEGREE - 1
LimitM2 == IF Limit % 2 = 1 THEN DEGREE ELSE Limit \div 2
Frame == 1 .. CachePage

EmptyNode ==
  [n |-> 0, next |-> NoPage, child |-> [k \in Slot |-> NoPage],
   row |-> [k \in Slot |-> NullRid]]
DeadNode == [EmptyNode EXCEPT !.n = 1]

Smallest(S) == CHOOSE x \in S : \A y \in S : x <= y

-----------------------------------------------------------------------------
(* The buffer pool.                                                        *)
Lost(s) == [s EXCEPT !.null = TRUE, !.mem = [g \in Frame |-> DeadNode]]

FramesOf(s, a) == {f \in Frame : s.at[f] = a}
Ptr(s, a) == IF s.null THEN 1 ELSE Smallest(FramesOf(s, a))

(* get_page: a hit, or the first unpinned frame, read from the file or     *)
(* appended to it with the bytes it held.  NoPage, the parent of a root,   *)
(* is refused by read_page and parked on the frame all the same.           *)
Get(s, a) ==
  LET hits == FramesOf(s, a)
      victims == {f \in Frame : s.ref[f] = 0}
      hit == Smallest(hits)
      f == Smallest(victims)
      inFile == a \in 0 .. Len(s.file) - 1
  IN IF s.null THEN s
     ELSE IF hits # {} THEN [s EXCEPT !.ref[hit] = @ + 1]
     ELSE IF victims = {} THEN Lost(s)
     ELSE [s EXCEPT !.at[f] = a, !.ref[f] = 1,
                    !.mem[f] = IF inFile THEN s.file[a + 1] ELSE @,
                    !.file = IF a = Len(@) THEN Append(@, s.mem[f]) ELSE @]

(* release: unpin and write through, in every frame of that address.       *)
Release_Unguarded(s, a) ==
  LET held == FramesOf(s, a)
  IN IF s.null \/ held = {} THEN s
     ELSE [s EXCEPT !.ref = [f \in Frame |-> IF f \in held THEN @[f] - 1 ELSE @[f]],
                    !.file = IF a = NoPage THEN @
                             ELSE [@ EXCEPT ![a + 1] = s.mem[Smallest(held)]]]
Release(s, a) ==
  LET held == {f \in FramesOf(s, a) : s.ref[f] > 0}
  IN IF s.null \/ held = {} THEN s
     ELSE [s EXCEPT !.ref = [f \in Frame |-> IF f \in held THEN @[f] - 1 ELSE @[f]],
                    !.file = IF a = NoPage THEN @
                             ELSE [@ EXCEPT ![a + 1] = s.mem[Smallest(held)]]]

GetAll(s, as) ==
  LET got[n \in 0 .. Len(as)] == IF n = 0 THEN s ELSE Get(got[n - 1], as[n])
  IN got[Len(as)]
ReleaseAll(s, as) ==
  LET left[n \in 0 .. Len(as)] == IF n = 0 THEN s ELSE Release(left[n - 1], as[n])
  IN left[Len(as)]

(* What is done with a state that a call has left, or with its answer.     *)
Then(x, Do(_)) == Do(x)

(* A recursion down the tree, in two halves.  Its calls down to the last   *)
(* one, each made by the one before: the calls of b_tree.c hold a frame    *)
(* each, and FindMost goes down under such a path.  And what the first of  *)
(* them returns, if the last returns bottom.                               *)
Calls(first, Down(_)) ==
  LET calls[d \in 0 .. CachePage] ==
        IF d = 0 THEN <<first>>
        ELSE Then(calls[d - 1], LAMBDA path :
               IF Last(path).end THEN path ELSE Append(path, Down(Last(path))))
  IN calls[CachePage]
Returned(path, bottom, Return(_, _)) ==
  LET returned[d \in 1 .. Len(path)] ==
        IF d = Len(path) THEN bottom
        ELSE Then(returned[d + 1], LAMBDA below : Return(path[d], below))
  IN returned[1]

(* The node under the pointer to page a, which is held.                    *)
At(s, a) == s.mem[Ptr(s, a)]

(* Stores through a pointer.                                               *)
Put(s, p, node) == IF s.null THEN s ELSE [s EXCEPT !.mem[p] = node]
PutAt(s, a, node) == Put(s, Ptr(s, a), node)
PutRow(s, p, k, rid) == Put(s, p, [s.mem[p] EXCEPT !.row[k] = rid])
PutChild(s, p, k, a) == Put(s, p, [s.mem[p] EXCEPT !.child[k] = a])
PutNext(s, p, a) == Put(s, p, [s.mem[p] EXCEPT !.next = a])

-----------------------------------------------------------------------------
(* Entries within a node.                                                  *)
IsLeaf(node) == node.child[0] = NoPage

(* child[k], which ReMove also asks for just past the end of the array     *)
(* (b_tree.c:426, of a node with one entry too many): what lies there is   *)
(* the first of row_ptr.                                                   *)
ChildAt(node, k) == IF k \in Slot THEN node.child[k] ELSE node.row[0]

OpenGap(f, k, n, v) ==
  [m \in Slot |-> IF m = k THEN v ELSE IF m \in k + 1 .. n THEN f[m - 1] ELSE f[m]]
CloseGap_OneLate(f, k, n, null) ==
  [m \in Slot |-> IF m = n - 1 THEN null ELSE IF m \in k + 1 .. n - 2 THEN f[m + 1] ELSE f[m]]
CloseGap_KeepsLast(f, k, n, null) ==
  [m \in Slot |-> IF m \in k .. n - 2 THEN f[m + 1] ELSE f[m]]
CloseGap(f, k, n, null) ==
  [m \in Slot |-> IF m = n - 1 THEN null ELSE IF m \in k .. n - 2 THEN f[m + 1] ELSE f[m]]

(* The first entry the loops over a node stop at, when they go on past the *)
(* entries whose comparison is in S.                                       *)
StopAt(env, node, key, S) ==
  Smallest({j \in 0 .. node.n : j = node.n \/ RowRowCmp(env, key, node.row[j]) \notin S})

(* page->next of a leaf, as InsertElement, ReMove and Move set it.         *)
Link_KeepsPin(s, a, next) ==
  Then(Get(s, a), LAMBDA t : PutNext(t, Ptr(t, a), next))
Link_Nothing(s, a, next) == s
Link(s, a, next) ==
  Then(Get(s, a), LAMBDA t : Release(PutNext(t, Ptr(t, a), next), a))

CreateNewNode(s) ==
  Then(Get(s, Ctrl), LAMBDA t :
    LET a == At(t, Ctrl).next IN
    [s |-> ReleaseAll(PutAt(Get(PutNext(t, Ptr(t, Ctrl), a + 1), a), a, EmptyNode),
                      <<a, Ctrl>>),
     a |-> a])

(* InsertElement with isKey: into leaf x at j, whose first entry the       *)
(* parent repeats.  Move may ask for the place before the first child of   *)
(* the parent (b_tree.c:368, when any two keys compare as equal).          *)
AddKey(s, x, key, j) ==
  PutAt(s, x, [At(s, x) EXCEPT !.n = @ + 1, !.row = OpenGap(@, j, At(s, x).n, key)])
CopyFirst(s, parent, x, i) ==
  IF parent = NoPage THEN s
  ELSE IF i < 0 THEN Lost(s)
  ELSE PutRow(s, Ptr(s, parent), i, At(s, x).row[0])

InsertKey(s, parent, x, key, i, j) ==
  ReleaseAll(CopyFirst(AddKey(GetAll(s, <<x, parent>>), x, key, j), parent, x, i),
             <<x, parent>>)

(* InsertElement without isKey: node x becomes child i of parent, and a    *)
(* leaf goes into the chain of leaves.                                     *)
Chain(s, parent, x, i) ==
  LET child == At(s, parent).child
      left == IF i > 0 THEN Link(s, child[i - 1], x) ELSE s
  IN IF IsLeaf(At(s, x)) THEN PutNext(left, Ptr(s, x), child[i]) ELSE s
AddChild(s, parent, x, i) ==
  PutAt(s, parent, [At(s, parent) EXCEPT
                      !.n = @ + 1,
                      !.child = OpenGap(@, i, At(s, parent).n, x),
                      !.row = OpenGap(@, i, At(s, parent).n, At(s, x).row[0])])
InsertChild(s, parent, x, i) ==
  ReleaseAll(AddChild(Chain(GetAll(s, <<x, parent>>), parent, x, i), parent, x, i),
             <<x, parent>>)

(* The upper half of x moves to a new node on its right; a root gets a new *)
(* root above the two.                                                     *)
Halve(s, x, new) ==
  LET node == At(s, x)
      half == node.n \div 2
      upper(f, null) == [k \in Slot |-> IF k < node.n - half THEN f[half + k] ELSE null]
      lower(f, null) == [k \in Slot |-> IF k \in half .. node.n - 1 THEN null ELSE f[k]]
      right == [At(s, new) EXCEPT
                  !.n = node.n - half, !.row = upper(node.row, NullRid),
                  !.child = IF IsLeaf(node) THEN @ ELSE upper(node.child, NoPage)]
      left == [node EXCEPT
                  !.n = half, !.row = lower(@, NullRid),
                  !.child = IF IsLeaf(node) THEN @ ELSE lower(@, NoPage)]
  IN PutAt(PutAt(s, new, right), x, left)

SplitNode(s, parent, x, i) ==
  Then(CreateNewNode(s), LAMBDA new :
    Then(Halve(GetAll(new.s, <<x, new.a>>), x, new.a), LAMBDA t :
      IF parent # NoPage
      THEN [s |-> ReleaseAll(InsertChild(t, parent, new.a, i + 1), <<x, new.a>>), a |-> x]
      ELSE Then(CreateNewNode(t), LAMBDA root :
             [s |-> ReleaseAll(InsertChild(InsertChild(root.s, root.a, x, 0),
                                           root.a, new.a, 1),
                               <<x, new.a>>),
              a |-> root.a])))

(* FindSibling and FindSiblingn_M_2: a sibling of child i of the parent    *)
(* whose n is in fit, the right one rather than the left, and its position.*)
Look(s, a) == Then(Get(s, a), LAMBDA t : [s |-> Release(t, a), n |-> At(t, a).n])

SiblingOf(s, parent, i, fit) ==
  Then(Get(s, parent), LAMBDA t :
    LET node == At(t, parent)
        near == IF i = 0 THEN 1 ELSE i - 1
        answer(u, j) ==
          [s |-> Release(u, parent), j |-> j,
           a |-> IF j = NoPage THEN NoPage ELSE node.child[j]]
    IN Then(Look(t, node.child[near]), LAMBDA l :
         LET nearIf == IF l.n \in fit THEN near ELSE NoPage IN
         IF i = 0 THEN answer(l.s, nearIf)
         ELSE Then(Look(l.s, node.child[i + 1]), LAMBDA r :
                answer(r.s, IF i + 1 < node.n /\ r.n \in fit THEN i + 1 ELSE nearIf))))

FindSibling(s, parent, i) == SiblingOf(s, parent, i, {n \in Int : n < Limit})
FindSiblingM2(s, parent, i) == SiblingOf(s, parent, i, {n \in Int : n > LimitM2})

-----------------------------------------------------------------------------
(* FindMostRight and FindMostLeft: both go down by the last child, the     *)
(* latter as long as there is a first one.                                 *)
FindMostCall(s, a, left) ==
  Then(Get(s, a), LAMBDA t :
    LET node == At(t, a) IN
    [s |-> t, a |-> a, end |-> node.child[IF left THEN 0 ELSE node.n - 1] = NoPage,
     child |-> node.child[node.n - 1]])
FindMost(s, a, left) ==
  Then(Last(Calls(FindMostCall(s, a, left),
                  LAMBDA c : FindMostCall(Release(c.s, c.a), c.child, left))), LAMBDA c :
    [s |-> Release(c.s, c.a), a |-> c.a])

(* ReAdj: the separators equal to key, the old first entry of a leaf, on   *)
(* the path to it become target.                                           *)
ReAdjCall(s, a, key, target) ==
  Then(Get(s, a), LAMBDA t :
    LET node == At(t, a)
        cmp(k) == RowRowCmp(t.env, key, node.row[k])
        renewed(k) == IF cmp(k) = 0 THEN PutRow(t, Ptr(t, a), k, target) ELSE t
    IN Then(StopAt(t.env, node, key, {1}), LAMBDA j :
         LET k == IF j > 0 /\ (j = node.n \/ cmp(j) < 0) THEN j - 1 ELSE j IN
         [s |-> IF IsLeaf(node) THEN t ELSE renewed(IF j < node.n /\ cmp(j) = 0 THEN j ELSE 0),
          a |-> a, end |-> IsLeaf(node), k |-> k, child |-> node.child[k]]))
ReAdj(s, a, key, target) ==
  Then(Calls(ReAdjCall(s, a, key, target),
             LAMBDA c : ReAdjCall(c.s, c.child, key, target)), LAMBDA path :
    Returned(path, Release(Last(path).s, Last(path).a), LAMBDA c, below :
      Release(PutChild(below, Ptr(c.s, c.a), c.k, c.child), c.a)))

(* ReMove with isKey: entry j of leaf x goes.  The separators of the old   *)
(* first entry follow while x still counts the entry.                      *)
TakeKey(s, x, j) ==
  PutAt(s, x, [At(s, x) EXCEPT !.row = CloseGap(@, j, At(s, x).n, NullRid)])
CountDown(s, x) == PutAt(s, x, [At(s, x) EXCEPT !.n = @ - 1])
ReAdjAll(s, old, first) ==
  IF first = NullRid THEN s
  ELSE Then(Get(s, Ctrl), LAMBDA t : Release(ReAdj(t, At(t, Ctrl).n, old, first), Ctrl))

RemoveKey_NoReAdj(s, parent, x, i, j) ==
  Then(TakeKey(GetAll(s, <<parent, x>>), x, j), LAMBDA t :
    ReleaseAll(CountDown(PutRow(t, Ptr(t, parent), i, At(t, x).row[0]), x), <<parent, x>>))
RemoveKey(s, parent, x, i, j) ==
  Then(TakeKey(GetAll(s, <<parent, x>>), x, j), LAMBDA t :
    LET first == At(t, x).row[0] IN
    ReleaseAll(CountDown(ReAdjAll(PutRow(t, Ptr(t, parent), i, first),
                                  At(t, parent).row[i], first), x), <<parent, x>>))

(* ReMove without isKey: child i of parent, which is x, goes.              *)
Unchain(s, parent, x, i) ==
  IF IsLeaf(At(s, x)) /\ i > 0
  THEN Link(s, At(s, parent).child[i - 1], ChildAt(At(s, parent), i + 1)) ELSE s
TakeChild(s, parent, i) ==
  PutAt(s, parent, [At(s, parent) EXCEPT
                      !.n = @ - 1,
                      !.child = CloseGap(@, i, At(s, parent).n, NoPage),
                      !.row = CloseGap(@, i, At(s, parent).n, NullRid)])
RemoveChild(s, parent, x, i) ==
  ReleaseAll(TakeChild(Unchain(GetAll(s, <<parent, x>>), parent, x, i), parent, i),
             <<parent, x>>)

(* Move: n entries of src, child i of parent, go to its neighbour dst, and *)
(* the separator and the chain of leaves between the two are renewed.      *)
MoveKey(s, src, dst, parent, i, front) ==
  LET from == IF front THEN At(s, src).n - 1 ELSE 0
  IN InsertKey(RemoveKey(s, parent, src, i, from), parent, dst, At(s, src).row[from],
               IF front THEN i + 1 ELSE i - 1, IF front THEN 0 ELSE At(s, dst).n)
MoveChild(s, src, dst, front) ==
  LET from == IF front THEN At(s, src).n - 1 ELSE 0
      child == At(s, src).child[from]
  IN InsertChild(RemoveChild(s, src, child, from), dst, child,
                 IF front THEN 0 ELSE At(s, dst).n)

Separate(s, src, dst, parent, i, front) ==
  IF front THEN PutRow(s, Ptr(s, parent), i + 1, At(s, dst).row[0])
  ELSE PutRow(s, Ptr(s, parent), i, At(s, src).row[0])
ChainLeaves(s, before, after) ==
  Then(FindMost(s, before, FALSE), LAMBDA right :
    Then(FindMost(right.s, after, TRUE), LAMBDA left : Link(left.s, right.a, left.a)))

MoveOne(u, src, dst, parent, i, front, leaf) ==
  IF leaf THEN MoveKey(u, src, dst, parent, i, front) ELSE MoveChild(u, src, dst, front)
MoveAll(s, src, dst, parent, i, n, front, leaf) ==
  LET moved[k \in 0 .. Limit] ==
        IF k = 0 THEN s
        ELSE Then(moved[k - 1], LAMBDA u :
               IF k > n THEN u ELSE MoveOne(u, src, dst, parent, i, front, leaf))
  IN moved[Limit]

Move(s, src, dst, parent, i, n) ==
  Then(GetAll(s, <<src, dst, parent>>), LAMBDA t :
    LET front == RowRowCmp(t.env, At(t, src).row[0], At(t, dst).row[0]) = -1 IN
    Then(Separate(MoveAll(t, src, dst, parent, i, n, front, IsLeaf(At(t, src))),
                  src, dst, parent, i, front), LAMBDA u :
      ReleaseAll(IF At(u, src).n = 0 THEN u
                 ELSE ChainLeaves(u, IF front THEN src ELSE dst, IF front THEN dst ELSE src),
                 <<src, dst, parent>>)))

MergeNode_KeepsPins(s, parent, x, sibling, i) ==
  Then(GetAll(s, <<parent, x, sibling>>), LAMBDA t :
    RemoveChild(Move(t, x, sibling, parent, i, At(t, x).n), parent, x, i))
MergeNode(s, parent, x, sibling, i) ==
  Then(GetAll(s, <<parent, x, sibling>>), LAMBDA t :
    ReleaseAll(IF At(t, sibling).n > LimitM2 THEN Move(t, sibling, x, parent, i, 1)
               ELSE RemoveChild(Move(t, x, sibling, parent, i, At(t, x).n), parent, x, i),
               <<parent, x, sibling>>))

-----------------------------------------------------------------------------
(* RecursiveInsert of key into node a, child i of parent.  Note the reads  *)
(* and the writes through p after a has been released, and the release at  *)
(* the end of a page that may have been released before.                   *)
Relieved(sibling, a, i, parent) ==
  IF sibling.a # NoPage
  THEN [s |-> Move(sibling.s, a, sibling.a, parent, i, 1), a |-> a]
  ELSE SplitNode(Release(sibling.s, a), parent, a, i)
Fitted(s, p, a, i, parent) ==
  IF s.mem[p].n <= Limit THEN [s |-> s, a |-> a]
  ELSE Relieved(IF parent = NoPage THEN [s |-> s, a |-> NoPage] ELSE FindSibling(s, parent, i),
                a, i, parent)
CopyBack(s, p, i, parent) ==
  IF parent = NoPage THEN s
  ELSE Then(Get(s, parent), LAMBDA t :
         Release(PutRow(t, Ptr(t, parent), i, t.mem[p].row[0]), parent))

Inserted(u, c) ==
  Then(Fitted(u, c.p, c.a, c.i, c.parent), LAMBDA r :
    [s |-> Release(CopyBack(r.s, c.p, c.i, c.parent), r.a), a |-> r.a])

InsertCall(s, a, key, i, parent) ==
  Then(Get(s, a), LAMBDA t :
    LET node == At(t, a) IN
    Then(StopAt(t.env, node, key, {0, 1}), LAMBDA stop :
      LET j == IF stop # 0 /\ ~IsLeaf(node) THEN stop - 1 ELSE stop IN
      [s |-> t, a |-> a, i |-> i, parent |-> parent, p |-> Ptr(t, a), end |-> IsLeaf(node),
       j |-> j, child |-> node.child[j]]))
InsertIntoLeaf(c, key) ==
  IF RowRowCmp(c.s.env, key, At(c.s, c.a).row[c.j]) = 0 THEN [s |-> Release(c.s, c.a), a |-> c.a]
  ELSE Inserted(InsertKey(Release(c.s, c.a), c.parent, c.a, key, c.i, c.j), c)
RecursiveInsert(s, a, key, i, parent) ==
  Then(Calls(InsertCall(s, a, key, i, parent),
             LAMBDA c : InsertCall(c.s, c.child, key, c.j, c.a)), LAMBDA path :
    Returned(path, InsertIntoLeaf(Last(path), key), LAMBDA c, below :
      Inserted(PutChild(below.s, c.p, c.j, below.a), c)))

(* RecursiveRemove.  Once the entry is gone, a root of one child makes way *)
(* for it; another node with too few entries gets one of a sibling or is   *)
(* merged with it.                                                         *)
Merged(s, a, i, parent) ==
  LET other == At(s, parent).child[IF i = 0 THEN 1 ELSE i - 1] IN
  Then(Get(MergeNode(Release(s, parent), parent, a, other, i), parent), LAMBDA t :
    LET rest == At(t, parent).child[i] IN
    [s |-> ReleaseAll(t, <<a, parent, rest>>), a |-> rest])
Refilled(sibling, a, i, parent) ==
  IF sibling.a = NoPage THEN Merged(Get(sibling.s, parent), a, i, parent)
  ELSE [s |-> Release(Move(sibling.s, sibling.a, a, parent, sibling.j, 1), a), a |-> a]
Few(node, parent) ==
  IF parent = NoPage THEN ~IsLeaf(node) /\ node.n < 2 ELSE node.n < LimitM2
Adjusted(s, p, a, i, parent) ==
  IF ~Few(s.mem[p], parent) THEN [s |-> Release(s, a), a |-> a]
  ELSE IF parent = NoPage THEN [s |-> Release(s, a), a |-> s.mem[p].child[0]]
  ELSE Refilled(FindSiblingM2(s, parent, i), a, i, parent)

RemoveCall(s, a, key, i, parent) ==
  Then(Get(s, a), LAMBDA t :
    LET node == At(t, a) IN
    Then(StopAt(t.env, node, key, {1}), LAMBDA stop :
      LET cmp == RowRowCmp(t.env, key, node.row[stop])
          j == IF (stop = node.n \/ cmp < 0) /\ stop > 0 THEN stop - 1 ELSE stop
      IN [s |-> t, a |-> a, i |-> i, parent |-> parent, p |-> Ptr(t, a), end |-> IsLeaf(node),
          stop |-> stop, found |-> cmp = 0 /\ stop # node.n, j |-> j, child |-> node.child[j]]))
RemoveFromLeaf(c) ==
  IF ~c.found THEN [s |-> Release(c.s, c.a), a |-> c.a]
  ELSE Adjusted(RemoveKey(c.s, c.parent, c.a, c.i, c.stop), c.p, c.a, c.i, c.parent)
RecursiveRemove(s, a, key, i, parent) ==
  Then(Calls(RemoveCall(s, a, key, i, parent),
             LAMBDA c : RemoveCall(c.s, c.child, key, c.j, c.a)), LAMBDA path :
    Returned(path, RemoveFromLeaf(Last(path)), LAMBDA c, below :
      Adjusted(PutChild(below.s, c.p, c.j, below.a), c.p, c.a, c.i, c.parent)))

SearchCall(s, a, key) ==
  Then(Get(s, a), LAMBDA t :
    LET node == At(t, a)
        cmp(k) == PtrRowCmp(t.env, key, node.row[k])
    IN Then(Smallest({k \in 0 .. node.n : k = node.n \/ cmp(k) # 1}), LAMBDA stop :
         LET j == IF (stop = node.n \/ cmp(stop) < 0) /\ stop > 0 THEN stop - 1 ELSE stop IN
         [s |-> t, a |-> a, end |-> IsLeaf(node), child |-> node.child[j],
          met |-> {node.row[k] : k \in 0 .. stop},
          rid |-> IF stop = node.n \/ cmp(stop) # 0 THEN NullRid ELSE node.row[stop]]))
SearchPath(s, a, key) ==
  Calls(SearchCall(s, a, key), LAMBDA c : SearchCall(c.s, c.child, key))
RecursiveSearch(s, a, key) ==
  Then(SearchPath(s, a, key), LAMBDA path :
    Returned(path, [s |-> Release(Last(path).s, Last(path).a), rid |-> Last(path).rid],
             LAMBDA c, below : [s |-> Release(below.s, c.a), rid |-> below.rid]))

-----------------------------------------------------------------------------
(* init_buffer_pool: every frame is empty; EMPTY_PAGE is zero throughout.  *)
ZeroNode(zero) == [n |-> 0, next |-> 0, child |-> [k \in Slot |-> 0],
                   row |-> [k \in Slot |-> zero]]
Opened(file, env, zero) ==
  [at |-> [f \in Frame |-> NoPage], ref |-> [f \in Frame |-> 0],
   mem |-> [f \in Frame |-> ZeroNode(zero)], file |-> file, env |-> env, null |-> FALSE]

(* b_tree_init on a file that is not there yet; on the file of an index it *)
(* only opens it.                                                          *)
BTreeInit(env, zero) ==
  LET setCtrl(s, root) == PutAt(s, Ctrl, [At(s, Ctrl) EXCEPT !.n = root, !.next = 2])
      opened == Get(Opened(<<>>, env, zero), Ctrl)
  IN Release(setCtrl(Release(PutAt(Get(setCtrl(opened, NoPage), 1), 1, EmptyNode), 1), 1),
             Ctrl)

(* b_tree_close: every frame is written that is not empty or parked, the   *)
(* last of a page's frames at last.                                        *)
BTreeClose(s) ==
  LET frameOf(a) == CHOOSE f \in FramesOf(s, a) : \A g \in FramesOf(s, a) : g <= f
  IN [s EXCEPT !.file = [k \in DOMAIN s.file |->
        IF FramesOf(s, k - 1) = {} THEN s.file[k] ELSE s.mem[frameOf(k - 1)]]]

OldRoot(t) == At(t, Ctrl).n

BTreeSearch(s, key) ==
  Then(Get(s, Ctrl), LAMBDA t :
    Then(RecursiveSearch(t, OldRoot(t), key), LAMBDA found :
      [s |-> Release(found.s, Ctrl), rid |-> found.rid]))

(* b_tree_insert and b_tree_delete hold the control block and the old root *)
(* while they work, and then set the new root.                             *)
HoldRoot(s) == Then(Get(s, Ctrl), LAMBDA t : Get(t, OldRoot(t)))
SetRoot_StoresLate(t, u) ==
  Put(ReleaseAll(u.s, <<OldRoot(t), Ctrl>>), Ptr(t, Ctrl),
      [u.s.mem[Ptr(t, Ctrl)] EXCEPT !.n = u.a])
SetRoot(t, u) ==
  ReleaseAll(Put(u.s, Ptr(t, Ctrl), [u.s.mem[Ptr(t, Ctrl)] EXCEPT !.n = u.a]),
             <<OldRoot(t), Ctrl>>)

BTreeInsert(s, rid) ==
  Then(HoldRoot(s), LAMBDA t : SetRoot(t, RecursiveInsert(t, OldRoot(t), rid, 0, NoPage)))
BTreeDelete(s, rid) ==
  Then(HoldRoot(s), LAMBDA t : SetRoot(t, RecursiveRemove(t, OldRoot(t), rid, 0, NoPage)))

(* Print_b_tree: the nodes level by level, with a queue of those still to  *)
(* come.  It never releases the control block.                             *)
ChildrenOf(node) ==
  SelectSeq([k \in 1 .. node.n + 1 |-> node.child[k - 1]], LAMBDA c : c # NoPage)
PrintTree(s) ==
  Then(Get(s, Ctrl), LAMBDA t :
    LET prints[n \in 0 .. Len(t.file) - 1] ==
          IF n = 0 THEN [s |-> t, queue |-> <<OldRoot(t)>>, printed |-> <<>>]
          ELSE Then(prints[n - 1], LAMBDA x :
                 IF x.queue = <<>> THEN x
                 ELSE LET a == Head(x.queue)
                          u == Get(x.s, a)
                      IN [s |-> Release(u, a), queue |-> Tail(x.queue) \o ChildrenOf(At(u, a)),
                          printed |-> Append(x.printed, At(u, a))])
    IN prints[Len(t.file) - 1])

-----------------------------------------------------------------------------
(* What the index holds: a page is in its frame or else in the file.       *)
Page(s, a) ==
  IF \E f \in Frame : s.at[f] = a THEN s.mem[CHOOSE f \in Frame : s.at[f] = a]
  ELSE s.file[a + 1]
Root(s) == Page(s, Ctrl).n
Children(node) == {node.child[k] : k \in {k \in Slot : k < node.n}}

(* The nodes level by level: a tree has no more levels than nodes.         *)
Levels(s) ==
  LET level[d \in 1 .. Len(s.file) - 1] ==
        IF d = 1 THEN {Root(s)}
        ELSE UNION {Children(Page(s, a)) : a \in {a \in level[d - 1] : ~IsLeaf(Page(s, a))}}
  IN level
Nodes(s) == UNION {Levels(s)[d] : d \in DOMAIN Levels(s)}

(* The levels on which there are leaves.                                   *)
Heights(s) == {d \in DOMAIN Levels(s) : \E a \in Levels(s)[d] : IsLeaf(Page(s, a))}

(* The first entry below a node.                                           *)
FirstKey(s, a) ==
  LET first[d \in 0 .. Len(s.file) - 2] ==
        IF d = 0 THEN Page(s, a)
        ELSE Then(first[d - 1], LAMBDA node :
               IF IsLeaf(node) THEN node ELSE Page(s, node.child[0]))
  IN first[Len(s.file) - 2].row[0]

Entries(node) == {node.row[k] : k \in {k \in Slot : k < node.n}}
Rids(s) == UNION {Entries(node) : node \in {m \in {Page(s, a) : a \in Nodes(s)} : IsLeaf(m)}}
=============================================================================
