------------------------------- MODULE BTree -------------------------------
(***************************************************************************)
(* The index of myjql/src/b_tree.c under a comparison that orders its      *)
(* keys, as the one of test/test_b_tree.c does: an entry is a number and   *)
(* stands for its own key.  A step is one call of the interface of         *)
(* b_tree.h, made as the callers make it: a key is inserted only while it  *)
(* is absent, deleted and searched for at any time, and Print_b_tree, which *)
(* stands in the callers as a comment, may be called as well.              *)
(*                                                                         *)
(* Initially the index is one that Grown builds by insertions, so that a   *)
(* few calls reach every kind of split, move, merge and change of height.  *)
(***************************************************************************)
EXTENDS Integers, Sequences, SequencesExt, FiniteSets

CONSTANTS DEGREE, CachePage,
          Key,       \* keys: positive numbers
          Growth,    \* sequences of distinct keys, inserted initially
          MaxCalls   \* bound on the calls after that

ASSUME DegreeAssumption == DEGREE \in Nat /\ DEGREE >= 2   \* b_tree.h:7
ASSUME CacheAssumption == CachePage \in Nat /\ CachePage >= 2   \* b_tree_init holds two pages
ASSUME KeyAssumption == Key \subseteq Nat \ {0}
ASSUME GrowthAssumption == \A q \in Growth : q \in Seq(Key) /\ IsInjective(q)

VARIABLES idx,     \* the index: frames, file
          prints,  \* the calls of Print_b_tree since the index was opened
          last,    \* the last call: what it did, to which key, its answer
          calls    \* the calls made

vars == <<idx, prints, last, calls>>

NullRid == -1
Order(env, a, b) == IF a < b THEN -1 ELSE IF a = b THEN 0 ELSE 1

INSTANCE BTreeOps WITH RowRowCmp <- Order, PtrRowCmp <- Order

Grown(q) ==
  LET grown[n \in 0 .. Len(q)] ==
        IF n = 0 THEN BTreeInit(<<>>, 0) ELSE BTreeInsert(grown[n - 1], q[n])
  IN grown[Len(q)]

-----------------------------------------------------------------------------
Init ==
  /\ idx \in {Grown(q) : q \in Growth}
  /\ prints = 0
  /\ last = [op |-> "open", key |-> NullRid, answer |-> <<>>]
  /\ calls = 0

Call(op, k, answer) ==
  /\ ~idx.null
  /\ calls < MaxCalls
  /\ calls' = calls + 1
  /\ last' = [op |-> op, key |-> k, answer |-> answer]

Insert(k) ==
  /\ Call("insert", k, <<>>)
  /\ k \notin Rids(idx)
  /\ idx' = BTreeInsert(idx, k)
  /\ UNCHANGED prints

Delete(k) ==
  /\ Call("delete", k, <<>>)
  /\ idx' = BTreeDelete(idx, k)
  /\ UNCHANGED prints

Search(k) ==
  LET found == BTreeSearch(idx, k) IN
  /\ Call("search", k, IF found.rid = NullRid THEN <<>> ELSE <<found.rid>>)
  /\ idx' = found.s
  /\ UNCHANGED prints

(* Its answer is what it prints of the leaves.                             *)
RowsOf(node) == [k \in 1 .. node.n |-> node.row[k - 1]]
Print_b_tree ==
  LET walk == PrintTree(idx)
      leaves == SelectSeq(walk.printed, IsLeaf)
  IN /\ Call("list", NullRid, FlattenSeq([i \in DOMAIN leaves |-> RowsOf(leaves[i])]))
     /\ idx' = walk.s
     /\ prints' = prints + 1

(* b_tree_close, and b_tree_init on the same file.                         *)
Reopen ==
  /\ ~idx.null
  /\ idx' = Opened(BTreeClose(idx).file, idx.env, 0)
  /\ prints' = 0
  /\ UNCHANGED <<last, calls>>

Next ==
  \/ \E k \in Key : Insert(k) \/ Delete(k) \/ Search(k)
  \/ Print_b_tree
  \/ Reopen

Spec == Init /\ [][Next]_vars

-----------------------------------------------------------------------------
TypeOK ==
  /\ idx.at \in [Frame -> NoPage .. Len(idx.file) - 1]
  /\ idx.ref \in [Frame -> Nat]
  /\ idx.null \in BOOLEAN
  /\ last.key \in Key \cup {NullRid}
  /\ last.answer \in Seq(Key)
  /\ prints \in Nat
  /\ calls \in 0 .. MaxCalls

(* get_page never runs out of frames: what one call pins on its way down,  *)
(* in Move and in ReAdj fits into the cache, up to the heights checked     *)
(* (buffer_pool.c:81, whose NULL no caller tests for).  Nor does Move      *)
(* store an entry before the first one of a node (b_tree.c:368).           *)
FramesSuffice == ~idx.null

(* Every call returns every pin it took, on every way through a split, a   *)
(* move or a merge: a pin left behind would keep its frame until the cache *)
(* is full of such frames.  Only Print_b_tree leaves one, on the control   *)
(* block (b_tree.c:716).                                                   *)
NoPinLeft ==
  FramesSuffice => \A f \in Frame : idx.ref[f] <= IF idx.at[f] = Ctrl THEN prints ELSE 0

(* Between calls no frame differs from its page in the file: a store       *)
(* through a pointer whose page was released before (b_tree.c:143, 156)    *)
(* would be lost when the frame is taken for another page.                 *)
NothingUnwritten ==
  \A f \in Frame : idx.at[f] # NoPage => idx.mem[f] = idx.file[idx.at[f] + 1]

(* All leaves are at one depth, and every node but the root has between    *)
(* LIMIT_M_2 and 2 * DEGREE - 1 entries (after a split, a move, a merge).  *)
Balanced ==
  /\ Cardinality(Heights(idx)) = 1
  /\ \A a \in Nodes(idx) :
       IF a = Root(idx) THEN IsLeaf(Page(idx, a)) \/ Page(idx, a).n >= 2
       ELSE Page(idx, a).n \in LimitM2 .. Limit

(* An entry of an inner node is the smallest key below its child: what     *)
(* RecursiveInsert, ReMove and ReAdj keep up on every way a first key can  *)
(* change, and what every descent relies on.  The entries ascend.          *)
Separated ==
  \A a \in Nodes(idx) :
    LET node == Page(idx, a) IN
    /\ \A k \in 1 .. node.n - 1 : node.row[k - 1] < node.row[k]
    /\ ~IsLeaf(node) => \A k \in 0 .. node.n - 1 : node.row[k] = FirstKey(idx, node.child[k])

(* Both together: the tree is a search tree of logarithmic height after    *)
(* every split, move, merge and change of a first key.                     *)
SearchTree == Balanced /\ Separated

(* Beyond its n entries a node holds no RIDs and no children: FindSibling  *)
(* follows child[i + 1] before it tests i + 1 against n (b_tree.c:293),    *)
(* and a comparison with row_ptr[n] must not find anything (b_tree.c:109). *)
UnusedIsNull ==
  \A a \in Nodes(idx) :
    LET node == Page(idx, a) IN
    \A k \in Slot : k >= node.n => node.row[k] = NullRid /\ node.child[k] = NoPage

(* Along next the leaves follow one another in the order of their keys, as *)
(* long as the tree has at most two levels.                                *)
LeavesChained ==
  Heights(idx) \subseteq {1, 2} =>
    LET node == Page(idx, Root(idx)) IN
    ~IsLeaf(node) => \A k \in 0 .. node.n - 1 :
      Page(idx, node.child[k]).next = (IF k + 1 < node.n THEN node.child[k + 1] ELSE NoPage)

Abstract == INSTANCE OrderedIndex WITH
  keys <- Rids(idx), NoKey <- NullRid

(* Splits, moves, merges and evictions never lose, double or invent a key, *)
(* a search finds exactly the keys of the index, and the leaves print all  *)
(* of them in order.                                                       *)
ImplementsOrderedIndex == Abstract!Spec
=============================================================================
