------------------------------- MODULE MyJQL -------------------------------
(***************************************************************************)
(* The key-value store of myjql/src/myjql.c: a table of strings, a table   *)
(* of records (the RIDs of a key's and a value's string) and an index of   *)
(* the records, with the comparators as they are written.  A step is one   *)
(* call: the server makes them one at a time, under its mutex.             *)
(*                                                                         *)
(* A RID is a number, the place of an item in its table.  The two tables   *)
(* count alike, so that the RID of a string can be taken for that of a     *)
(* record, as myjql_del does.                                              *)
(*                                                                         *)
(* A RID whose record is gone is read as whatever memory holds, and an     *)
(* index that runs out of frames, or stores an entry outside of a node, is *)
(* no better: the call may go anywhere, and the model does not follow it.  *)
(***************************************************************************)
EXTENDS Integers, Sequences, SequencesExt, FiniteSets

CONSTANTS DEGREE, CachePage,
          Key, Value,    \* sequences of characters, none of them empty
          PtrSize,       \* sizeof(key) of myjql.c:92: that of a pointer
          Rid,           \* the places of a table
          OneBlock,      \* all of a table fits into its first block
          MaxUpdates     \* bound on the calls of myjql_set and myjql_del

ASSUME DegreeAssumption == DEGREE \in Nat /\ DEGREE >= 2   \* b_tree.h:7
ASSUME CacheAssumption == CachePage \in Nat /\ CachePage >= 3   \* 8: buffer_pool.h:6
ASSUME TextAssumption ==
  \A t \in Key \cup Value : t \in Seq(Nat \ {0}) /\ t # <<>>
ASSUME PtrAssumption == PtrSize \in Nat \ {0}
ASSUME RidAssumption == Rid \subseteq Nat \ {0} /\ OneBlock \in BOOLEAN
ASSUME UpdatesAssumption == MaxUpdates \in Nat

VARIABLES strs,     \* tbl_str: RID -> text
          recs,     \* tbl_rec: RID -> RIDs of the key's and the value's string
          idx,      \* the index
          strcmp,   \* the C library's: its answers are "signs" or "differences"
          status,   \* "running", or "undefined" once memory was misread
          last,     \* the last call of myjql_get and its answer
          updates   \* the calls of myjql_set and myjql_del so far

vars == <<strs, recs, idx, strcmp, status, last, updates>>

NullRid == 0
NoValue == <<>>
NoGet == [key |-> <<>>, value |-> NoValue]

-----------------------------------------------------------------------------
(* strcmp of two texts; past its end a text has character 0.               *)
CharAt(t, i) == IF i <= Len(t) THEN t[i] ELSE 0
Compare(lib, s, t) ==
  LET apart == {i \in 1 .. Len(s) + 1 : CharAt(s, i) # CharAt(t, i)}
      i == CHOOSE i \in apart : \A k \in apart : i <= k
      difference == CharAt(s, i) - CharAt(t, i)
  IN IF apart = {} THEN 0
     ELSE IF lib = "differences" THEN difference
     ELSE IF difference > 0 THEN 1 ELSE -1

(* rid_ptr_row_cmp: only the first PtrSize characters of the record's key  *)
(* are loaded.  A record that is gone compares as Unknown.                 *)
Unknown == -1000000
Start(t) == SubSeq(t, 1, IF Len(t) < PtrSize THEN Len(t) ELSE PtrSize)
PtrRow_Swapped(env, key, b) ==
  IF b = NullRid THEN 1
  ELSE IF b \notin DOMAIN env.recs THEN Unknown
  ELSE Compare(env.strcmp, Start(env.strs[env.recs[b].key]), key)
PtrRow(env, key, b) ==
  IF b = NullRid THEN 1
  ELSE IF b \notin DOMAIN env.recs THEN Unknown
  ELSE Compare(env.strcmp, key, Start(env.strs[env.recs[b].key]))

(* rid_row_row_cmp reads record a into both of its records, and a text     *)
(* equals itself.  A record that is gone compares as the call guesses.     *)
RowRow(env, a, b) ==
  IF a = NullRid \/ b = NullRid
  THEN (IF b = NullRid THEN 1 ELSE 0) - (IF a = NullRid THEN 1 ELSE 0)
  ELSE IF a \in DOMAIN env.recs THEN 0 ELSE env.guess

INSTANCE BTreeOps WITH RowRowCmp <- RowRow, PtrRowCmp <- PtrRow

-----------------------------------------------------------------------------
(* The three files together, as the operators below pass them on.          *)
Files == [strs |-> strs, recs |-> recs, idx |-> idx]
NoEnv == [strs |-> <<>>, recs |-> <<>>, strcmp |-> "none", guess |-> 0]
WithEnv(s, env) ==
  [at |-> s.at, ref |-> s.ref, mem |-> s.mem, file |-> s.file, env |-> env, null |-> s.null]
Equipped(f, guess) ==
  WithEnv(f.idx, [strs |-> f.strs, recs |-> f.recs, strcmp |-> strcmp, guess |-> guess])

(* table_insert: the first free place of a block (new_item), and of any    *)
(* block with room if there are several.                                   *)
Places_Taken(S) == Rid
Places(S) == {r \in Rid \ S : OneBlock => \A q \in Rid \ S : r <= q}

Without(f, S) == [r \in DOMAIN f \ S |-> f[r]]
With(f, r, v) == [q \in DOMAIN f \cup {r} |-> IF q = r THEN v ELSE f[q]]

Gone(f, S) == \E r \in S : r \notin DOMAIN f.recs \cup {NullRid}
Guesses(misread) == IF misread THEN {-1, 0, 1} ELSE {0}

Search(f, k) == BTreeSearch(Equipped(f, 0), k)
Searched(f, k) == [f EXCEPT !.idx = Search(f, k).s]

(* The search comes upon an entry whose record is gone.                    *)
Descent(f, k) ==
  Then(Get(Equipped(f, 0), Ctrl), LAMBDA t : SearchPath(t, OldRoot(t), k))
SearchMisreads(f, k) ==
  Search(f, k).s.null \/ \E d \in DOMAIN Descent(f, k) : Gone(f, Descent(f, k)[d].met)

(* In an index of several levels, Move and ReAdj may compare any entry.    *)
Leaf(f) == Page(f.idx, Root(f.idx))
Stale(f) ==
  ~IsLeaf(Leaf(f)) /\ \E a \in Nodes(f.idx) : Gone(f, Entries(Page(f.idx, a)))

(* myjql_del of record r.  b_tree_delete is given the RID of the key's     *)
(* string, and ReAdj what the frame parked for the root's parent held.     *)
Parked(f) == At(Get(HoldRoot(f.idx), NoPage), NoPage).row[0]
DeleteMisreads(f, r) ==
  \/ Gone(f, {f.recs[r].key})
  \/ IsLeaf(Leaf(f)) /\ Leaf(f).n > 1 /\ Gone(f, {Parked(f)})
  \/ Stale(f)

Deleted_KeepsValue(f, r, guess) ==
  [strs |-> Without(f.strs, {f.recs[r].key}),
   recs |-> Without(f.recs, {r}),
   idx |-> BTreeDelete(Equipped(f, guess), f.recs[r].key)]
Deleted_KeepsEntry(f, r, guess) ==
  [strs |-> Without(f.strs, {f.recs[r].key, f.recs[r].value}),
   recs |-> Without(f.recs, {r}),
   idx |-> f.idx]
Deleted(f, r, guess) ==
  [strs |-> Without(f.strs, {f.recs[r].key, f.recs[r].value}),
   recs |-> Without(f.recs, {r}),
   idx |-> BTreeDelete(Equipped(f, guess), f.recs[r].key)]

(* What myjql_del of a key leaves, as far as it can be told.               *)
AfterDel(f, k) ==
  LET r == Search(f, k).rid
      g == Searched(f, k)
  IN IF SearchMisreads(f, k) THEN {}
     ELSE IF r = NullRid THEN {g}
     ELSE {Deleted(g, r, guess) : guess \in Guesses(DeleteMisreads(g, r))}
DelMisreads(f, k) ==
  LET r == Search(f, k).rid
  IN SearchMisreads(f, k) \/ (r # NullRid /\ DeleteMisreads(Searched(f, k), r))

(* The second half of myjql_set: the strings and the record, at a, b, r,   *)
(* and then the entry.                                                     *)
Recorded(f, k, v, a, b, r) ==
  [f EXCEPT !.strs = With(With(@, a, k), b, v),
            !.recs = With(@, r, [key |-> a, value |-> b])]
Entered(f, r, guess) == [f EXCEPT !.idx = BTreeInsert(Equipped(f, guess), r)]

-----------------------------------------------------------------------------
Init ==
  /\ strs = [r \in {} |-> <<>>]
  /\ recs = [r \in {} |-> [key |-> NullRid, value |-> NullRid]]
  /\ idx = BTreeInit(NoEnv, 1)
  /\ strcmp \in {"signs", "differences"}
  /\ status = "running"
  /\ last = NoGet
  /\ updates = <<>>

Misread ==
  /\ status' = "undefined"
  /\ UNCHANGED <<strs, recs, idx>>

Leave(f) ==
  \/ f.idx.null /\ Misread
  \/ /\ ~f.idx.null
     /\ strs' = f.strs
     /\ recs' = f.recs
     /\ idx' = WithEnv(f.idx, NoEnv)
     /\ UNCHANGED status

Update(k, v) ==
  /\ status = "running"
  /\ Len(updates) < MaxUpdates
  /\ updates' = Append(updates, [key |-> k, value |-> v])
  /\ last' = NoGet
  /\ UNCHANGED strcmp

Del(k) ==
  /\ Update(k, NoValue)
  /\ \/ DelMisreads(Files, k) /\ Misread
     \/ \E f \in AfterDel(Files, k) : Leave(f)

(* myjql_set calls myjql_del, which searches again, for a key it finds.    *)
Store(f, k, v) ==
  \E a \in Places(DOMAIN f.strs), r \in Places(DOMAIN f.recs) :
  \E b \in Places(DOMAIN f.strs \cup {a}) :
    LET g == Recorded(f, k, v, a, b, r) IN
    \/ Stale(g) /\ Misread
    \/ \E guess \in Guesses(Stale(g)) : Leave(Entered(g, r, guess))

Set(k, v) ==
  LET f == IF Search(Files, k).rid = NullRid THEN Files ELSE Searched(Files, k) IN
  /\ Update(k, v)
  /\ \/ DelMisreads(f, k) /\ Misread
     \/ \E g \in AfterDel(f, k) : Store(g, k, v)

(* myjql_get: NoValue stands for the answer -1.                            *)
Answer_Key(r) == IF r = NullRid THEN NoValue ELSE strs[recs[r].key]
Answer(r) == IF r = NullRid THEN NoValue ELSE strs[recs[r].value]

MyGet(k) ==
  LET found == Search(Files, k) IN
  /\ status = "running"
  /\ IF SearchMisreads(Files, k) THEN Misread /\ UNCHANGED last
     ELSE /\ last' = [key |-> k, value |-> Answer(found.rid)]
          /\ Leave(Searched(Files, k))
  /\ UNCHANGED <<strcmp, updates>>

(* myjql_close, and myjql_init on the same files.                          *)
Reopen ==
  /\ status = "running"
  /\ idx' = Opened(BTreeClose(idx).file, NoEnv, 1)
  /\ last' = NoGet
  /\ UNCHANGED <<strs, recs, strcmp, status, updates>>

Next ==
  \/ \E k \in Key : MyGet(k) \/ Del(k) \/ \E v \in Value : Set(k, v)
  \/ Reopen

Spec == Init /\ [][Next]_vars

-----------------------------------------------------------------------------
(* Every string belongs to one record, as its key or as its value, and     *)
(* each record has both: no call leaves a string without its record or a   *)
(* record without its strings (myjql.c:110-157), whatever the index has    *)
(* come to hold.  A record that the search misses stays, with its strings. *)
OwnedOnce ==
  /\ \A r \in DOMAIN recs : {recs[r].key, recs[r].value} \subseteq DOMAIN strs
  /\ DOMAIN strs = UNION {{recs[r].key, recs[r].value} : r \in DOMAIN recs}
  /\ Cardinality(DOMAIN strs) = 2 * Cardinality(DOMAIN recs)

(* What the first n updates should leave under k.                          *)
MeantAfter(n, k) ==
  LET of == {i \in 1 .. n : updates[i].key = k}
  IN IF of = {} THEN NoValue ELSE updates[CHOOSE i \in of : \A j \in of : j <= i].value
Meant(k) == MeantAfter(Len(updates), k)
Held(n) == {k \in Key : MeantAfter(n, k) # NoValue}

Served(k) ==
  /\ ~SearchMisreads(Files, k)
  /\ Answer(Search(Files, k).rid) = Meant(k)

ShortKeys == \A i \in DOMAIN updates : Len(updates[i].key) <= PtrSize
OneKey == \A n \in DOMAIN updates : Cardinality(Held(n)) <= 1
SetsAscend ==
  \A i, j \in DOMAIN updates :
    i < j /\ updates[i].value # NoValue /\ updates[j].value # NoValue =>
      Compare("signs", updates[i].key, updates[j].key) = -1
Ascending == SetsAscend /\ \A i \in DOMAIN updates : updates[i].value # NoValue

(* Of keys no longer than a pointer (myjql.c:92), a store that never held  *)
(* two at a time serves each as it was last set, under either strcmp and   *)
(* however often the key changed: the RID of the only key's string is then *)
(* that of the only record, both in the first place of a table of one      *)
(* block, so that b_tree_delete hits it (myjql.c:148).                     *)
LoneKeyServed ==
  OneBlock /\ ShortKeys /\ OneKey => status = "running" /\ \A k \in Key : Served(k)

(* Insertion appends (rid_row_row_cmp finds any two records equal), and    *)
(* search relies on order.  Keys no longer than a pointer that were set in *)
(* ascending order, where strcmp answers with signs (b_tree.c:647 tests    *)
(* for 1), are all found with their values, and no others, as long as they *)
(* are no more than one leaf takes: with more, ReAdj overwrites the first  *)
(* separator it meets, as all compare equal (b_tree.c:774).                *)
AscendingServed ==
  ShortKeys /\ Ascending /\ strcmp = "signs" /\ Len(updates) <= Limit =>
    \A k \in Key : Served(k)

(* A get that meets no entry of a deleted record answers with -1 or with a *)
(* value that was set under a key of which it compares all it loads: under *)
(* k itself, or under a longer key of which k is the first PtrSize         *)
(* characters (myjql.c:92).  So it is when entries have come to point to   *)
(* records that took the place of deleted ones.                            *)
AnswersBelong ==
  \A k \in Key :
    LET value == Answer(Search(Files, k).rid) IN
    ~SearchMisreads(Files, k) =>
      value = NoValue \/ \E i \in DOMAIN updates : updates[i].value = value /\ Start(updates[i].key) = k

(* myjql.h:21: "return -1 if the key does not exist".  The answer is -1    *)
(* exactly for the keys that were not set or were deleted.                 *)
GetFinds == last # NoGet => (last.value = NoValue) = (Meant(last.key) = NoValue)
=============================================================================
