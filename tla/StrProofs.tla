----------------------------- MODULE StrProofs -----------------------------
(***************************************************************************)
(* Strings read back and compare as they were written, and own their       *)
(* chunks: for every length of a chunk, every set of texts, every layout   *)
(* of a page.                                                              *)
(***************************************************************************)
EXTENDS Str, TableProofs, FiniteSetTheorems

(* A chain of k chunks, counted from the last: c[k] is the first of them,  *)
(* and c[0] the null RID that ends it.                                     *)
Chained(items, r, k, c) ==
  /\ k \in Nat
  /\ c = [i \in 0 .. k |-> c[i]]
  /\ c[k] = r /\ IsNull(c[0])
  /\ \A i \in 1 .. k : /\ c[i] \in DOMAIN items /\ ~IsNull(c[i])
                       /\ Head(items[c[i]]) = c[i - 1]
  /\ \A i, j \in 1 .. k : c[i] = c[j] => i = j

(* It spells a text from its character off[k] + 1 on: chunk i has what     *)
(* follows character off[i], up to where the next one begins.  No chunk is *)
(* empty, but for the only one of an empty text.                           *)
Spells(items, t, k, c, off) ==
  /\ \A i \in 0 .. k : off[i] \in 0 .. Len(t)
  /\ off[0] = Len(t)
  /\ \A i \in 1 .. k : /\ off[i] < off[i - 1] \/ t = <<>>
                       /\ items[c[i]] = <<c[i - 1]>> \o SubSeq(t, off[i] + 1, off[i - 1])
  /\ t = <<>> => k <= 1

Linked(items, r) == \E k, c : Chained(items, r, k, c)
Written(items, r, t, from) ==
  \E k, c, off : Chained(items, r, k, c) /\ Spells(items, t, k, c, off) /\ off[k] = from

StringsKept ==
  /\ strings = [r \in DOMAIN strings |-> strings[r]]
  /\ DOMAIN strings \subseteq DOMAIN Stored
  /\ \A r \in DOMAIN strings : strings[r] \in Text /\ Written(Stored, r, strings[r], 0)

Writing ==
  /\ job = [op |-> "write", text |-> job.text, size |-> job.size, next |-> job.next]
  /\ job.text \in Text
  /\ job.size \in 0 .. Len(job.text)
  /\ job.size = 0 => job.text = <<>>
  /\ job.next \in Rid \cup {LastRid, EmptyRid}
  /\ job.text = <<>> => IsNull(job.next)
  /\ Written(Stored, job.next, job.text, job.size)

Deleting ==
  /\ job = [op |-> "delete", next |-> job.next]
  /\ job.next \in DOMAIN Stored
  /\ Linked(Stored, job.next)

StrInv == IInv /\ StringsKept /\ (job = Idle \/ Writing \/ Deleting) /\ ChunksOwnedOnce

-----------------------------------------------------------------------------
(* Induction, as a fact about a set of numbers.                            *)
LEMMA Induction ==
  ASSUME NEW S \in SUBSET Nat, 0 \in S, \A n \in S : n + 1 \in S
  PROVE  \A n \in Nat : n \in S
<1> SUFFICES ASSUME NEW x \in Nat \ S PROVE FALSE
  OBVIOUS
<1>1. PICK m \in Nat \ S : \A k \in Nat \ S : m <= k
  BY LeastElement
<1>2. m # 0 /\ m - 1 \in Nat /\ ~(m <= m - 1)
  OBVIOUS
<1>3. m - 1 \in S
  BY <1>1, <1>2
<1>4. (m - 1) + 1 = m
  OBVIOUS
<1> QED
  BY <1>3, <1>4

(* A chunk: the RID before its characters.                                 *)
LEMMA ChunkParts ==
  ASSUME NEW r, NEW t \in Seq(Int), NEW a \in 0 .. Len(t), NEW b \in 0 .. Len(t), a <= b
  PROVE  LET x == <<r>> \o SubSeq(t, a + 1, b) IN
         /\ Head(x) = r
         /\ Len(x) - 1 = b - a
         /\ \A i \in 1 .. b - a : x[i + 1] = t[a + i]
<1> DEFINE S == Int \cup {r}
           p == SubSeq(t, a + 1, b)
           x == <<r>> \o p
<1>1. Len(t) \in Nat /\ \A i \in 1 .. Len(t) : t[i] \in S
  BY LenProperties
<1>2. \A i \in a + 1 .. b : i \in 1 .. Len(t)
  BY <1>1
<1>3. /\ p \in Seq(S)
      /\ Len(p) = IF a + 1 <= b THEN b - (a + 1) + 1 ELSE 0
      /\ \A i \in 1 .. b - (a + 1) + 1 : p[i] = t[(a + 1) + i - 1]
  <2>1. a + 1 \in Int /\ b \in Int /\ \A i \in a + 1 .. b : t[i] \in S
    BY <1>1, <1>2
  <2> HIDE DEF S
  <2> QED
    BY <2>1, SubSeqProperties
<1>4. Len(p) = b - a /\ \A i \in 1 .. b - a : p[i] = t[a + i]
  BY <1>1, <1>3
<1>5. <<r>> \in Seq(S) /\ Len(<<r>>) = 1 /\ <<r>>[1] = r
  OBVIOUS
<1> HIDE DEF p, S
<1>6. Len(x) = 1 + Len(p) /\ \A i \in 1 .. 1 + Len(p) : x[i] = IF i <= 1 THEN <<r>>[i] ELSE p[i - 1]
  BY <1>3, <1>5, ConcatProperties
<1>7. x[1] = r /\ \A i \in 1 .. b - a : x[i + 1] = p[i]
  BY <1>1, <1>4, <1>5, <1>6
<1>8. Head(x) = x[1]
  OBVIOUS
<1>9. Len(x) - 1 = b - a
  BY <1>1, <1>4, <1>6
<1> QED
  BY <1>4, <1>7, <1>8, <1>9 DEF p

-----------------------------------------------------------------------------
(* A chain is no longer than the table has items.                          *)
LEMMA ChainLength ==
  ASSUME NEW items, IsFiniteSet(DOMAIN items), NEW r, NEW k, NEW c, Chained(items, r, k, c)
  PROVE  k <= Cardinality(DOMAIN items)
<1> DEFINE f == [i \in 1 .. k |-> c[i]]
           T == DOMAIN items
<1>1. k \in Nat
  BY DEF Chained
<1>2. f \in Injection(1 .. k, T)
  BY DEF Chained, Injection, IsInjective
<1>3. Cardinality(1 .. k) = k
  BY <1>1, FS_Interval
<1> HIDE DEF f, T
<1>4. Cardinality(1 .. k) <= Cardinality(T)
  BY <1>2, FS_Injection DEF T
<1> QED
  BY <1>3, <1>4 DEF T

(* Following it finds its chunks.                                          *)
LEMMA ChainIs ==
  ASSUME NEW items, IsFiniteSet(DOMAIN items), NEW r, NEW k, NEW c, Chained(items, r, k, c)
  PROVE  Chain(items, r) = {c[i] : i \in 1 .. k}
<1> DEFINE N == Cardinality(DOMAIN items)
           Follow(q) == IF IsNull(q) THEN q ELSE Head(items[q])
           g == [n \in 0 .. N |-> IF n <= k THEN c[k - n] ELSE c[0]]
           link == CHOOSE f : f = [n \in 0 .. N |->
                     IF n = 0 THEN r
                     ELSE IF IsNull(f[n - 1]) THEN f[n - 1] ELSE Head(items[f[n - 1]])]
<1>1. N \in Nat /\ k \in Nat /\ k <= N
  BY ChainLength, FS_CardinalityType DEF Chained
<1> HIDE DEF N
<1>2. g[0] = r /\ \A n \in 1 .. N : g[n] = Follow(g[n - 1])
  <2>1. g[0] = r
    BY <1>1 DEF Chained
  <2>2. ASSUME NEW n \in 1 .. k PROVE g[n] = Follow(g[n - 1])
    <3> DEFINE i == k - (n - 1)
    <3>1. i \in 1 .. k /\ i - 1 = k - n
      BY <1>1
    <3>2. g[n - 1] = c[i] /\ g[n] = c[i - 1]
      BY <1>1, <3>1
    <3> HIDE DEF i, g
    <3> QED
      BY <3>1, <3>2 DEF Chained
  <2>3. ASSUME NEW n \in k + 1 .. N PROVE g[n] = Follow(g[n - 1])
    <3>1. n \in 0 .. N /\ n - 1 \in 0 .. N /\ ~(n <= k)
      BY <1>1
    <3>2. g[n] = c[0] /\ g[n - 1] = c[0]
      BY <1>1, <3>1
    <3> HIDE DEF g
    <3> QED
      BY <3>2 DEF Chained
  <2>4. \A n \in 1 .. N : n \in 1 .. k \/ n \in k + 1 .. N
    BY <1>1
  <2> QED
    BY <2>1, <2>2, <2>3, <2>4
<1>3. g = [n \in 0 .. N |-> IF n = 0 THEN r
                            ELSE IF IsNull(g[n - 1]) THEN g[n - 1] ELSE Head(items[g[n - 1]])]
  <2> DEFINE h == [n \in 0 .. N |-> IF n = 0 THEN r
                            ELSE IF IsNull(g[n - 1]) THEN g[n - 1] ELSE Head(items[g[n - 1]])]
  <2>1. ASSUME NEW n \in 0 .. N PROVE g[n] = h[n]
    <3>1. n = 0 \/ n \in 1 .. N
      BY <1>1
    <3> HIDE DEF g
    <3> QED
      BY <1>2, <3>1
  <2> QED
    BY <2>1
<1>4. link = [n \in 0 .. N |-> IF n = 0 THEN r
                               ELSE IF IsNull(link[n - 1]) THEN link[n - 1] ELSE Head(items[link[n - 1]])]
  BY <1>3, Zenon
<1>5. Chain(items, r) = {q \in {link[n] : n \in 0 .. N} : ~IsNull(q)}
  BY Zenon DEF Chain, N
<1> HIDE DEF link
<1>6. \A n \in 0 .. N : link[n] = g[n]
  <2> HIDE DEF g
  <2> DEFINE S == {n \in Nat : n <= N => link[n] = g[n]}
  <2>1. 0 \in S
    BY <1>1, <1>2, <1>4
  <2>2. ASSUME NEW n \in S PROVE n + 1 \in S
    <3> SUFFICES ASSUME n + 1 <= N PROVE link[n + 1] = g[n + 1]
      OBVIOUS
    <3>1. n + 1 \in 0 .. N /\ n + 1 \in 1 .. N /\ n + 1 # 0 /\ (n + 1) - 1 = n /\ n <= N
      BY <1>1
    <3>2. link[n] = g[n]
      BY <3>1
    <3>3. link[n + 1] = Follow(link[n])
      BY <1>4, <3>1
    <3> HIDE DEF Follow
    <3>4. g[n + 1] = Follow(g[n])
      BY <1>2, <3>1
    <3> QED
      BY <3>2, <3>3, <3>4
  <2> HIDE DEF S
  <2>3. \A n \in Nat : n \in S
    BY <2>1, <2>2, Induction DEF S
  <2> QED
    BY <1>1, <2>3 DEF S
<1>7. ASSUME NEW q, ~IsNull(q)
      PROVE  (\E n \in 0 .. N : q = g[n]) <=> \E i \in 1 .. k : q = c[i]
  <2>1. ASSUME NEW n \in 0 .. N, q = g[n] PROVE \E i \in 1 .. k : q = c[i]
    <3>1. n <= k
      BY <1>1, <1>7, <2>1 DEF Chained
    <3>2. k - n # 0
      BY <1>1, <1>7, <2>1, <3>1 DEF Chained
    <3>3. k - n \in 1 .. k /\ q = c[k - n]
      BY <1>1, <2>1, <3>1, <3>2
    <3> QED
      BY <3>3
  <2>2. ASSUME NEW i \in 1 .. k, q = c[i] PROVE \E n \in 0 .. N : q = g[n]
    <3>1. k - i \in 0 .. N /\ k - i <= k /\ k - (k - i) = i
      BY <1>1
    <3>2. g[k - i] = c[i]
      BY <3>1
    <3> QED
      BY <2>2, <3>1, <3>2
  <2> QED
    BY <2>1, <2>2
<1>8. \A i \in 1 .. k : ~IsNull(c[i])
  BY DEF Chained
<1> HIDE DEF g
<1>9. ASSUME NEW q PROVE q \in Chain(items, r) <=> \E i \in 1 .. k : q = c[i]
  <2>1. q \in Chain(items, r) <=> ~IsNull(q) /\ \E n \in 0 .. N : q = link[n]
    BY <1>5
  <2> QED
    BY <1>6, <1>7, <1>8, <2>1
<1> QED
  BY <1>9

(* A chain whose chunks are still stored is still that chain.              *)
LEMMA ChainKept ==
  ASSUME NEW items, NEW after, NEW r, NEW k, NEW c, Chained(items, r, k, c),
         \A i \in 1 .. k : c[i] \in DOMAIN after /\ after[c[i]] = items[c[i]]
  PROVE  Chained(after, r, k, c)
  BY DEF Chained

LEMMA SpellingKept ==
  ASSUME NEW items, NEW after, NEW t, NEW k, NEW c, NEW off, Spells(items, t, k, c, off),
         \A i \in 1 .. k : after[c[i]] = items[c[i]]
  PROVE  Spells(after, t, k, c, off)
  BY DEF Spells

(* A chunk is written before a chain.                                      *)
LEMMA ChainGrows ==
  ASSUME NEW items, NEW after, NEW r, NEW k, NEW c, Chained(items, r, k, c),
         NEW q, q \notin DOMAIN items, q \in DOMAIN after, ~IsNull(q),
         \A p \in DOMAIN items : p \in DOMAIN after /\ after[p] = items[p],
         Head(after[q]) = r
  PROVE  Chained(after, q, k + 1, [i \in 0 .. k + 1 |-> IF i = k + 1 THEN q ELSE c[i]])
<1> DEFINE d == [i \in 0 .. k + 1 |-> IF i = k + 1 THEN q ELSE c[i]]
<1>1. k \in Nat /\ k + 1 \in Nat
  BY DEF Chained
<1>2. d[k + 1] = q /\ \A i \in 0 .. k : d[i] = c[i]
  BY <1>1
<1>3. d = [i \in 0 .. k + 1 |-> d[i]]
  OBVIOUS
<1> HIDE DEF d
<1>4. d[0] = c[0] /\ d[k] = r /\ IsNull(c[0])
  BY <1>1, <1>2 DEF Chained
<1>5. ASSUME NEW i \in 1 .. k
      PROVE  d[i] \in DOMAIN items /\ ~IsNull(d[i]) /\ Head(items[d[i]]) = d[i - 1]
  <2>1. d[i] = c[i] /\ d[i - 1] = c[i - 1]
    BY <1>1, <1>2
  <2> QED
    BY <2>1 DEF Chained
<1>6. \A i \in 1 .. k + 1 : i \in 1 .. k \/ i = k + 1
  BY <1>1
<1>7. (k + 1) - 1 = k
  BY <1>1
<1>8. \A i \in 1 .. k + 1 : /\ d[i] \in DOMAIN after /\ ~IsNull(d[i])
                            /\ Head(after[d[i]]) = d[i - 1]
  BY <1>2, <1>4, <1>5, <1>6, <1>7
<1>9. \A i, j \in 1 .. k : d[i] = d[j] => i = j
  BY <1>1, <1>2 DEF Chained
<1>10. \A i, j \in 1 .. k + 1 : d[i] = d[j] => i = j
  BY <1>2, <1>5, <1>6, <1>9
<1>11. Chained(after, q, k + 1, d)
  BY <1>1, <1>2, <1>3, <1>4, <1>8, <1>10 DEF Chained
<1> QED
  BY <1>11 DEF d

Extends(items, after, r, k, t, c, off, n, d, o) ==
  /\ \A p \in DOMAIN items : after[p] = items[p]
  /\ n = k + 1
  /\ \A i \in 0 .. k : d[i] = c[i] /\ o[i] = off[i]
  /\ o[n] \in 0 .. Len(t)
  /\ o[n] < off[k] \/ (t = <<>> /\ k = 0)
  /\ after[d[n]] = <<r>> \o SubSeq(t, o[n] + 1, off[k])

LEMMA SpellingGrows ==
  ASSUME NEW items, NEW after, NEW r, NEW k, NEW c, NEW t \in Seq(Int), NEW off,
         NEW n, NEW d, NEW o,
         Chained(items, r, k, c), Spells(items, t, k, c, off),
         Extends(items, after, r, k, t, c, off, n, d, o)
  PROVE  Spells(after, t, n, d, o)
<1>1. k \in Nat /\ k + 1 \in Nat /\ (k + 1) - 1 = k
  BY DEF Chained
<1>2. /\ \A i \in 0 .. k : d[i] = c[i]
      /\ \A i \in 0 .. k : o[i] = off[i]
      /\ n = k + 1
      /\ \A p \in DOMAIN items : after[p] = items[p]
      /\ o[n] \in 0 .. Len(t) /\ (o[n] < off[k] \/ (t = <<>> /\ k = 0))
      /\ after[d[n]] = <<r>> \o SubSeq(t, o[n] + 1, off[k])
  BY DEF Extends
<1>3. \A i \in 0 .. k + 1 : i \in 0 .. k \/ i = k + 1
  BY <1>1
<1>4. \A i \in 0 .. k + 1 : o[i] \in 0 .. Len(t)
  BY <1>2, <1>3 DEF Spells
<1>5. o[0] = Len(t)
  BY <1>1, <1>2 DEF Spells
<1>6. ASSUME NEW i \in 1 .. k
      PROVE  /\ o[i] < o[i - 1] \/ t = <<>>
             /\ after[d[i]] = <<d[i - 1]>> \o SubSeq(t, o[i] + 1, o[i - 1])
  <2>0. i \in 0 .. k /\ i - 1 \in 0 .. k
    BY <1>1
  <2>1. d[i] = c[i] /\ d[i - 1] = c[i - 1] /\ o[i] = off[i] /\ o[i - 1] = off[i - 1]
    BY <1>2, <2>0, Zenon
  <2>2. after[c[i]] = items[c[i]]
    BY <1>2 DEF Chained
  <2> QED
    BY <2>1, <2>2 DEF Spells
<1>7. /\ o[k + 1] < o[k] \/ t = <<>>
      /\ after[d[k + 1]] = <<d[k]>> \o SubSeq(t, o[k + 1] + 1, o[k])
  <2>1. d[k] = r /\ o[k] = off[k]
    BY <1>1, <1>2 DEF Chained
  <2> QED
    BY <1>2, <2>1
<1>8. \A i \in 1 .. k + 1 : i \in 1 .. k \/ i = k + 1
  BY <1>1
<1>9. \A i \in 1 .. k + 1 : /\ o[i] < o[i - 1] \/ t = <<>>
                            /\ after[d[i]] = <<d[i - 1]>> \o SubSeq(t, o[i] + 1, o[i - 1])
  BY <1>1, <1>6, <1>7, <1>8
<1>10. t = <<>> => k + 1 <= 1
  <2>1. ASSUME t = <<>> PROVE k = 0
    <3>1. Len(t) = 0 /\ off[k] \in 0 .. Len(t)
      BY <1>1, <2>1 DEF Spells
    <3>2. ~(o[n] < off[k])
      BY <1>2, <3>1
    <3> QED
      BY <1>2, <3>2
  <2> QED
    BY <2>1
<1> QED
  BY <1>2, <1>4, <1>5, <1>9, <1>10 DEF Spells

-----------------------------------------------------------------------------
(* What the table does to what is stored.                                  *)
LEMMA StoredFinite == IsFiniteSet(DOMAIN Stored) /\ DOMAIN Stored \subseteq Rid
<1>1. DOMAIN Stored \subseteq Rid
  BY StoredIs DEF Used
<1>2. IsFiniteSet(Rid)
  <2>1. MaxBlocks \in Int /\ (PageSize - HeaderSize) \div IdSize \in Int
    BY BoundAssumption, LayoutAssumption
  <2>2. IsFiniteSet(1 .. MaxBlocks) /\ IsFiniteSet(Index)
    BY <2>1, FS_Interval DEF Index
  <2> QED
    BY <2>2, FS_Product DEF Rid
<1> QED
  BY <1>1, <1>2, FS_Subset

LEMMA StoredFiniteAfter == IsFiniteSet(DOMAIN Stored') /\ DOMAIN Stored' \subseteq Rid
<1>1. DOMAIN Stored' \subseteq Rid
  BY StoredIs DEF Used
<1>2. IsFiniteSet(Rid)
  <2>1. MaxBlocks \in Int /\ (PageSize - HeaderSize) \div IdSize \in Int
    BY BoundAssumption, LayoutAssumption
  <2>2. IsFiniteSet(1 .. MaxBlocks) /\ IsFiniteSet(Index)
    BY <2>1, FS_Interval DEF Index
  <2> QED
    BY <2>2, FS_Product DEF Rid
<1> QED
  BY <1>1, <1>2, FS_Subset

LEMMA NeverNull == \A r \in Rid : ~IsNull(r)
  BY BoundAssumption DEF Rid, IsNull

LEMMA Inserted ==
  ASSUME IInv, NEW rec \in Record, Insert(rec)
  PROVE  /\ IInv'
         /\ rid' \in Rid \ DOMAIN Stored
         /\ DOMAIN Stored' = DOMAIN Stored \cup {rid'}
         /\ Stored'[rid'] = rec
         /\ \A r \in DOMAIN Stored : Stored'[r] = Stored[r]
<1>1. IInv'
  BY InvNext DEF Next
<1>2. Abstract!Insert(rec)
  BY <1>1, InsertStores
<1> QED
  BY <1>1, <1>2 DEF Abstract!Insert

LEMMA Deleted ==
  ASSUME IInv, NEW r \in DOMAIN Stored, Delete(r[1], r[2])
  PROVE  /\ IInv'
         /\ DOMAIN Stored' = DOMAIN Stored \ {r}
         /\ \A q \in DOMAIN Stored \ {r} : Stored'[q] = Stored[q]
<1>1. r \in Used(blocks) /\ r = <<r[1], r[2]>>
  BY StoredIs, UsedPairs
<1>2. r[1] \in 1 .. Len(blocks) /\ r[2] \in LiveSlots(blocks[r[1]])
  BY <1>1, InvSound, UsedIs
<1>3. IInv'
  BY <1>2, InvNext DEF Next
<1>4. Abstract!Delete(<<r[1], r[2]>>)
  BY <1>2, <1>3, DeleteRefines
<1> QED
  BY <1>1, <1>3, <1>4 DEF Abstract!Delete

LEMMA ChunkStored ==
  ASSUME NEW r \in DOMAIN Stored PROVE ChunkAt(r) = Stored[r]
  BY StoredIs DEF ChunkAt

(* The characters write_string takes next are a chunk of the table.        *)
LEMMA NextChunk ==
  ASSUME StrInv, Writing
  PROVE  LET n == ChunkSize(job.size)
             left == job.size - n
         IN /\ left \in 0 .. Len(job.text)
            /\ left < job.size \/ (job.text = <<>> /\ job.size = 0)
            /\ <<job.next>> \o SubSeq(job.text, left + 1, job.size) \in Record
<1> DEFINE t == job.text
           s == job.size
           n == ChunkSize(s)
           left == s - n
<1>1. t \in Text /\ t \in Seq(Int) /\ Len(t) \in Nat /\ s \in 0 .. Len(t)
  BY TextAssumption, LenProperties DEF Writing
<1>2. ChunkLen \in Nat /\ ChunkLen > 0
  BY ChunkAssumption
<1>3. n \in 0 .. s /\ n <= ChunkLen /\ (s > 0 => n > 0)
  <2> HIDE DEF s
  <2>1. s \in Nat
    BY <1>1
  <2>2. s % ChunkLen \in 0 .. ChunkLen - 1
    BY <1>2, <2>1
  <2>3. s % ChunkLen <= s
    BY <1>2, <2>1
  <2>4. s % ChunkLen = 0 /\ s > 0 => ChunkLen <= s
    BY <1>2, <2>1
  <2> QED
    BY <1>2, <2>1, <2>2, <2>3, <2>4 DEF ChunkSize
<1>4. s = 0 => t = <<>>
  BY DEF Writing
<1>5. /\ left \in 0 .. Len(t) /\ left <= s /\ s - left <= ChunkLen
      /\ left < s \/ (t = <<>> /\ s = 0)
  <2> HIDE DEF n, s, t
  <2> QED
    BY <1>1, <1>3, <1>4, <1>2
<1> DEFINE p == SubSeq(t, left + 1, s)
<1>6. p \in Pieces \cup {<<>>} /\ Len(p) <= ChunkLen
  <2> HIDE DEF t, s, left
  <2>1. CASE left < s
    <3>1. left + 1 \in 1 .. Len(t) /\ s \in 0 .. Len(t)
      BY <1>1, <1>5, <2>1
    <3>2. p \in Pieces
      <4> DEFINE of == {SubSeq(t, i, j) : i \in 1 .. Len(t), j \in 0 .. Len(t)}
      <4>1. p \in of
        BY <3>1
      <4>2. of \in {{SubSeq(u, i, j) : i \in 1 .. Len(u), j \in 0 .. Len(u)} : u \in Text}
        BY <1>1
      <4> HIDE DEF p, of
      <4> QED
        BY <4>1, <4>2 DEF Pieces
    <3>3. \A i \in left + 1 .. s : t[i] \in Int
      BY <1>1, <1>5, LenProperties
    <3>4. Len(p) = IF left + 1 <= s THEN s - (left + 1) + 1 ELSE 0
      BY <1>1, <1>5, <3>1, <3>3, SubSeqProperties
    <3> QED
      BY <1>1, <1>5, <3>2, <3>4
  <2>2. CASE ~(left < s)
    <3>1. s < left + 1 /\ left + 1 \in Int /\ s \in Int
      BY <1>1, <1>5, <2>2
    <3>2. p = <<>>
      BY <3>1, SubSeqEmpty
    <3>3. Len(<<>>) = 0
      BY EmptySeq
    <3> HIDE DEF p
    <3> QED
      BY <1>2, <3>2, <3>3
  <2> QED
    BY <2>1, <2>2
<1>7. job.next \in Rid \cup {LastRid, EmptyRid}
  BY DEF Writing
<1>8. <<job.next>> \o p \in Chunks
  <2> HIDE DEF p
  <2> QED
    BY <1>6, <1>7 DEF Chunks
<1> QED
  BY <1>5, <1>8, ChunksFit

-----------------------------------------------------------------------------
(* Who owns the chunks: the strings S, and J, the string of the job.       *)
OwnedOnce(items, S, J) ==
  /\ UNION {Chain(items, r) : r \in S \cup J} = DOMAIN items
  /\ \A q, r \in S : q # r => Chain(items, q) \cap Chain(items, r) = {}
  /\ \A r \in S, j \in J : Chain(items, r) \cap Chain(items, j) = {}

JobOf(j) == IF j = Idle THEN {} ELSE {j.next}

LEMMA OwnedOnceIs ==
  /\ ChunksOwnedOnce <=> OwnedOnce(Stored, DOMAIN strings, JobOf(job))
  /\ ChunksOwnedOnce' <=> OwnedOnce(Stored', DOMAIN strings', JobOf(job'))
  BY Zenon DEF ChunksOwnedOnce, OwnedOnce, JobOf

LEMMA WrittenIsLinked ==
  ASSUME NEW items, NEW r, NEW t, NEW from, Written(items, r, t, from)
  PROVE  Linked(items, r)
  BY Zenon DEF Written, Linked

(* What does not touch a string's chunks keeps the string.                 *)
LEMMA LinkKept ==
  ASSUME NEW items, IsFiniteSet(DOMAIN items), NEW after, IsFiniteSet(DOMAIN after),
         NEW r, Linked(items, r),
         \A p \in Chain(items, r) : p \in DOMAIN after /\ after[p] = items[p]
  PROVE  Linked(after, r) /\ Chain(after, r) = Chain(items, r)
<1>1. PICK k, c : Chained(items, r, k, c)
  BY Zenon DEF Linked
<1>2. Chain(items, r) = {c[i] : i \in 1 .. k}
  BY <1>1, ChainIs
<1>3. \A i \in 1 .. k : c[i] \in DOMAIN after /\ after[c[i]] = items[c[i]]
  BY <1>2
<1>4. Chained(after, r, k, c)
  BY <1>1, <1>3, ChainKept
<1>5. Chain(after, r) = {c[i] : i \in 1 .. k}
  BY <1>4, ChainIs
<1> QED
  BY <1>2, <1>4, <1>5, Zenon DEF Linked

LEMMA WrittenKept ==
  ASSUME NEW items, IsFiniteSet(DOMAIN items), NEW after, IsFiniteSet(DOMAIN after),
         NEW r, NEW t, NEW from, Written(items, r, t, from),
         \A p \in Chain(items, r) : p \in DOMAIN after /\ after[p] = items[p]
  PROVE  Written(after, r, t, from)
<1>1. PICK k, c, off : Chained(items, r, k, c) /\ Spells(items, t, k, c, off) /\ off[k] = from
  BY Zenon DEF Written
<1>2. Chain(items, r) = {c[i] : i \in 1 .. k}
  BY <1>1, ChainIs
<1>3. \A i \in 1 .. k : c[i] \in DOMAIN after /\ after[c[i]] = items[c[i]]
  BY <1>2
<1>4. Chained(after, r, k, c)
  BY <1>1, <1>3, ChainKept
<1>5. Spells(after, t, k, c, off)
  BY <1>1, <1>3, SpellingKept
<1> QED
  BY <1>1, <1>4, <1>5, Zenon DEF Written

(* Every owner has a chain of chunks that are stored.                      *)
LEMMA OwnersLinked ==
  ASSUME StringsKept, job = Idle \/ Writing \/ Deleting
  PROVE  \A r \in DOMAIN strings \cup JobOf(job) : Linked(Stored, r)
<1>1. \A r \in DOMAIN strings : Linked(Stored, r)
  BY WrittenIsLinked DEF StringsKept
<1>2. \A r \in JobOf(job) : Linked(Stored, r)
  <2>1. CASE job = Idle
    BY <2>1 DEF JobOf
  <2>2. CASE Writing
    <3>1. Linked(Stored, job.next)
      BY <2>2, WrittenIsLinked, Zenon DEF Writing
    <3> QED
      BY <3>1 DEF JobOf
  <2>3. CASE Deleting
    BY <2>3 DEF Deleting, JobOf
  <2> QED
    BY <2>1, <2>2, <2>3
<1> QED
  BY <1>1, <1>2

LEMMA ChainStored ==
  ASSUME NEW items, IsFiniteSet(DOMAIN items), NEW r, Linked(items, r)
  PROVE  Chain(items, r) \subseteq DOMAIN items
<1>1. PICK k, c : Chained(items, r, k, c)
  BY Zenon DEF Linked
<1>2. Chain(items, r) = {c[i] : i \in 1 .. k}
  BY <1>1, ChainIs
<1> QED
  BY <1>1, <1>2 DEF Chained

LEMMA NullChain ==
  ASSUME NEW items, IsFiniteSet(DOMAIN items), NEW r, IsNull(r)
  PROVE  Chained(items, r, 0, [i \in 0 .. 0 |-> r]) /\ Chain(items, r) = {}
<1> DEFINE c == [i \in 0 .. 0 |-> r]
<1>1. c[0] = r /\ c = [i \in 0 .. 0 |-> c[i]] /\ 1 .. 0 = {}
  OBVIOUS
<1> HIDE DEF c
<1>2. Chained(items, r, 0, c)
  BY <1>1 DEF Chained
<1>3. Chain(items, r) = {c[i] : i \in 1 .. 0}
  BY <1>2, ChainIs
<1> QED
  BY <1>1, <1>2, <1>3 DEF c

(* The first chunk of a chain, and the chunks after it.                    *)
LEMMA ChainRest ==
  ASSUME NEW items, IsFiniteSet(DOMAIN items), NEW r \in DOMAIN items, ~IsNull(r), Linked(items, r)
  PROVE  LET next == Head(items[r]) IN
         /\ Linked(items, next)
         /\ Chain(items, next) = Chain(items, r) \ {r}
         /\ r \in Chain(items, r)
         /\ ~IsNull(next) => next \in DOMAIN items
<1> DEFINE next == Head(items[r])
<1>1. PICK k, c : Chained(items, r, k, c)
  BY Zenon DEF Linked
<1>2. k \in Nat /\ k # 0 /\ k - 1 \in Nat /\ k \in 1 .. k
  BY <1>1 DEF Chained
<1>3. c[k] = r /\ c[k - 1] = next
  BY <1>1, <1>2 DEF Chained
<1> DEFINE d == [i \in 0 .. k - 1 |-> c[i]]
<1>4. /\ \A i \in 0 .. k - 1 : d[i] = c[i]
      /\ d = [i \in 0 .. k - 1 |-> d[i]]
  OBVIOUS
<1> HIDE DEF d, next
<1>5. \A i \in 1 .. k - 1 : i \in 1 .. k /\ i \in 0 .. k - 1 /\ i - 1 \in 0 .. k - 1 /\ i # k
  BY <1>2
<1>6. Chained(items, next, k - 1, d)
  <2>1. d[k - 1] = next /\ IsNull(d[0])
    <3>1. k - 1 \in 0 .. k - 1 /\ 0 \in 0 .. k - 1
      BY <1>2
    <3>2. d[k - 1] = c[k - 1] /\ d[0] = c[0]
      BY <1>4, <3>1
    <3> QED
      BY <1>1, <1>3, <3>2 DEF Chained
  <2>2. \A i \in 1 .. k - 1 : /\ d[i] \in DOMAIN items /\ ~IsNull(d[i])
                              /\ Head(items[d[i]]) = d[i - 1]
    <3> TAKE i \in 1 .. k - 1
    <3>1. d[i] = c[i] /\ d[i - 1] = c[i - 1] /\ i \in 1 .. k
      BY <1>4, <1>5
    <3> QED
      BY <1>1, <3>1 DEF Chained
  <2>3. \A i, j \in 1 .. k - 1 : d[i] = d[j] => i = j
    BY <1>1, <1>4, <1>5 DEF Chained
  <2> QED
    BY <1>2, <1>4, <2>1, <2>2, <2>3 DEF Chained
<1>7. Chain(items, r) = {c[i] : i \in 1 .. k} /\ Chain(items, next) = {d[i] : i \in 1 .. k - 1}
  BY <1>1, <1>6, ChainIs
<1>8. \A i \in 1 .. k : i = k \/ i \in 1 .. k - 1
  BY <1>2
<1>9. \A i \in 1 .. k - 1 : c[i] # r
  BY <1>1, <1>2, <1>3, <1>5 DEF Chained
<1>10. ASSUME NEW q PROVE q \in Chain(items, next) <=> q \in Chain(items, r) /\ q # r
  <2>1. q \in Chain(items, next) <=> \E i \in 1 .. k - 1 : q = c[i]
    BY <1>4, <1>5, <1>7
  <2>2. q \in Chain(items, r) <=> \E i \in 1 .. k : q = c[i]
    BY <1>7
  <2> QED
    BY <1>3, <1>5, <1>8, <1>9, <2>1, <2>2
<1>11. r \in Chain(items, r)
  BY <1>2, <1>3, <1>7
<1>12. ~IsNull(next) => next \in DOMAIN items
  <2>1. CASE k = 1
    BY <1>1, <1>3, <2>1 DEF Chained
  <2>2. CASE k # 1
    <3>1. k - 1 \in 1 .. k
      BY <1>2, <2>2
    <3> QED
      BY <1>1, <1>3, <3>1 DEF Chained
  <2> QED
    BY <2>1, <2>2
<1>13. Linked(items, next)
  BY <1>6, Zenon DEF Linked
<1> QED
  BY <1>10, <1>11, <1>12, <1>13 DEF next

-----------------------------------------------------------------------------
LEMMA JobOps ==
  /\ job = Idle => job.op = "idle"
  /\ Writing => job.op = "write" /\ job # Idle
  /\ Deleting => job.op = "delete" /\ job # Idle
<1>1. Idle.op = "idle"
  BY DEF Idle
<1>2. Writing => job.op = "write"
  BY DEF Writing
<1>3. Deleting => job.op = "delete"
  BY DEF Deleting
<1> QED
  BY <1>1, <1>2, <1>3

LEMMA InitStrInv == InitStr => StrInv
<1> SUFFICES ASSUME InitStr PROVE StrInv
  OBVIOUS
<1>1. IInv
  BY InvInit DEF InitStr
<1>2. DOMAIN Stored = {}
  BY InitRefines DEF InitStr, Abstract!Init
<1>3. DOMAIN strings = {} /\ job = Idle
  BY DEF InitStr
<1>4. StringsKept
  BY <1>3 DEF InitStr, StringsKept
<1>5. ChunksOwnedOnce
  BY <1>2, <1>3 DEF ChunksOwnedOnce
<1> QED
  BY <1>1, <1>3, <1>4, <1>5 DEF StrInv

(* The table, and with it what is stored, is left alone.                   *)
LEMMA SameTable ==
  ASSUME UNCHANGED vars
  PROVE  Stored' = Stored /\ (IInv => IInv')
<1>1. Stored' = Stored
  BY StoredIs DEF vars
<1>2. IInv => IInv'
  BY InvNext
<1> QED
  BY <1>1, <1>2

LEMMA WriteStringStep ==
  ASSUME StrInv, NEW text \in Text, WriteString(text)
  PROVE  StrInv'
<1> DEFINE next == IF text = <<>> THEN EmptyRid ELSE LastRid
           j == [op |-> "write", text |-> text, size |-> Len(text), next |-> next]
<1>1. job = Idle /\ job' = j /\ strings' = strings /\ Stored' = Stored /\ IInv'
  BY SameTable DEF WriteString, StrInv
<1>2. IsNull(next) /\ next \in {LastRid, EmptyRid}
  BY DEF IsNull, LastRid, EmptyRid
<1>3. text \in Seq(Int) /\ Len(text) \in Nat
  BY TextAssumption, LenProperties
<1>4. Len(text) = 0 => text = <<>>
  BY <1>3, EmptySeq
<1>5. Written(Stored, next, text, Len(text)) /\ Chain(Stored, next) = {}
  <2> DEFINE c == [i \in 0 .. 0 |-> next]
             off == [i \in 0 .. 0 |-> Len(text)]
  <2>1. Chained(Stored, next, 0, c) /\ Chain(Stored, next) = {}
    BY <1>2, StoredFinite, NullChain
  <2>2. off[0] = Len(text)
    OBVIOUS
  <2> HIDE DEF c, off
  <2>3. 1 .. 0 = {} /\ 0 .. 0 = {0}
    OBVIOUS
  <2>4. Spells(Stored, text, 0, c, off)
    BY <1>3, <2>2, <2>3 DEF Spells
  <2> QED
    BY <2>1, <2>2, <2>4, Zenon DEF Written
<1> HIDE DEF next
<1>6. Writing'
  <2>1. job'.op = "write" /\ job'.text = text /\ job'.size = Len(text) /\ job'.next = next
    BY <1>1
  <2>2. job' = [op |-> "write", text |-> job'.text, size |-> job'.size, next |-> job'.next]
    BY <1>1
  <2> QED
    BY <1>1, <1>2, <1>3, <1>4, <1>5, <2>1, <2>2 DEF Writing
<1>7. StringsKept'
  BY <1>1 DEF StrInv, StringsKept
<1>8. ChunksOwnedOnce'
  <2>1. OwnedOnce(Stored, DOMAIN strings, {})
    BY <1>1, OwnedOnceIs DEF StrInv, JobOf
  <2>2. JobOf(job') \subseteq {next}
    BY <1>1 DEF JobOf
  <2>3. OwnedOnce(Stored, DOMAIN strings, JobOf(job'))
    BY <1>5, <2>1, <2>2 DEF OwnedOnce
  <2> QED
    BY <1>1, <2>3, OwnedOnceIs
<1> QED
  BY <1>1, <1>6, <1>7, <1>8 DEF StrInv

LEMMA DeleteStringStep ==
  ASSUME StrInv, NEW r, DeleteString(r)
  PROVE  StrInv'
<1>1. /\ job = Idle /\ r \in DOMAIN strings /\ Stored' = Stored /\ IInv'
      /\ strings' = [q \in DOMAIN strings \ {r} |-> strings[q]]
      /\ job' = [op |-> "delete", next |-> r]
  BY SameTable DEF DeleteString, StrInv
<1>2. StringsKept'
  BY <1>1 DEF StrInv, StringsKept
<1>3. Linked(Stored, r) /\ r \in DOMAIN Stored
  BY <1>1, WrittenIsLinked DEF StrInv, StringsKept
<1>4. Deleting' /\ job'.next = r
  BY <1>1, <1>3 DEF Deleting
<1>5. ChunksOwnedOnce'
  <2>1. OwnedOnce(Stored, DOMAIN strings, {})
    BY <1>1, OwnedOnceIs DEF StrInv, JobOf
  <2>2. job' # Idle
    BY <1>1 DEF Idle
  <2>3. JobOf(job') = {r}
    BY <1>4, <2>2 DEF JobOf
  <2>4. DOMAIN strings' = DOMAIN strings \ {r}
    BY <1>1
  <2>5. (DOMAIN strings \ {r}) \cup {r} = DOMAIN strings \cup {}
    BY <1>1
  <2>6. OwnedOnce(Stored, DOMAIN strings \ {r}, {r})
    <3>1. UNION {Chain(Stored, q) : q \in (DOMAIN strings \ {r}) \cup {r}} = DOMAIN Stored
      BY <2>1, <2>5 DEF OwnedOnce
    <3> QED
      BY <1>1, <2>1, <3>1 DEF OwnedOnce
  <2> QED
    BY <1>1, <2>3, <2>4, <2>6, OwnedOnceIs
<1> QED
  BY <1>1, <1>2, <1>4, <1>5 DEF StrInv

(* The owners of a chunk that is written, and of one that is deleted.      *)
LEMMA OwnerGrows ==
  ASSUME NEW items, NEW after, NEW S, NEW j, NEW q, OwnedOnce(items, S, {j}),
         q \notin DOMAIN items, DOMAIN after = DOMAIN items \cup {q},
         \A r \in S : Chain(after, r) = Chain(items, r),
         Chain(after, q) = Chain(items, j) \cup {q}
  PROVE  OwnedOnce(after, S, {q})
<1>1. UNION {Chain(items, r) : r \in S \cup {j}} = DOMAIN items
  BY DEF OwnedOnce
<1>2. \A p : p \in DOMAIN items <=> (\E r \in S : p \in Chain(items, r)) \/ p \in Chain(items, j)
  BY <1>1
<1>3. \A r \in S : q \notin Chain(items, r)
  BY <1>2
<1>4. UNION {Chain(after, r) : r \in S \cup {q}} = DOMAIN after
  BY <1>2
<1>5. \A r \in S : Chain(after, r) \cap Chain(after, q) = {}
  BY <1>3 DEF OwnedOnce
<1>6. \A p, r \in S : p # r => Chain(after, p) \cap Chain(after, r) = {}
  BY DEF OwnedOnce
<1> QED
  BY <1>4, <1>5, <1>6 DEF OwnedOnce

LEMMA OwnerShrinks ==
  ASSUME NEW items, NEW after, NEW S, NEW r, NEW next, OwnedOnce(items, S, {r}),
         r \in Chain(items, r), DOMAIN after = DOMAIN items \ {r},
         \A q \in S : Chain(after, q) = Chain(items, q),
         Chain(after, next) = Chain(items, r) \ {r}
  PROVE  OwnedOnce(after, S, {next})
<1>1. UNION {Chain(items, q) : q \in S \cup {r}} = DOMAIN items
  BY DEF OwnedOnce
<1>2. \A p : p \in DOMAIN items <=> (\E q \in S : p \in Chain(items, q)) \/ p \in Chain(items, r)
  BY <1>1
<1>3. \A q \in S : Chain(items, q) \cap Chain(items, r) = {}
  BY DEF OwnedOnce
<1>4. UNION {Chain(after, q) : q \in S \cup {next}} = DOMAIN after
  BY <1>2, <1>3
<1>5. \A q \in S : Chain(after, q) \cap Chain(after, next) = {}
  BY <1>3
<1>6. \A p, q \in S : p # q => Chain(after, p) \cap Chain(after, q) = {}
  BY DEF OwnedOnce
<1> QED
  BY <1>4, <1>5, <1>6 DEF OwnedOnce

(* The string of a job that is done belongs to the caller.                 *)
LEMMA OwnerDone ==
  ASSUME NEW items, NEW S, NEW q
  PROVE  /\ OwnedOnce(items, S, {q}) => OwnedOnce(items, S \cup {q}, {})
         /\ OwnedOnce(items, S, {q}) /\ Chain(items, q) = {} => OwnedOnce(items, S, {})
<1>1. (S \cup {q}) \cup {} = S \cup {q}
  OBVIOUS
<1>2. OwnedOnce(items, S, {q}) => OwnedOnce(items, S \cup {q}, {})
  BY <1>1 DEF OwnedOnce
<1>3. ASSUME OwnedOnce(items, S, {q}), Chain(items, q) = {} PROVE OwnedOnce(items, S, {})
  <2>1. UNION {Chain(items, r) : r \in S \cup {}} = UNION {Chain(items, r) : r \in S \cup {q}}
    BY <1>3
  <2> QED
    BY <1>3, <2>1 DEF OwnedOnce
<1> QED
  BY <1>2, <1>3

(* The strings that are stored outlive a change that spares their chunks.  *)
LEMMA StringsOutlive ==
  ASSUME StringsKept, NEW r \in DOMAIN strings,
         \A p \in Chain(Stored, r) : p \in DOMAIN Stored' /\ Stored'[p] = Stored[p]
  PROVE  Written(Stored', r, strings[r], 0) /\ Chain(Stored', r) = Chain(Stored, r)
<1>1. Written(Stored, r, strings[r], 0)
  BY DEF StringsKept
<1>2. Linked(Stored, r)
  BY <1>1, WrittenIsLinked
<1>3. IsFiniteSet(DOMAIN Stored) /\ IsFiniteSet(DOMAIN Stored')
  BY StoredFinite, StoredFiniteAfter
<1> DEFINE items == Stored
           after == Stored'
           t == strings[r]
<1> HIDE DEF items, after, t
<1>4. Written(after, r, t, 0)
  BY <1>1, <1>3, WrittenKept DEF items, after, t
<1>5. Chain(after, r) = Chain(items, r)
  BY <1>2, <1>3, LinkKept DEF items, after
<1> QED
  BY <1>4, <1>5 DEF items, after, t

LEMMA WriteChunkStep ==
  ASSUME StrInv, WriteChunk
  PROVE  StrInv'
<1> DEFINE t == job.text
           s == job.size
           next == job.next
           left == s - ChunkSize(s)
           rec == <<next>> \o SubSeq(t, left + 1, s)
           q == rid'
           items == Stored
           after == Stored'
<1>1. job.op = "write" /\ Insert(rec)
  BY DEF WriteChunk
<1>2. Writing /\ job # Idle
  BY <1>1, JobOps DEF StrInv
<1>3. /\ t \in Text /\ t \in Seq(Int) /\ Len(t) \in Nat /\ s \in 0 .. Len(t)
      /\ Written(items, next, t, s)
      /\ t = <<>> => IsNull(next)
  BY <1>2, TextAssumption, LenProperties DEF Writing
<1>4. left \in 0 .. Len(t) /\ (left < s \/ (t = <<>> /\ s = 0)) /\ rec \in Record
  BY <1>2, NextChunk
<1>5. /\ IInv'
      /\ q \in Rid \ DOMAIN items
      /\ DOMAIN after = DOMAIN items \cup {q}
      /\ after[q] = rec
      /\ \A r \in DOMAIN items : after[r] = items[r]
  <2> HIDE DEF rec
  <2> QED
    BY <1>1, <1>4, Inserted DEF StrInv
<1>6. IsFiniteSet(DOMAIN items) /\ IsFiniteSet(DOMAIN after)
  BY StoredFinite, StoredFiniteAfter
<1>7. /\ (left = 0 => /\ strings' = [r \in DOMAIN strings \cup {q} |-> IF r = q THEN t ELSE strings[r]]
                      /\ job' = Idle)
      /\ (left # 0 => strings' = strings /\ job' = [job EXCEPT !.size = left, !.next = q])
  BY DEF WriteChunk
<1>8. \A r \in DOMAIN strings : Written(after, r, strings[r], 0) /\ Chain(after, r) = Chain(items, r)
  <2> TAKE r \in DOMAIN strings
  <2>1. StringsKept
    BY DEF StrInv
  <2>2. Chain(items, r) \subseteq DOMAIN items
    BY <1>6, <2>1, ChainStored, WrittenIsLinked DEF StringsKept
  <2>3. \A p \in Chain(items, r) : p \in DOMAIN after /\ after[p] = items[p]
    BY <1>5, <2>2
  <2> QED
    BY <2>1, <2>3, StringsOutlive
<1>9. \A r \in DOMAIN strings : r \in DOMAIN items /\ r # q
  BY <1>5 DEF StrInv, StringsKept
<1>10. StringsKept => strings = [r \in DOMAIN strings |-> strings[r]] /\ \A r \in DOMAIN strings : strings[r] \in Text
  BY DEF StringsKept
<1>11. StringsKept /\ IInv /\ OwnedOnce(items, DOMAIN strings, {next})
  BY <1>2, OwnedOnceIs DEF StrInv, JobOf
<1>12. ~IsNull(q)
  BY <1>5, NeverNull
<1>13. JobOf(job') = IF left = 0 THEN {} ELSE {q}
  <2>1. CASE left = 0
    BY <1>7, <2>1 DEF JobOf
  <2>2. CASE left # 0
    <3>1. job = [op |-> "write", text |-> t, size |-> s, next |-> next]
      BY <1>2 DEF Writing
    <3>2. job' = [op |-> "write", text |-> t, size |-> left, next |-> q]
      <4>1. job' = [job EXCEPT !.size = left, !.next = q]
        BY <1>7, <2>2
      <4> HIDE DEF t, s, next, left, q
      <4> QED
        BY <3>1, <4>1
    <3>3. job' # Idle /\ job'.next = q
      BY <3>2 DEF Idle
    <3> QED
      BY <2>2, <3>3 DEF JobOf
  <2> QED
    BY <2>1, <2>2
<1> HIDE DEF items, after, q, left
<1>14. Head(after[q]) = next
  <2>1. left <= s
    BY <1>3, <1>4
  <2> QED
    BY <1>3, <1>4, <1>5, <2>1, ChunkParts
<1> HIDE DEF t, s, next
<1>15. Written(after, q, t, left)
  <2>1. PICK k, c, off : Chained(items, next, k, c) /\ Spells(items, t, k, c, off) /\ off[k] = s
    BY <1>3, Zenon DEF Written
  <2> DEFINE d == [i \in 0 .. k + 1 |-> IF i = k + 1 THEN q ELSE c[i]]
             o == [i \in 0 .. k + 1 |-> IF i = k + 1 THEN left ELSE off[i]]
  <2>2. Chained(after, q, k + 1, d)
    <3>1. /\ q \notin DOMAIN items /\ q \in DOMAIN after
          /\ \A p \in DOMAIN items : p \in DOMAIN after /\ after[p] = items[p]
      BY <1>5
    <3> QED
      BY <1>12, <1>14, <2>1, <3>1, ChainGrows
  <2>3. t = <<>> => k = 0
    <3>1. k \in Nat /\ c[k] = next /\ \A i \in 1 .. k : ~IsNull(c[i])
      BY <2>1 DEF Chained
    <3>2. k # 0 => k \in 1 .. k
      BY <3>1
    <3> QED
      BY <1>3, <3>1, <3>2
  <2>4. /\ q \notin DOMAIN items
        /\ \A p \in DOMAIN items : after[p] = items[p]
        /\ left < off[k] \/ (t = <<>> /\ k = 0)
        /\ after[q] = <<next>> \o SubSeq(t, left + 1, off[k])
    BY <1>4, <1>5, <2>1, <2>3
  <2>5. Spells(after, t, k + 1, d, o)
    <3>1. t \in Seq(Int) /\ left \in 0 .. Len(t)
      BY <1>3, <1>4
    <3>2. Chained(items, next, k, c) /\ Spells(items, t, k, c, off)
      BY <2>1
    <3>3. k \in Nat
      BY <2>1 DEF Chained
    <3>4. /\ d[k + 1] = q /\ \A i \in 0 .. k : d[i] = c[i]
          /\ o[k + 1] = left /\ \A i \in 0 .. k : o[i] = off[i]
      BY <3>3
    <3> HIDE DEF d, o
    <3> DEFINE n == k + 1
    <3>5. /\ n = k + 1 /\ o[n] \in 0 .. Len(t) /\ (o[n] < off[k] \/ (t = <<>> /\ k = 0))
          /\ after[d[n]] = <<next>> \o SubSeq(t, o[n] + 1, off[k])
      BY <2>4, <3>1, <3>4
    <3> HIDE DEF n
    <3>6. Extends(items, after, next, k, t, c, off, n, d, o)
      BY <2>4, <3>4, <3>5 DEF Extends
    <3>7. Spells(after, t, n, d, o)
      BY <3>1, <3>2, <3>6, SpellingGrows
    <3> QED
      BY <3>7 DEF n
  <2>6. o[k + 1] = left
    BY <2>1 DEF Chained
  <2> HIDE DEF d, o
  <2> QED
    BY <2>2, <2>5, <2>6, Zenon DEF Written
<1>16. Chain(after, q) = Chain(items, next) \cup {q}
  <2>1. Linked(after, q) /\ q \in DOMAIN after
    BY <1>5, <1>15, WrittenIsLinked
  <2>2. Chain(after, next) = Chain(after, q) \ {q} /\ q \in Chain(after, q)
    BY <1>6, <1>12, <1>14, <2>1, ChainRest
  <2>3. Linked(items, next)
    BY <1>3, WrittenIsLinked
  <2>4. Chain(items, next) \subseteq DOMAIN items
    BY <1>6, <2>3, ChainStored
  <2>5. \A p \in Chain(items, next) : p \in DOMAIN after /\ after[p] = items[p]
    BY <1>5, <2>4
  <2>6. Chain(after, next) = Chain(items, next)
    BY <1>6, <2>3, <2>5, LinkKept
  <2> QED
    BY <2>2, <2>6
<1>17. OwnedOnce(after, DOMAIN strings, {q})
  <2>1. \A r \in DOMAIN strings : Chain(after, r) = Chain(items, r)
    BY <1>8
  <2> QED
    BY <1>5, <1>11, <1>16, <2>1, OwnerGrows
<1>18. CASE left = 0
  <2>1. /\ DOMAIN strings' = DOMAIN strings \cup {q}
        /\ strings' = [r \in DOMAIN strings' |-> strings'[r]]
        /\ strings'[q] = t
        /\ \A r \in DOMAIN strings : strings'[r] = strings[r]
    BY <1>7, <1>9, <1>18
  <2>2. DOMAIN strings' \subseteq DOMAIN after
    BY <1>5, <1>9, <2>1
  <2>3. ASSUME NEW r \in DOMAIN strings' PROVE strings'[r] \in Text /\ Written(after, r, strings'[r], 0)
    BY <1>3, <1>8, <1>10, <1>11, <1>15, <1>18, <2>1
  <2>4. StringsKept'
    BY <2>1, <2>2, <2>3 DEF StringsKept, after
  <2>5. OwnedOnce(after, DOMAIN strings', JobOf(job'))
    BY <1>13, <1>17, <1>18, <2>1, OwnerDone
  <2>6. ChunksOwnedOnce'
    BY <2>5, OwnedOnceIs DEF after
  <2> QED
    BY <1>5, <1>7, <1>18, <2>4, <2>6 DEF StrInv
<1>19. CASE left # 0
  <2>1. strings' = strings /\ JobOf(job') = {q}
    BY <1>7, <1>13, <1>19
  <2>2. /\ job' = [op |-> "write", text |-> job'.text, size |-> job'.size, next |-> job'.next]
        /\ job'.text = t /\ job'.size = left /\ job'.next = q
    <3>1. job = [op |-> "write", text |-> t, size |-> s, next |-> next]
      BY <1>2 DEF Writing, t, s, next
    <3> QED
      BY <1>7, <1>19, <3>1
  <2>3. t # <<>>
    BY <1>3, <1>4, <1>19, EmptySeq
  <2>4. Writing'
    BY <1>3, <1>4, <1>5, <1>15, <1>19, <2>2, <2>3 DEF Writing, after
  <2>5. StringsKept'
    <3>1. DOMAIN strings \subseteq DOMAIN after
      BY <1>5, <1>9
    <3> QED
      BY <1>8, <1>10, <1>11, <2>1, <3>1 DEF StringsKept, after
  <2>6. ChunksOwnedOnce'
    BY <1>17, <2>1, OwnedOnceIs DEF after
  <2> QED
    BY <1>5, <2>4, <2>5, <2>6 DEF StrInv
<1> QED
  BY <1>18, <1>19

LEMMA DeleteChunkStep ==
  ASSUME StrInv, DeleteChunk
  PROVE  StrInv'
<1> DEFINE r == job.next
           next == Head(Stored[r])
           items == Stored
           after == Stored'
           S == DOMAIN strings
<1>1. Deleting /\ job # Idle
  BY JobOps DEF StrInv, DeleteChunk
<1>2. r \in DOMAIN items /\ ~IsNull(r) /\ Linked(items, r)
  BY <1>1, StoredFinite, NeverNull DEF Deleting
<1>3. /\ Delete(r[1], r[2])
      /\ job' = IF IsNull(next) THEN Idle ELSE [job EXCEPT !.next = next]
      /\ strings' = strings
  BY <1>2, ChunkStored DEF DeleteChunk
<1>4. /\ IInv'
      /\ DOMAIN after = DOMAIN items \ {r}
      /\ \A q \in DOMAIN items \ {r} : after[q] = items[q]
  BY <1>2, <1>3, Deleted DEF StrInv
<1>5. IsFiniteSet(DOMAIN items) /\ IsFiniteSet(DOMAIN after)
  BY StoredFinite, StoredFiniteAfter
<1>6. StringsKept /\ OwnedOnce(items, S, {r})
  BY <1>1, OwnedOnceIs DEF StrInv, JobOf
<1> HIDE DEF items, after
<1>7. /\ Linked(items, next) /\ Chain(items, next) = Chain(items, r) \ {r}
      /\ r \in Chain(items, r) /\ (~IsNull(next) => next \in DOMAIN items)
  BY <1>2, <1>5, ChainRest DEF items
<1>8. \A q \in S : Written(after, q, strings[q], 0) /\ Chain(after, q) = Chain(items, q)
  <2> TAKE q \in S
  <2>1. Linked(items, q)
    BY <1>6, WrittenIsLinked DEF StringsKept, items
  <2>2. Chain(items, q) \subseteq DOMAIN items
    BY <1>5, <2>1, ChainStored
  <2>3. r \notin Chain(items, q)
    BY <1>6, <1>7 DEF OwnedOnce
  <2>4. \A p \in Chain(items, q) : p \in DOMAIN after /\ after[p] = items[p]
    BY <1>4, <2>2, <2>3
  <2> QED
    BY <1>6, <2>4, StringsOutlive DEF items, after
<1> HIDE DEF next
<1>9. Linked(after, next) /\ Chain(after, next) = Chain(items, r) \ {r}
  <2>1. Chain(items, next) \subseteq DOMAIN items
    BY <1>5, <1>7, ChainStored
  <2>2. \A p \in Chain(items, next) : p \in DOMAIN after /\ after[p] = items[p]
    BY <1>4, <1>7, <2>1
  <2> QED
    BY <1>5, <1>7, <2>2, LinkKept
<1>10. \A q \in S : q \in DOMAIN after
  <2> TAKE q \in S
  <2>1. q \in DOMAIN items /\ ~IsNull(q)
    BY <1>6, StoredFinite, NeverNull DEF StringsKept, items
  <2>2. Linked(items, q)
    BY <1>6, WrittenIsLinked DEF StringsKept, items
  <2>3. q \in Chain(items, q)
    BY <1>5, <2>1, <2>2, ChainRest
  <2> QED
    BY <1>4, <1>6, <1>7, <2>1, <2>3 DEF OwnedOnce
<1>11. StringsKept'
  <2>1. strings = [q \in S |-> strings[q]] /\ \A q \in S : strings[q] \in Text
    BY <1>6 DEF StringsKept
  <2> QED
    BY <1>3, <1>8, <1>10, <2>1 DEF StringsKept, after
<1>12. OwnedOnce(after, S, {next})
  <2>1. \A q \in S : Chain(after, q) = Chain(items, q)
    BY <1>8
  <2> QED
    BY <1>4, <1>6, <1>7, <1>9, <2>1, OwnerShrinks
<1>13. CASE IsNull(next)
  <2>1. job' = Idle
    BY <1>3, <1>13
  <2>2. Chain(after, next) = {}
    BY <1>5, <1>13, NullChain
  <2>3. OwnedOnce(after, S, {})
    BY <1>12, <2>2, OwnerDone
  <2>4. ChunksOwnedOnce'
    BY <1>3, <2>1, <2>3, OwnedOnceIs DEF JobOf, after
  <2> QED
    BY <1>4, <1>11, <2>1, <2>4 DEF StrInv
<1>14. CASE ~IsNull(next)
  <2>1. job' = [op |-> "delete", next |-> next]
    <3>1. job = [op |-> "delete", next |-> r]
      BY <1>1 DEF Deleting
    <3>2. job' = [job EXCEPT !.next = next]
      BY <1>3, <1>14
    <3> HIDE DEF r
    <3> QED
      BY <3>1, <3>2
  <2>2. job'.next = next /\ job' # Idle
    BY <2>1 DEF Idle
  <2>3. next # r
    <3>1. next \in DOMAIN items /\ Linked(items, next)
      BY <1>7, <1>14
    <3>2. next \in Chain(items, next)
      BY <1>5, <1>14, <3>1, ChainRest
    <3> QED
      BY <1>7, <3>2
  <2>4. Deleting'
    BY <1>4, <1>7, <1>9, <1>14, <2>1, <2>2, <2>3 DEF Deleting, after
  <2>5. ChunksOwnedOnce'
    BY <1>3, <1>12, <2>2, OwnedOnceIs DEF JobOf, after
  <2> QED
    BY <1>4, <1>11, <2>4, <2>5 DEF StrInv
<1> QED
  BY <1>13, <1>14

LEMMA NextStrInv == StrInv /\ [NextStr]_strVars => StrInv'
<1> SUFFICES ASSUME StrInv, [NextStr]_strVars PROVE StrInv'
  OBVIOUS
<1>1. ASSUME NEW text \in Text, WriteString(text) PROVE StrInv'
  BY <1>1, WriteStringStep
<1>2. ASSUME WriteChunk PROVE StrInv'
  BY <1>2, WriteChunkStep
<1>3. ASSUME NEW r \in DOMAIN strings, DeleteString(r) PROVE StrInv'
  BY <1>3, DeleteStringStep
<1>4. ASSUME DeleteChunk PROVE StrInv'
  BY <1>4, DeleteChunkStep
<1>5. ASSUME UNCHANGED strVars PROVE StrInv'
  <2>1. strings' = strings /\ job' = job /\ Stored' = Stored /\ IInv'
    BY <1>5, SameTable DEF strVars, StrInv
  <2> QED
    BY <2>1 DEF StrInv, StringsKept, Writing, Deleting, ChunksOwnedOnce
<1> QED
  BY <1>1, <1>2, <1>3, <1>4, <1>5 DEF NextStr

LEMMA StrInvariance == SpecStr => []StrInv
<1> QED
  BY InitStrInv, NextStrInv, PTL DEF SpecStr

(* Every chunk of the table belongs to one string or to the one being      *)
(* written or deleted (str.c:86-145): nothing leaks, nothing is shared.    *)
THEOREM OwnedOnceAlways == SpecStr => []ChunksOwnedOnce
<1>1. StrInv => ChunksOwnedOnce
  BY DEF StrInv
<1> QED
  BY StrInvariance, <1>1, PTL

(* The string store makes legal calls of the table only: each step is one  *)
(* of a table's, on records it takes and on records it holds.  So all that *)
(* is proved about tables holds of the one under the strings.              *)
THEOREM StringsAreTable == SpecStr => Spec
<1>1. InitStr => Init
  BY DEF InitStr
<1>2. StrInv /\ [NextStr]_strVars => [Next]_vars
  <2> SUFFICES ASSUME StrInv, [NextStr]_strVars PROVE [Next]_vars
    OBVIOUS
  <2>1. CASE WriteChunk
    <3>1. Writing
      BY <2>1, JobOps DEF StrInv, WriteChunk
    <3> DEFINE rec == <<job.next>> \o SubSeq(job.text, job.size - ChunkSize(job.size) + 1, job.size)
    <3>2. rec \in Record
      BY <3>1, NextChunk
    <3>3. Insert(rec)
      BY <2>1 DEF WriteChunk
    <3> HIDE DEF rec
    <3> QED
      BY <3>2, <3>3 DEF Next
  <2>2. CASE DeleteChunk
    <3> DEFINE r == job.next
    <3>1. r \in DOMAIN Stored
      BY <2>2, JobOps DEF StrInv, DeleteChunk, Deleting
    <3>2. r \in Used(blocks) /\ r = <<r[1], r[2]>>
      BY <3>1, StoredIs, UsedPairs
    <3>3. r[1] \in 1 .. Len(blocks) /\ r[2] \in LiveSlots(blocks[r[1]])
      BY <3>2, InvSound, UsedIs DEF StrInv
    <3>4. Delete(r[1], r[2])
      BY <2>2 DEF DeleteChunk
    <3> HIDE DEF r
    <3> QED
      BY <3>3, <3>4 DEF Next
  <2>3. CASE UNCHANGED vars
    BY <2>3
  <2>4. WriteChunk \/ DeleteChunk \/ UNCHANGED vars
    BY DEF NextStr, WriteString, DeleteString, strVars
  <2> QED
    BY <2>1, <2>2, <2>3, <2>4
<1> QED
  BY <1>1, <1>2, StrInvariance, PTL DEF SpecStr, Spec

-----------------------------------------------------------------------------
(* Reading.  A reader that has taken n characters of a text stands in      *)
(* chunk i, and has taken what follows off[i] of it.                       *)
ReaderIn(i, c, off, n, rec) ==
  /\ rec = [chunk |-> Stored[c[i]], idx |-> n - off[i]]
  /\ off[i] <= n /\ n <= off[i - 1]

ReaderAt(k, c, off, n, rec) == \E i \in 1 .. k : ReaderIn(i, c, off, n, rec)

Readable(r, t, k, c, off) ==
  /\ t \in Seq(Int)
  /\ Chained(Stored, r, k, c) /\ Spells(Stored, t, k, c, off)
  /\ k # 0 /\ off[k] = 0

LEMMA StringsReadable ==
  ASSUME StrInv, NEW r \in DOMAIN strings
  PROVE  \E k, c, off : Readable(r, strings[r], k, c, off)
<1>1. strings[r] \in Seq(Int) /\ r \in DOMAIN Stored
  BY TextAssumption DEF StrInv, StringsKept
<1>2. PICK k, c, off : /\ Chained(Stored, r, k, c) /\ Spells(Stored, strings[r], k, c, off)
                       /\ off[k] = 0
  BY Zenon DEF StrInv, StringsKept, Written
<1>3. k # 0
  BY <1>1, <1>2, StoredFinite, NeverNull DEF Chained
<1> QED
  BY <1>1, <1>2, <1>3, Zenon DEF Readable

(* What the reader's chunk says.                                           *)
LEMMA ReaderChunk ==
  ASSUME NEW r, NEW t, NEW k, NEW c, NEW off, Readable(r, t, k, c, off), NEW i \in 1 .. k
  PROVE  LET x == Stored[c[i]] IN
         /\ off[i] \in 0 .. Len(t) /\ off[i - 1] \in 0 .. Len(t) /\ Len(t) \in Nat
         /\ off[i] <= off[i - 1]
         /\ Head(x) = c[i - 1]
         /\ Len(x) - 1 = off[i - 1] - off[i]
         /\ \A j \in 1 .. off[i - 1] - off[i] : x[j + 1] = t[off[i] + j]
         /\ IsNull(c[i - 1]) <=> off[i - 1] = Len(t)
         /\ i # 1 => i - 1 \in 1 .. k /\ off[i - 1] < off[i - 2] /\ (i - 1) - 1 = i - 2
<1>1. /\ k \in Nat /\ i \in 0 .. k /\ i - 1 \in 0 .. k
      /\ i # 1 => i - 1 \in 1 .. k /\ i - 2 \in 0 .. k /\ (i - 1) - 1 = i - 2
  BY DEF Readable, Chained
<1>2. t \in Seq(Int) /\ Len(t) \in Nat
  BY LenProperties DEF Readable
<1>3. off[i] \in 0 .. Len(t) /\ off[i - 1] \in 0 .. Len(t)
  BY <1>1 DEF Readable, Spells
<1>4. off[i] < off[i - 1] \/ t = <<>>
  BY DEF Readable, Spells
<1>5. t = <<>> => Len(t) = 0
  BY EmptySeq
<1>6. off[i] <= off[i - 1]
  BY <1>2, <1>3, <1>4, <1>5
<1>7. Stored[c[i]] = <<c[i - 1]>> \o SubSeq(t, off[i] + 1, off[i - 1])
  BY DEF Readable, Spells
<1>8. i # 1 => off[i - 1] < off[i - 2] /\ off[i - 2] \in 0 .. Len(t)
  <2> SUFFICES ASSUME i # 1 PROVE off[i - 1] < off[i - 2] /\ off[i - 2] \in 0 .. Len(t)
    OBVIOUS
  <2>1. off[i - 1] < off[(i - 1) - 1] \/ t = <<>>
    BY <1>1 DEF Readable, Spells
  <2>2. t # <<>>
    BY <1>1 DEF Readable, Spells
  <2>3. off[i - 2] \in 0 .. Len(t)
    BY <1>1 DEF Readable, Spells
  <2> QED
    BY <1>1, <2>1, <2>2, <2>3
<1>9. IsNull(c[i - 1]) <=> off[i - 1] = Len(t)
  <2>1. CASE i = 1
    BY <2>1 DEF Readable, Spells, Chained
  <2>2. CASE i # 1
    <3>1. ~IsNull(c[i - 1])
      BY <1>1, <2>2 DEF Readable, Chained
    <3>2. off[i - 1] # Len(t)
      BY <1>2, <1>3, <1>8, <2>2
    <3> QED
      BY <3>1, <3>2
  <2> QED
    BY <2>1, <2>2
<1>10. LET x == Stored[c[i]] IN
       /\ Head(x) = c[i - 1]
       /\ Len(x) - 1 = off[i - 1] - off[i]
       /\ \A j \in 1 .. off[i - 1] - off[i] : x[j + 1] = t[off[i] + j]
  <2> DEFINE a == off[i]
             b == off[i - 1]
             q == c[i - 1]
  <2>1. a \in 0 .. Len(t) /\ b \in 0 .. Len(t) /\ a <= b /\ Stored[c[i]] = <<q>> \o SubSeq(t, a + 1, b)
    BY <1>3, <1>6, <1>7
  <2> HIDE DEF a, b, q
  <2>2. LET x == <<q>> \o SubSeq(t, a + 1, b) IN
        /\ Head(x) = q
        /\ Len(x) - 1 = b - a
        /\ \A j \in 1 .. b - a : x[j + 1] = t[a + j]
    BY <1>2, <2>1, ChunkParts
  <2> QED
    BY <2>1, <2>2 DEF a, b, q
<1> QED
  BY <1>1, <1>2, <1>3, <1>6, <1>8, <1>9, <1>10

LEMMA ReaderStarts ==
  ASSUME NEW r, NEW t, NEW k, NEW c, NEW off, Readable(r, t, k, c, off)
  PROVE  ReaderAt(k, c, off, 0, ReadString(r))
<1>0. k \in Nat /\ k \in 1 .. k
  BY DEF Readable, Chained
<1>1. k \in 1 .. k /\ k \in Nat /\ c[k] = r /\ r \in DOMAIN Stored /\ off[k] = 0
  BY <1>0 DEF Readable, Chained
<1>2. 0 <= off[k - 1] /\ 0 = 0 - off[k]
  BY <1>1, ReaderChunk
<1>3. ReadString(r) = [chunk |-> Stored[r], idx |-> 0]
  BY <1>1, ChunkStored DEF ReadString
<1>4. ReaderIn(k, c, off, 0, ReadString(r))
  BY <1>1, <1>2, <1>3 DEF ReaderIn
<1> QED
  BY <1>1, <1>4 DEF ReaderAt

(* has_next_char answers whether the text has another character.           *)
LEMMA ReaderSees ==
  ASSUME NEW r, NEW t, NEW k, NEW c, NEW off, Readable(r, t, k, c, off),
         NEW n, NEW rec, ReaderAt(k, c, off, n, rec), n \in Nat
  PROVE  /\ n <= Len(t) /\ Len(t) \in Nat
         /\ HasNextChar(rec) <=> n < Len(t)
<1>1. PICK i \in 1 .. k : ReaderIn(i, c, off, n, rec)
  BY DEF ReaderAt
<1>2. /\ off[i] \in 0 .. Len(t) /\ off[i - 1] \in 0 .. Len(t) /\ Len(t) \in Nat
      /\ Head(Stored[c[i]]) = c[i - 1]
      /\ Len(Stored[c[i]]) - 1 = off[i - 1] - off[i]
      /\ IsNull(c[i - 1]) <=> off[i - 1] = Len(t)
  BY ReaderChunk
<1>3. rec.chunk = Stored[c[i]] /\ rec.idx = n - off[i] /\ off[i] <= n /\ n <= off[i - 1]
  BY <1>1 DEF ReaderIn
<1>4. Spent(rec) <=> n = off[i - 1]
  BY <1>2, <1>3 DEF Spent
<1>5. HasNextChar(rec) <=> ~(n = off[i - 1]) \/ ~IsNull(c[i - 1])
  BY <1>2, <1>3, <1>4 DEF HasNextChar
<1> QED
  BY <1>2, <1>3, <1>5

(* next_char takes the next character of the text, from the next chunk if  *)
(* need be.                                                                *)
LEMMA ReaderTakes ==
  ASSUME NEW r, NEW t, NEW k, NEW c, NEW off, Readable(r, t, k, c, off),
         NEW n, NEW rec, ReaderAt(k, c, off, n, rec), n \in Nat, n < Len(t)
  PROVE  /\ NextChar(rec).char = t[n + 1]
         /\ ReaderAt(k, c, off, n + 1, NextChar(rec).rec)
<1> DEFINE at == IF Spent(rec) THEN ReadString(Head(rec.chunk)) ELSE rec
<1>1. PICK i \in 1 .. k : ReaderIn(i, c, off, n, rec)
  BY DEF ReaderAt
<1>2. /\ off[i] \in 0 .. Len(t) /\ off[i - 1] \in 0 .. Len(t) /\ Len(t) \in Nat
      /\ Head(Stored[c[i]]) = c[i - 1]
      /\ Len(Stored[c[i]]) - 1 = off[i - 1] - off[i]
      /\ IsNull(c[i - 1]) <=> off[i - 1] = Len(t)
      /\ i # 1 => i - 1 \in 1 .. k /\ off[i - 1] < off[i - 2] /\ (i - 1) - 1 = i - 2
  BY ReaderChunk
<1>3. /\ rec = [chunk |-> Stored[c[i]], idx |-> n - off[i]]
      /\ off[i] <= n /\ n <= off[i - 1]
  BY <1>1 DEF ReaderIn
<1>4. Spent(rec) <=> n = off[i - 1]
  BY <1>2, <1>3 DEF Spent
<1>5. PICK m \in 1 .. k : /\ at = [chunk |-> Stored[c[m]], idx |-> n - off[m]]
                          /\ off[m] <= n /\ n < off[m - 1]
  <2>1. CASE Spent(rec)
    <3>1. n = off[i - 1] /\ ~IsNull(c[i - 1])
      BY <1>2, <1>4, <2>1
    <3>2. i # 1
      BY <3>1 DEF Readable, Chained
    <3>3. /\ i - 1 \in 1 .. k /\ off[i - 1] < off[(i - 1) - 1]
          /\ c[i - 1] \in DOMAIN Stored
      BY <1>2, <3>2 DEF Readable, Chained
    <3>4. at = [chunk |-> Stored[c[i - 1]], idx |-> 0]
      BY <1>2, <1>3, <2>1, <3>3, ChunkStored DEF ReadString
    <3>5. 0 = n - off[i - 1]
      BY <1>2, <3>1
    <3> HIDE DEF at
    <3> QED
      BY <1>2, <3>1, <3>3, <3>4, <3>5
  <2>2. CASE ~Spent(rec)
    BY <1>2, <1>3, <1>4, <2>2
  <2> QED
    BY <2>1, <2>2
<1>6. NextChar(rec) = [rec |-> [at EXCEPT !.idx = @ + 1], char |-> at.chunk[at.idx + 2]]
  BY DEF NextChar
<1> HIDE DEF at
<1>7. /\ off[m] \in 0 .. Len(t) /\ off[m - 1] \in 0 .. Len(t)
      /\ \A j \in 1 .. off[m - 1] - off[m] : Stored[c[m]][j + 1] = t[off[m] + j]
  BY ReaderChunk
<1>8. NextChar(rec).char = t[n + 1]
  <2> DEFINE j == n + 1 - off[m]
  <2>0. /\ off[m] \in Int /\ off[m - 1] \in Int
        /\ off[m] <= n /\ n < off[m - 1] /\ at.idx = n - off[m]
    <3>1. off[m] \in Int /\ off[m - 1] \in Int
      BY <1>7
    <3> QED
      BY <1>5, <3>1
  <2>1. j \in 1 .. off[m - 1] - off[m] /\ off[m] + j = n + 1 /\ at.idx + 2 = j + 1
    BY ONLY <2>0, n \in Nat
  <2>2. NextChar(rec).char = Stored[c[m]][j + 1]
    BY <1>5, <1>6, <2>1
  <2> HIDE DEF j
  <2> QED
    BY <1>7, <2>1, <2>2
<1>9. ReaderIn(m, c, off, n + 1, NextChar(rec).rec)
  <2>1. NextChar(rec).rec = [at EXCEPT !.idx = @ + 1]
    BY <1>6
  <2>2. NextChar(rec).rec = [chunk |-> Stored[c[m]], idx |-> (n - off[m]) + 1]
    BY <1>5, <2>1
  <2>3. (n - off[m]) + 1 = (n + 1) - off[m] /\ off[m] <= n + 1 /\ n + 1 <= off[m - 1]
    <3>1. off[m] \in Int /\ off[m - 1] \in Int
      BY <1>7
    <3> QED
      BY <1>5, <3>1
  <2> QED
    BY <1>5, <2>2, <2>3 DEF ReaderIn
<1> QED
  BY <1>8, <1>9 DEF ReaderAt

-----------------------------------------------------------------------------
(* The two loops over the characters, one round at a time.                 *)
LoadRound(x) ==
  IF HasNextChar(x.rec)
  THEN LET next == NextChar(x.rec) IN [rec |-> next.rec, text |-> Append(x.text, next.char)]
  ELSE x

CompareRound(s) ==
  LET x == NextChar(s.a)
      y == NextChar(s.b)
      more == <<HasNextChar(x.rec), HasNextChar(y.rec)>>
  IN [a |-> x.rec, b |-> y.rec,
      sign |-> IF x.char # y.char THEN Sign(x.char, y.char)
               ELSE CASE more = <<TRUE, FALSE>> -> 1
                      [] more = <<FALSE, TRUE>> -> -1
                      [] more = <<FALSE, FALSE>> -> 0
                      [] OTHER -> Undecided]

Round(loop, x) ==
  IF loop = "load" THEN LoadRound(x)
  ELSE IF x.sign = Undecided THEN CompareRound(x) ELSE x

Rounds(loop, start, n, f) ==
  f = [m \in 0 .. n |-> IF m = 0 THEN start ELSE Round(loop, f[m - 1])]

LEMMA RoundsExist ==
  ASSUME NEW loop, NEW start
  PROVE  \A n \in Nat : \E f : Rounds(loop, start, n, f)
<1> DEFINE S == {n \in Nat : \E f : Rounds(loop, start, n, f)}
<1>1. 0 \in S
  <2> DEFINE f == [m \in 0 .. 0 |-> start]
  <2>1. Rounds(loop, start, 0, f)
    BY DEF Rounds
  <2> QED
    BY <2>1
<1>2. ASSUME NEW n \in S PROVE n + 1 \in S
  <2>1. PICK f : Rounds(loop, start, n, f)
    OBVIOUS
  <2>2. n \in Nat
    OBVIOUS
  <2> DEFINE g == [m \in 0 .. n + 1 |-> IF m = n + 1 THEN Round(loop, f[n]) ELSE f[m]]
             h == [m \in 0 .. n + 1 |-> IF m = 0 THEN start ELSE Round(loop, g[m - 1])]
  <2>3. ASSUME NEW m \in 0 .. n + 1 PROVE g[m] = h[m]
    <3>1. CASE m = n + 1
      BY <2>2, <3>1
    <3>2. CASE m \in 0 .. n /\ m # 0
      <4>1. m - 1 \in 0 .. n + 1 /\ m - 1 # n + 1 /\ m # n + 1
        BY <2>2, <3>2
      <4>2. f[m] = Round(loop, f[m - 1])
        BY <2>1, <3>2 DEF Rounds
      <4> QED
        BY <3>2, <4>1, <4>2
    <3>3. CASE m = 0
      <4>1. f[0] = start
        BY <2>1, <2>2 DEF Rounds
      <4> QED
        BY <2>2, <3>3, <4>1
    <3> QED
      BY <2>2, <3>1, <3>2, <3>3
  <2>4. g = h
    BY <2>3
  <2>5. Rounds(loop, start, n + 1, g)
    BY <2>4 DEF Rounds
  <2> HIDE DEF g
  <2> QED
    BY <2>2, <2>5
<1> HIDE DEF S
<1>3. S \in SUBSET Nat
  BY DEF S
<1>4. \A n \in Nat : n \in S
  BY <1>1, <1>2, <1>3, Induction
<1> QED
  BY <1>4 DEF S

RoundsOf(loop, start, n, f) ==
  f[0] = start /\ \A m \in 1 .. n : f[m] = Round(loop, f[m - 1])

LEMMA RoundsAre ==
  ASSUME NEW loop, NEW start, NEW n \in Nat, NEW f, Rounds(loop, start, n, f)
  PROVE  RoundsOf(loop, start, n, f)
<1>1. f[0] = start
  BY DEF Rounds
<1>2. ASSUME NEW m \in 1 .. n PROVE f[m] = Round(loop, f[m - 1])
  <2>1. m \in 0 .. n /\ m # 0
    OBVIOUS
  <2> QED
    BY <2>1, Zenon DEF Rounds
<1> QED
  BY <1>1, <1>2 DEF RoundsOf

LEMMA LoadRounds ==
  ASSUME NEW r, NEW max \in Nat
  PROVE  \E f : /\ RoundsOf("load", [rec |-> ReadString(r), text |-> <<>>], max, f)
                /\ LoadString(r, max) = f[max].text
<1> DEFINE start == [rec |-> ReadString(r), text |-> <<>>]
           Loads(f) == f = [n \in 0 .. max |->
             IF n = 0 THEN [rec |-> ReadString(r), text |-> <<>>]
             ELSE IF HasNextChar(f[n - 1].rec)
             THEN LET next == NextChar(f[n - 1].rec)
                  IN [rec |-> next.rec, text |-> Append(f[n - 1].text, next.char)]
             ELSE f[n - 1]]
           loaded == CHOOSE f : Loads(f)
<1>1. ASSUME NEW f PROVE Rounds("load", start, max, f) <=> Loads(f)
  <2>1. \A x : Round("load", x) = LoadRound(x)
    BY DEF Round
  <2> QED
    BY <2>1, Zenon DEF Rounds, LoadRound
<1>2. \E f : Rounds("load", start, max, f)
  BY RoundsExist
<1>3. \E f : Loads(f)
  BY <1>1, <1>2, Zenon
<1>4. LoadString(r, max) = loaded[max].text
  BY Zenon DEF LoadString
<1> HIDE DEF Loads
<1>5. Loads(loaded)
  BY <1>3, Zenon
<1> HIDE DEF loaded, start
<1>6. RoundsOf("load", start, max, loaded)
  BY <1>1, <1>5, RoundsAre
<1> QED
  BY <1>4, <1>6 DEF start

LEMMA PrefixGrows ==
  ASSUME NEW t \in Seq(Int), NEW n \in Nat, n < Len(t)
  PROVE  Append(SubSeq(t, 1, n), t[n + 1]) = SubSeq(t, 1, n + 1)
<1>1. Len(t) \in Nat /\ \A i \in 1 .. Len(t) : t[i] \in Int
  BY LenProperties
<1> DEFINE p == SubSeq(t, 1, n)
           q == SubSeq(t, 1, n + 1)
           a == Append(p, t[n + 1])
<1>2. p \in Seq(Int) /\ Len(p) = n /\ \A i \in 1 .. n : p[i] = t[i]
  <2>1. \A i \in 1 .. n : t[i] \in Int
    BY <1>1
  <2>2. /\ SubSeq(t, 1, n) \in Seq(Int)
        /\ Len(SubSeq(t, 1, n)) = IF 1 <= n THEN n - 1 + 1 ELSE 0
        /\ \A i \in 1 .. n - 1 + 1 : SubSeq(t, 1, n)[i] = t[1 + i - 1]
    BY <2>1, SubSeqProperties
  <2> QED
    BY <2>2
<1>3. q \in Seq(Int) /\ Len(q) = n + 1 /\ \A i \in 1 .. n + 1 : q[i] = t[i]
  <2>1. \A i \in 1 .. n + 1 : t[i] \in Int
    BY <1>1
  <2> DEFINE m == n + 1
  <2>2. m \in Int /\ 1 <= m
    OBVIOUS
  <2> HIDE DEF m
  <2>3. /\ SubSeq(t, 1, m) \in Seq(Int)
        /\ Len(SubSeq(t, 1, m)) = IF 1 <= m THEN m - 1 + 1 ELSE 0
        /\ \A i \in 1 .. m - 1 + 1 : SubSeq(t, 1, m)[i] = t[1 + i - 1]
    BY <2>1, <2>2, SubSeqProperties DEF m
  <2> QED
    BY <2>2, <2>3 DEF m
<1>4. t[n + 1] \in Int
  BY <1>1
<1> HIDE DEF p, q
<1>5. /\ a \in Seq(Int) /\ Len(a) = n + 1
      /\ \A i \in 1 .. n : a[i] = p[i]
      /\ a[n + 1] = t[n + 1]
  BY <1>2, <1>4, AppendProperties
<1> HIDE DEF a
<1>6. \A i \in 1 .. n + 1 : i \in 1 .. n \/ i = n + 1
  OBVIOUS
<1>7. \A i \in 1 .. Len(a) : a[i] = q[i]
  BY <1>2, <1>3, <1>5, <1>6
<1>8. a = q
  BY <1>3, <1>5, <1>7, SeqEqual
<1> QED
  BY <1>8 DEF a, p, q

(* After n rounds load_string has the first n characters, or all.          *)
LEMMA Loaded ==
  ASSUME NEW r, NEW t, NEW k, NEW c, NEW off, Readable(r, t, k, c, off),
         NEW max \in Nat, NEW f,
         RoundsOf("load", [rec |-> ReadString(r), text |-> <<>>], max, f)
  PROVE  \A n \in 0 .. max :
           LET m == IF n < Len(t) THEN n ELSE Len(t) IN
           ReaderAt(k, c, off, m, f[n].rec) /\ f[n].text = SubSeq(t, 1, m)
<1> DEFINE M(n) == IF n < Len(t) THEN n ELSE Len(t)
           Good(n) == ReaderAt(k, c, off, M(n), f[n].rec) /\ f[n].text = SubSeq(t, 1, M(n))
           S == {n \in Nat : n <= max => Good(n)}
<1>1. t \in Seq(Int) /\ Len(t) \in Nat
  BY LenProperties DEF Readable
<1>2. \A n \in Nat : M(n) \in Nat /\ M(n) <= Len(t)
  BY <1>1
<1>3. 0 \in S
  <2>1. f[0].rec = ReadString(r) /\ f[0].text = <<>> /\ M(0) = 0
    BY <1>1 DEF RoundsOf
  <2>2. ReaderAt(k, c, off, 0, ReadString(r))
    BY ReaderStarts
  <2>3. SubSeq(t, 1, 0) = <<>>
    BY SubSeqEmpty
  <2>4. Good(0)
    BY <2>1, <2>2, <2>3, Zenon
  <2> QED
    BY <2>4
<1>4. ASSUME NEW n \in S PROVE n + 1 \in S
  <2> SUFFICES ASSUME n + 1 <= max PROVE Good(n + 1)
    OBVIOUS
  <2>1. n \in Nat /\ n <= max /\ n + 1 \in 1 .. max /\ (n + 1) - 1 = n
    OBVIOUS
  <2>2. Good(n)
    BY <2>1
  <2>3. f[n + 1] = LoadRound(f[n])
    BY <2>1 DEF RoundsOf, Round
  <2>4. CASE n < Len(t)
    <3>1. M(n) = n /\ M(n + 1) = n + 1
      BY <1>1, <2>1, <2>4
    <3> HIDE DEF M
    <3>2. ReaderAt(k, c, off, n, f[n].rec) /\ f[n].text = SubSeq(t, 1, n)
      BY <2>2, <3>1
    <3>3. HasNextChar(f[n].rec)
      BY <2>1, <2>4, <3>2, ReaderSees
    <3> DEFINE next == NextChar(f[n].rec)
    <3>4. next.char = t[n + 1] /\ ReaderAt(k, c, off, n + 1, next.rec)
      BY <2>1, <2>4, <3>2, ReaderTakes
    <3>5. f[n + 1] = [rec |-> next.rec, text |-> Append(f[n].text, next.char)]
      BY <2>3, <3>3 DEF LoadRound
    <3> HIDE DEF next
    <3>6. f[n + 1].rec = next.rec /\ f[n + 1].text = SubSeq(t, 1, n + 1)
      BY <1>1, <2>1, <2>4, <3>2, <3>4, <3>5, PrefixGrows
    <3> QED
      BY <3>1, <3>4, <3>6
  <2>5. CASE ~(n < Len(t))
    <3>1. M(n) = Len(t) /\ M(n + 1) = Len(t)
      BY <1>1, <2>1, <2>5
    <3> HIDE DEF M
    <3>2. ReaderAt(k, c, off, Len(t), f[n].rec) /\ f[n].text = SubSeq(t, 1, Len(t))
      BY <2>2, <3>1
    <3>3. ~HasNextChar(f[n].rec)
      BY <1>1, <3>2, ReaderSees
    <3>4. f[n + 1] = f[n]
      BY <2>3, <3>3 DEF LoadRound
    <3> QED
      BY <3>1, <3>2, <3>4
  <2> QED
    BY <2>4, <2>5
<1> HIDE DEF S
<1>5. \A n \in Nat : n \in S
  BY <1>3, <1>4, Induction DEF S
<1> HIDE DEF Good
<1>6. \A n \in 0 .. max : Good(n)
  BY <1>5 DEF S
<1> QED
  BY <1>6 DEF Good

LEMMA LoadsWhole ==
  ASSUME StrInv PROVE LoadsBack
<1> SUFFICES ASSUME NEW r \in DOMAIN strings, NEW max \in 0 .. Len(strings[r]) + 1
             PROVE  LoadString(r, max) =
                      SubSeq(strings[r], 1, IF max < Len(strings[r]) THEN max ELSE Len(strings[r]))
  BY DEF LoadsBack
<1> DEFINE t == strings[r]
<1>1. PICK k, c, off : Readable(r, t, k, c, off)
  BY StringsReadable, Zenon
<1>2. max \in Nat
  BY <1>1, LenProperties DEF Readable
<1>3. PICK f : /\ RoundsOf("load", [rec |-> ReadString(r), text |-> <<>>], max, f)
               /\ LoadString(r, max) = f[max].text
  BY <1>2, LoadRounds
<1> HIDE DEF t
<1>4. f[max].text = SubSeq(t, 1, IF max < Len(t) THEN max ELSE Len(t))
  BY <1>1, <1>2, <1>3, Loaded
<1> QED
  BY <1>3, <1>4 DEF t

(* Whatever is written and deleted around it, a string reads back as it    *)
(* was written, up to the maximum the caller names (str.c:6-54, 156-164).  *)
THEOREM LoadsBackAlways == SpecStr => []LoadsBack
<1> QED
  BY StrInvariance, LoadsWhole, PTL

-----------------------------------------------------------------------------
(* The order of texts.                                                     *)
Same(s, t, n) == \A i \in 1 .. n : s[i] = t[i]

LEMMA PrefixIs ==
  ASSUME NEW t \in Seq(Int), NEW n \in 0 .. Len(t)
  PROVE  /\ SubSeq(t, 1, n) \in Seq(Int)
         /\ Len(SubSeq(t, 1, n)) = n
         /\ \A i \in 1 .. n : SubSeq(t, 1, n)[i] = t[i]
<1>1. Len(t) \in Nat /\ \A i \in 1 .. Len(t) : t[i] \in Int
  BY LenProperties
<1>2. \A i \in 1 .. n : t[i] \in Int
  BY <1>1
<1>3. /\ SubSeq(t, 1, n) \in Seq(Int)
      /\ Len(SubSeq(t, 1, n)) = IF 1 <= n THEN n - 1 + 1 ELSE 0
      /\ \A i \in 1 .. n - 1 + 1 : SubSeq(t, 1, n)[i] = t[1 + i - 1]
  BY <1>2, SubSeqProperties
<1> QED
  BY <1>1, <1>3

LEMMA BeforeIs ==
  ASSUME NEW s \in Seq(Int), NEW t \in Seq(Int)
  PROVE  Before(s, t) <=>
           \E n \in 0 .. Len(s) : n < Len(t) /\ Same(s, t, n) /\ (n = Len(s) \/ s[n + 1] < t[n + 1])
<1>1. Len(s) \in Nat /\ Len(t) \in Nat
  BY LenProperties
<1>2. ASSUME NEW n \in 0 .. Len(s), n < Len(t)
      PROVE  SubSeq(s, 1, n) = SubSeq(t, 1, n) <=> Same(s, t, n)
  <2> DEFINE p == SubSeq(s, 1, n)
             q == SubSeq(t, 1, n)
  <2>1. p \in Seq(Int) /\ Len(p) = n /\ \A i \in 1 .. n : p[i] = s[i]
    BY PrefixIs
  <2>2. n \in 0 .. Len(t)
    BY <1>1, <1>2
  <2>3. q \in Seq(Int) /\ Len(q) = n /\ \A i \in 1 .. n : q[i] = t[i]
    BY <2>2, PrefixIs
  <2> HIDE DEF p, q
  <2>4. Same(s, t, n) => p = q
    BY <2>1, <2>3, SeqEqual DEF Same
  <2>5. p = q => Same(s, t, n)
    BY <2>1, <2>3 DEF Same
  <2> QED
    BY <2>4, <2>5 DEF p, q
<1>3. \A n \in 0 .. Len(s) : n < Len(t) => n <= Len(t)
  BY <1>1
<1> QED
  BY <1>2, <1>3 DEF Before

Verdict(s, t) == IF Before(s, t) THEN -1 ELSE IF Before(t, s) THEN 1 ELSE 0

(* The first characters that differ decide.                                *)
LEMMA DifferenceDecides ==
  ASSUME NEW s \in Seq(Int), NEW t \in Seq(Int), NEW n \in Nat, n < Len(s), n < Len(t),
         Same(s, t, n), s[n + 1] < t[n + 1]
  PROVE  Before(s, t) /\ ~Before(t, s)
<1>1. /\ Len(s) \in Nat /\ Len(t) \in Nat /\ n \in 0 .. Len(s) /\ n + 1 \in 1 .. Len(s)
      /\ n + 1 \in 1 .. Len(t)
  BY LenProperties
<1>2. s[n + 1] \in Int /\ t[n + 1] \in Int
  BY <1>1, LenProperties
<1>3. Before(s, t)
  BY <1>1, BeforeIs
<1>4. ASSUME NEW m \in 0 .. Len(t), m < Len(s), Same(t, s, m), m = Len(t) \/ t[m + 1] < s[m + 1]
      PROVE  FALSE
  <2>1. CASE m <= n
    <3>1. t[m + 1] < s[m + 1]
      BY <1>1, <1>4, <2>1
    <3>2. CASE m = n
      BY <1>2, <3>1, <3>2
    <3>3. CASE m # n
      <4>1. m + 1 \in 1 .. n /\ m + 1 \in 1 .. Len(s)
        BY <1>1, <2>1, <3>3
      <4>2. s[m + 1] = t[m + 1] /\ s[m + 1] \in Int
        BY <4>1, LenProperties DEF Same
      <4> QED
        BY <3>1, <4>2
    <3> QED
      BY <3>2, <3>3
  <2>2. CASE ~(m <= n)
    <3>1. n + 1 \in 1 .. m
      BY <1>1, <2>2
    <3>2. t[n + 1] = s[n + 1]
      BY <1>4, <3>1 DEF Same
    <3> QED
      BY <1>2, <3>2
  <2> QED
    BY <2>1, <2>2
<1>5. ~Before(t, s)
  BY <1>4, BeforeIs
<1> QED
  BY <1>3, <1>5

(* The end of one text that begins the other decides, too.                 *)
LEMMA NothingBefore ==
  ASSUME NEW s \in Seq(Int), NEW t \in Seq(Int), Len(t) <= Len(s), Same(s, t, Len(t))
  PROVE  ~Before(s, t)
<1>1. Len(s) \in Nat /\ Len(t) \in Nat
  BY LenProperties
<1>2. ASSUME NEW n \in 0 .. Len(s), n < Len(t), n = Len(s) \/ s[n + 1] < t[n + 1]
      PROVE  FALSE
  <2>1. n + 1 \in 1 .. Len(t) /\ n + 1 \in 1 .. Len(s) /\ n # Len(s)
    BY <1>1, <1>2
  <2>2. s[n + 1] = t[n + 1] /\ s[n + 1] \in Int
    BY <2>1, LenProperties DEF Same
  <2> QED
    BY <1>2, <2>1, <2>2
<1> QED
  BY <1>2, BeforeIs

LEMMA EndDecides ==
  ASSUME NEW s \in Seq(Int), NEW t \in Seq(Int), Len(t) < Len(s), Same(s, t, Len(t))
  PROVE  Before(t, s) /\ ~Before(s, t)
<1>1. Len(s) \in Nat /\ Len(t) \in Nat /\ Len(t) \in 0 .. Len(t)
  BY LenProperties
<1>2. Same(t, s, Len(t))
  BY DEF Same
<1>3. Before(t, s)
  BY <1>1, <1>2, BeforeIs
<1> QED
  BY <1>1, <1>3, NothingBefore

LEMMA SameFlips ==
  ASSUME NEW s, NEW t, NEW n PROVE Same(s, t, n) <=> Same(t, s, n)
  BY DEF Same

-----------------------------------------------------------------------------
LEMMA CompareRounds ==
  ASSUME NEW a, NEW b, NEW n \in Nat
  PROVE  \E f : /\ RoundsOf("compare", [a |-> a, b |-> b, sign |-> Undecided], n, f)
                /\ CompareRecords(a, b, n) = f[n].sign
<1> DEFINE start == [a |-> a, b |-> b, sign |-> Undecided]
           Judged(x, y) ==
             [a |-> x.rec, b |-> y.rec,
              sign |-> IF x.char # y.char THEN Sign(x.char, y.char)
                       ELSE LET more == <<HasNextChar(x.rec), HasNextChar(y.rec)>>
                            IN CASE more = <<TRUE, FALSE>> -> 1
                                 [] more = <<FALSE, TRUE>> -> -1
                                 [] more = <<FALSE, FALSE>> -> 0
                                 [] OTHER -> Undecided]
           Compares(f) == f = [m \in 0 .. n |->
             IF m = 0 THEN [a |-> a, b |-> b, sign |-> Undecided]
             ELSE IF f[m - 1].sign = Undecided
             THEN Judged(NextChar(f[m - 1].a), NextChar(f[m - 1].b))
             ELSE f[m - 1]]
           compared == CHOOSE f : Compares(f)
<1>1. ASSUME NEW f PROVE Rounds("compare", start, n, f) <=> Compares(f)
  <2>1. \A x : Round("compare", x) = IF x.sign = Undecided THEN CompareRound(x) ELSE x
    BY DEF Round
  <2>2. \A x : CompareRound(x) = Judged(NextChar(x.a), NextChar(x.b))
    BY Zenon DEF CompareRound
  <2> HIDE DEF Judged
  <2> QED
    BY <2>1, <2>2, Zenon DEF Rounds
<1>2. \E f : Rounds("compare", start, n, f)
  BY RoundsExist
<1>3. \E f : Compares(f)
  BY <1>1, <1>2, Zenon
<1>4. CompareRecords(a, b, n) = compared[n].sign
  BY Zenon DEF CompareRecords
<1> HIDE DEF Compares
<1>5. Compares(compared)
  BY <1>3, Zenon
<1> HIDE DEF compared, start
<1>6. RoundsOf("compare", start, n, compared)
  BY <1>1, <1>5, RoundsAre
<1> QED
  BY <1>4, <1>6 DEF start

(* One round, on texts that agree so far and both go on.                   *)
Agree(s, t, n) == n \in Nat /\ n < Len(s) /\ n < Len(t) /\ Same(s, t, n)

LEMMA RoundDecides ==
  ASSUME NEW q, NEW s, NEW kq, NEW cq, NEW oq, Readable(q, s, kq, cq, oq),
         NEW r, NEW t, NEW kr, NEW cr, NEW or, Readable(r, t, kr, cr, or),
         NEW n, Agree(s, t, n),
         NEW x, ReaderAt(kq, cq, oq, n, x.a), ReaderAt(kr, cr, or, n, x.b)
  PROVE  LET y == CompareRound(x) IN
         \/ y.sign = Verdict(s, t)
         \/ /\ y.sign = Undecided /\ Agree(s, t, n + 1)
            /\ ReaderAt(kq, cq, oq, n + 1, y.a) /\ ReaderAt(kr, cr, or, n + 1, y.b)
<1> DEFINE u == NextChar(x.a)
           v == NextChar(x.b)
           y == CompareRound(x)
<1>1. s \in Seq(Int) /\ t \in Seq(Int) /\ Len(s) \in Nat /\ Len(t) \in Nat /\ n \in Nat
  BY LenProperties DEF Readable, Agree
<1>2. u.char = s[n + 1] /\ ReaderAt(kq, cq, oq, n + 1, u.rec)
  BY <1>1, ReaderTakes DEF Agree
<1>3. v.char = t[n + 1] /\ ReaderAt(kr, cr, or, n + 1, v.rec)
  BY <1>1, ReaderTakes DEF Agree
<1>4. /\ HasNextChar(u.rec) <=> n + 1 < Len(s)
      /\ HasNextChar(v.rec) <=> n + 1 < Len(t)
  BY <1>1, <1>2, <1>3, ReaderSees
<1>5. y = [a |-> u.rec, b |-> v.rec,
           sign |-> IF u.char # v.char THEN Sign(u.char, v.char)
                    ELSE CASE <<HasNextChar(u.rec), HasNextChar(v.rec)>> = <<TRUE, FALSE>> -> 1
                           [] <<HasNextChar(u.rec), HasNextChar(v.rec)>> = <<FALSE, TRUE>> -> -1
                           [] <<HasNextChar(u.rec), HasNextChar(v.rec)>> = <<FALSE, FALSE>> -> 0
                           [] OTHER -> Undecided]
  BY Zenon DEF CompareRound
<1> HIDE DEF u, v, y
<1>6. y.a = u.rec /\ y.b = v.rec
  BY <1>5
<1>7. CASE s[n + 1] # t[n + 1]
  <2>1. y.sign = Sign(s[n + 1], t[n + 1])
    BY <1>2, <1>3, <1>5, <1>7
  <2>2. s[n + 1] \in Int /\ t[n + 1] \in Int
    BY <1>1, LenProperties DEF Agree
  <2>3. CASE s[n + 1] < t[n + 1]
    <3>1. Before(s, t)
      BY <1>1, <2>3, DifferenceDecides DEF Agree
    <3> QED
      BY <2>1, <2>3, <3>1 DEF Sign, Verdict, y
  <2>4. CASE t[n + 1] < s[n + 1]
    <3>1. Before(t, s) /\ ~Before(s, t)
      BY <1>1, <2>4, SameFlips, DifferenceDecides DEF Agree
    <3>2. ~(s[n + 1] < t[n + 1]) /\ s[n + 1] > t[n + 1]
      BY <2>2, <2>4
    <3> QED
      BY <2>1, <3>1, <3>2 DEF Sign, Verdict, y
  <2> QED
    BY <1>7, <2>2, <2>3, <2>4
<1>8. CASE s[n + 1] = t[n + 1]
  <2>1. Same(s, t, n + 1)
    <3>1. \A i \in 1 .. n + 1 : i \in 1 .. n \/ i = n + 1
      BY <1>1
    <3> QED
      BY <1>8, <3>1 DEF Agree, Same
  <2>2. n + 1 <= Len(s) /\ n + 1 <= Len(t)
    BY <1>1 DEF Agree
  <2> DEFINE hs == HasNextChar(u.rec)
             ht == HasNextChar(v.rec)
  <2>3. y.sign = CASE <<hs, ht>> = <<TRUE, FALSE>> -> 1
                   [] <<hs, ht>> = <<FALSE, TRUE>> -> -1
                   [] <<hs, ht>> = <<FALSE, FALSE>> -> 0
                   [] OTHER -> Undecided
    BY <1>2, <1>3, <1>5, <1>8
  <2>4. hs \in BOOLEAN /\ ht \in BOOLEAN
    BY DEF HasNextChar
  <2>5. (hs <=> n + 1 < Len(s)) /\ (ht <=> n + 1 < Len(t))
    BY <1>4
  <2> HIDE DEF hs, ht
  <2>6. CASE hs /\ ~ht
    <3>1. y.sign = 1
      BY <2>3, <2>4, <2>6
    <3>2. Len(t) = n + 1 /\ Len(t) < Len(s)
      BY <1>1, <2>2, <2>5, <2>6
    <3>3. Before(t, s) /\ ~Before(s, t)
      BY <1>1, <2>1, <3>2, EndDecides
    <3> QED
      BY <3>1, <3>3 DEF Verdict, y
  <2>7. CASE ~hs /\ ht
    <3>1. y.sign = -1
      BY <2>3, <2>4, <2>7
    <3>2. Len(s) = n + 1 /\ Len(s) < Len(t)
      BY <1>1, <2>2, <2>5, <2>7
    <3>3. Before(s, t)
      BY <1>1, <2>1, <3>2, SameFlips, EndDecides
    <3> QED
      BY <3>1, <3>3 DEF Verdict, y
  <2>8. CASE ~hs /\ ~ht
    <3>1. y.sign = 0
      BY <2>3, <2>4, <2>8
    <3>2. Len(s) = n + 1 /\ Len(t) = n + 1
      BY <1>1, <2>2, <2>5, <2>8
    <3>3. ~Before(s, t) /\ ~Before(t, s)
      BY <1>1, <2>1, <3>2, SameFlips, NothingBefore
    <3> QED
      BY <3>1, <3>3 DEF Verdict, y
  <2>9. CASE hs /\ ht
    <3>1. y.sign = Undecided
      BY <2>3, <2>4, <2>9
    <3>2. Agree(s, t, n + 1)
      BY <1>1, <2>1, <2>5, <2>9 DEF Agree
    <3> QED
      BY <1>2, <1>3, <1>6, <3>1, <3>2 DEF y
  <2> QED
    BY <2>4, <2>6, <2>7, <2>8, <2>9
<1> QED
  BY <1>7, <1>8

LEMMA Compared ==
  ASSUME NEW q, NEW s, NEW kq, NEW cq, NEW oq, Readable(q, s, kq, cq, oq),
         NEW r, NEW t, NEW kr, NEW cr, NEW or, Readable(r, t, kr, cr, or),
         s # <<>>, t # <<>>
  PROVE  CompareRecords(ReadString(q), ReadString(r), Len(s)) = Verdict(s, t)
<1> DEFINE start == [a |-> ReadString(q), b |-> ReadString(r), sign |-> Undecided]
<1>1. s \in Seq(Int) /\ t \in Seq(Int) /\ Len(s) \in Nat /\ Len(t) \in Nat
  BY LenProperties DEF Readable
<1>2. Len(s) > 0 /\ Len(t) > 0
  BY <1>1, EmptySeq
<1>3. PICK f : /\ RoundsOf("compare", start, Len(s), f)
               /\ CompareRecords(ReadString(q), ReadString(r), Len(s)) = f[Len(s)].sign
  BY <1>1, CompareRounds
<1> DEFINE Open(n) == /\ f[n].sign = Undecided /\ Agree(s, t, n)
                      /\ ReaderAt(kq, cq, oq, n, f[n].a) /\ ReaderAt(kr, cr, or, n, f[n].b)
           Good(n) == f[n].sign = Verdict(s, t) \/ Open(n)
           S == {n \in Nat : n <= Len(s) => Good(n)}
<1>4. 0 \in S
  <2>1. f[0] = start
    BY <1>3 DEF RoundsOf
  <2>2. Same(s, t, 0)
    BY DEF Same
  <2>3. Agree(s, t, 0)
    BY <1>1, <1>2, <2>2 DEF Agree
  <2>4. Open(0)
    BY <2>1, <2>3, ReaderStarts
  <2> QED
    BY <2>4
<1>5. Verdict(s, t) # Undecided
  BY DEF Verdict, Undecided
<1>6. ASSUME NEW n \in S PROVE n + 1 \in S
  <2> SUFFICES ASSUME n + 1 <= Len(s) PROVE Good(n + 1)
    OBVIOUS
  <2>1. n \in Nat /\ n <= Len(s) /\ n + 1 \in 1 .. Len(s) /\ (n + 1) - 1 = n
    BY <1>1
  <2>2. Good(n)
    BY <2>1
  <2>3. f[n + 1] = Round("compare", f[n])
    BY <1>3, <2>1 DEF RoundsOf
  <2>4. f[n + 1] = IF f[n].sign = Undecided THEN CompareRound(f[n]) ELSE f[n]
    BY <2>3 DEF Round
  <2>5. CASE f[n].sign = Verdict(s, t)
    BY <1>5, <2>4, <2>5
  <2>6. CASE Open(n)
    <3>1. f[n + 1] = CompareRound(f[n])
      BY <2>4, <2>6
    <3> DEFINE x == f[n]
               y == CompareRound(x)
    <3>2. Agree(s, t, n) /\ ReaderAt(kq, cq, oq, n, x.a) /\ ReaderAt(kr, cr, or, n, x.b)
      BY <2>6
    <3> HIDE DEF x
    <3>3. \/ y.sign = Verdict(s, t)
          \/ /\ y.sign = Undecided /\ Agree(s, t, n + 1)
             /\ ReaderAt(kq, cq, oq, n + 1, y.a) /\ ReaderAt(kr, cr, or, n + 1, y.b)
      BY ONLY Readable(q, s, kq, cq, oq), Readable(r, t, kr, cr, or), <3>2, RoundDecides, SMTT(30)
    <3>4. f[n + 1] = y
      BY <3>1 DEF x
    <3> HIDE DEF y
    <3> QED
      BY <3>3, <3>4
  <2> QED
    BY <2>2, <2>5, <2>6
<1> HIDE DEF S
<1>7. \A n \in Nat : n \in S
  BY <1>4, <1>6, Induction DEF S
<1>8. Good(Len(s))
  BY <1>1, <1>7 DEF S
<1>9. ~Open(Len(s))
  BY <1>1 DEF Agree
<1> QED
  BY <1>3, <1>8, <1>9

(* Strings that are not empty compare as texts do, wherever the boundaries *)
(* of their chunks lie (str.c:56-84).                                      *)
THEOREM ComparesAlways == SpecStr => []ComparesAsText
<1>1. ASSUME StrInv PROVE ComparesAsText
  <2> SUFFICES ASSUME NEW q \in DOMAIN strings, NEW r \in DOMAIN strings,
                      strings[q] # <<>>, strings[r] # <<>>
               PROVE  CompareRecords(ReadString(q), ReadString(r), Len(strings[q])) =
                        Verdict(strings[q], strings[r])
    BY DEF ComparesAsText, Verdict
  <2>1. PICK kq, cq, oq : Readable(q, strings[q], kq, cq, oq)
    BY <1>1, StringsReadable, Zenon
  <2>2. PICK kr, cr, or : Readable(r, strings[r], kr, cr, or)
    BY <1>1, StringsReadable, Zenon
  <2> QED
    BY <2>1, <2>2, Compared
<1> QED
  BY <1>1, StrInvariance, PTL
=============================================================================
