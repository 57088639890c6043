--------------------------- MODULE HashMapProofs ---------------------------
(***************************************************************************)
(* The free-space map keeps its chains packed and apart, spares its        *)
(* control block, never loops, and is a set of pairs of sizes and blocks:  *)
(* for every page size, every number of blocks and every set of sizes.     *)
(***************************************************************************)
EXTENDS HashMap, FiniteSetTheorems, WellFoundedInduction, TLAPS

(* The blocks hash_table_init made, and those of them that were taken off  *)
(* the free list: it hands them out in the order of the file.              *)
Bucket == FirstBlock .. Sentinel - 1
Head == pages[0][HEAD]
Used == FirstBlock .. Head - 1

(* The indices whose directory words the code reads or writes.             *)
Index == Size \cup 0 .. MaxSize - 1

IsFile(pg, D) ==
  /\ pg = [p \in D |-> [w \in Word |-> pg[p][w]]]
  /\ \A p \in D : \A w \in Word : pg[p][w] \in Int

FileTyped == Pages \in {0 .. Sentinel - 1, 0 .. Sentinel} /\ IsFile(pages, Pages)

(* The words of the blocks: those of the free list lead from one to the    *)
(* next, the others to taken ones.                                         *)
BlocksKept ==
  /\ Head \in FirstBlock .. Sentinel
  /\ \A p \in Head .. Sentinel - 1 : pages[p][NEXT] = p + 1 /\ NItems(p) = 0
  /\ \A p \in Used : pages[p][NEXT] \in Used \cup {0} /\ NItems(p) \in 0 .. Capacity

DirectoryKept ==
  /\ \A s \in Size : Directory(s) \in Used \cup {0}
  /\ \A s \in Index \ Size : Directory(s) = 0

ChainsApart == \A s, t \in Size : s # t => Chained(s) \cap Chained(t) = {}

(* Block p of chain C lists an address in its place i, and no address is  *)
(* listed in two places of any two chains.                                 *)
Lists(pg, C, p, i) == p \in C /\ i \in Int /\ 0 <= i /\ i < pg[p][NITEMS]

Once(pg, C) ==
  \A s, t \in Size : \A p, q, i, j :
    Lists(pg, C[s], p, i) /\ Lists(pg, C[t], q, j) =>
      pg[p][TABLE + i] \in Block /\ (pg[p][TABLE + i] = pg[q][TABLE + j] => p = q /\ i = j)

Chains == [s \in Size |-> Chained(s)]
ListedOnce == Once(pages, Chains)

MapInv ==
  /\ FileTyped /\ ControlIntact /\ BlocksKept /\ DirectoryKept
  /\ ChainsPacked /\ ChainsApart /\ ListedOnce

IInv == MapInv /\ out \in Block \cup {NoBlock} /\ spinning = FALSE

-----------------------------------------------------------------------------
(* The pages of the file.                                                  *)
LEMMA PageWords ==
  /\ W \in Nat /\ W >= 8 /\ OffSize \in Nat \ {0}
  /\ NDirs = OffSize /\ MaxSize = PageSize /\ MaxSize = W * OffSize
  /\ NDirs \in Nat \ {0} /\ MaxSize \in Nat \ {0}
  /\ FirstBlock \in Nat \ {0} /\ Sentinel \in Nat /\ FirstBlock < Sentinel
<1>1. W \in Nat \ {0} /\ W >= 8 /\ OffSize \in Nat \ {0} /\ NBlocks \in Nat \ {0}
  BY ParameterAssumption
<1>2. (W * OffSize) \div W = OffSize
  BY <1>1
<1>3. NDirs = OffSize
  BY <1>2 DEF NDirs, PageSize
<1>4. W * OffSize \in Nat \ {0}
  BY <1>1
<1> QED
  BY <1>1, <1>3, <1>4 DEF MaxSize, PageSize, FirstBlock, Sentinel

-----------------------------------------------------------------------------
(* Induction, as a fact about a set of numbers.                            *)
LEMMA Induction ==
  ASSUME NEW S \in SUBSET Nat, 0 \in S, \A n \in S : n + 1 \in S
  PROVE  \A n \in Nat : n \in S
<1> DEFINE R == OpToRel(<, Nat)
           T == Nat \ S
<1> SUFFICES ASSUME T # {} PROVE FALSE
  OBVIOUS
<1>1. IsWellFoundedOn(R, Nat)
  BY NatLessThanWellFounded
<1>2. \A k, m \in Nat : <<k, m>> \in R <=> k < m
  BY DEF OpToRel
<1> HIDE DEF R
<1>3. PICK m \in T : \A k \in T : ~(<<k, m>> \in R)
  BY <1>1, WFMin
<1>4. m \in Nat \ {0} /\ m - 1 \in Nat /\ m - 1 < m
  OBVIOUS
<1>5. m - 1 \in S
  BY <1>2, <1>3, <1>4
<1>6. (m - 1) + 1 = m
  BY <1>4
<1> QED
  BY <1>5, <1>6

(* The rounds of Walk.                                                     *)
Rounds(pg, p, stop, n, f) ==
  f = [k \in 0 .. n |-> IF k = 0 THEN {p} \ {0} ELSE Reached(pg, stop, f[k - 1])]

LEMMA RoundsExist ==
  ASSUME NEW pg, NEW p, NEW stop
  PROVE  \A n \in Nat : \E f : Rounds(pg, p, stop, n, f)
<1> DEFINE S == {n \in Nat : \E f : Rounds(pg, p, stop, n, f)}
<1>1. 0 \in S
  <2> DEFINE f == [k \in 0 .. 0 |-> {p} \ {0}]
  <2>1. Rounds(pg, p, stop, 0, f)
    BY DEF Rounds
  <2> QED
    BY <2>1
<1>2. ASSUME NEW n \in S PROVE n + 1 \in S
  <2>1. PICK f : Rounds(pg, p, stop, n, f)
    OBVIOUS
  <2>2. n \in Nat
    OBVIOUS
  <2> DEFINE g == [k \in 0 .. n + 1 |-> IF k = n + 1 THEN Reached(pg, stop, f[n]) ELSE f[k]]
             h == [k \in 0 .. n + 1 |-> IF k = 0 THEN {p} \ {0} ELSE Reached(pg, stop, g[k - 1])]
  <2>3. ASSUME NEW k \in 0 .. n + 1 PROVE g[k] = h[k]
    <3>1. CASE k = n + 1
      BY <2>2, <3>1
    <3>2. CASE k \in 0 .. n /\ k # 0
      <4>1. k - 1 \in 0 .. n + 1 /\ k - 1 # n + 1 /\ k # n + 1
        BY <2>2, <3>2
      <4>2. f[k] = Reached(pg, stop, f[k - 1])
        BY <2>1, <3>2 DEF Rounds
      <4> QED
        BY <3>2, <4>1, <4>2
    <3>3. CASE k = 0
      <4>1. f[0] = {p} \ {0}
        BY <2>1, <2>2 DEF Rounds
      <4> QED
        BY <2>2, <3>3, <4>1
    <3> QED
      BY <2>2, <3>1, <3>2, <3>3
  <2>4. g = h
    BY <2>3
  <2>5. Rounds(pg, p, stop, n + 1, g)
    BY <2>4 DEF Rounds
  <2> HIDE DEF g
  <2> QED
    BY <2>2, <2>5
<1> HIDE DEF S
<1>3. S \in SUBSET Nat
  BY DEF S
<1>4. \A n \in Nat : n \in S
  BY <1>1, <1>2, <1>3, Induction
<1> QED
  BY <1>4 DEF S

WalksBy(pg, p, stop, f) ==
  /\ f[0] = {p} \ {0}
  /\ \A k \in 1 .. NBlocks + 1 : f[k] = Reached(pg, stop, f[k - 1])
  /\ Walk(pg, p, stop) = f[NBlocks + 1]

LEMMA WalkRounds ==
  ASSUME NEW pg, NEW p, NEW stop
  PROVE  \E f : WalksBy(pg, p, stop, f)
<1> DEFINE f == CHOOSE f : f = [k \in 0 .. NBlocks + 1 |->
                             IF k = 0 THEN {p} \ {0} ELSE Reached(pg, stop, f[k - 1])]
<1>1. NBlocks + 1 \in Nat
  BY ParameterAssumption
<1>2. \E g : Rounds(pg, p, stop, NBlocks + 1, g)
  BY <1>1, RoundsExist
<1>3. \E g : g = [k \in 0 .. NBlocks + 1 |->
                    IF k = 0 THEN {p} \ {0} ELSE Reached(pg, stop, g[k - 1])]
  BY <1>2, Zenon DEF Rounds
<1>4. f = [k \in 0 .. NBlocks + 1 |-> IF k = 0 THEN {p} \ {0} ELSE Reached(pg, stop, f[k - 1])]
  BY <1>3, Zenon
<1>5. Walk(pg, p, stop) = f[NBlocks + 1]
  BY Zenon DEF Walk
<1> HIDE DEF f
<1>6. f[0] = {p} \ {0}
  BY <1>1, <1>4
<1>7. ASSUME NEW k \in 1 .. NBlocks + 1 PROVE f[k] = Reached(pg, stop, f[k - 1])
  <2>1. k \in 0 .. NBlocks + 1 /\ k # 0
    BY <1>1
  <2> QED
    BY <1>4, <2>1, Zenon
<1>8. WalksBy(pg, p, stop, f)
  BY <1>5, <1>6, <1>7 DEF WalksBy
<1> QED
  BY <1>8, Zenon

(* A walk stays within every set that holds its start and, up to stop, the *)
(* successors of its members.                                              *)
LEMMA WalkWithin ==
  ASSUME NEW pg, NEW p, NEW stop, NEW S,
         p \in S \cup {0},
         \A q \in S \ {stop} : pg[q][NEXT] \in S \cup {0}
  PROVE  Walk(pg, p, stop) \subseteq S \ {0}
<1>1. PICK f : WalksBy(pg, p, stop, f)
  BY WalkRounds, Zenon
<1>2. NBlocks + 1 \in Nat
  BY ParameterAssumption
<1> DEFINE T == {k \in Nat : k <= NBlocks + 1 => f[k] \subseteq S \ {0}}
<1>3. 0 \in T
  BY <1>1 DEF WalksBy
<1>4. ASSUME NEW n \in T PROVE n + 1 \in T
  <2> SUFFICES ASSUME n + 1 <= NBlocks + 1 PROVE f[n + 1] \subseteq S \ {0}
    OBVIOUS
  <2>1. f[n] \subseteq S \ {0}
    BY <1>2
  <2>2. n + 1 \in 1 .. NBlocks + 1 /\ (n + 1) - 1 = n
    BY <1>2
  <2>3. f[n + 1] = Reached(pg, stop, f[n])
    BY <1>1, <2>2 DEF WalksBy
  <2> QED
    BY <2>1, <2>3 DEF Reached
<1>5. T \in SUBSET Nat
  OBVIOUS
<1> HIDE DEF T
<1>6. NBlocks + 1 \in T
  BY <1>2, <1>3, <1>4, <1>5, Induction
<1>7. f[NBlocks + 1] \subseteq S \ {0}
  <2> USE DEF T
  <2> QED
    BY <1>2, <1>6
<1> QED
  BY <1>1, <1>7 DEF WalksBy

(* If blocks lead only to blocks, the chain of one of them is long enough  *)
(* to hold all its successors: each round that adds nothing is the last,   *)
(* and there are no more rounds that add something than there are blocks.  *)
Leads(pg, S, p) ==
  /\ S \subseteq Bucket /\ p \in S \cup {0}
  /\ \A q \in S : pg[q][NEXT] \in S \cup {0}

LEMMA WalkClosed ==
  ASSUME NEW pg, NEW p, NEW S, Leads(pg, S, p)
  PROVE  /\ Walk(pg, p, 0) \subseteq S
         /\ p # 0 => p \in Walk(pg, p, 0)
         /\ \A q \in Walk(pg, p, 0) : pg[q][NEXT] \in Walk(pg, p, 0) \cup {0}
<1>1. PICK f : WalksBy(pg, p, 0, f)
  BY WalkRounds, Zenon
<1>2. NBlocks + 1 \in Nat /\ NBlocks \in Nat
  BY ParameterAssumption
<1>3. 0 \notin Bucket /\ IsFiniteSet(Bucket) /\ Cardinality(Bucket) = NBlocks
  <2>1. FirstBlock \in Nat \ {0}
    BY PageWords
  <2>2. Sentinel - 1 \in Int /\ Sentinel - 1 - FirstBlock + 1 = NBlocks
    BY <2>1, <1>2 DEF Sentinel
  <2> QED
    BY <1>2, <2>1, <2>2, FS_Interval DEF Bucket
<1>4. 0 \notin S /\ IsFiniteSet(S) /\ Cardinality(S) \in Nat /\ Cardinality(S) <= NBlocks
  BY <1>3, FS_Subset, FS_CardinalityType DEF Leads
<1> DEFINE closed(A) == \A q \in A : pg[q][NEXT] \in A \cup {0}
           large(k) == IsFiniteSet(f[k]) /\ Cardinality(f[k]) \in Nat /\ Cardinality(f[k]) >= k + 1
           T == {k \in Nat : k <= NBlocks + 1 =>
                   /\ f[k] \subseteq S /\ (p # 0 => p \in f[k])
                   /\ closed(f[k]) \/ large(k)}
<1>5. 0 \in T
  <2>1. f[0] = {p} \ {0}
    BY <1>1 DEF WalksBy
  <2>2. CASE p = 0
    BY <2>1, <2>2
  <2>3. CASE p # 0
    <3>1. f[0] = {p}
      BY <2>1, <2>3
    <3>2. large(0)
      <4>1. IsFiniteSet({p}) /\ Cardinality({p}) = 1
        BY ONLY FS_Singleton
      <4> QED
        BY ONLY <3>1, <4>1
    <3> HIDE DEF large, closed
    <3> QED
      BY <3>1, <3>2, <2>3 DEF Leads
  <2> QED
    BY <2>2, <2>3
<1>6. ASSUME NEW n \in T PROVE n + 1 \in T
  <2> SUFFICES ASSUME n + 1 <= NBlocks + 1
               PROVE  /\ f[n + 1] \subseteq S /\ (p # 0 => p \in f[n + 1])
                      /\ closed(f[n + 1]) \/ large(n + 1)
    OBVIOUS
  <2>1. n \in Nat /\ n <= NBlocks + 1
    BY <1>2
  <2>2. f[n] \subseteq S /\ (p # 0 => p \in f[n]) /\ (closed(f[n]) \/ large(n))
    BY <1>2, <2>1
  <2>3. n + 1 \in 1 .. NBlocks + 1 /\ (n + 1) - 1 = n
    BY <1>2
  <2>4. f[n + 1] = Reached(pg, 0, f[n])
    BY <1>1, <2>3 DEF WalksBy
  <2>5. f[n + 1] = (f[n] \cup {pg[q][NEXT] : q \in f[n]}) \ {0}
    BY <1>4, <2>2, <2>4 DEF Reached
  <2>6. f[n + 1] \subseteq S /\ f[n] \subseteq f[n + 1] /\ (p # 0 => p \in f[n + 1])
    BY <1>4, <2>2, <2>5 DEF Leads
  <2>7. CASE closed(f[n])
    <3>1. f[n + 1] = f[n]
      BY <1>4, <2>2, <2>5, <2>7
    <3> QED
      BY <2>6, <2>7, <3>1
  <2>8. CASE large(n) /\ ~closed(f[n])
    <3>1. PICK q \in f[n] : pg[q][NEXT] \notin f[n] /\ pg[q][NEXT] # 0
      BY <2>8
    <3>2. pg[q][NEXT] \in f[n + 1]
      BY <2>5, <3>1
    <3>3. IsFiniteSet(f[n + 1]) /\ Cardinality(f[n + 1]) \in Nat
      BY <1>4, <2>6, FS_Subset, FS_CardinalityType
    <3>4. Cardinality(f[n]) < Cardinality(f[n + 1])
      <4> DEFINE A == f[n]
                 B == f[n + 1]
      <4>1. A \in SUBSET B /\ A # B /\ IsFiniteSet(B) /\ Cardinality(B) \in Nat
        BY <2>6, <3>1, <3>2, <3>3
      <4>2. Cardinality(A) \in Nat
        BY <2>8
      <4> HIDE DEF A, B
      <4> QED
        BY <4>1, <4>2, FS_Subset DEF A, B
    <3>5. large(n + 1)
      BY <2>1, <2>8, <3>3, <3>4
    <3> HIDE DEF large, closed
    <3> QED
      BY <2>6, <3>5
  <2> HIDE DEF large, closed
  <2> QED
    BY <2>2, <2>7, <2>8
<1>7. T \in SUBSET Nat
  OBVIOUS
<1> HIDE DEF T
<1>8. NBlocks + 1 \in T
  BY <1>2, <1>5, <1>6, <1>7, Induction
<1>9. /\ f[NBlocks + 1] \subseteq S /\ (p # 0 => p \in f[NBlocks + 1])
      /\ closed(f[NBlocks + 1]) \/ large(NBlocks + 1)
  <2> HIDE DEF closed, large
  <2> USE DEF T
  <2> QED
    BY <1>2, <1>8
<1>10. ~large(NBlocks + 1)
  BY <1>2, <1>4, <1>9, FS_Subset
<1> QED
  BY <1>1, <1>9, <1>10 DEF WalksBy

LEMMA WalkFromNull ==
  ASSUME NEW pg PROVE Walk(pg, 0, 0) = {}
  BY WalkWithin

(* A chain is its first block and the chain of that block's successor.     *)
LEMMA WalkUnfolds ==
  ASSUME NEW pg, NEW S, NEW p \in S, Leads(pg, S, p)
  PROVE  Walk(pg, p, 0) = {p} \cup Walk(pg, pg[p][NEXT], 0)
<1> DEFINE n == pg[p][NEXT]
           V == Walk(pg, p, 0)
           U == Walk(pg, n, 0)
<1>1. Leads(pg, S, n) /\ p # 0
  BY PageWords DEF Leads, Bucket
<1>2. p \in V /\ n \in V \cup {0} /\ \A q \in V : pg[q][NEXT] \in V \cup {0}
  BY <1>1, WalkClosed
<1>3. (n # 0 => n \in U) /\ \A q \in U : pg[q][NEXT] \in U \cup {0}
  BY <1>1, WalkClosed
<1>4. U \subseteq V \ {0}
  <2> HIDE DEF V
  <2> QED
    BY <1>2, WalkWithin
<1>5. V \subseteq {p} \cup U
  <2> DEFINE X == {p} \cup U
  <2>1. p \in X \cup {0} /\ \A q \in X \ {0} : pg[q][NEXT] \in X \cup {0}
    BY <1>3
  <2> HIDE DEF X
  <2>2. V \subseteq X \ {0}
    BY <2>1, WalkWithin
  <2> QED
    BY <2>2 DEF X
<1> QED
  BY <1>2, <1>4, <1>5

LEMMA WalkOfTail ==
  ASSUME NEW pg, NEW p \in Bucket, pg[p][NEXT] = 0
  PROVE  Walk(pg, p, 0) = {p}
<1>1. Leads(pg, {p}, p)
  BY DEF Leads
<1> QED
  BY <1>1, WalkUnfolds, WalkFromNull

LEMMA WalkInner ==
  ASSUME NEW pg, NEW p, NEW S, Leads(pg, S, p), NEW q \in Walk(pg, p, 0)
  PROVE  Leads(pg, S, q) /\ q \in S /\ q # 0
<1>1. q \in S
  BY WalkClosed
<1>2. 0 \notin Bucket
  BY PageWords DEF Bucket
<1> QED
  BY <1>1, <1>2 DEF Leads

(* Of two blocks of a chain one is reached from the other.                 *)
LEMMA WalkLinear ==
  ASSUME NEW pg, NEW p, NEW S, Leads(pg, S, p),
         NEW q \in Walk(pg, p, 0), NEW r \in Walk(pg, p, 0)
  PROVE  q \in Walk(pg, r, 0) \/ r \in Walk(pg, q, 0)
<1> DEFINE V == Walk(pg, p, 0)
           U == Walk(pg, q, 0)
           X == {x \in V : q \in Walk(pg, x, 0)} \cup U
<1>1. Leads(pg, S, q) /\ q # 0
  BY WalkInner
<1>2. q \in U /\ \A x \in U : pg[x][NEXT] \in U \cup {0}
  BY <1>1, WalkClosed
<1>3. \A x \in V : pg[x][NEXT] \in V \cup {0}
  BY WalkClosed
<1>4. p \in X
  <2>1. p # 0
    BY WalkFromNull
  <2> QED
    BY <2>1, WalkClosed
<1>5. ASSUME NEW x \in X, x \notin U PROVE pg[x][NEXT] \in X \cup {0}
  <2>1. x \in V /\ q \in Walk(pg, x, 0) /\ x # q
    BY <1>2, <1>5
  <2>2. Leads(pg, S, x) /\ x \in S
    BY <2>1, WalkInner
  <2>3. q \in Walk(pg, pg[x][NEXT], 0)
    BY <2>1, <2>2, WalkUnfolds
  <2> QED
    BY <1>3, <2>1, <2>3
<1>6. V \subseteq X
  <2>1. \A x \in X \ {0} : pg[x][NEXT] \in X \cup {0}
    BY <1>2, <1>5
  <2> HIDE DEF X
  <2> QED
    BY <1>4, <2>1, WalkWithin
<1> QED
  BY <1>6

(* A chain has one last block, and one block before that.                  *)
LEMMA OneTail ==
  ASSUME NEW pg, NEW p, NEW S, Leads(pg, S, p),
         NEW t \in Walk(pg, p, 0), NEW u \in Walk(pg, p, 0),
         pg[t][NEXT] = 0, pg[u][NEXT] = 0
  PROVE  t = u
<1>1. t \in Bucket /\ u \in Bucket
  BY WalkInner DEF Leads
<1>2. Walk(pg, t, 0) = {t} /\ Walk(pg, u, 0) = {u}
  BY <1>1, WalkOfTail
<1> QED
  BY <1>2, WalkLinear

LEMMA OneBefore ==
  ASSUME NEW pg, NEW p, NEW S, Leads(pg, S, p), NEW t \in Walk(pg, p, 0), pg[t][NEXT] = 0,
         NEW q \in Walk(pg, p, 0), NEW r \in Walk(pg, p, 0),
         pg[q][NEXT] = t, pg[r][NEXT] = t
  PROVE  q = r
<1>1. t # 0 /\ t \in Bucket
  BY WalkInner DEF Leads
<1>2. Leads(pg, S, q) /\ Leads(pg, S, r) /\ q \in S /\ r \in S
  BY WalkInner
<1>3. Walk(pg, q, 0) = {q, t} /\ Walk(pg, r, 0) = {r, t}
  BY <1>1, <1>2, WalkUnfolds, WalkOfTail
<1> QED
  BY <1>1, <1>3, WalkLinear

(* The block before the last, when there is one.                           *)
LEMMA Before ==
  ASSUME NEW pg, NEW p, NEW S, Leads(pg, S, p), NEW t \in Walk(pg, p, 0), t # p
  PROVE  \E q \in Walk(pg, p, 0) : pg[q][NEXT] = t
<1> SUFFICES ASSUME \A q \in Walk(pg, p, 0) : pg[q][NEXT] # t PROVE FALSE
  OBVIOUS
<1> DEFINE X == Walk(pg, p, 0) \ {t}
<1>1. p # 0
  BY WalkFromNull
<1>2. p \in X /\ \A q \in X \ {0} : pg[q][NEXT] \in X \cup {0}
  BY <1>1, WalkClosed
<1> HIDE DEF X
<1>3. Walk(pg, p, 0) \subseteq X
  BY <1>2, WalkWithin
<1> QED
  BY <1>3 DEF X

(* What the stores into next do to a chain: nothing, to one that has none  *)
(* of the blocks concerned; a new last block; the last block cut off.      *)
LEMMA WalkUntouched ==
  ASSUME NEW pg, NEW p, NEW S, Leads(pg, S, p), NEW pg2,
         \A q \in Walk(pg, p, 0) : pg2[q][NEXT] = pg[q][NEXT]
  PROVE  Walk(pg2, p, 0) = Walk(pg, p, 0)
<1> DEFINE V == Walk(pg, p, 0)
           U == Walk(pg2, p, 0)
<1>1. /\ V \subseteq S /\ (p # 0 => p \in V)
      /\ \A q \in V : pg[q][NEXT] \in V \cup {0}
  BY WalkClosed
<1>2. Leads(pg2, V, p)
  BY <1>1 DEF Leads
<1>3. /\ U \subseteq V /\ (p # 0 => p \in U)
      /\ \A q \in U : pg2[q][NEXT] \in U \cup {0}
  <2> HIDE DEF V
  <2> QED
    BY <1>2, WalkClosed
<1>4. \A q \in U \ {0} : pg[q][NEXT] \in U \cup {0}
  BY <1>3
<1>5. V \subseteq U
  <2>1. p \in U \cup {0}
    BY <1>3
  <2> HIDE DEF U
  <2> QED
    BY <1>4, <2>1, WalkWithin
<1> QED
  BY <1>3, <1>5

LEMMA WalkExtended ==
  ASSUME NEW pg, NEW p, NEW S, Leads(pg, S, p), NEW t \in Walk(pg, p, 0), pg[t][NEXT] = 0,
         NEW pg2, NEW n \in Bucket, n \notin Walk(pg, p, 0),
         pg2[t][NEXT] = n, pg2[n][NEXT] = 0,
         \A q \in Walk(pg, p, 0) \ {t} : pg2[q][NEXT] = pg[q][NEXT]
  PROVE  Walk(pg2, p, 0) = Walk(pg, p, 0) \cup {n}
<1> DEFINE V == Walk(pg, p, 0)
           U == Walk(pg2, p, 0)
<1>1. /\ V \subseteq Bucket /\ (p # 0 => p \in V)
      /\ \A q \in V : pg[q][NEXT] \in V \cup {0}
  BY WalkClosed DEF Leads
<1>2. p # 0 /\ n # 0
  BY WalkFromNull, PageWords DEF Bucket
<1>3. Leads(pg2, V \cup {n}, p)
  BY <1>1 DEF Leads
<1>4. /\ U \subseteq V \cup {n} /\ p \in U
      /\ \A q \in U : pg2[q][NEXT] \in U \cup {0}
  <2> HIDE DEF V
  <2> QED
    BY <1>2, <1>3, WalkClosed
<1>5. V \subseteq U
  <2> DEFINE X == U \cap V
  <2>1. \A q \in X : pg[q][NEXT] \in X \cup {0}
    BY <1>1, <1>4
  <2>2. p \in X
    BY <1>1, <1>2, <1>4
  <2> HIDE DEF X
  <2>3. V \subseteq X
    BY <2>1, <2>2, WalkWithin
  <2> QED
    BY <2>3 DEF X
<1>6. n \in U
  BY <1>2, <1>4, <1>5
<1> QED
  BY <1>4, <1>5, <1>6

LEMMA WalkCut ==
  ASSUME NEW pg, NEW p, NEW S, Leads(pg, S, p),
         NEW u \in Walk(pg, p, 0), NEW t \in Walk(pg, p, 0), p # t,
         pg[u][NEXT] = t, pg[t][NEXT] = 0,
         NEW pg2, pg2[u][NEXT] = 0,
         \A q \in Walk(pg, p, 0) \ {u, t} : pg2[q][NEXT] = pg[q][NEXT]
  PROVE  Walk(pg2, p, 0) = Walk(pg, p, 0) \ {t}
<1> DEFINE V == Walk(pg, p, 0)
           U == Walk(pg2, p, 0)
<1>1. /\ V \subseteq Bucket /\ (p # 0 => p \in V)
      /\ \A q \in V : pg[q][NEXT] \in V \cup {0}
  BY WalkClosed DEF Leads
<1>2. p # 0 /\ t # 0
  BY <1>1, WalkFromNull, PageWords DEF Bucket
<1>3. \A q \in V \ {u} : pg[q][NEXT] # t
  BY OneBefore
<1>4. Leads(pg2, V \ {t}, p)
  BY <1>1, <1>2, <1>3 DEF Leads
<1>5. /\ U \subseteq V \ {t} /\ p \in U
      /\ \A q \in U : pg2[q][NEXT] \in U \cup {0}
  <2> HIDE DEF V
  <2> QED
    BY <1>2, <1>4, WalkClosed
<1>6. V \subseteq U \cup {t}
  <2> DEFINE X == U \cup {t}
  <2>1. \A q \in X : pg[q][NEXT] \in X \cup {0}
    BY <1>5
  <2>2. p \in X
    BY <1>5
  <2> HIDE DEF X
  <2>3. V \subseteq X
    BY <2>1, <2>2, WalkWithin
  <2> QED
    BY <2>3 DEF X
<1> QED
  BY <1>5, <1>6

-----------------------------------------------------------------------------
(* The directory words of two sizes are two words, and none of the control *)
(* block's fields.                                                         *)
LEMMA DivMod ==
  ASSUME NEW d \in Nat \ {0}, NEW q \in Int, NEW r \in 0 .. d - 1
  PROVE  (d * q + r) \div d = q /\ (d * q + r) % d = r
  OBVIOUS

LEMMA Divided ==
  ASSUME NEW d \in Nat \ {0}, NEW a \in Int, NEW b \in Int, d * a < d * b
  PROVE  a < b
<1> SUFFICES ASSUME b <= a PROVE FALSE
  OBVIOUS
<1>1. PICK k \in Nat : a = b + k
  <2>1. a - b \in Nat /\ a = b + (a - b)
    OBVIOUS
  <2> QED
    BY <2>1
<1>2. d * a = d * b + d * k /\ d * k \in Nat /\ d * b \in Int
  BY <1>1
<1> QED
  BY <1>2

LEMMA DirectoryOfSize ==
  ASSUME NEW s \in 0 .. MaxSize - 1
  PROVE  DirPage(s) = s \div W + 1 /\ DirWord(s) = s % W
<1> DEFINE M == 2 ^ SizeBits
           K == M \div PageSize
<1>1. M \in Int /\ M % PageSize = 0 /\ PageSize * PageSize < M
  BY ParameterAssumption
<1>2. PageSize \in Nat \ {0} /\ MaxSize = PageSize /\ MaxSize = W * OffSize
  BY PageWords
<1> HIDE DEF M
<1>3. K \in Int /\ M = PageSize * K
  BY <1>1, <1>2
<1> HIDE DEF K
<1>4. PageSize < K /\ K \in Nat \ {0}
  <2>1. PageSize * PageSize < PageSize * K
    BY <1>1, <1>3
  <2>2. PageSize \in Nat \ {0} /\ PageSize \in Int
    BY <1>2
  <2>3. PageSize < K
    BY <1>3, <2>1, <2>2, Divided
  <2> QED
    BY <1>3, <2>2, <2>3
<1>5. PageSize <= PageSize * PageSize
  BY <1>2
<1>6. s \in 0 .. M - 1
  BY <1>1, <1>2, <1>5
<1>7. Unsigned(s) = s
  <2>1. s % M = s
    BY <1>1, <1>6
  <2> QED
    BY <2>1 DEF Unsigned, M
<1> DEFINE q == s \div W
           r == s % W
<1>8. W \in Nat \ {0} /\ OffSize \in Nat \ {0}
  BY PageWords
<1>9. q \in Int /\ r \in 0 .. W - 1 /\ s = W * q + r
  BY <1>8
<1> HIDE DEF q, r
<1>10. 0 <= q /\ q < OffSize
  BY <1>2, <1>8, <1>9
<1>11. OffSize <= W * OffSize
  BY <1>8
<1>12. q + 1 \in 0 .. K - 1
  BY <1>2, <1>3, <1>4, <1>8, <1>9, <1>10, <1>11
<1>13. (q + 1) % K = q + 1
  BY <1>2, <1>3, <1>4, <1>12
<1> QED
  BY <1>7, <1>13 DEF DirPage, DirWord, M, K, q, r

LEMMA DirectoryOfWrapped ==
  ASSUME NEW s \in -4 .. -1
  PROVE  DirPage(s) = 0 /\ DirWord(s) = W + s
<1> DEFINE M == 2 ^ SizeBits
           K == M \div PageSize
<1>1. M \in Int /\ M % PageSize = 0 /\ PageSize * PageSize < M
  BY ParameterAssumption
<1>2. PageSize \in Nat \ {0} /\ PageSize = W * OffSize /\ W \in Nat /\ W >= 8 /\ OffSize \in Nat \ {0}
  BY PageWords
<1> HIDE DEF M
<1>3. K \in Int /\ M = PageSize * K
  BY <1>1, <1>2
<1> HIDE DEF K
<1>4. PageSize < K /\ K \in Nat \ {0}
  <2>1. PageSize * PageSize < PageSize * K
    BY <1>1, <1>3
  <2>2. PageSize \in Nat \ {0} /\ PageSize \in Int
    BY <1>2
  <2>3. PageSize < K
    BY <1>3, <2>1, <2>2, Divided
  <2> QED
    BY <1>3, <2>2, <2>3
<1>5. W <= PageSize /\ PageSize <= PageSize * PageSize
  BY <1>2
<1>6. M + s \in 0 .. M - 1
  BY <1>1, <1>2, <1>5
<1>7. s = M * (-1) + (M + s)
  BY <1>1
<1>8. Unsigned(s) = M + s
  <2>1. M \in Nat \ {0}
    BY <1>1, <1>6
  <2>2. s % M = M + s
    BY <1>6, <1>7, <2>1, DivMod, SMTT(30)
  <2> QED
    BY <2>2 DEF Unsigned, M
<1> DEFINE q == OffSize * K - 1
<1>9. q \in Int /\ W + s \in 0 .. W - 1
  BY <1>2, <1>3
<1>10. M + s = W * q + (W + s)
  <2>1. W * q = W * (OffSize * K) - W
    BY <1>2, <1>3
  <2>2. W * (OffSize * K) = PageSize * K
    BY <1>2, <1>3
  <2>3. W * (OffSize * K) \in Int
    BY <1>2, <1>3
  <2> HIDE DEF q
  <2> QED
    BY <1>1, <1>2, <1>3, <2>1, <2>2, <2>3
<1>11. (M + s) \div W = q /\ (M + s) % W = W + s
  <2> HIDE DEF q
  <2>1. W \in Nat \ {0}
    BY <1>2
  <2>2. (W * q + (W + s)) \div W = q /\ (W * q + (W + s)) % W = W + s
    BY <1>9, <2>1, DivMod
  <2> QED
    BY <1>10, <2>2
<1>12. (q + 1) % K = 0
  <2>1. q + 1 = K * OffSize + 0
    BY <1>2, <1>3
  <2>2. 0 \in 0 .. K - 1
    BY <1>4
  <2> QED
    BY <1>2, <1>4, <2>1, <2>2, DivMod
<1> HIDE DEF q
<1> QED
  BY <1>8, <1>11, <1>12 DEF DirPage, DirWord, M, K

LEMMA IndexRange ==
  ASSUME NEW s \in Index PROVE s \in -4 .. -1 \/ s \in 0 .. MaxSize - 1
  BY ParameterAssumption, PageWords DEF Index

LEMMA DirectoryWords ==
  /\ \A s \in Index :
       /\ DirPage(s) \in 0 .. NDirs /\ DirWord(s) \in Word
       /\ DirPage(s) = 0 => DirWord(s) \notin {HEAD, NDIRS, MAXSIZE, LAST}
  /\ \A s, t \in Index : DirPage(s) = DirPage(t) /\ DirWord(s) = DirWord(t) => s = t
<1>1. W \in Nat /\ W >= 8 /\ NDirs = OffSize /\ OffSize \in Nat \ {0} /\ MaxSize = W * OffSize
  BY PageWords
<1>2. ASSUME NEW s \in 0 .. MaxSize - 1
      PROVE  s \div W \in 0 .. NDirs - 1 /\ s % W \in Word /\ s = W * (s \div W) + (s % W)
  <2>1. s \in Nat /\ W \in Nat \ {0}
    BY <1>1
  <2>2. s \div W \in Int /\ s % W \in 0 .. W - 1 /\ s = W * (s \div W) + (s % W)
    BY <2>1
  <2> DEFINE q == s \div W
             r == s % W
  <2> HIDE DEF q, r
  <2>3. q \in Int /\ r \in 0 .. W - 1 /\ s = W * q + r /\ s < W * OffSize
    BY <1>1, <2>1, <2>2 DEF q, r
  <2>4. 0 <= q /\ q < OffSize
    BY <1>1, <2>1, <2>3
  <2> QED
    BY <1>1, <2>2, <2>4 DEF Word, q
<1>3. ASSUME NEW s \in Index
      PROVE  /\ DirPage(s) \in 0 .. NDirs /\ DirWord(s) \in Word
             /\ DirPage(s) = 0 => DirWord(s) \notin {HEAD, NDIRS, MAXSIZE, LAST}
  <2>1. CASE s \in 0 .. MaxSize - 1
    BY <1>1, <1>2, <2>1, DirectoryOfSize
  <2>2. CASE s \in -4 .. -1
    BY <1>1, <2>2, DirectoryOfWrapped DEF Word, HEAD, NDIRS, MAXSIZE, LAST
  <2> QED
    BY <2>1, <2>2, IndexRange
<1>4. ASSUME NEW s \in Index, NEW t \in Index, DirPage(s) = DirPage(t), DirWord(s) = DirWord(t)
      PROVE  s = t
  <2>1. CASE s \in 0 .. MaxSize - 1 /\ t \in 0 .. MaxSize - 1
    <3>1. s \div W + 1 = t \div W + 1 /\ s % W = t % W
      BY <1>4, <2>1, DirectoryOfSize
    <3>2. s \div W \in Int /\ t \div W \in Int
      BY <1>1, <1>2, <2>1
    <3>3. s \div W = t \div W
      BY <3>1, <3>2
    <3> QED
      BY <1>2, <2>1, <3>1, <3>3, Zenon
  <2>2. CASE s \in -4 .. -1 /\ t \in -4 .. -1
    BY <1>1, <1>4, <2>2, DirectoryOfWrapped
  <2>3. CASE s \in -4 .. -1 /\ t \in 0 .. MaxSize - 1
    BY <1>1, <1>2, <1>4, <2>3, DirectoryOfSize, DirectoryOfWrapped
  <2>4. CASE s \in 0 .. MaxSize - 1 /\ t \in -4 .. -1
    BY <1>1, <1>2, <1>4, <2>4, DirectoryOfSize, DirectoryOfWrapped
  <2> QED
    BY <2>1, <2>2, <2>3, <2>4, IndexRange
<1> QED
  BY <1>3, <1>4

-----------------------------------------------------------------------------
(* Stores into a page.                                                     *)
LEMMA StoreShape ==
  ASSUME NEW pg, NEW D, IsFile(pg, D), NEW p \in D, NEW w \in Word, NEW v \in Int
  PROVE  LET pg2 == [pg EXCEPT ![p][w] = v] IN
         /\ IsFile(pg2, D) /\ pg2[p][w] = v
         /\ \A q \in D : \A x \in Word : q # p \/ x # w => pg2[q][x] = pg[q][x]
<1> DEFINE pg2 == [pg EXCEPT ![p][w] = v]
<1>1. DOMAIN pg = D /\ \A q \in D : DOMAIN pg[q] = Word /\ pg[q] = [x \in Word |-> pg[q][x]]
  BY DEF IsFile
<1>2. DOMAIN pg2 = D /\ \A q \in D : pg2[q] = IF q = p THEN [pg[p] EXCEPT ![w] = v] ELSE pg[q]
  BY <1>1
<1>3. pg2 = [q \in D |-> pg2[q]]
  BY <1>1
<1> HIDE DEF pg2
<1>4. \A q \in D : pg2[q] = [x \in Word |-> IF q = p /\ x = w THEN v ELSE pg[q][x]]
  BY <1>1, <1>2
<1>5. \A q \in D : \A x \in Word : pg2[q][x] = IF q = p /\ x = w THEN v ELSE pg[q][x]
  BY <1>4, ZenonT(60)
<1>6. \A q \in D : pg2[q] = [x \in Word |-> pg2[q][x]]
  BY <1>4, <1>5
<1>7. pg2 = [q \in D |-> [x \in Word |-> pg2[q][x]]]
  BY <1>3, <1>6
<1>8. IsFile(pg2, D)
  BY <1>5, <1>7 DEF IsFile
<1> QED
  BY <1>5, <1>8 DEF pg2

LEMMA WordNames ==
  HEAD \in Word /\ NEXT \in Word /\ NITEMS \in Word /\ TABLE \in Word
  BY PageWords DEF Word, HEAD, NEXT, NITEMS, TABLE

LEMMA StartShape ==
  ASSUME NEW pg, NEW D, IsFile(pg, D), 0 \in D, NEW p \in D, p # 0, pg[p][NITEMS] = 0,
         NEW b \in Int
  PROVE  LET pg2 == StartBlock(pg, p, b) IN
         /\ IsFile(pg2, D) /\ pg2[0][HEAD] = pg[p][NEXT]
         /\ pg2[p][NEXT] = 0 /\ pg2[p][NITEMS] = 1 /\ pg2[p][TABLE] = b
         /\ \A q \in D : \A x \in Word :
              (q # 0 \/ x # HEAD) /\ (q # p \/ x \notin {NEXT, NITEMS, TABLE})
                => pg2[q][x] = pg[q][x]
<1> DEFINE one == [pg EXCEPT ![0][HEAD] = pg[p][NEXT]]
           two == [one EXCEPT ![p][NEXT] = 0]
           three == [two EXCEPT ![p][TABLE] = b]
           four == [three EXCEPT ![p][NITEMS] = pg[p][NITEMS] + 1]
<1>1. StartBlock(pg, p, b) = four
  BY Zenon DEF StartBlock
<1>2. /\ IsFile(one, D) /\ one[0][HEAD] = pg[p][NEXT]
      /\ \A q \in D : \A x \in Word : q # 0 \/ x # HEAD => one[q][x] = pg[q][x]
  <2>1. pg[p][NEXT] \in Int
    BY WordNames DEF IsFile
  <2> QED
    BY <2>1, StoreShape, WordNames
<1> HIDE DEF one
<1>3. /\ IsFile(two, D) /\ two[p][NEXT] = 0
      /\ \A q \in D : \A x \in Word : q # p \/ x # NEXT => two[q][x] = one[q][x]
  BY <1>2, StoreShape, WordNames, SMTT(30)
<1> HIDE DEF two
<1>4. /\ IsFile(three, D) /\ three[p][TABLE] = b
      /\ \A q \in D : \A x \in Word : q # p \/ x # TABLE => three[q][x] = two[q][x]
  BY <1>3, StoreShape, WordNames, SMTT(30)
<1> HIDE DEF three
<1>6. pg[p][NITEMS] + 1 = 1
  OBVIOUS
<1>7. /\ IsFile(four, D) /\ four[p][NITEMS] = 1
      /\ \A q \in D : \A x \in Word : q # p \/ x # NITEMS => four[q][x] = three[q][x]
  BY <1>4, <1>6, StoreShape, WordNames
<1> HIDE DEF four
<1> QED
  BY <1>1, <1>2, <1>3, <1>4, <1>7, WordNames DEF NEXT, NITEMS, TABLE, HEAD

-----------------------------------------------------------------------------
(* What the invariant says of the chains.                                  *)
LEMMA PlacesOfPages ==
  ASSUME FileTyped, BlocksKept
  PROVE  /\ 0 \in Pages /\ Bucket \subseteq Pages /\ 0 \notin Bucket
         /\ \A s \in Index : DirPage(s) \in Pages /\ DirPage(s) \notin Bucket
         /\ Head \in Int /\ Used \subseteq Bucket
         /\ IsFile(pages, Pages)
<1>1. FirstBlock \in Nat \ {0} /\ Sentinel \in Nat /\ FirstBlock < Sentinel /\ FirstBlock = NDirs + 1
  BY PageWords DEF FirstBlock
<1>2. NDirs \in Nat
  BY PageWords
<1>3. \A s \in Index : DirPage(s) \in 0 .. NDirs
  BY DirectoryWords
<1>4. 0 .. Sentinel - 1 \subseteq Pages /\ IsFile(pages, Pages)
  BY <1>1 DEF FileTyped
<1>5. Bucket \subseteq 0 .. Sentinel - 1 /\ 0 .. NDirs \subseteq 0 .. Sentinel - 1
  BY <1>1, <1>2 DEF Bucket
<1>6. 0 .. NDirs \cap Bucket = {} /\ 0 \in 0 .. NDirs
  BY <1>1, <1>2 DEF Bucket
<1>7. Head \in FirstBlock .. Sentinel
  BY DEF BlocksKept
<1>8. Head \in Int /\ Used \subseteq Bucket
  BY <1>1, <1>7 DEF Used, Bucket
<1> QED
  BY <1>3, <1>4, <1>5, <1>6, <1>8

LEMMA ChainFacts ==
  ASSUME MapInv, NEW s \in Size
  PROVE  /\ Leads(pages, Used, Directory(s))
         /\ Chained(s) = Walk(pages, Directory(s), 0)
         /\ Chained(s) \subseteq Used
         /\ Directory(s) # 0 => Directory(s) \in Chained(s)
         /\ Directory(s) = 0 => Chained(s) = {}
         /\ \A q \in Chained(s) :
              /\ pages[q][NEXT] \in Chained(s) \cup {0}
              /\ NItems(q) \in 1 .. Capacity
              /\ pages[q][NEXT] # 0 => NItems(q) = Capacity
<1>1. Leads(pages, Used, Directory(s))
  BY PlacesOfPages DEF MapInv, DirectoryKept, BlocksKept, Leads
<1>2. Chained(s) = Walk(pages, Directory(s), 0)
  BY DEF Chained, Chain
<1>3. /\ Chained(s) \subseteq Used
      /\ Directory(s) # 0 => Directory(s) \in Chained(s)
      /\ \A q \in Chained(s) : pages[q][NEXT] \in Chained(s) \cup {0}
  BY <1>1, <1>2, WalkClosed
<1>4. Directory(s) = 0 => Chained(s) = {}
  BY <1>2, WalkFromNull
<1>5. Capacity \in 1 .. Capacity
  BY ParameterAssumption
<1>6. \A q \in Chained(s) :
        /\ NItems(q) \in 1 .. Capacity
        /\ pages[q][NEXT] # 0 => NItems(q) = Capacity
  BY <1>4, <1>5 DEF MapInv, ChainsPacked
<1> QED
  BY <1>1, <1>2, <1>3, <1>4, <1>6

LEMMA TailFacts ==
  ASSUME MapInv, NEW s \in Size, NEW t \in Tails(Directory(s))
  PROVE  /\ t \in Chained(s) /\ t \in Used /\ t \in Bucket /\ pages[t][NEXT] = 0
         /\ NItems(t) \in 1 .. Capacity /\ Directory(s) # 0
         /\ \A q \in Chained(s) \ {t} : pages[q][NEXT] # 0 /\ NItems(q) = Capacity
<1>1. t \in Chained(s) /\ pages[t][NEXT] = 0
  BY DEF Tails, Chained
<1>2. \A q \in Chained(s) \ {t} : pages[q][NEXT] # 0
  BY <1>1, ChainFacts, OneTail
<1> QED
  BY <1>1, <1>2, ChainFacts, PlacesOfPages DEF MapInv

(* The addresses a set of blocks lists, and the pairs of all sizes.        *)
ListedIn(pg, C) == UNION {{pg[p][TABLE + i] : i \in 0 .. pg[p][NITEMS] - 1} : p \in C}

LEMMA ListedMember ==
  ASSUME NEW pg, NEW C, NEW b
  PROVE  b \in ListedIn(pg, C) <=>
           \E p \in C : \E i \in 0 .. pg[p][NITEMS] - 1 : pg[p][TABLE + i] = b
  BY DEF ListedIn

LEMMA ListedUnderIn ==
  /\ \A s : ListedUnder(s) = ListedIn(pages, Chained(s))
  /\ \A s : ListedUnder(s)' = ListedIn(pages', Chained(s)')
  BY DEF ListedUnder, ListedIn, Chained, Items, NItems

Pairs(L) == UNION {{s} \X L[s] : s \in Size}
Listing == [s \in Size |-> ListedUnder(s)]

LEMMA ContentsPairs == Contents = Pairs(Listing) /\ Contents' = Pairs(Listing')
  BY DEF Contents, Pairs, Listing

LEMMA PairsMember ==
  ASSUME NEW L, NEW e
  PROVE  e \in Pairs(L) <=> \E s \in Size : \E b \in L[s] : e = <<s, b>>
  BY DEF Pairs

LEMMA ContentsMember ==
  ASSUME NEW e
  PROVE  e \in Contents <=> \E s \in Size : \E b \in ListedUnder(s) : e = <<s, b>>
<1>1. \A s \in Size : Listing[s] = ListedUnder(s)
  BY DEF Listing
<1> QED
  BY <1>1, ContentsPairs, PairsMember

-----------------------------------------------------------------------------
LEMMA ListedPlace ==
  ASSUME NEW pg, NEW C, NEW b, \A p \in C : pg[p][NITEMS] \in Int
  PROVE  b \in ListedIn(pg, C) <=> \E p, i : Lists(pg, C, p, i) /\ pg[p][TABLE + i] = b
<1>1. ASSUME NEW p, NEW i, Lists(pg, C, p, i) PROVE p \in C /\ i \in 0 .. pg[p][NITEMS] - 1
  BY <1>1 DEF Lists
<1>2. ASSUME NEW p \in C, NEW i \in 0 .. pg[p][NITEMS] - 1 PROVE Lists(pg, C, p, i)
  BY DEF Lists
<1> QED
  BY <1>1, <1>2, ListedMember

LEMMA OnceIf ==
  ASSUME NEW pg, NEW C,
         \A s \in Size : \A p, i : Lists(pg, C[s], p, i) => pg[p][TABLE + i] \in Block,
         \A s, t \in Size : \A p, q, i, j :
           Lists(pg, C[s], p, i) /\ Lists(pg, C[t], q, j) /\ pg[p][TABLE + i] = pg[q][TABLE + j]
             => p = q /\ i = j
  PROVE  Once(pg, C)
BY DEF Once

LEMMA OnceMeans ==
  ASSUME NEW pg, NEW C, Once(pg, C), NEW s \in Size, NEW p, NEW i, Lists(pg, C[s], p, i)
  PROVE  /\ pg[p][TABLE + i] \in Block
         /\ \A t \in Size : \A q, j : Lists(pg, C[t], q, j) /\ pg[p][TABLE + i] = pg[q][TABLE + j]
                                     => p = q /\ i = j
BY DEF Once

(* The chain of s gets an address nobody lists, in place j of block c.     *)
GrowsBy(pg, C, pg2, C2, s, b, c, j) ==
  /\ \A t \in Size : \A p, i : Lists(pg, C[t], p, i) =>
       pg[p][TABLE + i] # b /\ pg2[p][TABLE + i] = pg[p][TABLE + i]
  /\ \A p, i : Lists(pg2, C2[s], p, i) <=> Lists(pg, C[s], p, i) \/ (p = c /\ i = j)
  /\ \A t \in Size \ {s} : \A p, i : Lists(pg2, C2[t], p, i) <=> Lists(pg, C[t], p, i)
  /\ pg2[c][TABLE + j] = b

LEMMA Grows ==
  ASSUME NEW pg, NEW C, Once(pg, C), NEW pg2, NEW C2,
         NEW s \in Size, NEW b \in Block, NEW c, NEW j, GrowsBy(pg, C, pg2, C2, s, b, c, j)
  PROVE  Once(pg2, C2)
<1>1. ASSUME NEW t \in Size, NEW p, NEW i, Lists(pg2, C2[t], p, i)
      PROVE  /\ Lists(pg, C[t], p, i) \/ (p = c /\ i = j)
             /\ pg2[p][TABLE + i] \in Block
             /\ p = c /\ i = j => pg2[p][TABLE + i] = b
             /\ Lists(pg, C[t], p, i) => /\ pg2[p][TABLE + i] = pg[p][TABLE + i]
                                         /\ pg2[p][TABLE + i] # b
  <2>1. Lists(pg, C[t], p, i) \/ (p = c /\ i = j)
    BY <1>1 DEF GrowsBy
  <2>2. CASE Lists(pg, C[t], p, i)
    <3>1. pg2[p][TABLE + i] = pg[p][TABLE + i] /\ pg[p][TABLE + i] # b
      BY <2>2 DEF GrowsBy
    <3>2. pg2[c][TABLE + j] = b
      BY DEF GrowsBy
    <3> QED
      BY <2>2, <3>1, <3>2, OnceMeans
  <2>3. CASE p = c /\ i = j
    BY <2>3 DEF GrowsBy
  <2> QED
    BY <2>1, <2>2, <2>3
<1>2. ASSUME NEW t \in Size, NEW u \in Size, NEW p, NEW q, NEW i, NEW k,
             Lists(pg2, C2[t], p, i), Lists(pg2, C2[u], q, k),
             pg2[p][TABLE + i] = pg2[q][TABLE + k]
      PROVE  p = q /\ i = k
  <2>1. CASE Lists(pg, C[t], p, i) /\ Lists(pg, C[u], q, k)
    <3>1. pg[p][TABLE + i] = pg[q][TABLE + k]
      BY <1>1, <1>2, <2>1
    <3> QED
      BY <2>1, <3>1, OnceMeans
  <2>2. CASE ~(Lists(pg, C[t], p, i) /\ Lists(pg, C[u], q, k))
    BY <1>1, <1>2, <2>2
  <2> QED
    BY <2>1, <2>2
<1> QED
  BY <1>1, <1>2, OnceIf

(* The last address of the chain of s, in place j of block c, takes place  *)
(* i0 of block p0.                                                         *)
ShrinksBy(pg, C, pg2, C2, s, p0, i0, c, j) ==
  /\ Lists(pg, C[s], p0, i0) /\ Lists(pg, C[s], c, j)
  /\ \A t \in Size \ {s} : \A i : ~Lists(pg, C[t], c, i)
  /\ \A p, i : Lists(pg2, C2[s], p, i) <=> Lists(pg, C[s], p, i) /\ ~(p = c /\ i = j)
  /\ \A t \in Size \ {s} : \A p, i : Lists(pg2, C2[t], p, i) <=> Lists(pg, C[t], p, i)
  /\ \A t \in Size : \A p, i : Lists(pg2, C2[t], p, i) =>
       /\ p = p0 /\ i = i0 => pg2[p][TABLE + i] = pg[c][TABLE + j]
       /\ ~(p = p0 /\ i = i0) => pg2[p][TABLE + i] = pg[p][TABLE + i]

LEMMA Shrinks ==
  ASSUME NEW pg, NEW C, Once(pg, C), NEW pg2, NEW C2,
         NEW s \in Size, NEW p0, NEW i0, NEW c, NEW j,
         ShrinksBy(pg, C, pg2, C2, s, p0, i0, c, j)
  PROVE  /\ Once(pg2, C2)
         /\ \A t \in Size : \A p, i : Lists(pg2, C2[t], p, i) =>
              pg2[p][TABLE + i] # pg[p0][TABLE + i0]
<1>1. ASSUME NEW t \in Size, NEW p, NEW i, Lists(pg2, C2[t], p, i)
      PROVE  Lists(pg, C[t], p, i) /\ ~(p = c /\ i = j)
  <2>1. CASE t = s
    BY <1>1, <2>1 DEF ShrinksBy
  <2>2. CASE t # s
    <3>1. Lists(pg, C[t], p, i)
      BY <1>1, <2>2 DEF ShrinksBy
    <3> QED
      BY <1>1, <2>2, <3>1 DEF ShrinksBy
  <2> QED
    BY <2>1, <2>2
<1>2. ASSUME NEW t \in Size, NEW p, NEW i, Lists(pg2, C2[t], p, i)
      PROVE  /\ pg2[p][TABLE + i] \in Block
             /\ p = p0 /\ i = i0 => pg2[p][TABLE + i] = pg[c][TABLE + j]
             /\ ~(p = p0 /\ i = i0) => pg2[p][TABLE + i] = pg[p][TABLE + i]
             /\ pg2[p][TABLE + i] # pg[p0][TABLE + i0]
  <2>1. Lists(pg, C[t], p, i) /\ ~(p = c /\ i = j)
    BY <1>1, <1>2
  <2>2. CASE p = p0 /\ i = i0
    <3>1. pg2[p][TABLE + i] = pg[c][TABLE + j]
      BY <1>2, <2>2 DEF ShrinksBy
    <3> QED
      BY <2>1, <2>2, <3>1, OnceMeans DEF ShrinksBy
  <2>3. CASE ~(p = p0 /\ i = i0)
    <3>1. pg2[p][TABLE + i] = pg[p][TABLE + i]
      BY <1>2, <2>3 DEF ShrinksBy
    <3> QED
      BY <2>1, <2>3, <3>1, OnceMeans DEF ShrinksBy
  <2> QED
    BY <2>2, <2>3
<1>3. ASSUME NEW t \in Size, NEW u \in Size, NEW p, NEW q, NEW i, NEW k,
             Lists(pg2, C2[t], p, i), Lists(pg2, C2[u], q, k),
             pg2[p][TABLE + i] = pg2[q][TABLE + k]
      PROVE  p = q /\ i = k
  <2>1. /\ Lists(pg, C[t], p, i) /\ ~(p = c /\ i = j)
        /\ Lists(pg, C[u], q, k) /\ ~(q = c /\ k = j)
    BY <1>1, <1>3
  <2>2. CASE p = p0 /\ i = i0 /\ ~(q = p0 /\ k = i0)
    <3>1. pg[c][TABLE + j] = pg[q][TABLE + k]
      BY <1>2, <1>3, <2>2
    <3> QED
      BY <2>1, <3>1, OnceMeans DEF ShrinksBy
  <2>3. CASE q = p0 /\ k = i0 /\ ~(p = p0 /\ i = i0)
    <3>1. pg[c][TABLE + j] = pg[p][TABLE + i]
      BY <1>2, <1>3, <2>3
    <3> QED
      BY <2>1, <3>1, OnceMeans DEF ShrinksBy
  <2>4. CASE ~(p = p0 /\ i = i0) /\ ~(q = p0 /\ k = i0)
    <3>1. pg[p][TABLE + i] = pg[q][TABLE + k]
      BY <1>2, <1>3, <2>4
    <3> QED
      BY <2>1, <3>1, OnceMeans DEF ShrinksBy
  <2> QED
    BY <2>2, <2>3, <2>4
<1>4. \A t \in Size : \A p, i : Lists(pg2, C2[t], p, i) => pg2[p][TABLE + i] \in Block
  BY <1>2
<1>5. \A t, u \in Size : \A p, q, i, k :
        Lists(pg2, C2[t], p, i) /\ Lists(pg2, C2[u], q, k) /\ pg2[p][TABLE + i] = pg2[q][TABLE + k]
          => p = q /\ i = k
  BY <1>3
<1>6. Once(pg2, C2)
  BY ONLY <1>4, <1>5, OnceIf
<1> QED
  BY <1>2, <1>6

Gains(L, L2, s, b) == L2[s] = L[s] \cup {b} /\ \A t \in Size \ {s} : L2[t] = L[t]
Loses(L, L2, s, b) == L2[s] = L[s] \ {b} /\ \A t \in Size \ {s} : L2[t] = L[t]

LEMMA PairsAdded ==
  ASSUME NEW L, NEW L2, NEW s \in Size, NEW b, Gains(L, L2, s, b)
  PROVE  Pairs(L2) = Pairs(L) \cup {<<s, b>>}
<1>1. ASSUME NEW t \in Size, NEW a \in L2[t] PROVE <<t, a>> \in Pairs(L) \cup {<<s, b>>}
  <2>1. a \in L[t] \/ (t = s /\ a = b)
    BY DEF Gains
  <2> QED
    BY <2>1 DEF Pairs
<1>2. ASSUME NEW t \in Size, NEW a \in L[t] PROVE <<t, a>> \in Pairs(L2)
  <2>1. a \in L2[t]
    BY DEF Gains
  <2> QED
    BY <2>1 DEF Pairs
<1>3. <<s, b>> \in Pairs(L2)
  BY DEF Pairs, Gains
<1>4. Pairs(L2) \subseteq Pairs(L) \cup {<<s, b>>}
  <2> SUFFICES ASSUME NEW e \in Pairs(L2) PROVE e \in Pairs(L) \cup {<<s, b>>}
    OBVIOUS
  <2> QED
    BY ONLY <1>1, PairsMember, e \in Pairs(L2)
<1>5. Pairs(L) \subseteq Pairs(L2)
  <2> SUFFICES ASSUME NEW e \in Pairs(L) PROVE e \in Pairs(L2)
    OBVIOUS
  <2> QED
    BY ONLY <1>2, PairsMember, e \in Pairs(L)
<1> QED
  BY ONLY <1>3, <1>4, <1>5

LEMMA PairsRemoved ==
  ASSUME NEW L, NEW L2, NEW s \in Size, NEW b, Loses(L, L2, s, b)
  PROVE  Pairs(L2) = Pairs(L) \ {<<s, b>>}
<1>1. ASSUME NEW t \in Size, NEW a \in L2[t] PROVE <<t, a>> \in Pairs(L) \ {<<s, b>>}
  <2>1. a \in L[t] /\ ~(t = s /\ a = b)
    BY DEF Loses
  <2> QED
    BY <2>1 DEF Pairs
<1>2. ASSUME NEW t \in Size, NEW a \in L[t], <<t, a>> # <<s, b>> PROVE <<t, a>> \in Pairs(L2)
  <2>1. a \in L2[t]
    BY <1>2 DEF Loses
  <2> QED
    BY <2>1 DEF Pairs
<1>4. Pairs(L2) \subseteq Pairs(L) \ {<<s, b>>}
  <2> SUFFICES ASSUME NEW e \in Pairs(L2) PROVE e \in Pairs(L) \ {<<s, b>>}
    OBVIOUS
  <2> QED
    BY ONLY <1>1, PairsMember, e \in Pairs(L2)
<1>5. Pairs(L) \ {<<s, b>>} \subseteq Pairs(L2)
  <2> SUFFICES ASSUME NEW e \in Pairs(L) \ {<<s, b>>} PROVE e \in Pairs(L2)
    OBVIOUS
  <2> QED
    BY ONLY <1>2, PairsMember, e \in Pairs(L) \ {<<s, b>>}
<1> QED
  BY ONLY <1>4, <1>5

LEMMA Places ==
  ASSUME MapInv, NEW s \in Size, NEW p, NEW i
  PROVE  Lists(pages, Chained(s), p, i) <=> p \in Chained(s) /\ i \in 0 .. NItems(p) - 1
<1>1. \A q \in Chained(s) : NItems(q) \in Int
  BY ChainFacts, ParameterAssumption
<1> QED
  BY <1>1 DEF Lists, NItems

LEMMA ItemWords ==
  ASSUME NEW i \in 0 .. Capacity - 1
  PROVE  TABLE + i \in Word \ {NEXT, NITEMS}
BY ParameterAssumption DEF TABLE, Word, NEXT, NITEMS

(* What an insertion does to the pairs: block c, old or new in the chain of*)
(* s, lists the address in its next place.                                 *)
LEMMA Grown ==
  ASSUME MapInv, NEW s \in Size, NEW b \in Block, Unlisted(b),
         NEW c, NEW j \in Nat,
         Chained(s)' = Chained(s) \cup {c},
         \A t \in Size \ {s} : Chained(t)' = Chained(t) /\ c \notin Chained(t),
         c \in Chained(s) => j = NItems(c),
         c \notin Chained(s) => j = 0,
         pages'[c][NITEMS] = j + 1, pages'[c][TABLE + j] = b,
         \A i \in 0 .. j - 1 : pages'[c][TABLE + i] = pages[c][TABLE + i],
         \A q \in Used \ {c} : \A x \in Word \ {NEXT} : pages'[q][x] = pages[q][x]
  PROVE  ChainsApart' /\ ListedOnce' /\ Contents' = Contents \cup {<<s, b>>}
<1> DEFINE C == Chains
           C2 == Chains'
<1>1. \A t \in Size : C[t] = Chained(t) /\ C2[t] = Chained(t)'
  BY DEF Chains
<1>2. C2[s] = C[s] \cup {c} /\ \A t \in Size \ {s} : C2[t] = C[t] /\ c \notin C[t]
  BY <1>1
<1>3. \A t \in Size : C[t] \subseteq Used /\ \A q \in C[t] : pages[q][NITEMS] \in 1 .. Capacity
  BY <1>1, ChainFacts DEF NItems
<1> HIDE DEF C, C2
<1>4. Capacity \in Nat
  BY ParameterAssumption
<1>5. ASSUME NEW t \in Size, NEW q \in C[t], q # c
      PROVE  /\ pages'[q][NITEMS] = pages[q][NITEMS] /\ pages[q][NITEMS] \in 1 .. Capacity
             /\ \A i \in 0 .. Capacity - 1 : pages'[q][TABLE + i] = pages[q][TABLE + i]
  <2>1. q \in Used \ {c} /\ NITEMS \in Word \ {NEXT}
    BY <1>3, <1>5, WordNames DEF NITEMS, NEXT
  <2> QED
    BY <1>3, <2>1, ItemWords
<1>6. \A p, i : Lists(pages', C2[s], p, i) <=> Lists(pages, C[s], p, i) \/ (p = c /\ i = j)
  <2> SUFFICES ASSUME NEW p, NEW i
               PROVE Lists(pages', C2[s], p, i) <=> Lists(pages, C[s], p, i) \/ (p = c /\ i = j)
    OBVIOUS
  <2>1. CASE p # c
    <3>1. p \in C2[s] <=> p \in C[s]
      BY <1>2, <2>1
    <3> QED
      BY <1>5, <2>1, <3>1 DEF Lists
  <2>2. CASE p = c
    <3>1. pages'[c][NITEMS] = j + 1 /\ c \in C2[s]
      BY <1>2 DEF NItems
    <3>2. c \in C[s] => pages[c][NITEMS] = j
      BY <1>1 DEF NItems
    <3>3. c \notin C[s] => j = 0
      BY <1>1
    <3> QED
      BY <2>2, <3>1, <3>2, <3>3 DEF Lists
  <2> QED
    BY <2>1, <2>2
<1>7. \A t \in Size \ {s} : \A p, i : Lists(pages', C2[t], p, i) <=> Lists(pages, C[t], p, i)
  <2> SUFFICES ASSUME NEW t \in Size \ {s}, NEW p, NEW i
               PROVE Lists(pages', C2[t], p, i) <=> Lists(pages, C[t], p, i)
    OBVIOUS
  <2>1. p \in C2[t] <=> p \in C[t] /\ p # c
    BY <1>2
  <2>2. p \in C[t] => p # c /\ pages'[p][NITEMS] = pages[p][NITEMS]
    BY <1>2, <1>5
  <2> QED
    BY <2>1, <2>2 DEF Lists
<1>8. \A t \in Size : \A p, i : Lists(pages, C[t], p, i) => pages'[p][TABLE + i] = pages[p][TABLE + i]
  <2> SUFFICES ASSUME NEW t \in Size, NEW p, NEW i, Lists(pages, C[t], p, i)
               PROVE pages'[p][TABLE + i] = pages[p][TABLE + i]
    OBVIOUS
  <2>1. p \in C[t] /\ i \in 0 .. pages[p][NITEMS] - 1 /\ pages[p][NITEMS] \in 1 .. Capacity
    BY <1>3, <1>4 DEF Lists
  <2>2. CASE p # c
    BY <1>4, <1>5, <2>1, <2>2
  <2>3. CASE p = c
    <3>1. t = s
      BY <1>2, <2>1, <2>3
    <3>2. pages[c][NITEMS] = j
      BY <1>1, <2>1, <2>3, <3>1 DEF NItems
    <3> QED
      BY <2>1, <2>3, <3>2
  <2> QED
    BY <2>2, <2>3
<1>9. \A t \in Size : \A p, i : Lists(pages, C[t], p, i) => pages[p][TABLE + i] # b
  <2> SUFFICES ASSUME NEW t \in Size, NEW p, NEW i, Lists(pages, C[t], p, i), pages[p][TABLE + i] = b
               PROVE FALSE
    OBVIOUS
  <2>1. \A q \in C[t] : pages[q][NITEMS] \in Int
    BY <1>3, <1>4
  <2>2. b \in ListedIn(pages, C[t])
    BY <2>1, ListedPlace
  <2>3. b \in ListedUnder(t)
    BY <1>1, <2>2, ListedUnderIn
  <2> QED
    BY <2>3 DEF Unlisted
<1>10. Once(pages, C)
  BY DEF MapInv, ListedOnce, C
<1>11. Once(pages', C2)
  <2>1. GrowsBy(pages, C, pages', C2, s, b, c, j)
    <3>1. \A t \in Size : \A p, i : Lists(pages, C[t], p, i) =>
            pages[p][TABLE + i] # b /\ pages'[p][TABLE + i] = pages[p][TABLE + i]
      BY ONLY <1>8, <1>9
    <3> QED
      BY ONLY <1>6, <1>7, <3>1, pages'[c][TABLE + j] = b DEF GrowsBy
  <2> QED
    BY <1>10, <2>1, Grows
<1>12. ListedOnce'
  BY <1>11 DEF ListedOnce, C2
<1>13. ChainsApart'
  BY DEF ChainsApart, MapInv
<1>14. \A t \in Size : Listing[t] = ListedIn(pages, C[t]) /\ Listing'[t] = ListedIn(pages', C2[t])
  BY <1>1, ListedUnderIn DEF Listing
<1>15. \A t \in Size : \A q \in C2[t] : pages'[q][NITEMS] \in Int
  BY <1>2, <1>4, <1>5
<1>16. \A t \in Size : \A q \in C[t] : pages[q][NITEMS] \in Int
  BY <1>3, <1>4
<1>17. ASSUME NEW t \in Size \ {s} PROVE Listing'[t] = Listing[t]
  <2>1. ASSUME NEW a PROVE a \in ListedIn(pages', C2[t]) <=> a \in ListedIn(pages, C[t])
    <3>1. \A p, i : Lists(pages', C2[t], p, i) /\ pages'[p][TABLE + i] = a
                  <=> Lists(pages, C[t], p, i) /\ pages[p][TABLE + i] = a
      BY <1>7, <1>8
    <3> QED
      BY <1>15, <1>16, <3>1, ListedPlace
  <2>2. ListedIn(pages', C2[t]) = ListedIn(pages, C[t])
    BY ONLY <2>1
  <2> QED
    BY <1>14, <2>2
<1>18. Listing'[s] = Listing[s] \cup {b}
  <2>1. \A a : a \in ListedIn(pages', C2[s]) <=> a \in ListedIn(pages, C[s]) \/ a = b
    BY <1>6, <1>8, <1>15, <1>16, ListedPlace
  <2> QED
    BY <1>14, <2>1
<1>19. Contents' = Contents \cup {<<s, b>>}
  <2> DEFINE L == Listing
             L2 == Listing'
  <2>1. Gains(L, L2, s, b)
    BY <1>17, <1>18 DEF Gains
  <2> HIDE DEF L, L2
  <2>2. Pairs(L2) = Pairs(L) \cup {<<s, b>>}
    BY ONLY <2>1, PairsAdded, s \in Size
  <2> QED
    BY <2>2, ContentsPairs DEF L, L2
<1> QED
  BY <1>12, <1>13, <1>19

-----------------------------------------------------------------------------
(* The first block of the free list.                                       *)
LEMMA FirstFree ==
  ASSUME MapInv, Head # Sentinel
  PROVE  /\ Head \in Bucket /\ Head \in Pages /\ Head # 0 /\ Head \in Int /\ Head \notin Used
         /\ pages[Head][NEXT] = Head + 1 /\ NItems(Head) = 0
         /\ Head + 1 \in FirstBlock .. Sentinel
         /\ \A s \in Size : Head \notin Chained(s)
<1>1. Head \in FirstBlock .. Sentinel /\ FirstBlock \in Nat \ {0} /\ Sentinel \in Nat
  BY PageWords DEF MapInv, BlocksKept
<1>2. Head \in Head .. Sentinel - 1 /\ Head \in Bucket /\ Head \notin Used /\ Head # 0
      /\ Head \in Int /\ Head + 1 \in FirstBlock .. Sentinel
  BY <1>1 DEF Bucket, Used
<1>3. pages[Head][NEXT] = Head + 1 /\ NItems(Head) = 0
  BY <1>2 DEF MapInv, BlocksKept
<1>4. Head \in Pages
  BY <1>2, PlacesOfPages DEF MapInv
<1> QED
  BY <1>2, <1>3, <1>4, ChainFacts

(* The block is taken, and word w of page l leads to it.                   *)
LEMMA Taken ==
  ASSUME MapInv, Head # Sentinel, NEW l \in Pages, l # Head, NEW w \in Word, l = 0 => w # HEAD,
         NEW b \in Int, pages' = StartBlock([pages EXCEPT ![l][w] = Head], Head, b)
  PROVE  /\ IsFile(pages', Pages) /\ Pages' = Pages
         /\ Head' = Head + 1 /\ pages'[l][w] = Head
         /\ pages'[Head][NEXT] = 0 /\ pages'[Head][NITEMS] = 1 /\ pages'[Head][TABLE] = b
         /\ \A q \in Pages \ {Head} : \A x \in Word :
              (q = 0 => x # HEAD) /\ (q = l => x # w) => pages'[q][x] = pages[q][x]
<1> DEFINE p == Head
           pg == [pages EXCEPT ![l][w] = p]
<1>1. /\ p \in Pages /\ p # 0 /\ p \in Int
      /\ pages[p][NEXT] = p + 1 /\ pages[p][NITEMS] = 0
  BY FirstFree DEF NItems
<1>2. IsFile(pages, Pages) /\ 0 \in Pages
  BY PlacesOfPages DEF MapInv
<1>3. pages' = StartBlock(pg, p, b)
  OBVIOUS
<1> HIDE DEF p
<1> DEFINE D == Pages
<1>d. D = Pages /\ l \in D /\ p \in D
  BY <1>1
<1> HIDE DEF D
<1>4. /\ IsFile(pg, D) /\ pg[l][w] = p
      /\ \A q \in D : \A x \in Word : q # l \/ x # w => pg[q][x] = pages[q][x]
  <2>1. IsFile(pages, D) /\ p \in Int /\ l \in D /\ w \in Word
    BY <1>1, <1>2, <1>d
  <2>2. LET pg2 == [pages EXCEPT ![l][w] = p] IN
        /\ IsFile(pg2, D) /\ pg2[l][w] = p
        /\ \A q \in D : \A x \in Word : q # l \/ x # w => pg2[q][x] = pages[q][x]
    BY ONLY <2>1, StoreShape
  <2> QED
    BY <2>2, Zenon
<1> HIDE DEF pg
<1>5. pg[p][NITEMS] = 0 /\ pg[p][NEXT] = p + 1
  BY <1>1, <1>4, <1>d, WordNames DEF p
<1>6. LET pg2 == StartBlock(pg, p, b) IN
      /\ IsFile(pg2, D) /\ pg2[0][HEAD] = pg[p][NEXT]
      /\ pg2[p][NEXT] = 0 /\ pg2[p][NITEMS] = 1 /\ pg2[p][TABLE] = b
      /\ \A q \in D : \A x \in Word :
           (q # 0 \/ x # HEAD) /\ (q # p \/ x \notin {NEXT, NITEMS, TABLE})
             => pg2[q][x] = pg[q][x]
  <2>1. 0 \in D /\ p \in D /\ p # 0 /\ IsFile(pg, D) /\ pg[p][NITEMS] = 0 /\ b \in Int
    BY <1>1, <1>2, <1>4, <1>5, <1>d
  <2> QED
    BY ONLY <2>1, StartShape
<1>7. DOMAIN pages' = D /\ IsFile(pages', D)
  BY <1>3, <1>6 DEF IsFile
<1>8. pages'[l][w] = p
  <2>1. (l # 0 \/ w # HEAD) /\ l # p
    BY DEF p
  <2> QED
    BY <1>3, <1>4, <1>6, <1>d, <2>1
<1>9. ASSUME NEW q \in D \ {p}, NEW x \in Word, q = 0 => x # HEAD, q = l => x # w
      PROVE  pages'[q][x] = pages[q][x]
  <2>1. pages'[q][x] = pg[q][x]
    BY <1>3, <1>6, <1>9
  <2> QED
    BY <1>4, <1>9, <2>1
<1>10. /\ Head' = p + 1 /\ pages'[p][NEXT] = 0 /\ pages'[p][NITEMS] = 1 /\ pages'[p][TABLE] = b
  BY <1>3, <1>5, <1>6 DEF Head
<1>11. p = Head
  BY DEF p
<1> QED
  BY ONLY <1>7, <1>8, <1>9, <1>10, <1>11, <1>d DEF Pages

(* What both ways to take a block keep.                                    *)
LEMMA TakenKeeps ==
  ASSUME MapInv, Head # Sentinel, NEW l \in Pages, l # Head, NEW w \in Word,
         l = 0 => w \notin {HEAD, NDIRS, MAXSIZE, LAST},
         l \in Bucket => l \in Used /\ w = NEXT,
         NEW b \in Int, pages' = StartBlock([pages EXCEPT ![l][w] = Head], Head, b)
  PROVE  /\ FileTyped' /\ ControlIntact' /\ BlocksKept'
         /\ Used' = Used \cup {Head}
         /\ \A s \in Index : (DirPage(s) = l => DirWord(s) # w) => Directory(s)' = Directory(s)
         /\ \A q \in Used : \A x \in Word : (q = l => x # w) => pages'[q][x] = pages[q][x]
<1> USE DEF MapInv
<1>1. /\ IsFile(pages', Pages) /\ Pages' = Pages
      /\ Head' = Head + 1 /\ pages'[l][w] = Head
      /\ pages'[Head][NEXT] = 0 /\ pages'[Head][NITEMS] = 1
      /\ \A q \in Pages \ {Head} : \A x \in Word :
           (q = 0 => x # HEAD) /\ (q = l => x # w) => pages'[q][x] = pages[q][x]
  BY Taken
<1>2. /\ Head \in Bucket /\ Head \in Pages /\ Head # 0 /\ Head \in Int /\ Head \notin Used
      /\ Head + 1 \in FirstBlock .. Sentinel
  BY FirstFree
<1>3. /\ 0 \in Pages /\ Bucket \subseteq Pages /\ 0 \notin Bucket /\ Used \subseteq Bucket
      /\ \A s \in Index : DirPage(s) \in Pages /\ DirPage(s) \notin Bucket
  BY PlacesOfPages
<1>4. FirstBlock \in Nat \ {0} /\ Sentinel \in Nat /\ Capacity \in Nat \ {0}
  BY PageWords, ParameterAssumption
<1>5. FileTyped'
  BY <1>1 DEF FileTyped
<1>6. ControlIntact'
  <2>1. {NDIRS, MAXSIZE, LAST} \subseteq Word \ {HEAD}
    BY PageWords DEF NDIRS, MAXSIZE, LAST, HEAD, Word
  <2>2. \A x \in {NDIRS, MAXSIZE, LAST} : pages'[0][x] = pages[0][x]
    BY <1>1, <1>2, <1>3, <2>1
  <2> QED
    BY <2>2 DEF ControlIntact
<1>7. Used' = Used \cup {Head}
  <2>1. Head \in FirstBlock .. Sentinel
    BY DEF BlocksKept
  <2> QED
    BY <1>1, <1>4, <2>1 DEF Used
<1>8. ASSUME NEW s \in Index, DirPage(s) = l => DirWord(s) # w
      PROVE  Directory(s)' = Directory(s)
  <2>1. /\ DirPage(s) \in Pages \ {Head} /\ DirWord(s) \in Word
        /\ DirPage(s) = 0 => DirWord(s) # HEAD
    BY <1>2, <1>3, DirectoryWords
  <2> QED
    BY <1>1, <1>8, <2>1 DEF Directory
<1>9. \A q \in Used : \A x \in Word : (q = l => x # w) => pages'[q][x] = pages[q][x]
  BY <1>1, <1>2, <1>3
<1>10. BlocksKept'
  <2>1. Head' \in FirstBlock .. Sentinel
    BY <1>1, <1>2
  <2>2. ASSUME NEW p \in Head + 1 .. Sentinel - 1
        PROVE  pages'[p][NEXT] = p + 1 /\ pages'[p][NITEMS] = 0
    <3>1. p \in Head .. Sentinel - 1 /\ p \in Bucket /\ p # Head /\ p \notin Used
      BY <1>2, <1>4 DEF Bucket, Used
    <3>2. p # l /\ p \in Pages /\ p # 0
      BY <1>3, <3>1
    <3> QED
      <4>1. pages'[p][NEXT] = pages[p][NEXT] /\ pages'[p][NITEMS] = pages[p][NITEMS]
        BY <1>1, <3>1, <3>2, WordNames
      <4> QED
        BY <3>1, <4>1 DEF BlocksKept, NItems
  <2>3. ASSUME NEW p \in Used \cup {Head}
        PROVE  pages'[p][NEXT] \in Used \cup {Head} \cup {0} /\ pages'[p][NITEMS] \in 0 .. Capacity
    <3>1. CASE p = Head
      BY <1>1, <1>4, <3>1
    <3>2. CASE p # Head
      <4>1. pages'[p][NITEMS] = pages[p][NITEMS]
        <5>1. p = l => w # NITEMS
          BY <1>3, <3>2 DEF NEXT, NITEMS
        <5> QED
          BY <1>9, <3>2, <5>1, WordNames
      <4>2. pages'[p][NEXT] \in {pages[p][NEXT], Head}
        BY <1>1, <1>9, <3>2, WordNames
      <4> QED
        BY <3>2, <4>1, <4>2 DEF BlocksKept, NItems
    <3> QED
      BY <3>1, <3>2
  <2> QED
    BY <1>1, <1>7, <2>1, <2>2, <2>3 DEF BlocksKept, NItems
<1> QED
  BY <1>5, <1>6, <1>7, <1>8, <1>9, <1>10

LEMMA TouchFirstFree ==
  ASSUME MapInv, Head # Sentinel, NEW x PROVE Touch(Head, x) = {pages}
BY FirstFree DEF Touch

(* The addresses are numbers.                                              *)
LEMMA BlockInt == \A b \in Block : b \in Int
BY ParameterAssumption

(* The chains a step leaves alone.                                         *)
Packed(s) ==
  Directory(s) # 0 =>
    /\ Tails(Directory(s)) # {}
    /\ \A p \in Chained(s) : IF pages[p][NEXT] = 0 THEN NItems(p) \in 1 .. Capacity
                                                   ELSE NItems(p) = Capacity

LEMMA PackedAll == (\A s \in Size : Packed(s)') => ChainsPacked'
BY DEF Packed, ChainsPacked

LEMMA ChainKept ==
  ASSUME MapInv, NEW s \in Size, Directory(s)' = Directory(s),
         \A q \in Chained(s) : pages'[q][NEXT] = pages[q][NEXT]
  PROVE  Chained(s)' = Chained(s)
<1>1. Leads(pages, Used, Directory(s)) /\ Chained(s) = Walk(pages, Directory(s), 0)
  BY ChainFacts
<1>2. Walk(pages', Directory(s), 0) = Walk(pages, Directory(s), 0)
  BY <1>1, WalkUntouched
<1> QED
  BY <1>1, <1>2 DEF Chained, Chain

LEMMA PackedKept ==
  ASSUME MapInv, NEW s \in Size, Directory(s)' = Directory(s),
         \A q \in Chained(s) : /\ pages'[q][NEXT] = pages[q][NEXT]
                               /\ pages'[q][NITEMS] = pages[q][NITEMS]
  PROVE  Packed(s)'
<1>1. Chained(s)' = Chained(s)
  BY ChainKept
<1>2. Tails(Directory(s))' = Tails(Directory(s))
  BY <1>1 DEF Tails, Chained
<1> QED
  BY <1>1, <1>2 DEF MapInv, ChainsPacked, Packed, NItems

(* A size without blocks gets its first.                                   *)
LEMMA InsertFirstStep ==
  ASSUME MapInv, NEW s \in Size, NEW b \in Block, Unlisted(b), Supplied(s), InsertFirst(s, b)
  PROVE  MapInv' /\ Contents' = Contents \cup {<<s, b>>}
<1> DEFINE l == DirPage(s)
           w == DirWord(s)
<1>1. Directory(s) = 0 /\ Chained(s) = {}
  BY ChainFacts DEF InsertFirst
<1>2. Head # Sentinel
  <2>1. Tails(Directory(s)) = {}
    BY <1>1 DEF Tails, Chained
  <2> QED
    BY <2>1 DEF Supplied, Head
<1>3. /\ Head \in Bucket /\ Head \in Pages /\ Head # 0 /\ Head \in Int /\ Head \notin Used
      /\ \A t \in Size : Head \notin Chained(t)
  BY <1>2, FirstFree
<1>4. s \in Index /\ Size \subseteq Index
  BY DEF Index
<1>5. l \in Pages /\ l \notin Bucket /\ w \in Word /\ (l = 0 => w \notin {HEAD, NDIRS, MAXSIZE, LAST})
  BY <1>4, PlacesOfPages, DirectoryWords DEF MapInv
<1>6. pages' = StartBlock([pages EXCEPT ![l][w] = Head], Head, b)
  BY <1>2, TouchFirstFree DEF InsertFirst, Head
<1>7. b \in Int
  BY BlockInt
<1>8. Directory(s) = pages[l][w] /\ Directory(s)' = pages'[l][w]
  BY DEF Directory
<1>9. \A t \in Index : DirPage(t) = l /\ DirWord(t) = w => t = s
  BY <1>4, DirectoryWords
<1> HIDE DEF l, w
<1>10. l # Head /\ (l = 0 => w # HEAD)
  BY <1>3, <1>5
<1>11. /\ pages'[l][w] = Head
       /\ pages'[Head][NEXT] = 0 /\ pages'[Head][NITEMS] = 1 /\ pages'[Head][TABLE] = b
  BY <1>2, <1>5, <1>6, <1>7, <1>10, Taken
<1>12. /\ FileTyped' /\ ControlIntact' /\ BlocksKept'
       /\ Used' = Used \cup {Head}
       /\ \A t \in Index : (DirPage(t) = l => DirWord(t) # w) => Directory(t)' = Directory(t)
       /\ \A q \in Used : \A x \in Word : (q = l => x # w) => pages'[q][x] = pages[q][x]
  BY <1>2, <1>5, <1>6, <1>7, <1>10, TakenKeeps
<1>13. Directory(s)' = Head /\ \A t \in Index \ {s} : Directory(t)' = Directory(t)
  BY <1>8, <1>9, <1>11, <1>12
<1>14. l \notin Used
  BY <1>5, PlacesOfPages DEF MapInv
<1>15. \A q \in Used : \A x \in Word : pages'[q][x] = pages[q][x]
  BY <1>12, <1>14
<1>16. Chained(s)' = {Head}
  <2>1. Walk(pages', Head, 0) = {Head}
    BY <1>3, <1>11, WalkOfTail
  <2> QED
    BY <1>13, <2>1 DEF Chained, Chain
<1>17. ASSUME NEW t \in Size \ {s} PROVE Chained(t)' = Chained(t) /\ Packed(t)'
  <2>1. \A q \in Chained(t) : /\ pages'[q][NEXT] = pages[q][NEXT]
                              /\ pages'[q][NITEMS] = pages[q][NITEMS]
    BY <1>15, ChainFacts, WordNames
  <2>2. Directory(t)' = Directory(t)
    BY <1>4, <1>13
  <2> QED
    BY <2>1, <2>2, ChainKept, PackedKept
<1>18. DirectoryKept'
  BY <1>4, <1>12, <1>13 DEF MapInv, DirectoryKept
<1>19. ChainsApart' /\ ListedOnce' /\ Contents' = Contents \cup {<<s, b>>}
  <2>0. PICK c : c = Head
    OBVIOUS
  <2>1. Chained(s)' = Chained(s) \cup {c} /\ c \notin Chained(s)
    BY <1>1, <1>16, <2>0
  <2>2. \A t \in Size \ {s} : Chained(t)' = Chained(t) /\ c \notin Chained(t)
    BY <1>3, <1>17, <2>0
  <2>3. pages'[c][NITEMS] = 0 + 1 /\ pages'[c][TABLE + 0] = b
    BY <1>11, <2>0 DEF TABLE
  <2>4. \A q \in Used \ {c} : \A x \in Word \ {NEXT} : pages'[q][x] = pages[q][x]
    BY <1>15
  <2>5. \A i \in 0 .. 0 - 1 : pages'[c][TABLE + i] = pages[c][TABLE + i]
    OBVIOUS
  <2> QED
    BY <2>1, <2>2, <2>3, <2>4, <2>5, Grown
<1>20. ChainsPacked'
  <2>1. Head \in Tails(Directory(s))'
    BY <1>11, <1>16 DEF Tails, Chained
  <2>2. Packed(s)'
    BY <1>11, <1>16, <2>1, ParameterAssumption DEF Packed, NItems
  <2> QED
    BY <1>17, <2>2, PackedAll
<1> QED
  BY <1>12, <1>18, <1>19, <1>20 DEF MapInv

(* A full tail gets a successor.                                           *)
LEMMA InsertFullStep ==
  ASSUME MapInv, NEW s \in Size, NEW b \in Block, Unlisted(b), Supplied(s),
         NEW tail \in Tails(Directory(s)), NItems(tail) = Capacity,
         NEW pg \in Touch(Head, {0, DirPage(s)}),
         pages' = StartBlock([pg EXCEPT ![tail][NEXT] = Head], Head, b)
  PROVE  MapInv' /\ Contents' = Contents \cup {<<s, b>>}
<1>1. /\ tail \in Chained(s) /\ tail \in Used /\ tail \in Bucket /\ pages[tail][NEXT] = 0
      /\ \A q \in Chained(s) \ {tail} : pages[q][NEXT] # 0 /\ NItems(q) = Capacity
  BY TailFacts
<1>2. Head # Sentinel
  <2> SUFFICES ASSUME Head = Sentinel PROVE FALSE
    OBVIOUS
  <2>1. PICK u \in Tails(Directory(s)) : NItems(u) < Capacity
    BY DEF Supplied, Head
  <2>2. u \in Chained(s) /\ pages[u][NEXT] = 0
    BY TailFacts
  <2>3. u = tail
    BY <1>1, <2>2
  <2> QED
    BY <2>1, <2>3, ParameterAssumption
<1>3. PICK p : p = Head
  OBVIOUS
<1>4. /\ p \in Bucket /\ p # 0 /\ p \notin Used
      /\ \A t \in Size : p \notin Chained(t)
  BY <1>2, <1>3, FirstFree
<1>5. /\ 0 \notin Bucket /\ tail \in Pages /\ tail # 0 /\ tail # p /\ NEXT \in Word
      /\ \A t \in Index : DirPage(t) # tail
  BY <1>1, <1>4, PlacesOfPages, WordNames DEF MapInv
<1>6. pages' = StartBlock([pages EXCEPT ![tail][NEXT] = Head], Head, b)
  BY <1>2, TouchFirstFree
<1>7. b \in Int
  BY BlockInt
<1>8. /\ pages'[tail][NEXT] = p
      /\ pages'[p][NEXT] = 0 /\ pages'[p][NITEMS] = 1 /\ pages'[p][TABLE] = b
  <2>1. tail # Head /\ (tail = 0 => NEXT # HEAD)
    BY <1>3, <1>5
  <2>2. tail \in Pages /\ NEXT \in Word
    BY <1>5
  <2>3. /\ pages'[tail][NEXT] = Head
        /\ pages'[Head][NEXT] = 0 /\ pages'[Head][NITEMS] = 1 /\ pages'[Head][TABLE] = b
    BY ONLY MapInv, <1>2, <1>6, <1>7, <2>1, <2>2, Taken
  <2> QED
    BY <1>3, <2>3
<1>9. /\ FileTyped' /\ ControlIntact' /\ BlocksKept'
      /\ Used' = Used \cup {p}
      /\ \A t \in Index : Directory(t)' = Directory(t)
      /\ \A q \in Used : \A x \in Word : (q = tail => x # NEXT) => pages'[q][x] = pages[q][x]
  BY <1>1, <1>2, <1>3, <1>5, <1>6, <1>7, TakenKeeps
<1>10. Size \subseteq Index
  BY DEF Index
<1>11. DirectoryKept'
  BY <1>9, <1>10 DEF MapInv, DirectoryKept
<1>12. ASSUME NEW t \in Size \ {s} PROVE Chained(t)' = Chained(t) /\ Packed(t)'
  <2>1. tail \notin Chained(t)
    BY <1>1 DEF MapInv, ChainsApart
  <2>2. \A q \in Chained(t) : /\ pages'[q][NEXT] = pages[q][NEXT]
                              /\ pages'[q][NITEMS] = pages[q][NITEMS]
    BY <1>9, <2>1, ChainFacts, WordNames
  <2> QED
    BY <1>9, <1>10, <2>2, ChainKept, PackedKept
<1>13. Chained(s)' = Chained(s) \cup {p}
  <2>1. Leads(pages, Used, Directory(s)) /\ Chained(s) = Walk(pages, Directory(s), 0)
        /\ Chained(s) \subseteq Used
    BY ChainFacts
  <2>2. \A q \in Walk(pages, Directory(s), 0) \ {tail} : pages'[q][NEXT] = pages[q][NEXT]
    BY <1>9, <2>1, WordNames
  <2>3. tail \in Walk(pages, Directory(s), 0) /\ p \notin Walk(pages, Directory(s), 0)
    BY <1>1, <1>4, <2>1
  <2>4. Walk(pages', Directory(s), 0) = Walk(pages, Directory(s), 0) \cup {p}
    BY ONLY <1>1, <1>4, <1>8, <2>1, <2>2, <2>3, WalkExtended
  <2> QED
    BY <1>9, <1>10, <2>1, <2>4 DEF Chained, Chain
<1>14. Packed(s)'
  <2>1. p \in Tails(Directory(s))'
    BY <1>8, <1>13 DEF Tails, Chained
  <2>2. \A q \in Chained(s) : pages'[q][NITEMS] = Capacity /\ pages'[q][NEXT] # 0
    <3>1. ASSUME NEW q \in Chained(s) PROVE pages'[q][NITEMS] = Capacity /\ pages'[q][NEXT] # 0
      <4>1. q \in Used /\ NITEMS \in Word /\ NITEMS # NEXT
        BY ChainFacts, WordNames DEF NITEMS, NEXT
      <4>2. pages'[q][NITEMS] = Capacity
        BY <1>1, <1>9, <4>1, ZenonT(60) DEF NItems
      <4>3. CASE q = tail
        BY <1>4, <1>8, <4>2, <4>3
      <4>4. CASE q # tail
        BY <1>1, <1>5, <1>9, <4>1, <4>2, <4>4
      <4> QED
        BY <4>3, <4>4
    <3> QED
      BY <3>1
  <2>3. \A q \in Chained(s)' : IF pages'[q][NEXT] = 0 THEN pages'[q][NITEMS] \in 1 .. Capacity
                                                     ELSE pages'[q][NITEMS] = Capacity
    <3>1. 1 \in 1 .. Capacity
      BY ParameterAssumption
    <3> QED
      BY ONLY <1>8, <1>13, <2>2, <3>1
  <2> QED
    BY <2>1, <2>3 DEF Packed, NItems
<1>15. ChainsPacked'
  BY <1>12, <1>14, PackedAll
<1>16. ChainsApart' /\ ListedOnce' /\ Contents' = Contents \cup {<<s, b>>}
  <2>1. \A t \in Size \ {s} : Chained(t)' = Chained(t) /\ p \notin Chained(t)
    BY <1>4, <1>12
  <2>2. pages'[p][NITEMS] = 0 + 1 /\ pages'[p][TABLE + 0] = b /\ p \notin Chained(s)
    BY <1>4, <1>8 DEF TABLE
  <2>3. \A q \in Used \ {p} : \A x \in Word \ {NEXT} : pages'[q][x] = pages[q][x]
    BY <1>9
  <2>4. \A i \in 0 .. 0 - 1 : pages'[p][TABLE + i] = pages[p][TABLE + i]
    OBVIOUS
  <2> QED
    BY <1>13, <2>1, <2>2, <2>3, <2>4, Grown
<1> QED
  BY <1>9, <1>11, <1>15, <1>16 DEF MapInv

(* A tail with room takes the address.                                     *)
LEMMA InsertRoomStep ==
  ASSUME MapInv, NEW s \in Size, NEW b \in Block, Unlisted(b),
         NEW tail \in Tails(Directory(s)), NItems(tail) # Capacity,
         pages' = [pages EXCEPT ![tail][TABLE + NItems(tail)] = b, ![tail][NITEMS] = @ + 1]
  PROVE  MapInv' /\ Contents' = Contents \cup {<<s, b>>}
<1>1. /\ tail \in Chained(s) /\ tail \in Used /\ tail \in Bucket /\ pages[tail][NEXT] = 0
      /\ NItems(tail) \in 1 .. Capacity
      /\ \A q \in Chained(s) \ {tail} : pages[q][NEXT] # 0 /\ NItems(q) = Capacity
  BY TailFacts
<1>2. PICK n : n = NItems(tail)
  OBVIOUS
<1>3. Capacity \in Nat /\ n \in 0 .. Capacity - 1 /\ n \in Nat /\ n + 1 \in 1 .. Capacity
  BY <1>1, <1>2, ParameterAssumption
<1>4. /\ 0 \in Pages /\ 0 \notin Bucket /\ tail \in Pages /\ tail # 0
      /\ Bucket \subseteq Pages /\ Used \subseteq Bucket
      /\ IsFile(pages, Pages)
      /\ \A t \in Index : DirPage(t) # tail /\ DirPage(t) \in Pages
  BY <1>1, PlacesOfPages DEF MapInv
<1>5. /\ TABLE + n \in Word \ {NEXT, NITEMS}
      /\ \A i \in 0 .. n - 1 : TABLE + i \in Word \ {NITEMS, TABLE + n}
  BY <1>3, ItemWords DEF TABLE
<1>6. /\ IsFile(pages', Pages) /\ pages'[tail][NITEMS] = n + 1 /\ pages'[tail][TABLE + n] = b
      /\ \A q \in Pages : \A x \in Word :
           q # tail \/ x \notin {NITEMS, TABLE + n} => pages'[q][x] = pages[q][x]
  <2> DEFINE D == Pages
             one == [pages EXCEPT ![tail][TABLE + n] = b]
             two == [one EXCEPT ![tail][NITEMS] = n + 1]
  <2>1. IsFile(pages, D) /\ tail \in D /\ TABLE + n \in Word /\ b \in Int
    BY <1>4, <1>5, BlockInt
  <2>2. pages' = two
    <3>1. pages' = [one EXCEPT ![tail][NITEMS] = pages[tail][NITEMS] + 1]
      BY <1>2, <1>5, Zenon
    <3> QED
      BY <1>2, <3>1, Zenon DEF NItems
  <2> HIDE DEF D
  <2>3. LET pg2 == [pages EXCEPT ![tail][TABLE + n] = b] IN
        /\ IsFile(pg2, D) /\ pg2[tail][TABLE + n] = b
        /\ \A q \in D : \A x \in Word : q # tail \/ x # TABLE + n => pg2[q][x] = pages[q][x]
    BY ONLY <2>1, StoreShape
  <2>4. /\ IsFile(one, D) /\ one[tail][TABLE + n] = b
        /\ \A q \in D : \A x \in Word : q # tail \/ x # TABLE + n => one[q][x] = pages[q][x]
    BY <2>3, Zenon
  <2> HIDE DEF one
  <2>5. n + 1 \in Int /\ NITEMS \in Word
    BY <1>3, WordNames
  <2>6. /\ IsFile(two, D) /\ two[tail][NITEMS] = n + 1
        /\ \A q \in D : \A x \in Word : q # tail \/ x # NITEMS => two[q][x] = one[q][x]
    BY ONLY <2>1, <2>4, <2>5, StoreShape
  <2> HIDE DEF two
  <2>7. two[tail][TABLE + n] = b
    BY <1>5, <2>1, <2>4, <2>6
  <2>8. D = Pages
    BY DEF D
  <2>9. ASSUME NEW q \in D, NEW x \in Word, q # tail \/ x \notin {NITEMS, TABLE + n}
        PROVE  two[q][x] = pages[q][x]
    <3>1. two[q][x] = one[q][x] /\ one[q][x] = pages[q][x]
      BY <2>4, <2>6, <2>9
    <3> QED
      BY <3>1
  <2> QED
    BY ONLY <2>2, <2>6, <2>7, <2>8, <2>9
<1>7. Pages' = Pages
  BY <1>6 DEF IsFile, Pages
<1>8. Head' = Head /\ Used' = Used
  <2>1. Head' = Head
    BY <1>4, <1>6, WordNames DEF Head
  <2> QED
    BY <2>1 DEF Used
<1>9. ControlIntact'
  <2>1. {NDIRS, MAXSIZE, LAST} \subseteq Word
    BY PageWords DEF NDIRS, MAXSIZE, LAST, Word
  <2>2. \A x \in {NDIRS, MAXSIZE, LAST} : pages'[0][x] = pages[0][x]
    BY <1>4, <1>6, <2>1
  <2> QED
    BY <2>2 DEF MapInv, ControlIntact
<1>10. Size \subseteq Index /\ \A t \in Index : Directory(t)' = Directory(t)
  BY <1>4, <1>6, DirectoryWords DEF Index, Directory
<1>11. \A q \in Bucket : q # tail => \A x \in Word : pages'[q][x] = pages[q][x]
  BY <1>4, <1>6
<1>12. \A q \in Bucket : pages'[q][NEXT] = pages[q][NEXT]
  <2>1. NEXT \in Word \ {NITEMS, TABLE + n}
    BY <1>5, WordNames DEF NEXT, NITEMS
  <2> QED
    BY <1>4, <1>6, <2>1
<1>13. BlocksKept'
  <2>1. \A q \in Head .. Sentinel - 1 : q \in Bucket /\ q # tail
    <3>1. Head \in FirstBlock .. Sentinel /\ FirstBlock \in Nat /\ Sentinel \in Nat
      BY PageWords DEF MapInv, BlocksKept
    <3> QED
      BY <1>1, <3>1 DEF Bucket, Used
  <2>2. \A q \in Head .. Sentinel - 1 : pages'[q][NEXT] = q + 1 /\ pages'[q][NITEMS] = 0
    BY <1>11, <2>1, WordNames DEF MapInv, BlocksKept, NItems
  <2>3. \A q \in Used : pages'[q][NEXT] \in Used \cup {0} /\ pages'[q][NITEMS] \in 0 .. Capacity
    <3>1. ASSUME NEW q \in Used PROVE pages'[q][NITEMS] \in 0 .. Capacity
      <4>1. CASE q = tail
        BY <1>3, <1>6, <4>1
      <4>2. CASE q # tail
        BY <1>4, <1>11, <4>2, WordNames DEF MapInv, BlocksKept, NItems
      <4> QED
        BY <4>1, <4>2
    <3> QED
      BY <1>4, <1>12, <3>1 DEF MapInv, BlocksKept
  <2> QED
    BY <1>8, <2>2, <2>3 DEF MapInv, BlocksKept, NItems
<1>14. \A t \in Size : Chained(t)' = Chained(t)
  BY <1>4, <1>10, <1>12, ChainKept, ChainFacts
<1>15. ASSUME NEW t \in Size \ {s} PROVE Packed(t)' /\ tail \notin Chained(t)
  <2>1. tail \notin Chained(t)
    BY <1>1 DEF MapInv, ChainsApart
  <2>2. \A q \in Chained(t) : /\ pages'[q][NEXT] = pages[q][NEXT]
                              /\ pages'[q][NITEMS] = pages[q][NITEMS]
    BY <1>4, <1>11, <2>1, ChainFacts, WordNames
  <2> QED
    BY <1>10, <2>1, <2>2, PackedKept
<1>16. Packed(s)'
  <2>1. tail \in Tails(Directory(s))'
    BY <1>1, <1>12, <1>14 DEF Tails, Chained
  <2>2. \A q \in Chained(s) \ {tail} : pages'[q][NITEMS] = Capacity /\ pages'[q][NEXT] # 0
    BY <1>1, <1>4, <1>11, ChainFacts, WordNames, ZenonT(60) DEF NItems
  <2>3. pages'[tail][NEXT] = 0
    BY <1>1, <1>12
  <2> QED
    BY <1>3, <1>6, <1>14, <2>1, <2>2, <2>3 DEF Packed, NItems
<1>17. ChainsPacked'
  BY <1>15, <1>16, PackedAll
<1>18. ChainsApart' /\ ListedOnce' /\ Contents' = Contents \cup {<<s, b>>}
  <2>1. Chained(s)' = Chained(s) \cup {tail}
    BY <1>1, <1>14
  <2>2. \A t \in Size \ {s} : Chained(t)' = Chained(t) /\ tail \notin Chained(t)
    BY <1>14, <1>15
  <2>3. \A i \in 0 .. n - 1 : pages'[tail][TABLE + i] = pages[tail][TABLE + i]
    BY <1>4, <1>5, <1>6
  <2>4. \A q \in Used \ {tail} : \A x \in Word \ {NEXT} : pages'[q][x] = pages[q][x]
    BY <1>4, <1>11
  <2> QED
    BY <1>1, <1>2, <1>3, <1>6, <2>1, <2>2, <2>3, <2>4, Grown
<1>19. FileTyped'
  BY <1>6, <1>7 DEF MapInv, FileTyped
<1>20. DirectoryKept'
  BY <1>8, <1>10 DEF MapInv, DirectoryKept
<1> QED
  BY <1>9, <1>13, <1>17, <1>18, <1>19, <1>20 DEF MapInv

-----------------------------------------------------------------------------
(* What a removal does to the chain of s: the tail's last address takes    *)
(* place k of the target, and an emptied tail leaves the chain.            *)
Replaced(s, target, k, tail, last) ==
  /\ Chained(s)' \subseteq Chained(s) /\ Chained(s) \ {tail} \subseteq Chained(s)'
  /\ tail \in Chained(s)' => pages'[tail][NITEMS] = last
  /\ tail \notin Chained(s)' => last = 0
  /\ \A t \in Size \ {s} : Chained(t)' = Chained(t)
  /\ \A q \in Used \ {tail} : pages'[q][NITEMS] = pages[q][NITEMS]
  /\ \A q \in Used : \A i \in 0 .. Capacity - 1 :
       \/ q = target /\ i = k
       \/ q = tail /\ i = last
       \/ pages'[q][TABLE + i] = pages[q][TABLE + i]
  /\ ~(target = tail /\ k = last) => pages'[target][TABLE + k] = pages[tail][TABLE + last]

LEMMA Shrunk ==
  ASSUME MapInv, NEW s \in Size, NEW b,
         NEW target \in Chained(s), NEW k \in 0 .. NItems(target) - 1, pages[target][TABLE + k] = b,
         NEW tail \in Chained(s), NEW last, last = NItems(tail) - 1,
         Replaced(s, target, k, tail, last)
  PROVE  /\ ChainsApart' /\ ListedOnce'
         /\ b \in Block /\ b \in ListedUnder(s) /\ Contents' = Contents \ {<<s, b>>}
<1> USE DEF Replaced
<1> DEFINE C == Chains
           C2 == Chains'
<1>1. \A t \in Size : C[t] = Chained(t) /\ C2[t] = Chained(t)'
  BY DEF Chains
<1>2. \A t \in Size : C[t] \subseteq Used /\ \A q \in C[t] : pages[q][NITEMS] \in 1 .. Capacity
  BY <1>1, ChainFacts DEF NItems
<1>3. \A t \in Size \ {s} : C2[t] = C[t] /\ tail \notin C[t]
  BY <1>1 DEF MapInv, ChainsApart
<1> HIDE DEF C, C2
<1>4. Capacity \in Nat
  BY ParameterAssumption
<1>5. tail \in C[s] /\ target \in C[s] /\ last \in 0 .. Capacity - 1 /\ last = pages[tail][NITEMS] - 1
  BY <1>1, <1>2, <1>4 DEF NItems
<1>6. k \in Int /\ 0 <= k /\ k < pages[target][NITEMS]
  BY <1>2, <1>4, <1>5 DEF NItems
<1>7. Lists(pages, C[s], target, k) /\ Lists(pages, C[s], tail, last)
  BY <1>2, <1>4, <1>5, <1>6 DEF Lists
<1>8. \A t \in Size \ {s} : \A i : ~Lists(pages, C[t], tail, i)
  BY <1>3 DEF Lists
<1>9. ASSUME NEW p, NEW i
      PROVE  Lists(pages', C2[s], p, i) <=> Lists(pages, C[s], p, i) /\ ~(p = tail /\ i = last)
  <2>1. CASE p # tail
    <3>1. p \in C2[s] <=> p \in C[s]
      BY <1>1, <2>1
    <3>2. p \in C[s] => pages'[p][NITEMS] = pages[p][NITEMS]
      BY <1>2, <2>1
    <3> QED
      BY <2>1, <3>1, <3>2 DEF Lists
  <2>2. CASE p = tail /\ tail \in C2[s]
    <3>1. pages'[tail][NITEMS] = last
      BY <1>1, <2>2
    <3> QED
      BY <1>2, <1>4, <1>5, <2>2, <3>1 DEF Lists
  <2>3. CASE p = tail /\ tail \notin C2[s]
    <3>1. last = 0 /\ pages[tail][NITEMS] = 1
      BY <1>1, <1>2, <1>4, <1>5, <2>3
    <3> QED
      BY <2>3, <3>1 DEF Lists
  <2> QED
    BY <2>1, <2>2, <2>3
<1>10. ASSUME NEW t \in Size \ {s}, NEW p, NEW i
       PROVE  Lists(pages', C2[t], p, i) <=> Lists(pages, C[t], p, i)
  <2>1. p \in C[t] => p # tail /\ pages'[p][NITEMS] = pages[p][NITEMS]
    BY <1>2, <1>3
  <2> QED
    BY <1>3, <2>1 DEF Lists
<1>11. ASSUME NEW t \in Size, NEW p, NEW i, Lists(pages', C2[t], p, i)
       PROVE  /\ Lists(pages, C[t], p, i)
              /\ p = target /\ i = k => pages'[p][TABLE + i] = pages[tail][TABLE + last]
              /\ ~(p = target /\ i = k) => pages'[p][TABLE + i] = pages[p][TABLE + i]
  <2>1. Lists(pages, C[t], p, i) /\ ~(p = tail /\ i = last)
    <3>1. CASE t = s
      BY <1>9, <1>11, <3>1
    <3>2. CASE t # s
      <4>1. Lists(pages, C[t], p, i)
        BY <1>10, <1>11, <3>2
      <4> QED
        BY <1>3, <3>2, <4>1 DEF Lists
    <3> QED
      BY <3>1, <3>2
  <2>2. p \in Used /\ i \in 0 .. Capacity - 1
    BY <1>2, <1>4, <2>1 DEF Lists
  <2> QED
    BY <2>1, <2>2
<1>12. ShrinksBy(pages, C, pages', C2, s, target, k, tail, last)
  BY ONLY <1>7, <1>8, <1>9, <1>10, <1>11 DEF ShrinksBy
<1>13. Once(pages, C)
  BY DEF MapInv, ListedOnce, C
<1>14. /\ Once(pages', C2)
       /\ \A t \in Size : \A p, i : Lists(pages', C2[t], p, i) => pages'[p][TABLE + i] # b
  <2>1. /\ Once(pages', C2)
        /\ \A t \in Size : \A p, i : Lists(pages', C2[t], p, i) =>
             pages'[p][TABLE + i] # pages[target][TABLE + k]
    BY ONLY <1>12, <1>13, Shrinks, s \in Size
  <2> QED
    BY <2>1
<1>15. ListedOnce'
  BY <1>14 DEF ListedOnce, C2
<1>16. ChainsApart'
  <2> SUFFICES ASSUME NEW t \in Size, NEW u \in Size, t # u PROVE Chained(t)' \cap Chained(u)' = {}
    BY DEF ChainsApart
  <2>1. Chained(t)' \subseteq Chained(t) /\ Chained(u)' \subseteq Chained(u)
    OBVIOUS
  <2> QED
    BY <2>1 DEF ChainsApart, MapInv
<1>17. \A t \in Size : Listing[t] = ListedIn(pages, C[t]) /\ Listing'[t] = ListedIn(pages', C2[t])
  BY <1>1, ListedUnderIn DEF Listing
<1>18. \A t \in Size : \A q \in C[t] : pages[q][NITEMS] \in Int
  BY <1>2, <1>4
<1>19. \A t \in Size : \A q \in C2[t] : pages'[q][NITEMS] \in Int
  <2> SUFFICES ASSUME NEW t \in Size, NEW q \in C2[t] PROVE pages'[q][NITEMS] \in Int
    OBVIOUS
  <2>1. q \in C[t]
    BY <1>1
  <2>2. CASE q = tail
    <3>1. t = s
      BY <1>3, <2>1, <2>2
    <3> QED
      BY <1>1, <1>5, <2>2, <3>1
  <2>3. CASE q # tail
    BY <1>2, <1>18, <2>1, <2>3
  <2> QED
    BY <2>2, <2>3
<1>20. b \in Block /\ b \in ListedIn(pages, C[s])
  <2>1. b \in Block
    BY <1>7, <1>13, OnceMeans
  <2>2. b \in ListedIn(pages, C[s])
    BY <1>7, <1>18, ListedPlace
  <2> QED
    BY <2>1, <2>2
<1>21. ASSUME NEW t \in Size \ {s} PROVE Listing'[t] = Listing[t]
  <2>1. ASSUME NEW a PROVE a \in ListedIn(pages', C2[t]) <=> a \in ListedIn(pages, C[t])
    <3>1. ASSUME NEW p, NEW i, Lists(pages, C[t], p, i) PROVE pages'[p][TABLE + i] = pages[p][TABLE + i]
      <4>1. Lists(pages', C2[t], p, i)
        BY <1>10, <3>1
      <4>2. p # target
        BY <1>1, <3>1 DEF Lists, MapInv, ChainsApart
      <4> QED
        BY <1>11, <4>1, <4>2
    <3>2. \A p, i : Lists(pages', C2[t], p, i) /\ pages'[p][TABLE + i] = a
                  <=> Lists(pages, C[t], p, i) /\ pages[p][TABLE + i] = a
      BY <1>10, <3>1
    <3> QED
      BY <1>18, <1>19, <3>2, ListedPlace
  <2>2. ListedIn(pages', C2[t]) = ListedIn(pages, C[t])
    BY ONLY <2>1
  <2> QED
    BY <1>17, <2>2
<1>22. Listing'[s] = Listing[s] \ {b}
  <2>1. ASSUME NEW a PROVE a \in ListedIn(pages', C2[s]) <=> a \in ListedIn(pages, C[s]) /\ a # b
    <3>1. ASSUME NEW p, NEW i, Lists(pages', C2[s], p, i)
          PROVE  \E q, j : Lists(pages, C[s], q, j) /\ pages[q][TABLE + j] = pages'[p][TABLE + i]
      BY <1>7, <1>11, <3>1
    <3>2. ASSUME NEW p, NEW i, Lists(pages, C[s], p, i), pages[p][TABLE + i] # b
          PROVE  \E q, j : Lists(pages', C2[s], q, j) /\ pages'[q][TABLE + j] = pages[p][TABLE + i]
      <4>1. CASE p = tail /\ i = last
        <5>1. ~(target = tail /\ k = last)
          BY <3>2, <4>1
        <5>2. Lists(pages', C2[s], target, k)
          BY <1>7, <1>9, <5>1
        <5> QED
          BY <4>1, <5>1, <5>2
      <4>2. CASE ~(p = tail /\ i = last)
        <5>1. Lists(pages', C2[s], p, i) /\ ~(p = target /\ i = k)
          BY <1>9, <3>2, <4>2
        <5> QED
          BY <1>11, <5>1
      <4> QED
        BY <4>1, <4>2
    <3>3. a \in ListedIn(pages', C2[s]) <=> \E p, i : Lists(pages', C2[s], p, i) /\ pages'[p][TABLE + i] = a
      BY <1>19, ListedPlace
    <3>4. a \in ListedIn(pages, C[s]) <=> \E p, i : Lists(pages, C[s], p, i) /\ pages[p][TABLE + i] = a
      BY <1>18, ListedPlace
    <3> QED
      BY ONLY <1>14, <3>1, <3>2, <3>3, <3>4, s \in Size
  <2>2. ListedIn(pages', C2[s]) = ListedIn(pages, C[s]) \ {b}
    BY ONLY <2>1
  <2> QED
    BY <1>17, <2>2
<1>23. Contents' = Contents \ {<<s, b>>}
  <2> DEFINE L == Listing
             L2 == Listing'
  <2>1. Loses(L, L2, s, b)
    BY <1>21, <1>22 DEF Loses
  <2> HIDE DEF L, L2
  <2>2. Pairs(L2) = Pairs(L) \ {<<s, b>>}
    BY ONLY <2>1, PairsRemoved, s \in Size
  <2> QED
    BY <2>2, ContentsPairs DEF L, L2
<1>24. b \in ListedUnder(s)
  BY <1>1, <1>20, ListedUnderIn
<1> QED
  BY <1>15, <1>16, <1>20, <1>23, <1>24

Store(pg, p, w, v) == [pg EXCEPT ![p][w] = v]

Stored(pg, D, p, w, v, pg2) ==
  /\ IsFile(pg2, D) /\ pg2[p][w] = v
  /\ \A q \in D : \A x \in Word : q # p \/ x # w => pg2[q][x] = pg[q][x]

LEMMA StoreFacts ==
  ASSUME NEW pg, NEW D, IsFile(pg, D), NEW p \in D, NEW w \in Word, NEW v \in Int
  PROVE  Stored(pg, D, p, w, v, Store(pg, p, w, v))
<1>1. LET pg2 == [pg EXCEPT ![p][w] = v] IN
      /\ IsFile(pg2, D) /\ pg2[p][w] = v
      /\ \A q \in D : \A x \in Word : q # p \/ x # w => pg2[q][x] = pg[q][x]
  BY StoreShape
<1> QED
  BY <1>1, Zenon DEF Store, Stored

(* The file with the tail's last address moved to place k of the target.   *)
Moved(pg, target, k, tail, v, last) ==
  Store(Store(Store(pg, target, TABLE + k, v), tail, TABLE + last, 0), tail, NITEMS, last)

LEMMA MovedFacts ==
  ASSUME NEW pg, NEW D, IsFile(pg, D), NEW target \in D, NEW tail \in D,
         NEW k \in 0 .. Capacity - 1, NEW last \in 0 .. Capacity - 1, NEW v \in Int
  PROVE  LET m == Moved(pg, target, k, tail, v, last) IN
         /\ IsFile(m, D) /\ m[tail][NITEMS] = last
         /\ ~(target = tail /\ k = last) => m[target][TABLE + k] = v
         /\ \A q \in D : \A x \in Word :
              ~(q = target /\ x = TABLE + k) /\ ~(q = tail /\ x \in {TABLE + last, NITEMS})
                => m[q][x] = pg[q][x]
<1>0. PICK w1 : w1 = TABLE + k
  OBVIOUS
<1>w. PICK w2 : w2 = TABLE + last
  OBVIOUS
<1>1. /\ w1 \in Word /\ w2 \in Word /\ NITEMS \in Word /\ NITEMS \notin {w1, w2}
      /\ last \in Int /\ 0 \in Int /\ (k # last => w1 # w2)
  BY <1>0, <1>w, ItemWords, WordNames, ParameterAssumption DEF TABLE
<1> DEFINE one == Store(pg, target, w1, v)
           two == Store(one, tail, w2, 0)
           m == Store(two, tail, NITEMS, last)
<1>2. Stored(pg, D, target, w1, v, one)
  BY <1>1, StoreFacts
<1> HIDE DEF one
<1>3. Stored(one, D, tail, w2, 0, two)
  <2>1. IsFile(one, D)
    BY <1>2 DEF Stored
  <2> QED
    BY <1>1, <2>1, StoreFacts
<1> HIDE DEF two
<1>4. Stored(two, D, tail, NITEMS, last, m)
  <2>1. IsFile(two, D)
    BY <1>3 DEF Stored
  <2> QED
    BY <1>1, <2>1, StoreFacts
<1> HIDE DEF m
<1> USE DEF Stored
<1>5. ASSUME ~(target = tail /\ k = last) PROVE m[target][w1] = v
  <2>1. two[target][w1] = v
    BY <1>1, <1>2, <1>3, <1>5
  <2> QED
    BY <1>1, <1>4, <2>1
<1>6. ASSUME NEW q \in D, NEW x \in Word,
             ~(q = target /\ x = w1) /\ ~(q = tail /\ x \in {w2, NITEMS})
      PROVE  m[q][x] = pg[q][x]
  <2>1. m[q][x] = two[q][x] /\ two[q][x] = one[q][x] /\ one[q][x] = pg[q][x]
    BY <1>2, <1>3, <1>4, <1>6
  <2> QED
    BY <2>1
<1>7. m = Moved(pg, target, k, tail, v, last)
  BY <1>0, <1>w DEF m, two, one, Moved
<1> QED
  BY ONLY <1>0, <1>w, <1>4, <1>5, <1>6, <1>7

LEMMA MovedIs ==
  ASSUME NEW pg, NEW target, NEW k, NEW tail, NEW v, NEW last
  PROVE  [pg EXCEPT ![target][TABLE + k] = v, ![tail][TABLE + last] = 0, ![tail][NITEMS] = last]
           = Moved(pg, target, k, tail, v, last)
BY Zenon DEF Moved, Store

(* The tail keeps an address.                                              *)
LEMMA RemoveKeepsTail ==
  ASSUME MapInv, NEW s \in Size, NEW b,
         NEW target \in Chained(s), NEW k \in 0 .. NItems(target) - 1, pages[target][TABLE + k] = b,
         NEW tail \in Tails(Directory(s)), NEW last, last = NItems(tail) - 1, last > 0,
         pages' = Moved(pages, target, k, tail, pages[tail][TABLE + last], last)
  PROVE  /\ MapInv'
         /\ b \in Block /\ b \in ListedUnder(s) /\ Contents' = Contents \ {<<s, b>>}
<1>1. /\ tail \in Chained(s) /\ tail \in Used /\ tail \in Bucket /\ pages[tail][NEXT] = 0
      /\ NItems(tail) \in 1 .. Capacity
      /\ \A q \in Chained(s) \ {tail} : pages[q][NEXT] # 0 /\ NItems(q) = Capacity
  BY TailFacts
<1>2. target \in Used /\ target \in Bucket /\ NItems(target) \in 1 .. Capacity /\ Used \subseteq Bucket
  BY ChainFacts, PlacesOfPages DEF MapInv
<1>3. /\ Capacity \in Nat /\ last \in 1 .. Capacity - 1 /\ last \in 0 .. Capacity - 1
      /\ last \in 1 .. Capacity /\ k \in 0 .. Capacity - 1
  BY <1>1, <1>2, ParameterAssumption
<1>4. /\ 0 \in Pages /\ 0 \notin Bucket /\ Bucket \subseteq Pages
      /\ tail \in Pages /\ target \in Pages /\ IsFile(pages, Pages)
      /\ \A t \in Index : DirPage(t) \notin Bucket /\ DirPage(t) \in Pages
  BY <1>1, <1>2, PlacesOfPages DEF MapInv
<1>5. /\ TABLE + k \in Word \ {NEXT, NITEMS} /\ TABLE + last \in Word \ {NEXT, NITEMS}
      /\ NEXT \in Word /\ NITEMS \in Word /\ NEXT # NITEMS
  BY <1>3, ItemWords, WordNames DEF NEXT, NITEMS
<1>6. /\ IsFile(pages', Pages) /\ pages'[tail][NITEMS] = last
      /\ ~(target = tail /\ k = last) => pages'[target][TABLE + k] = pages[tail][TABLE + last]
      /\ \A q \in Pages : \A x \in Word :
           ~(q = target /\ x = TABLE + k) /\ ~(q = tail /\ x \in {TABLE + last, NITEMS})
             => pages'[q][x] = pages[q][x]
  <2> DEFINE D == Pages
             v == pages[tail][TABLE + last]
  <2>1. IsFile(pages, D) /\ target \in D /\ tail \in D /\ v \in Int
    BY <1>4, <1>5 DEF IsFile
  <2>2. D = Pages /\ pages' = Moved(pages, target, k, tail, v, last) /\ v = pages[tail][TABLE + last]
    OBVIOUS
  <2> HIDE DEF D, v
  <2>3. LET m == Moved(pages, target, k, tail, v, last) IN
        /\ IsFile(m, D) /\ m[tail][NITEMS] = last
        /\ ~(target = tail /\ k = last) => m[target][TABLE + k] = v
        /\ \A q \in D : \A x \in Word :
             ~(q = target /\ x = TABLE + k) /\ ~(q = tail /\ x \in {TABLE + last, NITEMS})
               => m[q][x] = pages[q][x]
    BY ONLY <1>3, <2>1, MovedFacts, SMTT(30)
  <2> QED
    BY ONLY <2>2, <2>3
<1>7. Pages' = Pages
  BY <1>6 DEF IsFile, Pages
<1>8. \A q \in Pages \ Bucket : \A x \in Word : pages'[q][x] = pages[q][x]
  BY <1>1, <1>2, <1>6
<1>9. Head' = Head /\ Used' = Used
  <2>1. Head' = Head
    BY <1>4, <1>8, WordNames DEF Head
  <2> QED
    BY <2>1 DEF Used
<1>10. ControlIntact'
  <2>1. {NDIRS, MAXSIZE, LAST} \subseteq Word
    BY PageWords DEF NDIRS, MAXSIZE, LAST, Word
  <2>2. \A x \in {NDIRS, MAXSIZE, LAST} : pages'[0][x] = pages[0][x]
    BY <1>4, <1>8, <2>1
  <2> QED
    BY <2>2 DEF MapInv, ControlIntact
<1>11. Size \subseteq Index /\ \A t \in Index : Directory(t)' = Directory(t)
  BY <1>4, <1>8, DirectoryWords DEF Index, Directory
<1>12. \A q \in Bucket : pages'[q][NEXT] = pages[q][NEXT]
  BY <1>4, <1>5, <1>6
<1>13. \A q \in Bucket \ {tail} : pages'[q][NITEMS] = pages[q][NITEMS]
  BY <1>4, <1>5, <1>6
<1>14. BlocksKept'
  <2>1. \A q \in Head .. Sentinel - 1 : q \in Bucket /\ q # tail
    <3>1. Head \in FirstBlock .. Sentinel /\ FirstBlock \in Nat /\ Sentinel \in Nat
      BY PageWords DEF MapInv, BlocksKept
    <3> QED
      BY <1>1, <3>1 DEF Bucket, Used
  <2>2. \A q \in Head .. Sentinel - 1 : pages'[q][NEXT] = q + 1 /\ pages'[q][NITEMS] = 0
    BY <1>12, <1>13, <2>1 DEF MapInv, BlocksKept, NItems
  <2>3. \A q \in Used : pages'[q][NEXT] \in Used \cup {0} /\ pages'[q][NITEMS] \in 0 .. Capacity
    <3>1. ASSUME NEW q \in Used PROVE pages'[q][NITEMS] \in 0 .. Capacity
      <4>1. CASE q = tail
        BY <1>3, <1>6, <4>1
      <4>2. CASE q # tail
        BY <1>2, <1>13, <4>2 DEF MapInv, BlocksKept, NItems
      <4> QED
        BY <4>1, <4>2
    <3> QED
      BY <1>2, <1>12, <3>1 DEF MapInv, BlocksKept
  <2> QED
    BY <1>9, <2>2, <2>3 DEF MapInv, BlocksKept, NItems
<1>15. \A t \in Size : Chained(t)' = Chained(t) /\ Chained(t) \subseteq Bucket
  BY <1>2, <1>11, <1>12, ChainKept, ChainFacts
<1>16. ASSUME NEW t \in Size \ {s} PROVE Packed(t)'
  <2>1. tail \notin Chained(t)
    BY <1>1 DEF MapInv, ChainsApart
  <2>2. \A q \in Chained(t) : /\ pages'[q][NEXT] = pages[q][NEXT]
                              /\ pages'[q][NITEMS] = pages[q][NITEMS]
    BY <1>12, <1>13, <1>15, <2>1
  <2> QED
    BY <1>11, <2>2, PackedKept
<1>17. Packed(s)'
  <2>1. tail \in Tails(Directory(s))'
    BY <1>1, <1>12, <1>15 DEF Tails, Chained
  <2>2. \A q \in Chained(s) \ {tail} : pages'[q][NITEMS] = Capacity /\ pages'[q][NEXT] # 0
    BY <1>1, <1>12, <1>13, <1>15 DEF NItems
  <2>3. pages'[tail][NEXT] = 0
    BY <1>1, <1>12
  <2> QED
    BY <1>3, <1>6, <1>15, <2>1, <2>2, <2>3 DEF Packed, NItems
<1>18. ChainsPacked'
  BY <1>16, <1>17, PackedAll
<1>19. /\ ChainsApart' /\ ListedOnce'
       /\ b \in Block /\ b \in ListedUnder(s) /\ Contents' = Contents \ {<<s, b>>}
  <2>1. \A q \in Used \ {tail} : pages'[q][NITEMS] = pages[q][NITEMS]
    BY <1>2, <1>13
  <2>2. ASSUME NEW q \in Used, NEW i \in 0 .. Capacity - 1
        PROVE  \/ q = target /\ i = k
               \/ q = tail /\ i = last
               \/ pages'[q][TABLE + i] = pages[q][TABLE + i]
    <3>1. TABLE + i \in Word \ {NITEMS} /\ q \in Pages
      BY <1>2, <1>4, ItemWords
    <3>2. TABLE + i = TABLE + k => i = k
      BY <1>3 DEF TABLE
    <3>3. TABLE + i = TABLE + last => i = last
      BY <1>3 DEF TABLE
    <3> QED
      BY <1>6, <3>1, <3>2, <3>3
  <2>3. /\ Chained(s)' \subseteq Chained(s) /\ Chained(s) \ {tail} \subseteq Chained(s)'
        /\ tail \in Chained(s)' /\ \A t \in Size \ {s} : Chained(t)' = Chained(t)
    BY <1>1, <1>15
  <2>4. Replaced(s, target, k, tail, last)
    BY ONLY <1>6, <2>1, <2>2, <2>3 DEF Replaced
  <2> QED
    BY <1>1, <2>4, Shrunk
<1>20. FileTyped'
  BY <1>6, <1>7 DEF MapInv, FileTyped
<1>21. DirectoryKept'
  BY <1>9, <1>11 DEF MapInv, DirectoryKept
<1> QED
  BY <1>10, <1>14, <1>18, <1>19, <1>20, <1>21 DEF MapInv

(* The file once the page past its end was read.                           *)
LEMMA TouchShape ==
  ASSUME FileTyped, NEW x, NEW pg \in Touch(Sentinel, x)
  PROVE  IsFile(pg, 0 .. Sentinel) /\ \A q \in 0 .. Sentinel - 1 : pg[q] = pages[q]
<1>1. Sentinel \in Nat
  BY PageWords
<1>2. CASE Sentinel \in Pages
  <2>1. Pages = 0 .. Sentinel
    BY <1>1, <1>2 DEF FileTyped
  <2>2. pg = pages
    BY <1>2 DEF Touch
  <2> QED
    BY <2>1, <2>2 DEF FileTyped
<1>3. CASE Sentinel \notin Pages
  <2>1. Pages = 0 .. Sentinel - 1 /\ IsFile(pages, Pages)
    BY <1>1, <1>3 DEF FileTyped
  <2>2. Pages \cup {Sentinel} = 0 .. Sentinel
    BY <1>1, <2>1
  <2>3. PICK stale \in {EmptyPage} \cup {pages[q] : q \in Pages \ x} :
          pg = [q \in Pages \cup {Sentinel} |-> IF q = Sentinel THEN stale ELSE pages[q]]
    BY <1>3 DEF Touch
  <2>4. stale = [y \in Word |-> stale[y]] /\ \A y \in Word : stale[y] \in Int
    <3>1. CASE stale = EmptyPage
      BY <3>1 DEF EmptyPage
    <3>2. CASE stale # EmptyPage
      <4>1. PICK q \in Pages : stale = pages[q]
        BY <3>2
      <4>2. pages[q] = [y \in Word |-> pages[q][y]] /\ \A y \in Word : pages[q][y] \in Int
        BY <2>1 DEF IsFile
      <4> QED
        BY <4>1, <4>2
    <3> QED
      BY <3>1, <3>2
  <2>5. \A q \in 0 .. Sentinel - 1 : pg[q] = pages[q]
    BY <1>1, <2>2, <2>3
  <2>6. \A q \in 0 .. Sentinel - 1 :
          pages[q] = [y \in Word |-> pages[q][y]] /\ \A y \in Word : pages[q][y] \in Int
    BY <2>1 DEF IsFile
  <2>7. pg[Sentinel] = stale
    BY <1>1, <2>2, <2>3
  <2>8. ASSUME NEW q \in 0 .. Sentinel
        PROVE  pg[q] = [y \in Word |-> pg[q][y]] /\ \A y \in Word : pg[q][y] \in Int
    <3>1. CASE q = Sentinel
      BY <2>4, <2>7, <3>1
    <3>2. CASE q # Sentinel
      <4>1. q \in 0 .. Sentinel - 1
        BY <1>1, <3>2
      <4> QED
        BY <2>5, <2>6, <4>1
    <3> QED
      BY <3>1, <3>2
  <2>9. pg = [q \in 0 .. Sentinel |-> pg[q]]
    BY <2>2, <2>3
  <2>10. pg = [q \in 0 .. Sentinel |-> [y \in Word |-> pg[q][y]]]
    BY ONLY <2>8, <2>9
  <2>11. IsFile(pg, 0 .. Sentinel)
    BY <2>8, <2>10 DEF IsFile
  <2> QED
    BY <2>5, <2>11
<1> QED
  BY <1>2, <1>3

(* The words of the file once an emptied tail was unlinked: word w of page *)
(* l, which led to it, is null.                                            *)
Unlinked(pg, target, k, tail, v, l, w) ==
  Store(Store(Store(Moved(pg, target, k, tail, v, 0), l, w, 0), tail, NEXT, 0), Sentinel, NEXT, target)

LEMMA UnlinkedWords ==
  ASSUME NEW pg, IsFile(pg, 0 .. Sentinel),
         NEW target \in Bucket, NEW tail \in Bucket, NEW k \in 0 .. Capacity - 1, NEW v \in Int,
         NEW l \in 0 .. Sentinel - 1, NEW w \in Word,
         l \in Bucket => w = NEXT,
         pg[tail][NEXT] = 0
  PROVE  LET m == Unlinked(pg, target, k, tail, v, l, w) IN
         /\ IsFile(m, 0 .. Sentinel) /\ m[l][w] = 0 /\ m[tail][NITEMS] = 0
         /\ ~(target = tail /\ k = 0) => m[target][TABLE + k] = v
         /\ \A q \in 0 .. Sentinel - 1 : \A x \in Word :
              ~(q = target /\ x = TABLE + k) /\ ~(q = tail /\ x \in {TABLE + 0, NITEMS}) /\ ~(q = l /\ x = w)
                => m[q][x] = pg[q][x]
<1> DEFINE D == 0 .. Sentinel
           one == Moved(pg, target, k, tail, v, 0)
           two == Store(one, l, w, 0)
           three == Store(two, tail, NEXT, 0)
           m == Store(three, Sentinel, NEXT, target)
<1>1. /\ FirstBlock \in Nat \ {0} /\ Sentinel \in Nat
      /\ Bucket \subseteq D \ {Sentinel} /\ Bucket \subseteq Int
      /\ 0 .. Sentinel - 1 = D \ {Sentinel} /\ Sentinel \in D
  <2>1. FirstBlock \in Nat \ {0} /\ Sentinel \in Nat
    BY PageWords
  <2>2. Bucket \subseteq 0 .. Sentinel - 1 /\ Bucket \subseteq Int
    BY <2>1 DEF Bucket
  <2>3. 0 .. Sentinel - 1 = D \ {Sentinel} /\ Sentinel \in D
    BY <2>1
  <2> HIDE DEF D
  <2> QED
    BY <2>1, <2>2, <2>3
<1>2. target \in D /\ tail \in D /\ l \in D /\ tail # Sentinel /\ target # Sentinel /\ l # Sentinel
      /\ target \in Int /\ 0 \in Int
  BY <1>1
<1>3. 0 \in 0 .. Capacity - 1
  BY ParameterAssumption
<1>4. NEXT \in Word /\ NITEMS \in Word /\ TABLE + k \in Word /\ TABLE + 0 \in Word
      /\ NEXT \notin {NITEMS, TABLE + k, TABLE + 0}
  BY <1>3, ItemWords, WordNames DEF NEXT, NITEMS
<1>5. IsFile(pg, D)
  OBVIOUS
<1>d. D \ {Sentinel} = 0 .. Sentinel - 1
  BY <1>1
<1> HIDE DEF D
<1>6. LET y == Moved(pg, target, k, tail, v, 0) IN
      /\ IsFile(y, D) /\ y[tail][NITEMS] = 0
      /\ ~(target = tail /\ k = 0) => y[target][TABLE + k] = v
      /\ \A q \in D : \A x \in Word :
           ~(q = target /\ x = TABLE + k) /\ ~(q = tail /\ x \in {TABLE + 0, NITEMS})
             => y[q][x] = pg[q][x]
  <2>1. PICK z : z = 0
    OBVIOUS
  <2>2. LET y == Moved(pg, target, k, tail, v, z) IN
        /\ IsFile(y, D) /\ y[tail][NITEMS] = z
        /\ ~(target = tail /\ k = z) => y[target][TABLE + k] = v
        /\ \A q \in D : \A x \in Word :
             ~(q = target /\ x = TABLE + k) /\ ~(q = tail /\ x \in {TABLE + z, NITEMS})
               => y[q][x] = pg[q][x]
    <3>1. z \in 0 .. Capacity - 1 /\ target \in D /\ tail \in D
      BY <1>2, <1>3, <2>1
    <3> QED
      BY ONLY <1>5, <3>1, k \in 0 .. Capacity - 1, v \in Int, MovedFacts
  <2> QED
    BY ONLY <2>1, <2>2
<1>7. /\ IsFile(one, D) /\ one[tail][NITEMS] = 0
      /\ ~(target = tail /\ k = 0) => one[target][TABLE + k] = v
      /\ \A q \in D : \A x \in Word :
           ~(q = target /\ x = TABLE + k) /\ ~(q = tail /\ x \in {TABLE + 0, NITEMS})
             => one[q][x] = pg[q][x]
  BY ONLY <1>6
<1> HIDE DEF one
<1>8. Stored(one, D, l, w, 0, two)
  BY <1>2, <1>7, StoreFacts
<1> HIDE DEF two
<1>9. Stored(two, D, tail, NEXT, 0, three)
  <2>1. IsFile(two, D)
    BY <1>8 DEF Stored
  <2> QED
    BY <1>2, <1>4, <2>1, StoreFacts
<1> HIDE DEF three
<1>10. Stored(three, D, Sentinel, NEXT, target, m)
  <2>1. IsFile(three, D)
    BY <1>9 DEF Stored
  <2> QED
    BY <1>1, <1>2, <1>4, <2>1, StoreFacts DEF D
<1> HIDE DEF m
<1> USE DEF Stored
<1>11. m[l][w] = 0
  <2>1. two[l][w] = 0
    BY <1>8
  <2>2. three[l][w] = 0
    BY <1>2, <1>9, <2>1
  <2> QED
    BY <1>2, <1>10, <2>2
<1>12. ASSUME NEW q \in D \ {Sentinel}, NEW x \in Word, ~(q = l /\ x = w), ~(q = tail /\ x = NEXT)
       PROVE  m[q][x] = one[q][x]
  <2>1. m[q][x] = three[q][x]
    BY <1>10
  <2>2. three[q][x] = two[q][x]
    BY <1>9, <1>12
  <2>3. two[q][x] = one[q][x]
    BY <1>8, <1>12
  <2> QED
    BY <2>1, <2>2, <2>3
<1>13. /\ ~(tail = l /\ NITEMS = w)
       /\ ~(target = l /\ TABLE + k = w)
  BY <1>4
<1>14. m[tail][NITEMS] = 0
  BY <1>2, <1>4, <1>7, <1>12, <1>13
<1>15. ~(target = tail /\ k = 0) => m[target][TABLE + k] = v
  BY <1>2, <1>4, <1>7, <1>12, <1>13
<1>16. ASSUME NEW q \in D \ {Sentinel}, NEW x \in Word,
              ~(q = target /\ x = TABLE + k), ~(q = tail /\ x \in {TABLE + 0, NITEMS}), ~(q = l /\ x = w)
       PROVE  m[q][x] = pg[q][x]
  <2>1. CASE q = tail /\ x = NEXT
    <3>1. three[tail][NEXT] = 0
      BY <1>9
    <3> QED
      BY <1>2, <1>4, <1>10, <2>1, <3>1
  <2>2. CASE ~(q = tail /\ x = NEXT)
    BY <1>7, <1>12, <1>16, <2>2
  <2> QED
    BY <2>1, <2>2
<1>17. m = Unlinked(pg, target, k, tail, v, l, w)
  BY DEF m, three, two, one, Unlinked
<1>18. IsFile(m, D)
  BY <1>10
<1> QED
  BY ONLY <1>11, <1>14, <1>15, <1>16, <1>17, <1>18, <1>d DEF D

LEMMA Emptied ==
  ASSUME MapInv, NEW s \in Size, NEW target \in Chained(s), NEW k \in 0 .. NItems(target) - 1,
         NEW tail \in Tails(Directory(s)), NItems(tail) = 1,
         NEW y, NEW pg \in Touch(Sentinel, y),
         NEW l \in 0 .. Sentinel - 1, NEW w \in Word,
         l = 0 => w \notin {HEAD, NDIRS, MAXSIZE, LAST},
         l \in Bucket => l \in Used /\ w = NEXT,
         pages' = Unlinked(pg, target, k, tail, pages[tail][TABLE + 0], l, w)
  PROVE  /\ FileTyped' /\ ControlIntact' /\ BlocksKept' /\ Used' = Used
         /\ pages'[l][w] = 0 /\ pages'[tail][NITEMS] = 0
         /\ \A t \in Index : (DirPage(t) = l => DirWord(t) # w) => Directory(t)' = Directory(t)
         /\ \A q \in Bucket : q # l => pages'[q][NEXT] = pages[q][NEXT]
         /\ \A q \in Bucket \ {tail} : pages'[q][NITEMS] = pages[q][NITEMS]
         /\ \A q \in Used : \A i \in 0 .. Capacity - 1 :
              \/ q = target /\ i = k
              \/ q = tail /\ i = 0
              \/ pages'[q][TABLE + i] = pages[q][TABLE + i]
         /\ ~(target = tail /\ k = 0) => pages'[target][TABLE + k] = pages[tail][TABLE + 0]
<1> DEFINE v == pages[tail][TABLE + 0]
<1>1. tail \in Used /\ tail \in Bucket /\ pages[tail][NEXT] = 0
  BY TailFacts
<1>2. target \in Used /\ target \in Bucket /\ NItems(target) \in 1 .. Capacity /\ Used \subseteq Bucket
  BY ChainFacts, PlacesOfPages DEF MapInv
<1>3. k \in 0 .. Capacity - 1 /\ 0 \in 0 .. Capacity - 1 /\ Capacity \in Nat
  BY <1>2, ParameterAssumption
<1>4. /\ 0 \in Pages /\ 0 \notin Bucket /\ Bucket \subseteq Pages /\ IsFile(pages, Pages)
      /\ \A t \in Index : DirPage(t) \notin Bucket
  BY PlacesOfPages DEF MapInv
<1>5. /\ FirstBlock \in Nat \ {0} /\ Sentinel \in Nat /\ NDirs \in Nat
      /\ Bucket \subseteq 0 .. Sentinel - 1 /\ 0 \in 0 .. Sentinel - 1
      /\ 0 .. NDirs \subseteq 0 .. Sentinel - 1
  BY PageWords DEF Bucket, FirstBlock
<1>6. /\ NEXT \in Word /\ NITEMS \in Word /\ HEAD \in Word /\ NEXT # NITEMS
      /\ \A i \in 0 .. Capacity - 1 : TABLE + i \in Word \ {NEXT, NITEMS}
  BY ItemWords, WordNames DEF NEXT, NITEMS
<1>7. IsFile(pg, 0 .. Sentinel) /\ \A q \in 0 .. Sentinel - 1 : pg[q] = pages[q]
  BY TouchShape DEF MapInv
<1>8. v \in Int
  BY <1>1, <1>3, <1>4, <1>6 DEF IsFile
<1>9. pages' = Unlinked(pg, target, k, tail, v, l, w)
  OBVIOUS
<1>v. v = pages[tail][TABLE + 0]
  OBVIOUS
<1> HIDE DEF v
<1>10. LET m == Unlinked(pg, target, k, tail, v, l, w) IN
       /\ IsFile(m, 0 .. Sentinel) /\ m[l][w] = 0 /\ m[tail][NITEMS] = 0
       /\ ~(target = tail /\ k = 0) => m[target][TABLE + k] = v
       /\ \A q \in 0 .. Sentinel - 1 : \A x \in Word :
            ~(q = target /\ x = TABLE + k) /\ ~(q = tail /\ x \in {TABLE + 0, NITEMS}) /\ ~(q = l /\ x = w)
              => m[q][x] = pg[q][x]
  <2>1. pg[tail][NEXT] = 0 /\ target \in Bucket /\ tail \in Bucket /\ IsFile(pg, 0 .. Sentinel)
    BY <1>1, <1>2, <1>5, <1>7
  <2>2. (l \in Bucket => w = NEXT) /\ l \in 0 .. Sentinel - 1 /\ w \in Word
    OBVIOUS
  <2> QED
    BY ONLY <1>3, <1>8, <2>1, <2>2, UnlinkedWords
<1>11. /\ IsFile(pages', 0 .. Sentinel) /\ pages'[l][w] = 0 /\ pages'[tail][NITEMS] = 0
       /\ ~(target = tail /\ k = 0) => pages'[target][TABLE + k] = v
       /\ \A q \in 0 .. Sentinel - 1 : \A x \in Word :
            ~(q = target /\ x = TABLE + k) /\ ~(q = tail /\ x \in {TABLE + 0, NITEMS}) /\ ~(q = l /\ x = w)
              => pages'[q][x] = pg[q][x]
  BY ONLY <1>9, <1>10
<1>12. ASSUME NEW q \in 0 .. Sentinel - 1, NEW x \in Word,
              ~(q = target /\ x = TABLE + k), ~(q = tail /\ x \in {TABLE + 0, NITEMS}), ~(q = l /\ x = w)
       PROVE  pages'[q][x] = pages[q][x]
  <2>1. pages'[q][x] = pg[q][x] /\ pg[q] = pages[q]
    BY ONLY <1>7, <1>11, <1>12
  <2> QED
    BY <2>1
<1>13. FileTyped'
  <2>1. DOMAIN pages' = 0 .. Sentinel
    BY <1>11 DEF IsFile
  <2> QED
    BY <1>11, <2>1 DEF FileTyped, Pages
<1>14. ASSUME NEW x \in Word, l = 0 => w # x PROVE pages'[0][x] = pages[0][x]
  BY <1>1, <1>2, <1>4, <1>5, <1>12, <1>14
<1>15. Head' = Head /\ Used' = Used
  <2>1. Head' = Head
    BY <1>6, <1>14 DEF Head
  <2> QED
    BY <2>1 DEF Used
<1>16. ControlIntact'
  <2>1. {NDIRS, MAXSIZE, LAST} \subseteq Word
    BY PageWords DEF NDIRS, MAXSIZE, LAST, Word
  <2>2. \A x \in {NDIRS, MAXSIZE, LAST} : pages'[0][x] = pages[0][x]
    BY <1>14, <2>1
  <2> QED
    BY <2>2 DEF MapInv, ControlIntact
<1>17. ASSUME NEW t \in Index, DirPage(t) = l => DirWord(t) # w PROVE Directory(t)' = Directory(t)
  <2>1. DirPage(t) \in 0 .. Sentinel - 1 /\ DirWord(t) \in Word /\ DirPage(t) \notin {tail, target}
    BY <1>1, <1>2, <1>4, <1>5, DirectoryWords
  <2> QED
    BY <1>12, <1>17, <2>1 DEF Directory
<1>18. ASSUME NEW q \in Bucket, q # l PROVE pages'[q][NEXT] = pages[q][NEXT]
  BY <1>3, <1>5, <1>6, <1>12, <1>18
<1>19. ASSUME NEW q \in Bucket \ {tail} PROVE pages'[q][NITEMS] = pages[q][NITEMS]
  <2>1. ~(q = l /\ NITEMS = w)
    BY <1>6
  <2> QED
    BY <1>3, <1>5, <1>6, <1>12, <2>1
<1>20. ASSUME NEW q \in Used, NEW i \in 0 .. Capacity - 1
       PROVE  \/ q = target /\ i = k
              \/ q = tail /\ i = 0
              \/ pages'[q][TABLE + i] = pages[q][TABLE + i]
  <2>1. TABLE + i \in Word \ {NEXT, NITEMS} /\ q \in Bucket /\ q \in 0 .. Sentinel - 1
    BY <1>2, <1>5, <1>6
  <2>2. (TABLE + i = TABLE + k => i = k) /\ (TABLE + i = TABLE + 0 => i = 0)
    BY <1>3 DEF TABLE
  <2>3. ~(q = l /\ TABLE + i = w)
    BY <2>1
  <2> QED
    BY <1>12, <2>1, <2>2, <2>3
<1>21. BlocksKept'
  <2>1. \A q \in Head .. Sentinel - 1 : q \in Bucket /\ q # tail /\ q # l
    <3>1. Head \in FirstBlock .. Sentinel
      BY DEF MapInv, BlocksKept
    <3>2. \A q \in Head .. Sentinel - 1 : q \in Bucket /\ q \notin Used
      BY <1>5, <3>1 DEF Bucket, Used
    <3> QED
      BY <1>1, <3>2
  <2>2. \A q \in Head .. Sentinel - 1 : pages'[q][NEXT] = q + 1 /\ pages'[q][NITEMS] = 0
    BY <1>18, <1>19, <2>1 DEF MapInv, BlocksKept, NItems
  <2>3. ASSUME NEW q \in Used PROVE pages'[q][NITEMS] \in 0 .. Capacity
    <3>1. CASE q = tail
      BY <1>3, <1>11, <3>1
    <3>2. CASE q # tail
      BY <1>2, <1>19, <3>2 DEF MapInv, BlocksKept, NItems
    <3> QED
      BY <3>1, <3>2
  <2>4. ASSUME NEW q \in Used PROVE pages'[q][NEXT] \in Used \cup {0}
    <3>1. CASE q = l
      <4>1. w = NEXT
        BY <1>2, <3>1
      <4> QED
        BY <1>11, <3>1, <4>1
    <3>2. CASE q # l
      BY <1>2, <1>18, <3>2 DEF MapInv, BlocksKept
    <3> QED
      BY <3>1, <3>2
  <2> QED
    BY <1>15, <2>2, <2>3, <2>4 DEF MapInv, BlocksKept, NItems
<1> QED
  BY ONLY <1>11, <1>13, <1>15, <1>16, <1>17, <1>18, <1>19, <1>20, <1>21, <1>v

(* The only block of a chain is emptied.                                   *)
LEMMA RemoveEmptiesChain ==
  ASSUME MapInv, NEW s \in Size, NEW b,
         NEW target \in Chained(s), NEW k \in 0 .. NItems(target) - 1, pages[target][TABLE + k] = b,
         NEW tail \in Tails(Directory(s)), NItems(tail) = 1, Directory(s) = tail,
         NEW y, NEW pg \in Touch(Sentinel, y),
         pages' = Unlinked(pg, target, k, tail, pages[tail][TABLE + 0], DirPage(s), DirWord(s))
  PROVE  /\ MapInv'
         /\ b \in Block /\ b \in ListedUnder(s) /\ Contents' = Contents \ {<<s, b>>}
<1> DEFINE l == DirPage(s)
           w == DirWord(s)
<1>1. /\ tail \in Chained(s) /\ tail \in Used /\ tail \in Bucket /\ pages[tail][NEXT] = 0
  BY TailFacts
<1>2. Used \subseteq Bucket /\ Size \subseteq Index /\ s \in Index
  BY PlacesOfPages DEF MapInv, Index
<1>3. l \in 0 .. Sentinel - 1 /\ w \in Word /\ l \notin Bucket
      /\ (l = 0 => w \notin {HEAD, NDIRS, MAXSIZE, LAST})
  <2>1. 0 .. NDirs \subseteq 0 .. Sentinel - 1
    BY PageWords DEF FirstBlock
  <2> QED
    BY <1>2, <2>1, DirectoryWords, PlacesOfPages DEF MapInv
<1>4. Directory(s)' = pages'[l][w] /\ \A t \in Index : DirPage(t) = l /\ DirWord(t) = w => t = s
  BY <1>2, DirectoryWords DEF Directory
<1>5. pages' = Unlinked(pg, target, k, tail, pages[tail][TABLE + 0], l, w)
  OBVIOUS
<1> HIDE DEF l, w
<1>6. /\ FileTyped' /\ ControlIntact' /\ BlocksKept' /\ Used' = Used
      /\ pages'[l][w] = 0 /\ pages'[tail][NITEMS] = 0
      /\ \A t \in Index : (DirPage(t) = l => DirWord(t) # w) => Directory(t)' = Directory(t)
      /\ \A q \in Bucket : q # l => pages'[q][NEXT] = pages[q][NEXT]
      /\ \A q \in Bucket \ {tail} : pages'[q][NITEMS] = pages[q][NITEMS]
      /\ \A q \in Used : \A i \in 0 .. Capacity - 1 :
           \/ q = target /\ i = k
           \/ q = tail /\ i = 0
           \/ pages'[q][TABLE + i] = pages[q][TABLE + i]
      /\ ~(target = tail /\ k = 0) => pages'[target][TABLE + k] = pages[tail][TABLE + 0]
  BY <1>3, <1>5, Emptied
<1>7. Directory(s)' = 0 /\ \A t \in Index \ {s} : Directory(t)' = Directory(t)
  BY <1>4, <1>6
<1>8. Chained(s) = {tail}
  <2>1. Walk(pages, tail, 0) = {tail}
    BY <1>1, WalkOfTail
  <2> QED
    BY <2>1 DEF Chained, Chain
<1>9. Chained(s)' = {}
  <2>1. Walk(pages', 0, 0) = {}
    BY WalkFromNull
  <2> QED
    BY <1>7, <2>1 DEF Chained, Chain
<1>10. ASSUME NEW t \in Size \ {s} PROVE Chained(t)' = Chained(t) /\ Packed(t)'
  <2>1. tail \notin Chained(t) /\ Chained(t) \subseteq Bucket
    BY <1>1, <1>2, ChainFacts DEF MapInv, ChainsApart
  <2>2. \A q \in Chained(t) : /\ pages'[q][NEXT] = pages[q][NEXT]
                              /\ pages'[q][NITEMS] = pages[q][NITEMS]
    BY <1>3, <1>6, <2>1
  <2>3. Directory(t)' = Directory(t)
    BY <1>2, <1>7
  <2> QED
    BY <2>2, <2>3, ChainKept, PackedKept
<1>11. Packed(s)'
  BY <1>7 DEF Packed
<1>12. ChainsPacked'
  BY <1>10, <1>11, PackedAll
<1>13. DirectoryKept'
  BY <1>2, <1>6, <1>7 DEF MapInv, DirectoryKept
<1>14. /\ ChainsApart' /\ ListedOnce'
       /\ b \in Block /\ b \in ListedUnder(s) /\ Contents' = Contents \ {<<s, b>>}
  <2>1. Replaced(s, target, k, tail, 0)
    BY ONLY <1>2, <1>6, <1>8, <1>9, <1>10 DEF Replaced
  <2>2. 0 = NItems(tail) - 1
    OBVIOUS
  <2> QED
    BY <1>1, <2>1, <2>2, Shrunk
<1> QED
  BY <1>6, <1>12, <1>13, <1>14 DEF MapInv

(* The tail is emptied and unlinked from the block before it.              *)
LEMMA RemoveEmptiesTail ==
  ASSUME MapInv, NEW s \in Size, NEW b,
         NEW target \in Chained(s), NEW k \in 0 .. NItems(target) - 1, pages[target][TABLE + k] = b,
         NEW tail \in Tails(Directory(s)), NItems(tail) = 1, Directory(s) # tail,
         NEW u \in Chained(s), pages[u][NEXT] = tail,
         NEW y, NEW pg \in Touch(Sentinel, y),
         pages' = Unlinked(pg, target, k, tail, pages[tail][TABLE + 0], u, NEXT)
  PROVE  /\ MapInv'
         /\ b \in Block /\ b \in ListedUnder(s) /\ Contents' = Contents \ {<<s, b>>}
<1>1. /\ tail \in Chained(s) /\ tail \in Used /\ tail \in Bucket /\ pages[tail][NEXT] = 0
      /\ \A q \in Chained(s) \ {tail} : pages[q][NEXT] # 0 /\ NItems(q) = Capacity
  BY TailFacts
<1>2. /\ Used \subseteq Bucket /\ Size \subseteq Index /\ s \in Index /\ 0 \notin Bucket
      /\ \A t \in Index : DirPage(t) \notin Bucket
  BY PlacesOfPages DEF MapInv, Index
<1>3. u \in 0 .. Sentinel - 1 /\ NEXT \in Word /\ u \in Used /\ u \in Bucket /\ u # 0 /\ u # tail
  <2>1. u \in Used /\ u \in Bucket /\ u # 0
    BY <1>2, ChainFacts
  <2>2. Bucket \subseteq 0 .. Sentinel - 1
    BY PageWords DEF Bucket
  <2> QED
    BY <1>1, <1>2, <2>1, <2>2, WordNames
<1>4. /\ FileTyped' /\ ControlIntact' /\ BlocksKept' /\ Used' = Used
      /\ pages'[u][NEXT] = 0 /\ pages'[tail][NITEMS] = 0
      /\ \A t \in Index : (DirPage(t) = u => DirWord(t) # NEXT) => Directory(t)' = Directory(t)
      /\ \A q \in Bucket : q # u => pages'[q][NEXT] = pages[q][NEXT]
      /\ \A q \in Bucket \ {tail} : pages'[q][NITEMS] = pages[q][NITEMS]
      /\ \A q \in Used : \A i \in 0 .. Capacity - 1 :
           \/ q = target /\ i = k
           \/ q = tail /\ i = 0
           \/ pages'[q][TABLE + i] = pages[q][TABLE + i]
      /\ ~(target = tail /\ k = 0) => pages'[target][TABLE + k] = pages[tail][TABLE + 0]
  BY <1>3, Emptied
<1>5. \A t \in Index : Directory(t)' = Directory(t)
  BY <1>2, <1>3, <1>4
<1>6. Chained(s)' = Chained(s) \ {tail}
  <2>1. Leads(pages, Used, Directory(s)) /\ Chained(s) = Walk(pages, Directory(s), 0)
        /\ Chained(s) \subseteq Bucket
    BY <1>2, ChainFacts
  <2>2. \A q \in Walk(pages, Directory(s), 0) \ {u, tail} : pages'[q][NEXT] = pages[q][NEXT]
    BY <1>4, <2>1
  <2>3. tail \in Walk(pages, Directory(s), 0) /\ u \in Walk(pages, Directory(s), 0)
    BY <1>1, <2>1
  <2>4. Directory(s) # tail /\ pages[u][NEXT] = tail /\ pages[tail][NEXT] = 0 /\ pages'[u][NEXT] = 0
    BY <1>1, <1>4
  <2>5. Walk(pages', Directory(s), 0) = Walk(pages, Directory(s), 0) \ {tail}
    BY ONLY <2>1, <2>2, <2>3, <2>4, WalkCut
  <2> QED
    BY <1>2, <1>5, <2>1, <2>5 DEF Chained, Chain
<1>7. ASSUME NEW t \in Size \ {s} PROVE Chained(t)' = Chained(t) /\ Packed(t)'
  <2>1. {tail, u} \cap Chained(t) = {} /\ Chained(t) \subseteq Bucket
    BY <1>1, <1>2, ChainFacts DEF MapInv, ChainsApart
  <2>2. \A q \in Chained(t) : /\ pages'[q][NEXT] = pages[q][NEXT]
                              /\ pages'[q][NITEMS] = pages[q][NITEMS]
    BY <1>4, <2>1
  <2>3. Directory(t)' = Directory(t)
    BY <1>2, <1>5
  <2> QED
    BY <2>2, <2>3, ChainKept, PackedKept
<1>8. Packed(s)'
  <2>1. u \in Tails(Directory(s))'
    BY <1>3, <1>4, <1>6 DEF Tails, Chained
  <2>2. \A q \in Chained(s) \ {tail} : pages'[q][NITEMS] = Capacity
    BY <1>1, <1>2, <1>4, ChainFacts DEF NItems
  <2>3. Capacity \in 1 .. Capacity
    BY ParameterAssumption
  <2>4. \A q \in Chained(s)' : IF pages'[q][NEXT] = 0 THEN pages'[q][NITEMS] \in 1 .. Capacity
                                                     ELSE pages'[q][NITEMS] = Capacity
    BY ONLY <1>6, <2>2, <2>3
  <2> QED
    BY <2>1, <2>4 DEF Packed, NItems
<1>9. ChainsPacked'
  BY <1>7, <1>8, PackedAll
<1>10. DirectoryKept'
  BY <1>2, <1>4, <1>5 DEF MapInv, DirectoryKept
<1>11. /\ ChainsApart' /\ ListedOnce'
       /\ b \in Block /\ b \in ListedUnder(s) /\ Contents' = Contents \ {<<s, b>>}
  <2>1. Replaced(s, target, k, tail, 0)
    BY ONLY <1>2, <1>4, <1>6, <1>7 DEF Replaced
  <2>2. 0 = NItems(tail) - 1
    OBVIOUS
  <2> QED
    BY <1>1, <2>1, <2>2, Shrunk
<1> QED
  BY <1>4, <1>9, <1>10, <1>11 DEF MapInv

(* hash_table_pop, past its early return.                                  *)
LEMMA RemoveStep ==
  ASSUME MapInv, NEW s \in Size, NEW b, Remove(s, b)
  PROVE  /\ MapInv'
         /\ b \in Block /\ b \in ListedUnder(s) /\ Contents' = Contents \ {<<s, b>>}
<1>1. PICK tail \in Tails(Directory(s)), target \in Chained(s) :
        \E i \in 0 .. NItems(target) - 1 :
          /\ pages[target][TABLE + i] = b
          /\ RemoveAt(s, target, i, tail)
  BY Zenon DEF Remove, Chained
<1>2. PICK k \in 0 .. NItems(target) - 1 :
        pages[target][TABLE + k] = b /\ RemoveAt(s, target, k, tail)
  BY <1>1
<1>3. PICK last : last = NItems(tail) - 1
  OBVIOUS
<1>4. /\ tail \in Chained(s) /\ pages[tail][NEXT] = 0 /\ NItems(tail) \in 1 .. Capacity
      /\ Capacity \in Nat
  BY TailFacts, ParameterAssumption
<1>5. last \in Nat
  BY <1>3, <1>4
<1>6. CASE last > 0
  <2>1. pages' = Moved(pages, target, k, tail, pages[tail][TABLE + last], last)
    <3>1. pages' = [pages EXCEPT ![target][TABLE + k] = pages[tail][TABLE + last],
                                 ![tail][TABLE + last] = 0,
                                 ![tail][NITEMS] = last]
      BY <1>2, <1>3, <1>6, Zenon DEF RemoveAt
    <3> QED
      BY <3>1, MovedIs
  <2> QED
    BY <1>2, <1>3, <1>6, <2>1, RemoveKeepsTail
<1>7. CASE ~(last > 0)
  <2>1. last = 0 /\ NItems(tail) = 1
    BY <1>3, <1>4, <1>5, <1>7
  <2>2. pages[0][LAST] = Sentinel
    BY DEF MapInv, ControlIntact
  <2> DEFINE v == pages[tail][TABLE + 0]
  <2>3. PICK pg \in Touch(Sentinel, {0, DirPage(s), tail, target}) :
          pages' = [Unlink([pg EXCEPT ![target][TABLE + k] = pages[tail][TABLE + last],
                                      ![tail][TABLE + last] = 0, ![tail][NITEMS] = last],
                           s, tail)
                      EXCEPT ![tail][NEXT] = 0, ![Sentinel][NEXT] = target]
    BY <1>2, <1>3, <1>7, <2>2, Zenon DEF RemoveAt
  <2>4. pages' = [Unlink(Moved(pg, target, k, tail, v, 0), s, tail)
                    EXCEPT ![tail][NEXT] = 0, ![Sentinel][NEXT] = target]
    <3>1. [pg EXCEPT ![target][TABLE + k] = pages[tail][TABLE + last],
                     ![tail][TABLE + last] = 0, ![tail][NITEMS] = last]
            = Moved(pg, target, k, tail, pages[tail][TABLE + last], last)
      BY MovedIs
    <3>2. Moved(pg, target, k, tail, pages[tail][TABLE + last], last) = Moved(pg, target, k, tail, v, 0)
      BY ONLY <2>1
    <3> HIDE DEF v
    <3> QED
      BY ONLY <2>3, <3>1, <3>2, Zenon
  <2> HIDE DEF v
  <2>5. CASE Directory(s) = tail
    <3>1. pages' = Unlinked(pg, target, k, tail, v, DirPage(s), DirWord(s))
      BY <2>4, <2>5, Zenon DEF Unlink, Unlinked, Store
    <3> QED
      BY <1>2, <2>1, <2>5, <3>1, RemoveEmptiesChain DEF v
  <2>6. CASE Directory(s) # tail
    <3>1. \E q \in Chained(s) : pages[q][NEXT] = tail
      BY <1>4, <2>6, Before, ChainFacts
    <3> DEFINE u == CHOOSE q \in Chained(s) : pages[q][NEXT] = tail
    <3>2. u \in Chained(s) /\ pages[u][NEXT] = tail
      BY <3>1
    <3>3. u = CHOOSE q \in Chain(Directory(s)) : pages[q][NEXT] = tail
      BY DEF Chained
    <3> HIDE DEF u
    <3>4. pages' = Unlinked(pg, target, k, tail, v, u, NEXT)
      BY <2>4, <2>6, <3>3, Zenon DEF Unlink, Unlinked, Store
    <3> QED
      BY <1>2, <2>1, <2>6, <3>2, <3>4, RemoveEmptiesTail DEF v
  <2> QED
    BY <2>5, <2>6
<1> QED
  BY <1>6, <1>7

-----------------------------------------------------------------------------
(* No call enters a loop it cannot leave.                                  *)
LEMMA NotStuck ==
  ASSUME MapInv, NEW s \in Size, Directory(s) # 0
  PROVE  ~Stuck(Directory(s)) /\ Tails(Directory(s)) # {}
<1>1. Tails(Directory(s)) # {}
  BY DEF MapInv, ChainsPacked
<1>2. \A q \in Chain(Directory(s)) : pages[q][NEXT] # 0 => NItems(q) = Capacity
  BY ChainFacts DEF Chained
<1> QED
  BY <1>1, <1>2 DEF Stuck

LEMMA InsertStep ==
  ASSUME MapInv, NEW s \in Size, NEW b \in Block, Unlisted(b), Supplied(s), Insert(s, b)
  PROVE  MapInv' /\ Contents' = Contents \cup {<<s, b>>} /\ UNCHANGED <<out, spinning>>
<1>1. /\ InsertFirst(s, b) \/ (Directory(s) # 0 /\ InsertMore(s, b))
      /\ UNCHANGED <<out, spinning>>
  BY NotStuck DEF Insert
<1>2. CASE InsertFirst(s, b)
  BY <1>1, <1>2, InsertFirstStep
<1>3. CASE InsertMore(s, b)
  <2>1. PICK tail \in Tails(Directory(s)) :
          IF TailFull(tail)
          THEN LET p == pages[0][HEAD] IN
               \E pg \in Touch(p, {0, DirPage(s)}) :
                 pages' = StartBlock([pg EXCEPT ![tail][NEXT] = p], p, b)
          ELSE pages' = [pages EXCEPT ![tail][TABLE + NItems(tail)] = b,
                                      ![tail][NITEMS] = @ + 1]
    BY <1>3, Zenon DEF InsertMore
  <2>2. CASE TailFull(tail)
    <3>1. PICK pg \in Touch(Head, {0, DirPage(s)}) :
            pages' = StartBlock([pg EXCEPT ![tail][NEXT] = Head], Head, b)
      BY <2>1, <2>2, Zenon DEF Head
    <3> QED
      BY <1>1, <2>2, <3>1, InsertFullStep DEF TailFull
  <2>3. CASE ~TailFull(tail)
    <3>1. pages' = [pages EXCEPT ![tail][TABLE + NItems(tail)] = b, ![tail][NITEMS] = @ + 1]
      BY <2>1, <2>3, Zenon
    <3> QED
      BY <1>1, <2>3, <3>1, InsertRoomStep DEF TailFull
  <2> QED
    BY <2>2, <2>3
<1> QED
  BY <1>1, <1>2, <1>3

LEMMA ContentsOf ==
  ASSUME NEW s \in Size, NEW b
  PROVE  <<s, b>> \in Contents <=> b \in ListedUnder(s)
BY ContentsMember

LEMMA PopStep ==
  ASSUME MapInv, NEW s \in Size, NEW b, Pop(s, b)
  PROVE  /\ UNCHANGED <<out, spinning>>
         /\ \/ UNCHANGED pages
            \/ MapInv' /\ <<s, b>> \in Contents /\ Contents' = Contents \ {<<s, b>>}
<1>1. /\ IF b \in ListedUnder(s) THEN Remove(s, b) ELSE UNCHANGED pages
      /\ UNCHANGED <<out, spinning>>
  BY NotStuck DEF Pop
<1>2. CASE b \in ListedUnder(s)
  BY <1>1, <1>2, RemoveStep, ContentsOf
<1>3. CASE b \notin ListedUnder(s)
  BY <1>1, <1>3
<1> QED
  BY <1>1, <1>2, <1>3

(* The scan of the directory sees every size under which a block is listed,*)
(* and only sizes callers list under.                                      *)
LEMMA FoundSizes ==
  ASSUME MapInv, NEW s \in Request
  PROVE  /\ Found(s) \subseteq Size /\ \A i \in Found(s) : i >= s
         /\ \A e \in Contents : e[1] >= s => e[1] \in Found(s)
<1>1. s \in 0 .. MaxSize - 1 /\ Size \subseteq -4 .. MaxSize - 1 /\ MaxSize \in Nat
      /\ pages[0][MAXSIZE] = MaxSize
  BY ParameterAssumption, PageWords DEF MapInv, ControlIntact
<1>2. ASSUME NEW i \in Found(s) PROVE i \in Size /\ i >= s
  <2>1. i \in 0 .. MaxSize - 1 /\ i >= s /\ Directory(i) # 0
    BY <1>1 DEF Found
  <2> QED
    BY <2>1 DEF MapInv, DirectoryKept, Index
<1>3. ASSUME NEW e \in Contents, e[1] >= s PROVE e[1] \in Found(s)
  <2>1. PICK t \in Size : \E b \in ListedUnder(t) : e = <<t, b>>
    BY ContentsMember
  <2>2. Chained(t) # {}
    BY <2>1, ListedUnderIn, ListedMember
  <2>3. Directory(t) # 0
    BY <2>2, ChainFacts
  <2> QED
    BY <1>1, <1>3, <2>1, <2>3 DEF Found
<1> QED
  BY <1>2, <1>3

LEMMA PopLowerBoundStep ==
  ASSUME MapInv, NEW s \in Request, PopLowerBound(s)
  PROVE  /\ UNCHANGED spinning
         /\ \/ UNCHANGED pages /\ out' = NoBlock /\ Abstract!Candidates(Contents, s) = {}
            \/ /\ MapInv' /\ out' \in Block
               /\ \E e \in Abstract!Candidates(Contents, s) :
                    out' = e[2] /\ Contents' = Contents \ {e}
<1>1. CASE /\ Found(s) = {}
           /\ out' = NoBlock
           /\ UNCHANGED <<pages, spinning>>
  <2>1. Abstract!Candidates(Contents, s) = {}
    BY <1>1, FoundSizes DEF Abstract!Candidates
  <2> QED
    BY <1>1, <2>1
<1>2. CASE \E i \in Found(s) :
             /\ \A j \in Found(s) : i <= j
             /\ IF Stuck(Directory(i)) THEN Hang
                ELSE \E tail \in Tails(Directory(i)) :
                       LET b == pages[tail][TABLE + NItems(tail) - 1] IN
                       /\ Remove(i, b)
                       /\ out' = b
                       /\ UNCHANGED spinning
  <2>1. PICK i \in Found(s) :
          /\ \A j \in Found(s) : i <= j
          /\ IF Stuck(Directory(i)) THEN Hang
             ELSE \E tail \in Tails(Directory(i)) :
                    LET b == pages[tail][TABLE + NItems(tail) - 1] IN
                    /\ Remove(i, b)
                    /\ out' = b
                    /\ UNCHANGED spinning
    BY <1>2, Zenon
  <2>2. i \in Size /\ i >= s /\ Directory(i) # 0
    BY FoundSizes DEF Found
  <2>3. ~Stuck(Directory(i))
    BY <2>2, NotStuck
  <2>4. PICK tail \in Tails(Directory(i)) :
          LET b == pages[tail][TABLE + NItems(tail) - 1] IN
          /\ Remove(i, b)
          /\ out' = b
          /\ UNCHANGED spinning
    BY <2>1, <2>3, Zenon
  <2>5. PICK b : b = pages[tail][TABLE + NItems(tail) - 1]
    OBVIOUS
  <2>6. Remove(i, b) /\ out' = b /\ UNCHANGED spinning
    BY <2>4, <2>5
  <2>7. MapInv' /\ b \in Block /\ b \in ListedUnder(i) /\ Contents' = Contents \ {<<i, b>>}
    BY <2>2, <2>6, RemoveStep
  <2>8. <<i, b>> \in Contents
    BY <2>2, <2>7, ContentsOf
  <2>9. \A d \in Contents : d[1] >= s => i <= d[1]
    BY <2>1, FoundSizes
  <2>10. <<i, b>> \in Abstract!Candidates(Contents, s)
    BY <2>2, <2>8, <2>9 DEF Abstract!Candidates
  <2>11. <<i, b>>[2] = b
    OBVIOUS
  <2> QED
    BY <2>6, <2>7, <2>10, <2>11
<1> QED
  BY <1>1, <1>2 DEF PopLowerBound

-----------------------------------------------------------------------------
(* hash_table_init.                                                        *)
LEMMA InitShape ==
  ASSUME Init
  PROVE  /\ Pages = 0 .. Sentinel - 1 /\ IsFile(pages, Pages)
         /\ pages[0][HEAD] = FirstBlock /\ pages[0][NDIRS] = NDirs
         /\ pages[0][MAXSIZE] = MaxSize /\ pages[0][LAST] = Sentinel
         /\ \A w \in Word \ {HEAD, NDIRS, MAXSIZE, LAST} : pages[0][w] = 0
         /\ \A p \in Bucket : pages[p][NEXT] = p + 1 /\ \A w \in Word \ {NEXT} : pages[p][w] = 0
         /\ \A p \in 1 .. NDirs : \A w \in Word : pages[p][w] = 0
<1>1. /\ FirstBlock \in Nat \ {0} /\ Sentinel \in Nat /\ NDirs \in Nat /\ MaxSize \in Nat
      /\ FirstBlock = NDirs + 1 /\ FirstBlock < Sentinel
  BY PageWords DEF FirstBlock
<1> DEFINE control == [w \in Word |-> CASE w = HEAD -> FirstBlock
                                       [] w = NDIRS -> NDirs
                                       [] w = MAXSIZE -> MaxSize
                                       [] w = LAST -> Sentinel
                                       [] OTHER -> 0]
           D == 0 .. Sentinel - 1
           word(p) == IF p = 0 THEN control
                      ELSE IF p \in Bucket THEN [EmptyPage EXCEPT ![NEXT] = p + 1] ELSE EmptyPage
<1>2. pages = [p \in D |-> word(p)]
  BY DEF Init, Bucket
<1>3. {HEAD, NDIRS, MAXSIZE, LAST} \subseteq Word /\ NEXT \in Word
  BY PageWords DEF HEAD, NDIRS, MAXSIZE, LAST, NEXT, Word
<1>4. /\ control[HEAD] = FirstBlock /\ control[NDIRS] = NDirs
      /\ control[MAXSIZE] = MaxSize /\ control[LAST] = Sentinel
  BY <1>3 DEF HEAD, NDIRS, MAXSIZE, LAST
<1>5. \A w \in Word \ {HEAD, NDIRS, MAXSIZE, LAST} : control[w] = 0
  OBVIOUS
<1>6. control = [w \in Word |-> control[w]] /\ \A w \in Word : control[w] \in Int
  <2>1. control = [w \in Word |-> control[w]]
    OBVIOUS
  <2> HIDE DEF control
  <2> QED
    BY <1>1, <1>4, <1>5, <2>1
<1> HIDE DEF control
<1>7. ASSUME NEW p \in Bucket
      PROVE  /\ p \in D /\ p # 0 /\ word(p) = [w \in Word |-> word(p)[w]]
             /\ word(p)[NEXT] = p + 1 /\ \A w \in Word \ {NEXT} : word(p)[w] = 0
  <2>1. p \in D /\ p # 0 /\ word(p) = [EmptyPage EXCEPT ![NEXT] = p + 1]
    BY <1>1 DEF Bucket
  <2> QED
    BY <1>3, <2>1 DEF EmptyPage
<1>8. ASSUME NEW p \in D, p # 0, p \notin Bucket
      PROVE  word(p) = EmptyPage /\ \A w \in Word : word(p)[w] = 0
  BY <1>8 DEF EmptyPage
<1>9. ASSUME NEW p \in D
      PROVE  word(p) = [w \in Word |-> word(p)[w]] /\ \A w \in Word : word(p)[w] \in Int
  <2>1. CASE p = 0
    BY <1>6, <2>1
  <2>2. CASE p \in Bucket
    <3>1. p + 1 \in Int
      BY <1>1
    <3> QED
      BY <1>7, <2>2, <3>1
  <2>3. CASE p # 0 /\ p \notin Bucket
    BY <1>8, <2>3 DEF EmptyPage
  <2> QED
    BY <2>1, <2>2, <2>3
<1>10. \A p \in 1 .. NDirs : p \in D /\ p # 0 /\ p \notin Bucket
  BY <1>1 DEF Bucket
<1>11. 0 \in D /\ word(0) = control
  BY <1>1
<1> HIDE DEF word, D
<1>12. Pages = D /\ \A p \in D : pages[p] = word(p)
  BY <1>2 DEF Pages
<1>13. IsFile(pages, D)
  <2>1. pages = [p \in D |-> pages[p]]
    BY <1>2, <1>12
  <2>2. \A p \in D : pages[p] = [w \in Word |-> pages[p][w]] /\ \A w \in Word : pages[p][w] \in Int
    BY <1>9, <1>12
  <2>3. pages = [p \in D |-> [w \in Word |-> pages[p][w]]]
    BY ONLY <2>1, <2>2
  <2> QED
    BY <2>2, <2>3 DEF IsFile
<1>14. \A p \in Bucket : pages[p][NEXT] = p + 1 /\ \A w \in Word \ {NEXT} : pages[p][w] = 0
  BY <1>7, <1>12
<1>15. \A p \in 1 .. NDirs : \A w \in Word : pages[p][w] = 0
  BY <1>8, <1>10, <1>12
<1> QED
  BY <1>4, <1>5, <1>11, <1>12, <1>13, <1>14, <1>15 DEF D

LEMMA InitInv ==
  ASSUME Init PROVE IInv /\ Contents = {}
<1>1. /\ FirstBlock \in Nat \ {0} /\ Sentinel \in Nat /\ NDirs \in Nat
      /\ FirstBlock = NDirs + 1 /\ FirstBlock < Sentinel /\ Capacity \in Nat
  BY PageWords, ParameterAssumption DEF FirstBlock
<1>2. FileTyped /\ ControlIntact
  BY InitShape DEF FileTyped, ControlIntact
<1>3. Head = FirstBlock /\ Used = {}
  BY <1>1, InitShape DEF Head, Used
<1>4. BlocksKept
  <2>1. NITEMS \in Word \ {NEXT}
    BY WordNames DEF NITEMS, NEXT
  <2>2. \A p \in Bucket : pages[p][NEXT] = p + 1 /\ NItems(p) = 0
    BY <2>1, InitShape DEF NItems
  <2> QED
    BY <1>1, <1>3, <2>2 DEF BlocksKept, Bucket
<1>5. ASSUME NEW s \in Index PROVE Directory(s) = 0
  <2>1. /\ DirPage(s) \in 0 .. NDirs /\ DirWord(s) \in Word
        /\ DirPage(s) = 0 => DirWord(s) \notin {HEAD, NDIRS, MAXSIZE, LAST}
    BY DirectoryWords
  <2>2. CASE DirPage(s) = 0
    BY <2>1, <2>2, InitShape DEF Directory
  <2>3. CASE DirPage(s) # 0
    <3>1. DirPage(s) \in 1 .. NDirs
      BY <1>1, <2>1, <2>3
    <3> QED
      BY <2>1, <3>1, InitShape DEF Directory
  <2> QED
    BY <2>2, <2>3
<1>6. ASSUME NEW s \in Size PROVE Directory(s) = 0 /\ Chained(s) = {}
  <2>1. Directory(s) = 0
    BY <1>5 DEF Index
  <2> QED
    BY <2>1, WalkFromNull DEF Chained, Chain
<1>7. DirectoryKept /\ ChainsPacked /\ ChainsApart
  BY <1>5, <1>6 DEF DirectoryKept, ChainsPacked, ChainsApart, Index
<1>8. ListedOnce
  <2>1. \A s \in Size : \A p, i : ~Lists(pages, Chains[s], p, i)
    BY <1>6 DEF Lists, Chains
  <2> QED
    BY <2>1, OnceIf DEF ListedOnce
<1>9. Contents = {}
  <2> SUFFICES ASSUME NEW e \in Contents PROVE FALSE
    OBVIOUS
  <2>1. PICK t \in Size : \E b \in ListedUnder(t) : e = <<t, b>>
    BY ContentsMember
  <2> QED
    BY <1>6, <2>1, ListedUnderIn, ListedMember
<1> QED
  BY <1>2, <1>4, <1>7, <1>8, <1>9 DEF IInv, MapInv, Init

(* Nothing the invariant speaks of changes in a step that writes no page.  *)
LEMMA PagesUnchanged ==
  ASSUME MapInv, UNCHANGED pages
  PROVE  MapInv' /\ Contents' = Contents
<1>1. \A s \in Size : Directory(s)' = Directory(s) /\ Chained(s)' = Chained(s)
  BY DEF Directory, Chained, Chain
<1>2. Contents' = Contents
  BY DEF Contents, ListedUnder, Items, NItems, Chain, Directory
<1>3. FileTyped' /\ ControlIntact' /\ BlocksKept' /\ DirectoryKept'
  BY DEF MapInv, FileTyped, Pages, ControlIntact, BlocksKept, DirectoryKept, Head, Used, NItems, Directory
<1>4. ChainsPacked' /\ ChainsApart' /\ ListedOnce'
  BY DEF MapInv, ChainsPacked, ChainsApart, ListedOnce, Chains, Chained, Chain, Tails, NItems, Directory
<1> QED
  BY <1>2, <1>3, <1>4 DEF MapInv

-----------------------------------------------------------------------------
LEMMA StepInv ==
  ASSUME IInv, [Next]_vars
  PROVE  IInv' /\ [Abstract!Next]_<<Contents, out>>
<1> USE DEF IInv
<1>1. CASE UNCHANGED vars
  BY <1>1, PagesUnchanged DEF vars
<1>2. ASSUME NEW s \in Size, NEW b \in Block, Unlisted(b), Supplied(s), Insert(s, b)
      PROVE  IInv' /\ [Abstract!Next]_<<Contents, out>>
  <2>1. MapInv' /\ Contents' = Contents \cup {<<s, b>>} /\ UNCHANGED <<out, spinning>>
    BY <1>2, InsertStep
  <2>2. \A e \in Contents : e[2] # b
    <3> SUFFICES ASSUME NEW e \in Contents, e[2] = b PROVE FALSE
      OBVIOUS
    <3>1. PICK t \in Size : \E a \in ListedUnder(t) : e = <<t, a>>
      BY ContentsMember
    <3> QED
      BY <1>2, <3>1 DEF Unlisted
  <2>3. Abstract!Insert(s, b)
    BY <2>1, <2>2 DEF Abstract!Insert
  <2> QED
    BY <2>1, <2>3 DEF Abstract!Next
<1>3. ASSUME NEW s \in Size, NEW b \in Block, Pop(s, b)
      PROVE  IInv' /\ [Abstract!Next]_<<Contents, out>>
  <2>1. UNCHANGED <<out, spinning>>
    BY <1>3, PopStep
  <2>2. CASE UNCHANGED pages
    BY <2>1, <2>2, PagesUnchanged
  <2>3. CASE MapInv' /\ <<s, b>> \in Contents /\ Contents' = Contents \ {<<s, b>>}
    <3>1. Abstract!Pop(s, b)
      BY <2>1, <2>3 DEF Abstract!Pop
    <3> QED
      BY <2>1, <2>3, <3>1 DEF Abstract!Next
  <2> QED
    BY <1>3, <2>2, <2>3, PopStep
<1>4. ASSUME NEW s \in Request, PopLowerBound(s)
      PROVE  IInv' /\ [Abstract!Next]_<<Contents, out>>
  <2>1. UNCHANGED spinning
    BY <1>4, PopLowerBoundStep
  <2>2. CASE UNCHANGED pages /\ out' = NoBlock /\ Abstract!Candidates(Contents, s) = {}
    <3>1. MapInv' /\ Contents' = Contents
      BY <2>2, PagesUnchanged
    <3>2. Abstract!PopLowerBound(s)
      BY <2>2, <3>1 DEF Abstract!PopLowerBound
    <3> QED
      BY <2>1, <2>2, <3>1, <3>2 DEF Abstract!Next
  <2>3. CASE /\ MapInv' /\ out' \in Block
             /\ \E e \in Abstract!Candidates(Contents, s) :
                  out' = e[2] /\ Contents' = Contents \ {e}
    <3>1. Abstract!PopLowerBound(s)
      BY <2>3 DEF Abstract!PopLowerBound
    <3> QED
      BY <2>1, <2>3, <3>1 DEF Abstract!Next
  <2> QED
    BY <1>4, <2>2, <2>3, PopLowerBoundStep
<1> QED
  BY <1>1, <1>2, <1>3, <1>4 DEF Next, Others

(* The words, the chains, the directory and the places of the addresses,   *)
(* together.                                                               *)
THEOREM Invariance == Spec => []IInv
<1>1. Init => IInv
  BY InitInv
<1>2. IInv /\ [Next]_vars => IInv'
  BY StepInv
<1> QED
  BY <1>1, <1>2, PTL DEF Spec

(* The pages of the file stay words of integers, and the counts of the     *)
(* blocks within their bounds (hash_map.c).                                *)
THEOREM TypeCorrect == Spec => []TypeOK
<1>1. IInv => TypeOK
  <2> SUFFICES ASSUME IInv PROVE TypeOK
    OBVIOUS
  <2> USE DEF IInv, MapInv
  <2>1. \A p \in Pages : pages[p] \in [Word -> Int]
    BY DEF FileTyped, IsFile
  <2>2. ASSUME NEW p \in FirstBlock .. Sentinel - 1 PROVE NItems(p) \in 0 .. Capacity
    <3>1. Head \in FirstBlock .. Sentinel /\ FirstBlock \in Nat /\ Sentinel \in Nat /\ Capacity \in Nat
      BY PageWords, ParameterAssumption DEF BlocksKept
    <3>2. p \in Used \/ p \in Head .. Sentinel - 1
      BY <3>1 DEF Used
    <3> QED
      BY <3>1, <3>2 DEF BlocksKept
  <2> QED
    BY <2>1, <2>2 DEF TypeOK, FileTyped
<1> QED
  BY <1>1, Invariance, PTL

(* Every block of a chain but the last is full, and the last is not empty. *)
THEOREM PackedChains == Spec => []ChainsPacked
<1>1. IInv => ChainsPacked
  BY DEF IInv, MapInv
<1> QED
  BY <1>1, Invariance, PTL

(* No call enters the loops of hash_map.c:72-80 and 122-130 for ever.      *)
THEOREM LoopsEnd == Spec => []NeverSpins
<1>1. IInv => NeverSpins
  BY DEF IInv, NeverSpins
<1> QED
  BY <1>1, Invariance, PTL

(* The wrapped sizes spare the control block's fields.                     *)
THEOREM ControlSpared == Spec => []ControlIntact
<1>1. IInv => ControlIntact
  BY DEF IInv, MapInv
<1> QED
  BY <1>1, Invariance, PTL

(* A block has one owner, and the sentinel is never handed out.            *)
THEOREM OneOwnerEach == Spec => []OneOwner
<1>1. IInv => OneOwner
  <2> SUFFICES ASSUME IInv PROVE OneOwner
    OBVIOUS
  <2> USE DEF IInv
  <2> DEFINE S == Head .. Sentinel
  <2>1. /\ Head \in FirstBlock .. Sentinel /\ FirstBlock \in Nat \ {0} /\ Sentinel \in Nat
        /\ \A q \in Head .. Sentinel - 1 : pages[q][NEXT] = q + 1 /\ NItems(q) = 0
    BY PageWords DEF MapInv, BlocksKept
  <2>2. Head \in S \cup {0} /\ \A q \in S \ {Sentinel} : pages[q][NEXT] \in S \cup {0}
    BY <2>1
  <2>3. S \ {Sentinel} \subseteq Head .. Sentinel - 1
    BY <2>1
  <2>4. Head .. Sentinel - 1 \subseteq FirstBlock .. Sentinel - 1 /\ Used \cap (Head .. Sentinel - 1) = {}
        /\ Used \subseteq FirstBlock .. Sentinel - 1
    BY <2>1 DEF Used
  <2> HIDE DEF S
  <2>5. Walk(pages, Head, Sentinel) \subseteq S \ {0}
    BY ONLY <2>2, WalkWithin
  <2>6. FreeList \subseteq Head .. Sentinel - 1
    BY <2>3, <2>5 DEF FreeList, Head
  <2>7. \A s \in Size : Chained(s) \subseteq Used
    BY ChainFacts
  <2> QED
    BY <2>1, <2>4, <2>6, <2>7 DEF OneOwner, MapInv, ChainsApart
<1> QED
  BY <1>1, Invariance, PTL

(* Whatever the chains, their moves and the wrapped sizes do, the map is a *)
(* set of pairs (hash_map.h).                                              *)
THEOREM SpaceIndexImplemented == Spec => ImplementsSpaceIndex
<1>1. Init => Abstract!Init
  BY InitInv DEF Abstract!Init, Init
<1>2. IInv /\ [Next]_vars => [Abstract!Next]_<<Contents, out>>
  BY StepInv
<1> QED
  BY <1>1, <1>2, Invariance, PTL DEF Spec, ImplementsSpaceIndex, Abstract!Spec
=============================================================================
