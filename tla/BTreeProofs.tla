---------------------------- MODULE BTreeProofs ----------------------------
(***************************************************************************)
(* The pins that the functions of b_tree.c leave, for every DEGREE, every  *)
(* size of the cache and every index, of whatever height and shape.        *)
(***************************************************************************)
EXTENDS BTree, FiniteSetTheorems, SequenceTheorems, WellFoundedInduction, TLAPS

(* What a state of the index is made of.                                   *)
IsSequence(q) == \E S : q \in Seq(S)
Sound(s) ==
  /\ {"at", "ref", "mem", "file", "null"} \subseteq DOMAIN s
  /\ DOMAIN s.at = Frame /\ DOMAIN s.mem = Frame
  /\ s.ref \in [Frame -> Nat]
  /\ IsSequence(s.file)

(* No frame of page a has more than n pins, unless get_page has failed.    *)
AtMost(s, a, n) == s.null \/ \A f \in FramesOf(s, a) : s.ref[f] <= n

(* A function that was called in state s and left t has returned its pins, *)
(* or all but one on a, or all but one each on a and on b ...              *)
One(a, b) == IF a = b THEN 1 ELSE 0
TwoPages(s) == Len(s.file) >= 2
Returns(s, t) ==
  /\ Sound(t) /\ (TwoPages(s) => TwoPages(t))
  /\ \A c : \A n \in Nat : AtMost(s, c, n) => AtMost(t, c, n)
Owes(s, t, a) ==
  /\ Sound(t) /\ (TwoPages(s) => TwoPages(t))
  /\ \A c : \A n \in Nat : AtMost(s, c, n) => AtMost(t, c, n + One(a, c))
OwesTwo(s, t, a, b) ==
  /\ Sound(t) /\ (TwoPages(s) => TwoPages(t))
  /\ \A c : \A n \in Nat : AtMost(s, c, n) => AtMost(t, c, n + One(a, c) + One(b, c))
OwesThree(s, t, a, b, d) ==
  /\ Sound(t) /\ (TwoPages(s) => TwoPages(t))
  /\ \A c : \A n \in Nat :
       AtMost(s, c, n) => AtMost(t, c, n + One(a, c) + One(b, c) + One(d, c))

-----------------------------------------------------------------------------
(* A set of numbers that is not empty has a least one.                     *)
LEMMA LeastElement ==
  ASSUME NEW S \in SUBSET Nat, S # {}
  PROVE  /\ Smallest(S) \in S
         /\ \A k \in S : Smallest(S) <= k
<1> DEFINE R == OpToRel(<, Nat)
<1>1. IsWellFoundedOn(R, Nat)
  BY NatLessThanWellFounded, Zenon
<1>2. \A k, m \in Nat : <<k, m>> \in R <=> k < m
  BY DEF OpToRel
<1> HIDE DEF R
<1>3. PICK m \in S : \A k \in S : ~(<<k, m>> \in R)
  BY <1>1, WFMin
<1>4. ASSUME NEW k \in S PROVE m <= k
  <2>1. k \in Nat /\ m \in Nat /\ ~(<<k, m>> \in R)
    BY <1>3
  <2> QED
    BY <1>2, <2>1
<1> QED
  BY <1>4 DEF Smallest

(* Induction, as a fact about a set of numbers.                            *)
LEMMA Induction ==
  ASSUME NEW S \in SUBSET Nat, 0 \in S, \A n \in S : n + 1 \in S
  PROVE  S = Nat
<1> DEFINE T == Nat \ S
           m == Smallest(T)
<1>1. ASSUME T # {} PROVE FALSE
  <2>1. m \in T /\ \A k \in T : m <= k
    BY <1>1, LeastElement
  <2> HIDE DEF m
  <2>2. m \in Nat \ {0} /\ m - 1 \in Nat /\ ~(m <= m - 1)
    BY <2>1
  <2>3. m - 1 \in S
    BY <2>1, <2>2
  <2> QED
    BY <2>1, <2>2, <2>3
<1> QED
  BY <1>1

(* Frames are numbers, and there is one.                                   *)
LEMMA FrameNumbers == Frame \subseteq Nat /\ Frame # {}
BY CacheAssumption DEF Frame

(* The first of some frames is one of them.                                *)
LEMMA SmallestFrame ==
  ASSUME NEW S \in SUBSET Frame, S # {}
  PROVE  Smallest(S) \in S
BY LeastElement, FrameNumbers

-----------------------------------------------------------------------------
(* Nothing owed, and what is owed over several calls.                      *)
LEMMA Idle == ASSUME NEW s, Sound(s) PROVE Returns(s, s)
BY DEF Returns

(* What is owed is still owed after a call that returns its pins.          *)
LEMMA Onward ==
  ASSUME NEW s, NEW t, NEW u, Returns(t, u)
  PROVE  /\ Returns(s, t) => Returns(s, u)
         /\ \A a : Owes(s, t, a) => Owes(s, u, a)
         /\ \A a, b : OwesTwo(s, t, a, b) => OwesTwo(s, u, a, b)
         /\ \A a, b, d : OwesThree(s, t, a, b, d) => OwesThree(s, u, a, b, d)
<1>1. /\ Sound(u) /\ (TwoPages(t) => TwoPages(u))
      /\ \A c : \A n \in Nat : AtMost(t, c, n) => AtMost(u, c, n)
  BY DEF Returns
<1>2. \A a, c : One(a, c) \in Nat
  BY DEF One
<1>3. Returns(s, t) => Returns(s, u)
  BY <1>1 DEF Returns
<1>4. \A a : Owes(s, t, a) => Owes(s, u, a)
  <2>1. \A a, c : \A n \in Nat : n + One(a, c) \in Nat
    BY <1>2
  <2> QED
    BY <1>1, <2>1 DEF Owes
<1>5. \A a, b : OwesTwo(s, t, a, b) => OwesTwo(s, u, a, b)
  <2>1. \A a, b, c : \A n \in Nat : n + One(a, c) + One(b, c) \in Nat
    BY <1>2
  <2> QED
    BY <1>1, <2>1 DEF OwesTwo
<1>6. \A a, b, d : OwesThree(s, t, a, b, d) => OwesThree(s, u, a, b, d)
  <2>1. \A a, b, c, d : \A n \in Nat : n + One(a, c) + One(b, c) + One(d, c) \in Nat
    BY <1>2
  <2> QED
    BY <1>1, <2>1 DEF OwesThree
<1> QED
  BY <1>3, <1>4, <1>5, <1>6

(* What is owed after nothing was owed.                                    *)
LEMMA First ==
  ASSUME NEW s, NEW t, NEW u, Returns(s, t)
  PROVE  /\ \A a : Owes(t, u, a) => Owes(s, u, a)
         /\ \A a, b : OwesTwo(t, u, a, b) => OwesTwo(s, u, a, b)
BY DEF Returns, Owes, OwesTwo

(* Who owes nothing may be said to owe something.                          *)
LEMMA Weaker ==
  ASSUME NEW s, NEW t, Returns(s, t), NEW a
  PROVE  Owes(s, t, a)
<1>1. \A c : \A n \in Nat : AtMost(t, c, n) => AtMost(t, c, n + One(a, c))
  BY DEF Returns, AtMost, One, Sound, FramesOf
<1> QED
  BY <1>1 DEF Returns, Owes

(* A file written to or appended to is still a file, and no shorter.       *)
LEMMA FileWritten ==
  ASSUME NEW q, IsSequence(q), NEW k, NEW x
  PROVE  /\ IsSequence([q EXCEPT ![k] = x]) /\ Len([q EXCEPT ![k] = x]) = Len(q)
         /\ IsSequence(Append(q, x)) /\ Len(Append(q, x)) = Len(q) + 1
         /\ Len(q) \in Nat
<1>1. PICK S : q \in Seq(S)
  BY DEF IsSequence
<1> DEFINE T == S \cup {x}
<1>2. q \in Seq(T) /\ x \in T
  BY <1>1
<1> HIDE DEF T
<1>3. [q EXCEPT ![k] = x] \in Seq(T) /\ Len([q EXCEPT ![k] = x]) = Len(q)
  <2> DEFINE e == [q EXCEPT ![k] = x]
  <2>1. DOMAIN q = 1 .. Len(q) /\ Len(q) \in Nat /\ \A i \in DOMAIN q : q[i] \in T
    BY <1>2
  <2>2. e = [i \in DOMAIN q |-> IF i = k THEN x ELSE q[i]]
    OBVIOUS
  <2>3. e \in [1 .. Len(q) -> T] /\ DOMAIN e = 1 .. Len(q)
    BY <1>2, <2>1, <2>2
  <2> HIDE DEF e
  <2>4. e \in Seq(T)
    BY <2>1, <2>3
  <2>5. Len(e) = Len(q)
    BY <2>1, <2>3, <2>4
  <2> QED
    BY <2>4, <2>5 DEF e
<1>4. Append(q, x) \in Seq(T) /\ Len(Append(q, x)) = Len(q) + 1
  BY <1>2
<1>5. Len(q) \in Nat
  BY <1>2
<1> QED
  BY <1>3, <1>4, <1>5 DEF IsSequence

(* The fields of a state that is changed in one or more of them.           *)
LEMMA Fields ==
  ASSUME NEW s, Sound(s), NEW a, NEW r, NEW m, NEW l
  PROVE  /\ LET t == [s EXCEPT !.ref = r]
            IN t.at = s.at /\ t.ref = r /\ t.mem = s.mem /\ t.file = s.file /\ t.null = s.null
               /\ DOMAIN t = DOMAIN s
         /\ LET t == [s EXCEPT !.mem = m]
            IN t.at = s.at /\ t.ref = s.ref /\ t.mem = m /\ t.file = s.file /\ t.null = s.null
               /\ DOMAIN t = DOMAIN s
         /\ LET t == [s EXCEPT !.null = TRUE, !.mem = m]
            IN t.at = s.at /\ t.ref = s.ref /\ t.mem = m /\ t.file = s.file /\ t.null
               /\ DOMAIN t = DOMAIN s
         /\ LET t == [s EXCEPT !.ref = r, !.file = l]
            IN t.at = s.at /\ t.ref = r /\ t.mem = s.mem /\ t.file = l /\ t.null = s.null
               /\ DOMAIN t = DOMAIN s
         /\ LET t == [s EXCEPT !.at = a, !.ref = r, !.mem = m, !.file = l]
            IN t.at = a /\ t.ref = r /\ t.mem = m /\ t.file = l /\ t.null = s.null
               /\ DOMAIN t = DOMAIN s
<1>1. {"at", "ref", "mem", "file", "null"} \subseteq DOMAIN s
  BY DEF Sound
<1>2. LET t == [s EXCEPT !.ref = r]
      IN t.at = s.at /\ t.ref = r /\ t.mem = s.mem /\ t.file = s.file /\ t.null = s.null
               /\ DOMAIN t = DOMAIN s
  BY <1>1
<1>3. LET t == [s EXCEPT !.mem = m]
      IN t.at = s.at /\ t.ref = s.ref /\ t.mem = m /\ t.file = s.file /\ t.null = s.null
               /\ DOMAIN t = DOMAIN s
  BY <1>1
<1>4. LET t == [s EXCEPT !.null = TRUE, !.mem = m]
      IN t.at = s.at /\ t.ref = s.ref /\ t.mem = m /\ t.file = s.file /\ t.null
               /\ DOMAIN t = DOMAIN s
  BY <1>1
<1>5. LET t == [s EXCEPT !.ref = r, !.file = l]
      IN t.at = s.at /\ t.ref = r /\ t.mem = s.mem /\ t.file = l /\ t.null = s.null
               /\ DOMAIN t = DOMAIN s
  BY <1>1
<1>6. LET t == [s EXCEPT !.at = a, !.ref = r, !.mem = m, !.file = l]
      IN t.at = a /\ t.ref = r /\ t.mem = m /\ t.file = l /\ t.null = s.null
               /\ DOMAIN t = DOMAIN s
  BY <1>1
<1> QED
  BY <1>2, <1>3, <1>4, <1>5, <1>6

(* A store through a pointer takes and returns no pin.                     *)
LEMMA PutReturns ==
  ASSUME NEW s, Sound(s), NEW p, NEW node
  PROVE  Returns(s, Put(s, p, node))
<1>1. CASE s.null
  BY <1>1, Idle DEF Put
<1>2. CASE ~s.null
  <2> DEFINE m == [s.mem EXCEPT ![p] = node]
             t == [s EXCEPT !.mem = m]
  <2>1. Put(s, p, node) = t
    BY <1>2 DEF Put
  <2>2. t.at = s.at /\ t.ref = s.ref /\ t.mem = m /\ t.file = s.file /\ DOMAIN t = DOMAIN s
    BY Fields
  <2> HIDE DEF t
  <2>3. Sound(t) /\ (TwoPages(s) => TwoPages(t))
    BY <2>2 DEF Sound, TwoPages
  <2>4. FramesOf(t, 1) = FramesOf(t, 1) /\ \A c : FramesOf(t, c) = FramesOf(s, c)
    BY <2>2 DEF FramesOf
  <2>5. \A c : \A n \in Nat : AtMost(s, c, n) => AtMost(t, c, n)
    BY <1>2, <2>2, <2>4 DEF AtMost
  <2> QED
    BY <2>1, <2>3, <2>5 DEF Returns
<1> QED
  BY <1>1, <1>2

(* Nor does a call that is about to crash.                                 *)
LEMMA LostReturns ==
  ASSUME NEW s, Sound(s)
  PROVE  Returns(s, Lost(s))
<1> DEFINE m == [g \in Frame |-> DeadNode]
           t == [s EXCEPT !.null = TRUE, !.mem = m]
<1>1. Lost(s) = t
  BY DEF Lost
<1>2. DOMAIN s.at = Frame /\ {"at", "ref", "mem", "file", "null"} \subseteq DOMAIN s
  BY DEF Sound
<1>3. /\ t.at = s.at /\ t.ref = s.ref /\ t.mem = m /\ t.file = s.file /\ t.null
      /\ DOMAIN t = DOMAIN s
  BY Fields DEF Sound
<1> HIDE DEF t
<1>4. Sound(t) /\ (TwoPages(s) => TwoPages(t))
  BY <1>3 DEF Sound, TwoPages
<1>5. \A c, n : AtMost(t, c, n)
  BY <1>3 DEF AtMost
<1> QED
  BY <1>1, <1>4, <1>5 DEF Returns

(* get_page takes one pin, on the page it is asked for.                    *)
LEMMA GetOwes ==
  ASSUME NEW s, Sound(s), NEW a
  PROVE  Owes(s, Get(s, a), a)
<1> DEFINE hits == FramesOf(s, a)
           victims == {f \in Frame : s.ref[f] = 0}
<1>1. /\ s.ref \in [Frame -> Nat] /\ DOMAIN s.at = Frame /\ DOMAIN s.mem = Frame
      /\ IsSequence(s.file)
      /\ \A f \in Frame : s.ref[f] + 1 \in Nat
      /\ {"at", "ref", "mem", "file", "null"} \subseteq DOMAIN s
  BY DEF Sound
<1>2. CASE s.null
  BY <1>2, Idle, Weaker DEF Get
<1>3. CASE ~s.null /\ hits # {}
  <2> DEFINE hit == Smallest(hits)
             r == [s.ref EXCEPT ![hit] = @ + 1]
             t == [s EXCEPT !.ref = r]
  <2>1. hit \in hits /\ hits \subseteq Frame
    BY <1>3, SmallestFrame DEF FramesOf
  <2>2. Get(s, a) = t
    BY <1>3 DEF Get
  <2>3. t.at = s.at /\ t.ref = r /\ t.mem = s.mem /\ t.file = s.file /\ DOMAIN t = DOMAIN s
    BY Fields
  <2> HIDE DEF t, hit
  <2>4. /\ r \in [Frame -> Nat] /\ r[hit] = s.ref[hit] + 1 /\ s.at[hit] = a
        /\ \A f \in Frame : f # hit => r[f] = s.ref[f]
    BY <1>1, <2>1 DEF FramesOf
  <2> HIDE DEF r
  <2>5. Sound(t) /\ (TwoPages(s) => TwoPages(t))
    BY <1>1, <2>3, <2>4 DEF Sound, TwoPages
  <2>6. ASSUME NEW c, NEW n \in Nat, AtMost(s, c, n) PROVE AtMost(t, c, n + One(a, c))
    <3>1. \A f \in Frame : s.at[f] = c => s.ref[f] <= n
      BY <1>3, <2>6 DEF AtMost, FramesOf
    <3>2. ASSUME NEW f \in Frame, t.at[f] = c PROVE t.ref[f] <= n + One(a, c)
      <4>1. CASE f = hit
        BY <1>1, <2>3, <2>4, <3>1, <3>2, <4>1 DEF One
      <4>2. CASE f # hit
        BY <1>1, <2>3, <2>4, <3>1, <3>2, <4>2 DEF One
      <4> QED
        BY <4>1, <4>2
    <3> QED
      BY <3>2 DEF AtMost, FramesOf
  <2> QED
    BY <2>2, <2>5, <2>6 DEF Owes
<1>4. CASE ~s.null /\ hits = {} /\ victims = {}
  <2>1. Get(s, a) = Lost(s)
    BY <1>4 DEF Get
  <2> QED
    BY <2>1, LostReturns, Weaker
<1>5. CASE ~s.null /\ hits = {} /\ victims # {}
  <2> DEFINE f == Smallest(victims)
             p == [s.at EXCEPT ![f] = a]
             r == [s.ref EXCEPT ![f] = 1]
             m == [s.mem EXCEPT ![f] = IF a \in 0 .. Len(s.file) - 1 THEN s.file[a + 1] ELSE @]
             l == IF a = Len(s.file) THEN Append(s.file, s.mem[f]) ELSE s.file
             t == [s EXCEPT !.at = p, !.ref = r, !.mem = m, !.file = l]
  <2>1. f \in victims
    BY <1>5, SmallestFrame
  <2>2. Get(s, a) = t
    BY <1>5 DEF Get
  <2>3. t.at = p /\ t.ref = r /\ DOMAIN t.mem = Frame /\ t.file = l /\ DOMAIN t = DOMAIN s
    BY <1>1, Fields
  <2>4. IsSequence(l) /\ Len(l) >= Len(s.file) /\ Len(l) \in Nat /\ Len(s.file) \in Nat
    <3> DEFINE e == Append(s.file, s.mem[f])
    <3>1. IsSequence(e) /\ Len(e) = Len(s.file) + 1 /\ Len(s.file) \in Nat
      BY <1>1, FileWritten
    <3>2. l = e \/ l = s.file
      OBVIOUS
    <3> HIDE DEF e, l
    <3> QED
      BY <1>1, <3>1, <3>2
  <2> HIDE DEF t, f, l
  <2>5. /\ r \in [Frame -> Nat] /\ r[f] = 1 /\ p[f] = a /\ DOMAIN p = Frame
        /\ \A g \in Frame : g # f => r[g] = s.ref[g] /\ p[g] = s.at[g]
    BY <1>1, <2>1
  <2> HIDE DEF r, p
  <2>6. Sound(t)
    BY <1>1, <2>3, <2>4, <2>5 DEF Sound
  <2>7. TwoPages(s) => TwoPages(t)
    BY <2>3, <2>4 DEF TwoPages
  <2>8. ASSUME NEW c, NEW n \in Nat, AtMost(s, c, n) PROVE AtMost(t, c, n + One(a, c))
    <3>1. \A g \in Frame : s.at[g] = c => s.ref[g] <= n
      BY <1>5, <2>8 DEF AtMost, FramesOf
    <3>2. ASSUME NEW g \in Frame, t.at[g] = c PROVE t.ref[g] <= n + One(a, c)
      <4>1. CASE g = f
        BY <2>3, <2>5, <3>2, <4>1 DEF One
      <4>2. CASE g # f
        BY <1>1, <2>3, <2>5, <3>1, <3>2, <4>2 DEF One
      <4> QED
        BY <4>1, <4>2
    <3> QED
      BY <3>2 DEF AtMost, FramesOf
  <2> QED
    BY <2>2, <2>6, <2>7, <2>8 DEF Owes
<1> QED
  BY <1>2, <1>3, <1>4, <1>5

(* release returns one pin of that page, if there is one left.             *)
LEMMA ReleaseIs ==
  ASSUME NEW s, Sound(s), NEW a
  PROVE  /\ Sound(Release(s, a)) /\ (TwoPages(s) => TwoPages(Release(s, a)))
         /\ \A c : \A n \in Nat : AtMost(s, c, n + One(a, c)) => AtMost(Release(s, a), c, n)
<1> DEFINE held == {f \in FramesOf(s, a) : s.ref[f] > 0}
<1>1. /\ s.ref \in [Frame -> Nat] /\ DOMAIN s.at = Frame /\ DOMAIN s.mem = Frame
      /\ IsSequence(s.file)
      /\ {"at", "ref", "mem", "file", "null"} \subseteq DOMAIN s
  BY DEF Sound
<1>2. CASE s.null
  BY <1>2 DEF Release, AtMost
<1>3. CASE ~s.null /\ held = {}
  <2>1. Release(s, a) = s
    BY <1>3 DEF Release
  <2>2. ASSUME NEW c, NEW n \in Nat, AtMost(s, c, n + One(a, c)) PROVE AtMost(s, c, n)
    <3>1. \A f \in FramesOf(s, c) : s.ref[f] <= n + One(a, c)
      BY <1>3, <2>2 DEF AtMost
    <3>2. CASE c = a
      BY <1>1, <1>3, <3>2 DEF AtMost, FramesOf
    <3>3. CASE c # a
      BY <1>1, <3>1, <3>3 DEF AtMost, One
    <3> QED
      BY <3>2, <3>3
  <2> QED
    BY <2>1, <2>2
<1>4. CASE ~s.null /\ held # {}
  <2> DEFINE r == [f \in Frame |-> IF f \in held THEN s.ref[f] - 1 ELSE s.ref[f]]
             l == IF a = NoPage THEN s.file
                  ELSE [s.file EXCEPT ![a + 1] = s.mem[Smallest(held)]]
             t == [s EXCEPT !.ref = r, !.file = l]
  <2>1. Release(s, a) = t
    BY <1>4 DEF Release
  <2>2. t.at = s.at /\ t.ref = r /\ t.mem = s.mem /\ t.file = l /\ DOMAIN t = DOMAIN s
    BY Fields
  <2>3. IsSequence(l) /\ Len(l) = Len(s.file)
    BY <1>1, FileWritten
  <2> HIDE DEF t, l
  <2>4. r \in [Frame -> Nat]
    BY <1>1
  <2>5. Sound(t) /\ (TwoPages(s) => TwoPages(t))
    BY <1>1, <2>2, <2>3, <2>4 DEF Sound, TwoPages
  <2>6. ASSUME NEW c, NEW n \in Nat, AtMost(s, c, n + One(a, c)) PROVE AtMost(t, c, n)
    <3>1. \A f \in Frame : s.at[f] = c => s.ref[f] <= n + One(a, c)
      BY <1>4, <2>6 DEF AtMost, FramesOf
    <3>2. ASSUME NEW f \in Frame, t.at[f] = c PROVE t.ref[f] <= n
      <4>1. s.ref[f] \in Nat /\ s.ref[f] <= n + One(a, c) /\ s.at[f] = c
        BY <1>1, <2>2, <3>1, <3>2
      <4>2. CASE c = a
        <5>1. One(a, c) = 1
          BY <4>2 DEF One
        <5>2. f \in held <=> s.ref[f] > 0
          BY <4>1, <4>2 DEF FramesOf
        <5> HIDE DEF held
        <5> QED
          BY <2>2, <4>1, <5>1, <5>2
      <4>3. CASE c # a
        <5>1. One(a, c) = 0
          BY <4>3 DEF One
        <5>2. f \notin held
          BY <4>1, <4>3 DEF FramesOf
        <5> HIDE DEF held
        <5> QED
          BY <2>2, <4>1, <5>1, <5>2
      <4> QED
        BY <4>2, <4>3
    <3> QED
      BY <3>2 DEF AtMost, FramesOf
  <2> QED
    BY <2>1, <2>5, <2>6
<1> QED
  BY <1>2, <1>3, <1>4

-----------------------------------------------------------------------------
(* get_page and release on top of what is owed already.                    *)
LEMMA Taken ==
  ASSUME NEW s, NEW t, NEW a, NEW b, NEW d
  PROVE  /\ Returns(s, t) => Owes(s, Get(t, a), a)
         /\ Owes(s, t, a) => OwesTwo(s, Get(t, b), a, b)
         /\ OwesTwo(s, t, a, b) => OwesThree(s, Get(t, d), a, b, d)
<1>1. \A x, c : One(x, c) \in Nat
  BY DEF One
<1>2. Returns(s, t) => Owes(s, Get(t, a), a)
  BY GetOwes, First DEF Returns
<1>3. Owes(s, t, a) => OwesTwo(s, Get(t, b), a, b)
  <2> SUFFICES ASSUME Owes(s, t, a) PROVE OwesTwo(s, Get(t, b), a, b)
    OBVIOUS
  <2>1. Owes(t, Get(t, b), b)
    BY GetOwes DEF Owes
  <2>2. \A c : \A n \in Nat : n + One(a, c) \in Nat
    BY <1>1
  <2> QED
    BY <2>1, <2>2 DEF Owes, OwesTwo
<1>4. OwesTwo(s, t, a, b) => OwesThree(s, Get(t, d), a, b, d)
  <2> SUFFICES ASSUME OwesTwo(s, t, a, b) PROVE OwesThree(s, Get(t, d), a, b, d)
    OBVIOUS
  <2>1. Owes(t, Get(t, d), d)
    BY GetOwes DEF OwesTwo
  <2>2. \A c : \A n \in Nat : n + One(a, c) + One(b, c) \in Nat
    BY <1>1
  <2> QED
    BY <2>1, <2>2 DEF Owes, OwesTwo, OwesThree
<1> QED
  BY <1>2, <1>3, <1>4

(* release pays what is owed for its page, and takes nothing else.         *)
LEMMA GivenBack ==
  ASSUME NEW s, NEW t, NEW a, NEW b, NEW d
  PROVE  /\ Returns(s, t) => Returns(s, Release(t, a))
         /\ Owes(s, t, a) => Returns(s, Release(t, a))
         /\ OwesTwo(s, t, a, b) => Owes(s, Release(t, a), b)
         /\ OwesThree(s, t, a, b, d) => OwesTwo(s, Release(t, a), b, d)
<1> DEFINE u == Release(t, a)
<1>1. \A x, c : One(x, c) \in Nat
  BY DEF One
<1>2. Sound(t) =>
        /\ Sound(u) /\ (TwoPages(t) => TwoPages(u))
        /\ \A c : \A n \in Nat : AtMost(t, c, n + One(a, c)) => AtMost(u, c, n)
  BY ReleaseIs
<1> HIDE DEF u
<1>3. Owes(s, t, a) => Returns(s, u)
  BY <1>2 DEF Owes, Returns
<1>4. Returns(s, t) => Returns(s, u)
  BY <1>3, Weaker
<1>5. OwesTwo(s, t, a, b) => Owes(s, u, b)
  <2>1. \A c : \A n \in Nat : /\ n + One(b, c) \in Nat
                              /\ (n + One(b, c)) + One(a, c) = n + One(a, c) + One(b, c)
    BY <1>1
  <2> QED
    BY <1>2, <2>1 DEF OwesTwo, Owes
<1>6. OwesThree(s, t, a, b, d) => OwesTwo(s, u, b, d)
  <2>1. \A c : \A n \in Nat : /\ n + One(b, c) + One(d, c) \in Nat
                              /\ (n + One(b, c) + One(d, c)) + One(a, c) =
                                   n + One(a, c) + One(b, c) + One(d, c)
    BY <1>1
  <2> QED
    BY <1>2, <2>1 DEF OwesThree, OwesTwo
<1> QED
  BY <1>3, <1>4, <1>5, <1>6 DEF u

(* A function on 0 .. n, extended by one value.                            *)
LEMMA Extended ==
  ASSUME NEW n \in Nat, NEW g, NEW v,
         NEW h, h = [k \in 0 .. n + 1 |-> IF k = n + 1 THEN v ELSE g[k]]
  PROVE  h[n + 1] = v /\ \A k \in 0 .. n : h[k] = g[k]
<1>1. n + 1 \in 0 .. n + 1
  OBVIOUS
<1>2. \A k \in 0 .. n : k \in 0 .. n + 1 /\ k # n + 1
  OBVIOUS
<1>3. h[n + 1] = v
  BY <1>1
<1>4. \A k \in 0 .. n : h[k] = g[k]
  BY <1>2
<1> QED
  BY <1>3, <1>4

-----------------------------------------------------------------------------
(* The recursions down the tree: what makes the next call of each, and     *)
(* what a call returns once the one it made has.                           *)
NextCall(kind, x, y, c) ==
  CASE kind = "most" -> FindMostCall(Release(c.s, c.a), c.child, x)
    [] kind = "readj" -> ReAdjCall(c.s, c.child, x, y)
    [] kind = "insert" -> InsertCall(c.s, c.child, x, c.j, c.a)
    [] kind = "remove" -> RemoveCall(c.s, c.child, x, c.j, c.a)
    [] kind = "search" -> SearchCall(c.s, c.child, x)
More(kind, x, y, path) ==
  IF Last(path).end THEN path ELSE Append(path, NextCall(kind, x, y, Last(path)))

Back(kind, c, below) ==
  CASE kind = "readj" -> Release(PutChild(below, Ptr(c.s, c.a), c.k, c.child), c.a)
    [] kind = "insert" -> Inserted(PutChild(below.s, c.p, c.j, below.a), c)
    [] kind = "remove" -> Adjusted(PutChild(below.s, c.p, c.j, below.a), c.p, c.a, c.i, c.parent)
    [] kind = "search" -> [s |-> Release(below.s, c.a), rid |-> below.rid]
StateOf(kind, answer) == IF kind = "readj" THEN answer ELSE answer.s

(* Entry k moved, when n are to be; one more node printed.                 *)
MovedBy(u, k, src, dst, parent, i, n, front, leaf) ==
  IF k > n THEN u ELSE MoveOne(u, src, dst, parent, i, front, leaf)
PrintOne(x) ==
  IF x.queue = <<>> THEN x
  ELSE LET a == Head(x.queue)
           u == Get(x.s, a)
       IN [s |-> Release(u, a), queue |-> Tail(x.queue) \o ChildrenOf(At(u, a)),
           printed |-> Append(x.printed, At(u, a))]
(* What is done step by step: pages are got or released in turn, calls are *)
(* made and return, entries move, nodes are printed, keys are inserted.    *)
Step(kind, p, x, k) ==
  CASE kind = "get" -> Get(x, p[k])
    [] kind = "release" -> Release(x, p[k])
    [] kind = "call" -> More(p[1], p[2], p[3], x)
    [] kind = "return" -> Back(p[1], p[2][p[3] - k], x)
    [] kind = "move" -> MovedBy(x, k, p[1], p[2], p[3], p[4], p[5], p[6], p[7])
    [] kind = "print" -> PrintOne(x)
    [] kind = "insert" -> BTreeInsert(x, p[k])
Steps(kind, p, start, n, g) ==
  g = [k \in 0 .. n |-> IF k = 0 THEN start ELSE Step(kind, p, g[k - 1], k)]

(* The states, paths or answers after 0 to n steps.                        *)
LEMMA StepsExist ==
  ASSUME NEW kind, NEW p, NEW start
  PROVE  \A n \in Nat : \E g : Steps(kind, p, start, n, g)
<1> DEFINE S == {n \in Nat : \E g : Steps(kind, p, start, n, g)}
<1>1. 0 \in S
  <2> DEFINE g == [k \in 0 .. 0 |-> start]
  <2>1. Steps(kind, p, start, 0, g)
    BY DEF Steps
  <2> QED
    BY <2>1
<1>2. ASSUME NEW n \in Nat, NEW g, Steps(kind, p, start, n, g)
      PROVE  \E h : Steps(kind, p, start, n + 1, h)
  <2> DEFINE v == Step(kind, p, g[n], n + 1)
             h == [k \in 0 .. n + 1 |-> IF k = n + 1 THEN v ELSE g[k]]
  <2>1. h[n + 1] = v /\ \A k \in 0 .. n : h[k] = g[k]
    <3> HIDE DEF v
    <3> QED
      BY Extended
  <2>2. \A k \in 0 .. n : g[k] = IF k = 0 THEN start ELSE Step(kind, p, g[k - 1], k)
    BY <1>2 DEF Steps
  <2>3. h = [k \in 0 .. n + 1 |-> h[k]]
    OBVIOUS
  <2> HIDE DEF h
  <2>4. ASSUME NEW k \in 0 .. n + 1
        PROVE  h[k] = IF k = 0 THEN start ELSE Step(kind, p, h[k - 1], k)
    <3>1. CASE k = n + 1
      <4>1. k # 0 /\ k - 1 = n /\ n \in 0 .. n
        BY <3>1
      <4>2. h[k - 1] = g[n] /\ h[k] = v
        BY <2>1, <3>1, <4>1
      <4> QED
        BY <3>1, <4>1, <4>2
    <3>2. CASE k \in 1 .. n
      <4>1. k \in 0 .. n /\ k - 1 \in 0 .. n /\ k # 0
        BY <3>2
      <4>2. h[k - 1] = g[k - 1] /\ h[k] = g[k]
        BY <2>1, <4>1
      <4> QED
        BY <2>2, <4>1, <4>2
    <3>3. CASE k = 0
      <4>1. k \in 0 .. n
        BY <3>3
      <4> QED
        BY <2>1, <2>2, <3>3, <4>1
    <3>4. k = n + 1 \/ k \in 1 .. n \/ k = 0
      OBVIOUS
    <3> QED
      BY <3>1, <3>2, <3>3, <3>4, Zenon
  <2>5. Steps(kind, p, start, n + 1, h)
    BY <2>3, <2>4 DEF Steps
  <2> QED
    BY <2>5
<1>3. S = Nat
  <2>1. \A n \in S : n + 1 \in S
    <3>1. \A n \in Nat : n + 1 \in Nat
      OBVIOUS
    <3> QED
      BY <1>2, <3>1, Zenon
  <2> HIDE DEF S
  <2>2. S \in SUBSET Nat
    BY DEF S
  <2> QED
    BY <1>1, <2>1, <2>2, Induction
<1> QED
  BY <1>3

(* Pages got or released in turn.                                          *)
GotInTurn(s, as, n, g) ==
  g = [k \in 0 .. n |-> IF k = 0 THEN s ELSE Get(g[k - 1], as[k])]

(* The states in between are those of the steps.                           *)
LEMMA GotExists ==
  ASSUME NEW s, NEW as
  PROVE  \A n \in Nat : \E g : GotInTurn(s, as, n, g)
<1>1. \A z, k : Step("get", as, z, k) = Get(z, as[k])
  BY DEF Step
<1>2. \A n, g : Steps("get", as, s, n, g) <=> GotInTurn(s, as, n, g)
  BY <1>1 DEF Steps, GotInTurn
<1>3. \A n \in Nat : \E g : Steps("get", as, s, n, g)
  BY StepsExist
<1> QED
  BY <1>2, <1>3

LeftInTurn(s, as, n, g) ==
  g = [k \in 0 .. n |-> IF k = 0 THEN s ELSE Release(g[k - 1], as[k])]

(* The same for release.                                                   *)
LEMMA LeftExists ==
  ASSUME NEW s, NEW as
  PROVE  \A n \in Nat : \E g : LeftInTurn(s, as, n, g)
<1>1. \A z, k : Step("release", as, z, k) = Release(z, as[k])
  BY DEF Step
<1>2. \A n, g : Steps("release", as, s, n, g) <=> LeftInTurn(s, as, n, g)
  BY <1>1 DEF Steps, LeftInTurn
<1>3. \A n \in Nat : \E g : Steps("release", as, s, n, g)
  BY StepsExist
<1> QED
  BY <1>2, <1>3

(* Two pages got or released in turn.                                      *)
LEMMA TwoInTurn ==
  ASSUME NEW s, NEW a, NEW b
  PROVE  /\ GetAll(s, <<a, b>>) = Get(Get(s, a), b)
         /\ ReleaseAll(s, <<a, b>>) = Release(Release(s, a), b)
<1> DEFINE as == <<a, b>>
           got == CHOOSE g : GotInTurn(s, as, 2, g)
           left == CHOOSE g : LeftInTurn(s, as, 2, g)
<1>1. Len(as) = 2 /\ as[1] = a /\ as[2] = b
  OBVIOUS
<1> HIDE DEF as
<1>2. GetAll(s, as) = got[2] /\ ReleaseAll(s, as) = left[2]
  BY <1>1 DEF GetAll, ReleaseAll, GotInTurn, LeftInTurn
<1>3. GotInTurn(s, as, 2, got) /\ LeftInTurn(s, as, 2, left)
  BY GotExists, LeftExists
<1> HIDE DEF got, left
<1>4. got[2] = Get(Get(s, a), b)
  <2>1. \A k \in 0 .. 2 : got[k] = IF k = 0 THEN s ELSE Get(got[k - 1], as[k])
    BY <1>3 DEF GotInTurn
  <2>2. got[0] = s
    BY <2>1
  <2>3. got[1] = Get(got[0], as[1])
    <3>1. 1 \in 0 .. 2 /\ 1 # 0 /\ 1 - 1 = 0
      OBVIOUS
    <3> QED
      BY <2>1, <3>1, Zenon
  <2>4. got[2] = Get(got[1], as[2])
    <3>1. 2 \in 0 .. 2 /\ 2 # 0 /\ 2 - 1 = 1
      OBVIOUS
    <3> QED
      BY <2>1, <3>1, Zenon
  <2> QED
    BY <1>1, <2>2, <2>3, <2>4
<1>5. left[2] = Release(Release(s, a), b)
  <2>1. \A k \in 0 .. 2 : left[k] = IF k = 0 THEN s ELSE Release(left[k - 1], as[k])
    BY <1>3 DEF LeftInTurn
  <2>2. left[0] = s
    BY <2>1
  <2>3. left[1] = Release(left[0], as[1])
    <3>1. 1 \in 0 .. 2 /\ 1 # 0 /\ 1 - 1 = 0
      OBVIOUS
    <3> QED
      BY <2>1, <3>1, Zenon
  <2>4. left[2] = Release(left[1], as[2])
    <3>1. 2 \in 0 .. 2 /\ 2 # 0 /\ 2 - 1 = 1
      OBVIOUS
    <3> QED
      BY <2>1, <3>1, Zenon
  <2> QED
    BY <1>1, <2>2, <2>3, <2>4
<1> QED
  BY <1>2, <1>4, <1>5 DEF as

(* Three of them.                                                          *)
LEMMA ThreeInTurn ==
  ASSUME NEW s, NEW a, NEW b, NEW d
  PROVE  /\ GetAll(s, <<a, b, d>>) = Get(Get(Get(s, a), b), d)
         /\ ReleaseAll(s, <<a, b, d>>) = Release(Release(Release(s, a), b), d)
<1> DEFINE as == <<a, b, d>>
           got == CHOOSE g : GotInTurn(s, as, 3, g)
           left == CHOOSE g : LeftInTurn(s, as, 3, g)
<1>1. Len(as) = 3 /\ as[1] = a /\ as[2] = b /\ as[3] = d
  OBVIOUS
<1> HIDE DEF as
<1>2. GetAll(s, as) = got[3] /\ ReleaseAll(s, as) = left[3]
  BY <1>1 DEF GetAll, ReleaseAll, GotInTurn, LeftInTurn
<1>3. GotInTurn(s, as, 3, got) /\ LeftInTurn(s, as, 3, left)
  BY GotExists, LeftExists
<1> HIDE DEF got, left
<1>4. got[3] = Get(Get(Get(s, a), b), d)
  <2>1. \A k \in 0 .. 3 : got[k] = IF k = 0 THEN s ELSE Get(got[k - 1], as[k])
    BY <1>3 DEF GotInTurn
  <2>2. got[0] = s
    BY <2>1
  <2>3. got[1] = Get(got[0], as[1])
    <3>1. 1 \in 0 .. 3 /\ 1 # 0 /\ 1 - 1 = 0
      OBVIOUS
    <3> QED
      BY <2>1, <3>1, Zenon
  <2>4. got[2] = Get(got[1], as[2])
    <3>1. 2 \in 0 .. 3 /\ 2 # 0 /\ 2 - 1 = 1
      OBVIOUS
    <3> QED
      BY <2>1, <3>1, Zenon
  <2>5. got[3] = Get(got[2], as[3])
    <3>1. 3 \in 0 .. 3 /\ 3 # 0 /\ 3 - 1 = 2
      OBVIOUS
    <3> QED
      BY <2>1, <3>1, Zenon
  <2> QED
    BY <1>1, <2>2, <2>3, <2>4, <2>5
<1>5. left[3] = Release(Release(Release(s, a), b), d)
  <2>1. \A k \in 0 .. 3 : left[k] = IF k = 0 THEN s ELSE Release(left[k - 1], as[k])
    BY <1>3 DEF LeftInTurn
  <2>2. left[0] = s
    BY <2>1
  <2>3. left[1] = Release(left[0], as[1])
    <3>1. 1 \in 0 .. 3 /\ 1 # 0 /\ 1 - 1 = 0
      OBVIOUS
    <3> QED
      BY <2>1, <3>1, Zenon
  <2>4. left[2] = Release(left[1], as[2])
    <3>1. 2 \in 0 .. 3 /\ 2 # 0 /\ 2 - 1 = 1
      OBVIOUS
    <3> QED
      BY <2>1, <3>1, Zenon
  <2>5. left[3] = Release(left[2], as[3])
    <3>1. 3 \in 0 .. 3 /\ 3 # 0 /\ 3 - 1 = 2
      OBVIOUS
    <3> QED
      BY <2>1, <3>1, Zenon
  <2> QED
    BY <1>1, <2>2, <2>3, <2>4, <2>5
<1> QED
  BY <1>2, <1>4, <1>5 DEF as

(* A function that gets pages, calls others and releases the pages returns *)
(* its pins if the others do.                                              *)
LEMMA Bracket ==
  ASSUME NEW s, NEW t, NEW u, NEW a, NEW b, NEW d
  PROVE  /\ Returns(s, t) /\ Returns(Get(t, a), u) => Returns(s, Release(u, a))
         /\ Returns(s, t) /\ Returns(GetAll(t, <<a, b>>), u) => Returns(s, ReleaseAll(u, <<a, b>>))
         /\ Returns(s, t) /\ Returns(GetAll(t, <<a, b, d>>), u) =>
              Returns(s, ReleaseAll(u, <<a, b, d>>))
<1>1. Returns(s, t) => /\ Owes(s, Get(t, a), a)
                       /\ OwesTwo(s, Get(Get(t, a), b), a, b)
                       /\ OwesThree(s, Get(Get(Get(t, a), b), d), a, b, d)
  BY Taken
<1>2. Returns(s, t) /\ Returns(Get(t, a), u) => Returns(s, Release(u, a))
  BY <1>1, Onward, GivenBack
<1>3. Returns(s, t) /\ Returns(GetAll(t, <<a, b>>), u) => Returns(s, ReleaseAll(u, <<a, b>>))
  <2>1. OwesTwo(s, u, a, b) => Returns(s, Release(Release(u, a), b))
    BY GivenBack
  <2> QED
    BY <1>1, <2>1, Onward, TwoInTurn
<1>4. Returns(s, t) /\ Returns(GetAll(t, <<a, b, d>>), u) =>
              Returns(s, ReleaseAll(u, <<a, b, d>>))
  <2>1. OwesThree(s, u, a, b, d) => Returns(s, Release(Release(Release(u, a), b), d))
    BY GivenBack
  <2> QED
    BY <1>1, <2>1, Onward, ThreeInTurn
<1> QED
  BY <1>2, <1>3, <1>4

-----------------------------------------------------------------------------
(* The functions of b_tree.c, from the stores on.                          *)
LEMMA Stores ==
  ASSUME NEW s, NEW t, Returns(s, t)
  PROVE  /\ Sound(t)
         /\ \A p, node : Returns(s, Put(t, p, node))
         /\ \A a, node : Returns(s, PutAt(t, a, node))
         /\ \A p, k, x : /\ Returns(s, PutRow(t, p, k, x))
                         /\ Returns(s, PutChild(t, p, k, x))
         /\ \A p, x : Returns(s, PutNext(t, p, x))
<1>1. Sound(t)
  BY DEF Returns
<1>2. \A p, node : Returns(s, Put(t, p, node))
  BY <1>1, PutReturns, Onward
<1>3. \A a, node : Returns(s, PutAt(t, a, node))
  BY <1>2 DEF PutAt
<1>4. \A p, k, x : Returns(s, PutRow(t, p, k, x)) /\ Returns(s, PutChild(t, p, k, x))
  BY <1>2 DEF PutRow, PutChild
<1>5. \A p, x : Returns(s, PutNext(t, p, x))
  BY <1>2 DEF PutNext
<1> QED
  BY <1>1, <1>2, <1>3, <1>4, <1>5

(* A function that has only got its pages owes them nothing more.          *)
LEMMA GotIsSound ==
  ASSUME NEW s, Sound(s), NEW a, NEW b, NEW d
  PROVE  /\ Returns(Get(s, a), Get(s, a))
         /\ Returns(GetAll(s, <<a, b>>), GetAll(s, <<a, b>>))
         /\ Returns(GetAll(s, <<a, b, d>>), GetAll(s, <<a, b, d>>))
<1>1. \A t, x : Sound(t) => Sound(Get(t, x))
  BY GetOwes DEF Owes
<1>2. Sound(Get(s, a)) /\ Sound(Get(Get(s, a), b)) /\ Sound(Get(Get(Get(s, a), b), d))
  BY <1>1
<1> QED
  BY <1>2, Idle, TwoInTurn, ThreeInTurn

(* page->next of a leaf set.                                               *)
LEMMA LinkReturns ==
  ASSUME NEW s, NEW t, Returns(s, t), NEW a, NEW next
  PROVE  Returns(s, Link(t, a, next))
<1> DEFINE u == Get(t, a)
           v == PutNext(u, Ptr(u, a), next)
<1>1. Link(t, a, next) = Release(v, a)
  BY DEF Link, Then
<1>2. Returns(u, v)
  BY GotIsSound, Stores
<1> HIDE DEF v
<1> QED
  BY <1>1, <1>2, Bracket

(* CreateNewNode.                                                          *)
LEMMA CreateReturns ==
  ASSUME NEW s, NEW t, Returns(s, t)
  PROVE  Returns(s, CreateNewNode(t).s)
<1> DEFINE u == Get(t, Ctrl)
           a == At(u, Ctrl).next
           v == PutNext(u, Ptr(u, Ctrl), a + 1)
           w == Get(v, a)
           x == PutAt(w, a, EmptyNode)
<1>1. CreateNewNode(t).s = ReleaseAll(x, <<a, Ctrl>>)
  BY DEF CreateNewNode, Then
<1>2. Returns(u, v)
  BY GotIsSound, Stores
<1> HIDE DEF a, v
<1>3. Returns(w, x)
  BY <1>2, GotIsSound, Stores
<1> HIDE DEF x
<1>4. Returns(u, Release(x, a))
  BY <1>2, <1>3, Bracket
<1>5. Returns(s, Release(Release(x, a), Ctrl))
  BY <1>4, Bracket
<1> QED
  BY <1>1, <1>5, TwoInTurn

(* InsertElement of a key.                                                 *)
LEMMA InsertKeyReturns ==
  ASSUME NEW s, NEW t, Returns(s, t), NEW parent, NEW x, NEW key, NEW i, NEW j
  PROVE  Returns(s, InsertKey(t, parent, x, key, i, j))
<1> DEFINE u == GetAll(t, <<x, parent>>)
           v == AddKey(u, x, key, j)
           w == CopyFirst(v, parent, x, i)
<1>1. InsertKey(t, parent, x, key, i, j) = ReleaseAll(w, <<x, parent>>)
  BY DEF InsertKey
<1>2. Returns(u, v)
  BY GotIsSound, Stores DEF AddKey
<1> HIDE DEF v
<1>3. Returns(u, w)
  <2>1. Returns(u, Lost(v))
    BY <1>2, LostReturns, Onward DEF Returns
  <2> QED
    BY <1>2, <2>1, Stores DEF CopyFirst
<1> HIDE DEF w
<1> QED
  BY <1>1, <1>3, Bracket

(* InsertElement of a child.                                               *)
LEMMA InsertChildReturns ==
  ASSUME NEW s, NEW t, Returns(s, t), NEW parent, NEW x, NEW i
  PROVE  Returns(s, InsertChild(t, parent, x, i))
<1> DEFINE u == GetAll(t, <<x, parent>>)
           v == Chain(u, parent, x, i)
           w == AddChild(v, parent, x, i)
<1>1. InsertChild(t, parent, x, i) = ReleaseAll(w, <<x, parent>>)
  BY DEF InsertChild
<1>2. Returns(u, v)
  <2> DEFINE child == At(u, parent).child
             left == IF i > 0 THEN Link(u, child[i - 1], x) ELSE u
  <2>1. Returns(u, u)
    BY GotIsSound, Stores
  <2>2. Returns(u, left)
    BY <2>1, LinkReturns
  <2>3. v = IF IsLeaf(At(u, x)) THEN PutNext(left, Ptr(u, x), child[i]) ELSE u
    BY DEF Chain
  <2> HIDE DEF left, child, u, v
  <2> QED
    BY <2>1, <2>2, <2>3, Stores
<1> HIDE DEF v
<1>3. Returns(u, w)
  BY <1>2, Stores DEF AddChild
<1> HIDE DEF w
<1> QED
  BY <1>1, <1>3, Bracket

(* SplitNode, of a root too.                                               *)
LEMMA SplitReturns ==
  ASSUME NEW s, NEW t, Returns(s, t), NEW parent, NEW x, NEW i
  PROVE  Returns(s, SplitNode(t, parent, x, i).s)
<1> DEFINE new == CreateNewNode(t)
           u == GetAll(new.s, <<x, new.a>>)
           v == Halve(u, x, new.a)
           root == CreateNewNode(v)
           below == InsertChild(v, parent, new.a, i + 1)
           left == InsertChild(root.s, root.a, x, 0)
           above == InsertChild(left, root.a, new.a, 1)
<1>1. SplitNode(t, parent, x, i).s =
        IF parent # NoPage THEN ReleaseAll(below, <<x, new.a>>) ELSE ReleaseAll(above, <<x, new.a>>)
  BY DEF SplitNode, Then
<1>2. Returns(s, new.s)
  BY CreateReturns
<1> HIDE DEF new
<1>3. Returns(u, v)
  <2>1. Returns(u, u)
    BY <1>2, GotIsSound, Stores
  <2>2. \A y, z : Returns(u, PutAt(PutAt(u, new.a, y), x, z))
    BY <2>1, Stores
  <2> QED
    BY <2>2 DEF Halve
<1> HIDE DEF v
<1>4. Returns(u, below)
  BY <1>3, InsertChildReturns
<1>5. Returns(u, root.s)
  BY <1>3, CreateReturns
<1> HIDE DEF root
<1>6. Returns(u, left)
  BY <1>5, InsertChildReturns
<1> HIDE DEF left
<1>7. Returns(u, above)
  BY <1>6, InsertChildReturns
<1> HIDE DEF above, below
<1> QED
  BY <1>1, <1>2, <1>4, <1>7, Bracket

(* FindSibling and FindSiblingn_M_2 look at a sibling and leave it.        *)
LEMMA LookReturns ==
  ASSUME NEW s, NEW t, Returns(s, t), NEW a
  PROVE  Returns(s, Look(t, a).s)
<1>1. Look(t, a).s = Release(Get(t, a), a)
  BY DEF Look, Then
<1>2. Returns(Get(t, a), Get(t, a))
  BY GotIsSound, Stores
<1> QED
  BY <1>1, <1>2, Bracket

(* FindSibling and FindSiblingn_M_2 as a whole.                            *)
LEMMA SiblingReturns ==
  ASSUME NEW s, NEW t, Returns(s, t), NEW parent, NEW i
  PROVE  /\ Returns(s, FindSibling(t, parent, i).s)
         /\ Returns(s, FindSiblingM2(t, parent, i).s)
<1> SUFFICES ASSUME NEW fit
             PROVE  Returns(s, SiblingOf(t, parent, i, fit).s)
  BY DEF FindSibling, FindSiblingM2
<1> DEFINE u == Get(t, parent)
           node == At(u, parent)
           near == IF i = 0 THEN 1 ELSE i - 1
           l == Look(u, node.child[near])
           r == Look(l.s, node.child[i + 1])
<1>1. SiblingOf(t, parent, i, fit).s = Release(IF i = 0 THEN l.s ELSE r.s, parent)
  BY DEF SiblingOf, Then
<1>2. Returns(u, l.s)
  BY GotIsSound, Stores, LookReturns
<1> HIDE DEF l
<1>3. Returns(u, r.s)
  BY <1>2, LookReturns
<1> HIDE DEF r
<1> QED
  BY <1>1, <1>2, <1>3, Bracket

-----------------------------------------------------------------------------
(* The paths of calls, and the answers on the way back.                    *)
Paths(kind, x, y, first, n, g) ==
  g = [k \in 0 .. n |-> IF k = 0 THEN <<first>> ELSE More(kind, x, y, g[k - 1])]

(* They are those of the steps.                                            *)
LEMMA PathsExist ==
  ASSUME NEW kind, NEW x, NEW y, NEW first
  PROVE  \A n \in Nat : \E g : Paths(kind, x, y, first, n, g)
<1>1. \A z, k : Step("call", <<kind, x, y>>, z, k) = More(kind, x, y, z)
  BY DEF Step
<1>2. \A n, g : Steps("call", <<kind, x, y>>, <<first>>, n, g) <=>
                       Paths(kind, x, y, first, n, g)
  BY <1>1 DEF Steps, Paths
<1>3. \A n \in Nat : \E g : Steps("call", <<kind, x, y>>, <<first>>, n, g)
  BY StepsExist
<1> QED
  BY <1>2, <1>3

Answers(kind, path, len, bottom, n, g) ==
  g = [k \in 0 .. n |-> IF k = 0 THEN bottom ELSE Back(kind, path[len - k], g[k - 1])]

(* They are those of the steps.                                            *)
LEMMA AnswersExist ==
  ASSUME NEW kind, NEW path, NEW len, NEW bottom
  PROVE  \A n \in Nat : \E g : Answers(kind, path, len, bottom, n, g)
<1>1. \A z, k : Step("return", <<kind, path, len>>, z, k) = Back(kind, path[len - k], z)
  BY DEF Step
<1>2. \A n, g : Steps("return", <<kind, path, len>>, bottom, n, g) <=>
                       Answers(kind, path, len, bottom, n, g)
  BY <1>1 DEF Steps, Answers
<1>3. \A n \in Nat : \E g : Steps("return", <<kind, path, len>>, bottom, n, g)
  BY StepsExist
<1> QED
  BY <1>2, <1>3

(* A call owes a pin on its node.                                          *)
LEMMA CallOwes ==
  ASSUME NEW s, NEW t, Returns(s, t), NEW a
  PROVE  /\ \A left : Owes(s, FindMostCall(t, a, left).s, a) /\ FindMostCall(t, a, left).a = a
         /\ \A key, target : /\ Owes(s, ReAdjCall(t, a, key, target).s, a)
                             /\ ReAdjCall(t, a, key, target).a = a
         /\ \A key, i, parent : /\ Owes(s, InsertCall(t, a, key, i, parent).s, a)
                                /\ InsertCall(t, a, key, i, parent).a = a
                                /\ Owes(s, RemoveCall(t, a, key, i, parent).s, a)
                                /\ RemoveCall(t, a, key, i, parent).a = a
         /\ \A key : Owes(s, SearchCall(t, a, key).s, a) /\ SearchCall(t, a, key).a = a
<1> DEFINE u == Get(t, a)
<1>1. Owes(s, u, a) /\ Sound(u) /\ Returns(u, u)
  BY Taken, Idle DEF Owes
<1>2. ASSUME NEW left PROVE FindMostCall(t, a, left).s = u /\ FindMostCall(t, a, left).a = a
  BY DEF FindMostCall, Then
<1>3. ASSUME NEW key, NEW i, NEW parent
      PROVE  /\ InsertCall(t, a, key, i, parent).s = u /\ InsertCall(t, a, key, i, parent).a = a
             /\ RemoveCall(t, a, key, i, parent).s = u /\ RemoveCall(t, a, key, i, parent).a = a
  <2>1. InsertCall(t, a, key, i, parent).s = u /\ InsertCall(t, a, key, i, parent).a = a
    BY DEF InsertCall, Then
  <2>2. RemoveCall(t, a, key, i, parent).s = u /\ RemoveCall(t, a, key, i, parent).a = a
    BY DEF RemoveCall, Then
  <2> QED
    BY <2>1, <2>2
<1>4. ASSUME NEW key PROVE SearchCall(t, a, key).s = u /\ SearchCall(t, a, key).a = a
  BY DEF SearchCall, Then
<1>5. ASSUME NEW key, NEW target
      PROVE  /\ Owes(s, ReAdjCall(t, a, key, target).s, a)
             /\ ReAdjCall(t, a, key, target).a = a
  <2> DEFINE v == ReAdjCall(t, a, key, target)
  <2>1. v.a = a
    BY DEF ReAdjCall, Then
  <2>2. \E k : v.s = u \/ v.s = PutRow(u, Ptr(u, a), k, target)
    BY DEF ReAdjCall, Then
  <2> HIDE DEF v
  <2>3. Returns(u, v.s)
    BY <1>1, <2>2, Stores
  <2>4. Owes(s, v.s, a)
    BY <1>1, <2>3, Onward
  <2> QED
    BY <2>1, <2>4 DEF v
<1> QED
  BY <1>1, <1>2, <1>3, <1>4, <1>5

Kind == {"most", "readj", "insert", "remove", "search"}

(* Along a path every call owes its pin to the state it was made in.  On   *)
(* the way to the left- or rightmost leaf the pins before have been        *)
(* returned.                                                               *)
Base(kind, s, path, k) == IF kind = "most" \/ k = 1 THEN s ELSE path[k - 1].s
CallsOwe(kind, s, path) ==
  /\ IsSequence(path) /\ Len(path) >= 1
  /\ \A k \in 1 .. Len(path) : /\ Owes(Base(kind, s, path, k), path[k].s, path[k].a)
                               /\ TwoPages(s) => TwoPages(path[k].s)

(* The entries of a sequence that was appended to.                         *)
LEMMA AppendedTo ==
  ASSUME NEW q, IsSequence(q), NEW x, NEW e, e = Append(q, x)
  PROVE  /\ IsSequence(e) /\ Len(q) \in Nat /\ Len(e) = Len(q) + 1
         /\ \A k \in 1 .. Len(q) : e[k] = q[k]
         /\ e[Len(q) + 1] = x
<1>1. PICK S : q \in Seq(S)
  BY DEF IsSequence
<1> DEFINE T == S \cup {x}
<1>2. q \in Seq(T) /\ x \in T
  BY <1>1
<1> HIDE DEF T
<1>3. e \in Seq(T) /\ Len(q) \in Nat /\ Len(e) = Len(q) + 1
  BY <1>2
<1>4. \A k \in 1 .. Len(q) : e[k] = q[k]
  BY <1>2
<1>5. e[Len(q) + 1] = x
  BY <1>2
<1> QED
  BY <1>3, <1>4, <1>5 DEF IsSequence

(* One more call on a path owes its own pin.                               *)
LEMMA MoreOwe ==
  ASSUME NEW kind \in Kind, NEW x, NEW y, NEW s, NEW path, CallsOwe(kind, s, path)
  PROVE  CallsOwe(kind, s, More(kind, x, y, path))
<1> DEFINE len == Len(path)
           c == Last(path)
           next == NextCall(kind, x, y, c)
           e == Append(path, next)
<1>1. /\ IsSequence(path) /\ len \in Nat /\ len >= 1 /\ len \in 1 .. len
      /\ \A k \in 1 .. len : /\ Owes(Base(kind, s, path, k), path[k].s, path[k].a)
                             /\ TwoPages(s) => TwoPages(path[k].s)
  BY FileWritten DEF CallsOwe
<1>2. c = path[len]
  BY DEF Last
<1>3. Owes(Base(kind, s, path, len), c.s, c.a) /\ (TwoPages(s) => TwoPages(c.s))
  BY <1>1, <1>2
<1>4. Owes(IF kind = "most" THEN s ELSE c.s, next.s, next.a)
  <2>1. CASE kind = "most"
    <3> DEFINE t == Release(c.s, c.a)
    <3>1. Returns(s, t)
      BY <1>3, <2>1, GivenBack DEF Base
    <3>2. next = FindMostCall(t, c.child, x)
      BY <2>1 DEF NextCall
    <3> HIDE DEF t, next
    <3> QED
      BY <2>1, <3>1, <3>2, CallOwes
  <2>2. CASE kind # "most"
    <3> DEFINE t == c.s
    <3>1. Returns(t, t)
      BY <1>3, Idle DEF Owes
    <3>2. \/ next = ReAdjCall(t, c.child, x, y)
          \/ next = InsertCall(t, c.child, x, c.j, c.a)
          \/ next = RemoveCall(t, c.child, x, c.j, c.a)
          \/ next = SearchCall(t, c.child, x)
      BY <2>2 DEF NextCall, Kind
    <3> HIDE DEF next
    <3>3. Owes(t, next.s, next.a)
      BY <3>1, <3>2, CallOwes
    <3> QED
      BY <2>2, <3>3
  <2> QED
    BY <2>1, <2>2
<1> HIDE DEF next, c
<1>5. /\ IsSequence(e) /\ Len(e) = len + 1
      /\ \A k \in 1 .. len : e[k] = path[k]
      /\ e[len + 1] = next
  <2>1. e = Append(path, next)
    OBVIOUS
  <2> HIDE DEF e
  <2>2. IsSequence(e)
    BY <1>1, <2>1, AppendedTo
  <2>3. Len(e) = len + 1
    BY <1>1, <2>1, AppendedTo
  <2>4. \A k \in 1 .. len : e[k] = path[k]
    BY <1>1, <2>1, AppendedTo
  <2>5. e[len + 1] = next
    BY <1>1, <2>1, AppendedTo
  <2> QED
    BY <2>2, <2>3, <2>4, <2>5
<1> HIDE DEF e
<1>6. ASSUME NEW k \in 1 .. Len(e)
      PROVE  /\ Owes(Base(kind, s, e, k), e[k].s, e[k].a)
             /\ TwoPages(s) => TwoPages(e[k].s)
  <2>1. CASE k = len + 1
    <3>1. k # 1 /\ k - 1 = len
      BY <1>1, <2>1
    <3>2. Base(kind, s, e, k) = IF kind = "most" THEN s ELSE c.s
      BY <1>1, <1>2, <1>5, <3>1 DEF Base
    <3>3. TwoPages(s) => TwoPages(next.s)
      BY <1>3, <1>4 DEF Owes
    <3> QED
      BY <1>4, <1>5, <2>1, <3>2, <3>3
  <2>2. CASE k \in 1 .. len
    <3>1. k # 1 => k - 1 \in 1 .. len
      BY <1>1, <2>2
    <3>2. Base(kind, s, e, k) = Base(kind, s, path, k)
      BY <1>5, <3>1 DEF Base
    <3> QED
      BY <1>1, <1>5, <2>2, <3>2
  <2> QED
    BY <1>1, <1>5, <2>1, <2>2
<1>7. CallsOwe(kind, s, e)
  BY <1>1, <1>5, <1>6 DEF CallsOwe
<1>8. More(kind, x, y, path) = IF c.end THEN path ELSE e
  BY DEF More, c, e, next
<1> QED
  BY <1>7, <1>8

(* So every call of a path does.                                           *)
LEMMA PathsOwe ==
  ASSUME NEW kind \in Kind, NEW x, NEW y, NEW s, NEW first, Owes(s, first.s, first.a),
         NEW n \in Nat, NEW g, Paths(kind, x, y, first, n, g)
  PROVE  CallsOwe(kind, s, g[n])
<1> DEFINE S == {m \in Nat : m <= n => CallsOwe(kind, s, g[m])}
<1>1. \A m \in 0 .. n : g[m] = IF m = 0 THEN <<first>> ELSE More(kind, x, y, g[m - 1])
  BY DEF Paths
<1>2. CallsOwe(kind, s, <<first>>)
  <2> DEFINE p == <<first>>
  <2>1. p \in Seq({first}) /\ Len(p) = 1 /\ p[1] = first
    OBVIOUS
  <2> HIDE DEF p
  <2> QED
    BY <2>1 DEF CallsOwe, IsSequence, Base, Owes
<1>3. 0 \in S
  BY <1>1, <1>2
<1>4. ASSUME NEW m \in Nat, m \in S PROVE m + 1 \in S
  <2>1. CASE m + 1 <= n
    <3>1. m + 1 \in 0 .. n /\ m + 1 # 0 /\ (m + 1) - 1 = m /\ m <= n
      BY <2>1
    <3>2. g[m + 1] = More(kind, x, y, g[m])
      BY <1>1, <3>1
    <3>3. CallsOwe(kind, s, g[m + 1])
      BY <1>4, <3>1, <3>2, MoreOwe
    <3> QED
      BY <3>3
  <2>2. CASE ~(m + 1 <= n)
    BY <2>2
  <2> QED
    BY <2>1, <2>2
<1>5. S = Nat
  <2>1. S \in SUBSET Nat
    OBVIOUS
  <2>2. \A m \in S : m + 1 \in S
    BY <1>4
  <2> HIDE DEF S
  <2> QED
    BY <1>3, <2>1, <2>2, Induction
<1> QED
  BY <1>5

(* The answers on the way back, by the call that gives them.               *)
Unwound(kind, path, len, bottom, r) ==
  r = [d \in 1 .. len |-> IF d = len THEN bottom ELSE Back(kind, path[d], r[d + 1])]

(* The answers on the way back are those of the steps, in the other order. *)
LEMMA UnwoundExists ==
  ASSUME NEW kind, NEW path, NEW len \in Nat \ {0}, NEW bottom
  PROVE  \E r : Unwound(kind, path, len, bottom, r)
<1>1. PICK h : Answers(kind, path, len, bottom, len - 1, h)
  <2>1. len - 1 \in Nat
    OBVIOUS
  <2> QED
    BY <2>1, AnswersExist
<1> DEFINE r == [d \in 1 .. len |-> h[len - d]]
<1>2. \A m \in 0 .. len - 1 : h[m] = IF m = 0 THEN bottom ELSE Back(kind, path[len - m], h[m - 1])
  BY <1>1 DEF Answers
<1>3. ASSUME NEW d \in 1 .. len
      PROVE  r[d] = IF d = len THEN bottom ELSE Back(kind, path[d], r[d + 1])
  <2>1. r[d] = h[len - d]
    OBVIOUS
  <2>2. CASE d = len
    <3>1. len - d = 0 /\ 0 \in 0 .. len - 1
      BY <2>2
    <3> QED
      BY <1>2, <2>1, <2>2, <3>1
  <2>3. CASE d # len
    <3>1. /\ d + 1 \in 1 .. len /\ len - d \in 0 .. len - 1 /\ len - d # 0
          /\ len - (len - d) = d /\ (len - d) - 1 = len - (d + 1)
      BY <2>3
    <3>2. h[len - d] = Back(kind, path[d], h[len - (d + 1)])
      BY <1>2, <3>1
    <3>3. r[d + 1] = h[len - (d + 1)]
      BY <3>1
    <3> QED
      BY <2>1, <2>3, <3>2, <3>3
  <2> QED
    BY <2>2, <2>3
<1>4. Unwound(kind, path, len, bottom, r)
  BY <1>3 DEF Unwound
<1> QED
  BY <1>4

(* They return the pins if the first does and each call does after the one *)
(* below it.                                                               *)
LEMMA UnwoundReturns ==
  ASSUME NEW kind \in Kind \ {"most"}, NEW s, TwoPages(s), NEW path, CallsOwe(kind, s, path),
         NEW bottom, Returns(Base(kind, s, path, Len(path)), StateOf(kind, bottom)),
         \A b, c, below :
           Owes(b, c.s, c.a) /\ TwoPages(b) /\ Returns(c.s, StateOf(kind, below)) =>
             Returns(b, StateOf(kind, Back(kind, c, below))),
         NEW r, Unwound(kind, path, Len(path), bottom, r)
  PROVE  Returns(s, StateOf(kind, r[1]))
<1> DEFINE len == Len(path)
           S == {m \in Nat : m <= len - 1 =>
                               Returns(Base(kind, s, path, len - m), StateOf(kind, r[len - m]))}
<1>1. /\ len \in Nat /\ len >= 1
      /\ \A k \in 1 .. len : /\ Owes(Base(kind, s, path, k), path[k].s, path[k].a)
                             /\ TwoPages(path[k].s)
  BY FileWritten DEF CallsOwe
<1>2. \A d \in 1 .. len : r[d] = IF d = len THEN bottom ELSE Back(kind, path[d], r[d + 1])
  BY DEF Unwound
<1> HIDE DEF len
<1>3. 0 \in S
  <2>1. len \in 1 .. len /\ len - 0 = len
    BY <1>1
  <2>2. r[len] = bottom
    BY <1>2, <2>1
  <2> QED
    BY <2>1, <2>2 DEF len
<1>4. ASSUME NEW m \in Nat, m \in S PROVE m + 1 \in S
  <2>1. CASE m + 1 <= len - 1
    <3> DEFINE k == len - (m + 1)
               c == path[k]
    <3>1. /\ k \in 1 .. len /\ k # len /\ k + 1 = len - m
          /\ m <= len - 1 /\ len - m # 1 /\ (len - m) - 1 = k
      BY <1>1, <2>1
    <3>2. r[k] = Back(kind, c, r[len - m])
      BY <1>2, <3>1
    <3>3. Owes(Base(kind, s, path, k), c.s, c.a) /\ TwoPages(Base(kind, s, path, k))
      <4>1. k # 1 => k - 1 \in 1 .. len
        BY <1>1, <3>1
      <4> QED
        BY <1>1, <3>1, <4>1 DEF Base
    <3>4. Returns(Base(kind, s, path, len - m), StateOf(kind, r[len - m]))
      BY <1>4, <3>1
    <3>5. Base(kind, s, path, len - m) = c.s
      BY <3>1 DEF Base, Kind
    <3> HIDE DEF c, k
    <3>6. Returns(Base(kind, s, path, k), StateOf(kind, r[k]))
      BY <3>2, <3>3, <3>4, <3>5
    <3> QED
      BY <3>6 DEF k
  <2>2. CASE ~(m + 1 <= len - 1)
    BY <2>2
  <2> QED
    BY <2>1, <2>2
<1>5. S = Nat
  <2>1. S \in SUBSET Nat
    OBVIOUS
  <2>2. \A m \in S : m + 1 \in S
    BY <1>4
  <2> HIDE DEF S
  <2> QED
    BY <1>3, <2>1, <2>2, Induction
<1>6. len - 1 \in Nat /\ len - (len - 1) = 1
  BY <1>1
<1>7. Returns(Base(kind, s, path, 1), StateOf(kind, r[1]))
  BY <1>5, <1>6
<1> QED
  BY <1>7 DEF Base

-----------------------------------------------------------------------------
(* The functions that need more than one page in the file.                 *)
LEMMA PagesStay ==
  ASSUME NEW s, NEW t, Returns(s, t), TwoPages(s), NEW a, NEW b, NEW d
  PROVE  /\ TwoPages(t) /\ TwoPages(Get(t, a))
         /\ TwoPages(GetAll(t, <<a, b>>)) /\ TwoPages(GetAll(t, <<a, b, d>>))
<1>1. TwoPages(t) /\ Sound(t)
  BY DEF Returns
<1>2. \A u, x : Sound(u) /\ TwoPages(u) => Sound(Get(u, x)) /\ TwoPages(Get(u, x))
  BY GetOwes DEF Owes
<1>3. TwoPages(Get(t, a)) /\ TwoPages(Get(Get(t, a), b)) /\ TwoPages(Get(Get(Get(t, a), b), d))
  BY <1>1, <1>2
<1> QED
  BY <1>1, <1>3, TwoInTurn, ThreeInTurn

(* The last call of a path and the state it was made in.                   *)
LEMMA LastOwes ==
  ASSUME NEW kind, NEW s, NEW path, CallsOwe(kind, s, path), TwoPages(s)
  PROVE  /\ Owes(Base(kind, s, path, Len(path)), Last(path).s, Last(path).a)
         /\ TwoPages(Base(kind, s, path, Len(path)))
<1> DEFINE len == Len(path)
<1>1. len \in Nat /\ len >= 1
  BY FileWritten DEF CallsOwe
<1>2. \A k \in 1 .. len : /\ Owes(Base(kind, s, path, k), path[k].s, path[k].a)
                           /\ TwoPages(path[k].s)
  BY DEF CallsOwe
<1> HIDE DEF len
<1>3. len \in 1 .. len /\ (len # 1 => len - 1 \in 1 .. len)
  BY <1>1
<1>4. TwoPages(Base(kind, s, path, len))
  BY <1>2, <1>3 DEF Base
<1> QED
  BY <1>2, <1>3, <1>4 DEF Last, len

(* The path to the left- or rightmost leaf.                                *)
LEMMA MostPath ==
  ASSUME NEW s, NEW t, Returns(s, t), TwoPages(s), NEW a, NEW left
  PROVE  \E path : /\ CallsOwe("most", s, path)
                   /\ FindMost(t, a, left).s = Release(Last(path).s, Last(path).a)
<1> DEFINE first == FindMostCall(t, a, left)
           Down(c) == FindMostCall(Release(c.s, c.a), c.child, left)
           more(p) == Then(p, LAMBDA q : IF Last(q).end THEN q ELSE Append(q, Down(Last(q))))
           n == CachePage
           F(g) == [d \in 0 .. n |-> IF d = 0 THEN <<first>> ELSE more(g[d - 1])]
           made == CHOOSE g : g = F(g)
           path == Calls(first, Down)
<1>1. Owes(s, first.s, first.a)
  BY CallOwes
<1>2. n \in Nat
  BY CacheAssumption
<1>3. path = made[n]
  BY DEF Calls
<1>4. \A p : more(p) = More("most", left, left, p)
  BY DEF More, NextCall, Then
<1>5. FindMost(t, a, left).s = Release(Last(path).s, Last(path).a)
  BY DEF FindMost, Then
<1> HIDE DEF more, n, path, first
<1>6. PICK h : Paths("most", left, left, first, n, h)
  BY <1>2, PathsExist
<1>7. \A g : F(g) =
        [d \in 0 .. n |-> IF d = 0 THEN <<first>> ELSE More("most", left, left, g[d - 1])]
  BY <1>4
<1>8. h = F(h)
  BY <1>6, <1>7 DEF Paths
<1> HIDE DEF F
<1>9. made = F(made)
  BY <1>8
<1> HIDE DEF made
<1>10. Paths("most", left, left, first, n, made)
  BY <1>7, <1>9 DEF Paths
<1>11. CallsOwe("most", s, path)
  BY <1>1, <1>2, <1>3, <1>10, PathsOwe DEF Kind
<1> QED
  BY <1>5, <1>11, Zenon

(* FindMostLeft and FindMostRight.                                         *)
LEMMA FindMostReturns ==
  ASSUME NEW s, NEW t, Returns(s, t), TwoPages(s), NEW a, NEW left
  PROVE  Returns(s, FindMost(t, a, left).s)
<1>1. PICK path : /\ CallsOwe("most", s, path)
                  /\ FindMost(t, a, left).s = Release(Last(path).s, Last(path).a)
  BY MostPath
<1>2. Owes(s, Last(path).s, Last(path).a)
  BY <1>1, LastOwes DEF Base
<1>3. Returns(s, Release(Last(path).s, Last(path).a))
  BY <1>2, GivenBack
<1> QED
  BY <1>1, <1>3

(* ReAdj returns its pins: what the call on a leaf does, what a call does  *)
(* once the one below it has returned, and the whole.                      *)
LEMMA ReAdjBack ==
  /\ \A b, c : Owes(b, c.s, c.a) => Returns(b, StateOf("readj", Release(c.s, c.a)))
  /\ \A b, c, below :
       Owes(b, c.s, c.a) /\ TwoPages(b) /\ Returns(c.s, StateOf("readj", below)) =>
         Returns(b, StateOf("readj", Back("readj", c, below)))
<1>1. \A x : StateOf("readj", x) = x
  BY DEF StateOf
<1>2. ASSUME NEW b, NEW c, NEW below, Owes(b, c.s, c.a), Returns(c.s, below)
      PROVE  Returns(b, Back("readj", c, below))
  <2> DEFINE u == PutChild(below, Ptr(c.s, c.a), c.k, c.child)
  <2>1. Returns(c.s, u)
    BY <1>2, Stores
  <2>2. Back("readj", c, below) = Release(u, c.a)
    BY DEF Back
  <2> HIDE DEF u
  <2>3. Owes(b, u, c.a)
    BY <1>2, <2>1, Onward
  <2> QED
    BY <2>2, <2>3, GivenBack
<1> QED
  BY <1>1, <1>2, GivenBack

(* ReAdj as a whole: its calls owe, and each pays on the way back.         *)
LEMMA ReAdjCalls ==
  ASSUME NEW s, NEW t, Returns(s, t), TwoPages(s), NEW a, NEW key, NEW target
  PROVE  Returns(s, StateOf("readj", ReAdj(t, a, key, target)))
<1> DEFINE first == ReAdjCall(t, a, key, target)
           Down(c) == ReAdjCall(c.s, c.child, key, target)
           more(p) == Then(p, LAMBDA q : IF Last(q).end THEN q ELSE Append(q, Down(Last(q))))
           n == CachePage
           F(g) == [d \in 0 .. n |-> IF d = 0 THEN <<first>> ELSE more(g[d - 1])]
           made == CHOOSE g : g = F(g)
           path == Calls(first, Down)
           Return(c, below) == Release(PutChild(below, Ptr(c.s, c.a), c.k, c.child), c.a)
           up(c, z) == Then(z, LAMBDA below : Return(c, below))
           bottom == Release(Last(path).s, Last(path).a)
           len == Len(path)
           G(g) == [d \in 1 .. len |-> IF d = len THEN bottom ELSE up(path[d], g[d + 1])]
           answers == CHOOSE g : g = G(g)
<1>1. Owes(s, first.s, first.a)
  BY CallOwes
<1>2. n \in Nat
  BY CacheAssumption
<1>3. ReAdj(t, a, key, target) = answers[1]
  <2>1. ReAdj(t, a, key, target) = Returned(path, bottom, Return)
    BY DEF ReAdj, Then
  <2>2. Returned(path, bottom, Return) = answers[1]
    BY DEF Returned
  <2> QED
    BY <2>1, <2>2, Zenon
<1>4. path = made[n]
  BY DEF Calls
<1>5. \A p : more(p) = More("readj", key, target, p)
  BY DEF More, NextCall, Then
<1>6. \A c, z : up(c, z) = Back("readj", c, z)
  BY DEF Back, Then
<1> HIDE DEF more, up, n, path, first
<1>7. PICK h : Paths("readj", key, target, first, n, h)
  BY <1>2, PathsExist
<1>8. \A g : F(g) =
        [d \in 0 .. n |-> IF d = 0 THEN <<first>> ELSE More("readj", key, target, g[d - 1])]
  BY <1>5
<1>9. h = F(h)
  BY <1>7, <1>8 DEF Paths
<1> HIDE DEF F
<1>10. made = F(made)
  BY <1>9
<1> HIDE DEF made
<1>11. Paths("readj", key, target, first, n, made)
  BY <1>8, <1>10 DEF Paths
<1>12. CallsOwe("readj", s, path)
  BY <1>1, <1>2, <1>4, <1>11, PathsOwe DEF Kind
<1>13. Returns(Base("readj", s, path, len), StateOf("readj", bottom))
  BY <1>12, LastOwes, ReAdjBack
<1> HIDE DEF bottom
<1>14. len \in Nat \ {0}
  BY <1>12, FileWritten DEF CallsOwe
<1>15. PICK r : Unwound("readj", path, len, bottom, r)
  BY <1>14, UnwoundExists
<1>16. \A g : G(g) =
        [d \in 1 .. len |-> IF d = len THEN bottom ELSE Back("readj", path[d], g[d + 1])]
  BY <1>6
<1>17. r = G(r)
  BY <1>15, <1>16 DEF Unwound
<1> HIDE DEF G
<1>18. answers = G(answers)
  BY <1>17
<1> HIDE DEF answers
<1>19. Unwound("readj", path, len, bottom, answers)
  BY <1>16, <1>18 DEF Unwound
<1>20. Returns(s, StateOf("readj", answers[1]))
  BY <1>12, <1>13, <1>19, ReAdjBack, UnwoundReturns DEF Kind
<1> QED
  BY <1>3, <1>20

(* Its answer is a state.                                                  *)
LEMMA ReAdjReturns ==
  ASSUME NEW s, NEW t, Returns(s, t), TwoPages(s), NEW a, NEW key, NEW target
  PROVE  Returns(s, ReAdj(t, a, key, target))
BY ReAdjCalls DEF StateOf

(* ReMove of a key, with the separators it renews.                         *)
LEMMA RemoveKeyReturns ==
  ASSUME NEW s, NEW t, Returns(s, t), TwoPages(s), NEW parent, NEW x, NEW i, NEW j
  PROVE  Returns(s, RemoveKey(t, parent, x, i, j))
<1> DEFINE g == GetAll(t, <<parent, x>>)
           u == TakeKey(g, x, j)
           first == At(u, x).row[0]
           old == At(u, parent).row[i]
           v == PutRow(u, Ptr(u, parent), i, first)
           w == ReAdjAll(v, old, first)
           z == CountDown(w, x)
<1>1. RemoveKey(t, parent, x, i, j) = ReleaseAll(z, <<parent, x>>)
  BY DEF RemoveKey, Then
<1>2. Returns(g, g) /\ TwoPages(g)
  BY GotIsSound, Stores, PagesStay
<1>3. Returns(g, u)
  BY <1>2, Stores DEF TakeKey
<1> HIDE DEF u, old, first
<1>4. Returns(g, v)
  BY <1>3, Stores
<1> HIDE DEF v
<1>5. Returns(g, w)
  <2> DEFINE c == Get(v, Ctrl)
             r == ReAdj(c, At(c, Ctrl).n, old, first)
  <2>1. w = IF first = NullRid THEN v ELSE Release(r, Ctrl)
    BY DEF ReAdjAll, Then
  <2>2. Returns(c, c) /\ TwoPages(c)
    BY <1>2, <1>4, GotIsSound, Stores, PagesStay
  <2> HIDE DEF w
  <2>3. Returns(c, r)
    BY <2>2, ReAdjReturns
  <2> HIDE DEF r
  <2>4. Returns(g, Release(r, Ctrl))
    BY <1>4, <2>3, Bracket
  <2> QED
    BY <1>4, <2>1, <2>4
<1> HIDE DEF w
<1>6. Returns(g, z)
  BY <1>5, Stores DEF CountDown
<1> HIDE DEF z
<1> QED
  BY <1>1, <1>6, Bracket

(* ReMove of a child.                                                      *)
LEMMA RemoveChildReturns ==
  ASSUME NEW s, NEW t, Returns(s, t), NEW parent, NEW x, NEW i
  PROVE  Returns(s, RemoveChild(t, parent, x, i))
<1> DEFINE g == GetAll(t, <<parent, x>>)
           u == Unchain(g, parent, x, i)
           v == TakeChild(u, parent, i)
<1>1. RemoveChild(t, parent, x, i) = ReleaseAll(v, <<parent, x>>)
  BY DEF RemoveChild
<1>2. Returns(g, g)
  BY GotIsSound, Stores
<1>3. Returns(g, u)
  <2> HIDE DEF g
  <2> QED
    BY <1>2, LinkReturns DEF Unchain
<1> HIDE DEF u
<1>4. Returns(g, v)
  BY <1>3, Stores DEF TakeChild
<1> HIDE DEF v
<1> QED
  BY <1>1, <1>4, Bracket

(* Move, entry by entry.                                                   *)
LEMMA MoveOneReturns ==
  ASSUME NEW s, NEW t, Returns(s, t), TwoPages(s), NEW src, NEW dst, NEW parent, NEW i, NEW front
  PROVE  /\ Returns(s, MoveKey(t, src, dst, parent, i, front))
         /\ Returns(s, MoveChild(t, src, dst, front))
<1>1. \A p, x, k, j : Returns(s, RemoveKey(t, p, x, k, j))
  BY RemoveKeyReturns
<1>2. \A p, x, k : Returns(s, RemoveChild(t, p, x, k))
  BY RemoveChildReturns
<1>3. Returns(s, MoveKey(t, src, dst, parent, i, front))
  <2> DEFINE from == IF front THEN At(t, src).n - 1 ELSE 0
             u == RemoveKey(t, parent, src, i, from)
  <2>1. \E key, k, j : MoveKey(t, src, dst, parent, i, front) = InsertKey(u, parent, dst, key, k, j)
    BY DEF MoveKey
  <2>2. Returns(s, u)
    BY <1>1
  <2> HIDE DEF u
  <2> QED
    BY <2>1, <2>2, InsertKeyReturns
<1>4. Returns(s, MoveChild(t, src, dst, front))
  <2> DEFINE from == IF front THEN At(t, src).n - 1 ELSE 0
             child == At(t, src).child[from]
             u == RemoveChild(t, src, child, from)
  <2>1. \E k : MoveChild(t, src, dst, front) = InsertChild(u, dst, child, k)
    BY DEF MoveChild
  <2>2. Returns(s, u)
    BY <1>2
  <2> HIDE DEF u
  <2> QED
    BY <2>1, <2>2, InsertChildReturns
<1> QED
  BY <1>3, <1>4

Moved(s, src, dst, parent, i, max, front, leaf, n, g) ==
  g = [k \in 0 .. n |-> IF k = 0 THEN s
                      ELSE MovedBy(g[k - 1], k, src, dst, parent, i, max, front, leaf)]

(* They are those of the steps.                                            *)
LEMMA MovedExists ==
  ASSUME NEW s, NEW src, NEW dst, NEW parent, NEW i, NEW max, NEW front, NEW leaf
  PROVE  \A n \in Nat : \E g : Moved(s, src, dst, parent, i, max, front, leaf, n, g)
<1>1. \A z, k : Step("move", <<src, dst, parent, i, max, front, leaf>>, z, k) =
              MovedBy(z, k, src, dst, parent, i, max, front, leaf)
  BY DEF Step
<1>2. \A n, g : Steps("move", <<src, dst, parent, i, max, front, leaf>>, s, n, g) <=>
                       Moved(s, src, dst, parent, i, max, front, leaf, n, g)
  BY <1>1 DEF Steps, Moved
<1>3. \A n \in Nat : \E g : Steps("move", <<src, dst, parent, i, max, front, leaf>>, s, n, g)
  BY StepsExist
<1> QED
  BY <1>2, <1>3

(* Every number of entries.                                                *)
LEMMA MoveAllReturns ==
  ASSUME NEW s, NEW t, Returns(s, t), TwoPages(s),
         NEW src, NEW dst, NEW parent, NEW i, NEW n, NEW front, NEW leaf
  PROVE  Returns(s, MoveAll(t, src, dst, parent, i, n, front, leaf))
<1> DEFINE step(u, k) == Then(u, LAMBDA v : IF k > n THEN v
                                            ELSE MoveOne(v, src, dst, parent, i, front, leaf))
           F(g) == [k \in 0 .. Limit |-> IF k = 0 THEN t ELSE step(g[k - 1], k)]
           moved == CHOOSE g : g = F(g)
<1>1. MoveAll(t, src, dst, parent, i, n, front, leaf) = moved[Limit]
  BY DEF MoveAll
<1>2. \A u, k : step(u, k) = MovedBy(u, k, src, dst, parent, i, n, front, leaf)
  BY DEF MovedBy, Then
<1> HIDE DEF step
<1>3. Limit \in Nat
  BY DegreeAssumption DEF Limit
<1>4. PICK h : Moved(t, src, dst, parent, i, n, front, leaf, Limit, h)
  BY <1>3, MovedExists
<1>5. h = F(h)
  BY <1>2, <1>4 DEF Moved
<1> HIDE DEF F
<1>6. moved = F(moved)
  BY <1>5
<1> HIDE DEF moved
<1> DEFINE S == {k \in Nat : k <= Limit => Returns(s, moved[k])}
<1>7. \A k \in 0 .. Limit : moved[k] = IF k = 0 THEN t ELSE step(moved[k - 1], k)
  BY <1>6 DEF F
<1>8. 0 \in S
  BY <1>3, <1>7
<1>9. ASSUME NEW k \in Nat, k \in S PROVE k + 1 \in S
  <2>1. CASE k + 1 <= Limit
    <3>1. k + 1 \in 0 .. Limit /\ k + 1 # 0 /\ (k + 1) - 1 = k /\ k <= Limit
      BY <1>3, <2>1
    <3>2. moved[k + 1] = MovedBy(moved[k], k + 1, src, dst, parent, i, n, front, leaf)
      BY <1>2, <1>7, <3>1
    <3>3. Returns(s, moved[k])
      BY <1>9, <3>1
    <3>4. Returns(s, MoveOne(moved[k], src, dst, parent, i, front, leaf))
      BY <3>3, MoveOneReturns DEF MoveOne
    <3>5. Returns(s, moved[k + 1])
      BY <3>2, <3>3, <3>4 DEF MovedBy
    <3> QED
      BY <3>5
  <2>2. CASE ~(k + 1 <= Limit)
    BY <2>2
  <2> QED
    BY <2>1, <2>2
<1>10. S = Nat
  <2>1. S \in SUBSET Nat
    OBVIOUS
  <2>2. \A k \in S : k + 1 \in S
    BY <1>9
  <2> HIDE DEF S
  <2> QED
    BY <1>8, <2>1, <2>2, Induction
<1> QED
  BY <1>1, <1>3, <1>10

(* The chain of leaves between two neighbours.                             *)
LEMMA ChainReturns ==
  ASSUME NEW s, NEW t, Returns(s, t), TwoPages(s), NEW before, NEW after
  PROVE  Returns(s, ChainLeaves(t, before, after))
<1> DEFINE right == FindMost(t, before, FALSE)
           left == FindMost(right.s, after, TRUE)
<1>1. ChainLeaves(t, before, after) = Link(left.s, right.a, left.a)
  BY DEF ChainLeaves, Then
<1>2. Returns(s, right.s)
  BY FindMostReturns
<1> HIDE DEF right
<1>3. Returns(s, left.s)
  BY <1>2, FindMostReturns
<1> HIDE DEF left
<1> QED
  BY <1>1, <1>3, LinkReturns

(* Move as a whole.                                                        *)
LEMMA MoveReturns ==
  ASSUME NEW s, NEW t, Returns(s, t), TwoPages(s), NEW src, NEW dst, NEW parent, NEW i, NEW n
  PROVE  Returns(s, Move(t, src, dst, parent, i, n))
<1> DEFINE g == GetAll(t, <<src, dst, parent>>)
           front == Order(g.env, At(g, src).row[0], At(g, dst).row[0]) = -1
           u == MoveAll(g, src, dst, parent, i, n, front, IsLeaf(At(g, src)))
           v == Separate(u, src, dst, parent, i, front)
           w == IF At(v, src).n = 0 THEN v
                ELSE ChainLeaves(v, IF front THEN src ELSE dst, IF front THEN dst ELSE src)
<1>1. Move(t, src, dst, parent, i, n) = ReleaseAll(w, <<src, dst, parent>>)
  BY DEF Move, Then
<1>2. Returns(g, g) /\ TwoPages(g)
  BY GotIsSound, Stores, PagesStay
<1> HIDE DEF front
<1>3. Returns(g, u)
  BY <1>2, MoveAllReturns
<1> HIDE DEF u
<1>4. Returns(g, v)
  BY <1>3, Stores DEF Separate
<1> HIDE DEF v
<1>5. Returns(g, w)
  BY <1>2, <1>4, ChainReturns
<1> HIDE DEF w
<1> QED
  BY <1>1, <1>5, Bracket

(* MergeNode, which moves one entry or all of them.                        *)
LEMMA MergeReturns ==
  ASSUME NEW s, NEW t, Returns(s, t), TwoPages(s), NEW parent, NEW x, NEW sibling, NEW i
  PROVE  Returns(s, MergeNode(t, parent, x, sibling, i))
<1> DEFINE g == GetAll(t, <<parent, x, sibling>>)
           u == Move(g, sibling, x, parent, i, 1)
           v == Move(g, x, sibling, parent, i, At(g, x).n)
           w == IF At(g, sibling).n > LimitM2 THEN u ELSE RemoveChild(v, parent, x, i)
<1>1. MergeNode(t, parent, x, sibling, i) = ReleaseAll(w, <<parent, x, sibling>>)
  BY DEF MergeNode, Then
<1>2. Returns(g, g) /\ TwoPages(g)
  BY GotIsSound, Stores, PagesStay
<1>3. Returns(g, u) /\ Returns(g, v)
  BY <1>2, MoveReturns
<1> HIDE DEF u, v
<1>4. Returns(g, w)
  BY <1>3, RemoveChildReturns
<1> HIDE DEF w
<1> QED
  BY <1>1, <1>4, Bracket

-----------------------------------------------------------------------------
(* The answers of RecursiveInsert, RecursiveRemove and RecursiveSearch.    *)
LEMMA CopyBackReturns ==
  ASSUME NEW s, NEW t, Returns(s, t), NEW p, NEW i, NEW parent
  PROVE  Returns(s, CopyBack(t, p, i, parent))
<1> DEFINE g == Get(t, parent)
           u == PutRow(g, Ptr(g, parent), i, g.mem[p].row[0])
<1>1. CopyBack(t, p, i, parent) = IF parent = NoPage THEN t ELSE Release(u, parent)
  BY DEF CopyBack, Then
<1>2. Returns(g, u)
  BY GotIsSound, Stores
<1> HIDE DEF u
<1>3. Returns(s, Release(u, parent))
  BY <1>2, Bracket
<1> QED
  BY <1>1, <1>3

(* A state that owes one pin has been left by calls that lost no page.     *)
LEMMA OwingIsSound ==
  ASSUME NEW s, NEW t, NEW a, Owes(s, t, a), TwoPages(s)
  PROVE  Returns(t, t) /\ TwoPages(t)
BY Idle DEF Owes

(* A node with too many entries gives one away or is split: the pin that   *)
(* is still owed is the one of the node that is answered.                  *)
LEMMA FittedOwes ==
  ASSUME NEW s, NEW t, NEW a, Owes(s, t, a), TwoPages(s), NEW p, NEW i, NEW parent
  PROVE  LET r == Fitted(t, p, a, i, parent) IN Owes(s, r.s, r.a)
<1> DEFINE found == FindSibling(t, parent, i)
           sibling == IF parent = NoPage THEN [s |-> t, a |-> NoPage] ELSE found
           v == sibling.s
           moved == Move(v, a, sibling.a, parent, i, 1)
           split == SplitNode(Release(v, a), parent, a, i)
           r == Fitted(t, p, a, i, parent)
<1>1. /\ t.mem[p].n <= Limit => r = [s |-> t, a |-> a]
      /\ ~(t.mem[p].n <= Limit) /\ sibling.a # NoPage => r = [s |-> moved, a |-> a]
      /\ ~(t.mem[p].n <= Limit) /\ sibling.a = NoPage => r = split
  BY DEF Fitted, Relieved
<1>2. Returns(t, v) /\ TwoPages(t)
  <2>1. Returns(t, found.s)
    BY OwingIsSound, SiblingReturns
  <2>2. v = t \/ v = found.s
    OBVIOUS
  <2> HIDE DEF v, found
  <2> QED
    BY <2>1, <2>2, OwingIsSound
<1>3. Owes(s, v, a)
  <2> HIDE DEF v
  <2> QED
    BY <1>2, Onward
<1> HIDE DEF v, sibling, r
<1>4. Owes(s, moved, a)
  <2>1. Returns(t, moved)
    BY <1>2, MoveReturns
  <2> HIDE DEF moved
  <2> QED
    BY <2>1, Onward
<1>5. Owes(s, split.s, split.a)
  <2>1. Returns(s, Release(v, a))
    BY <1>3, GivenBack
  <2>2. Returns(s, split.s)
    BY <2>1, SplitReturns
  <2> HIDE DEF split
  <2> QED
    BY <2>2, Weaker
<1> HIDE DEF moved, split
<1> QED
  BY <1>1, <1>4, <1>5 DEF r

(* The end of RecursiveInsert.                                             *)
LEMMA InsertedReturns ==
  ASSUME NEW s, NEW t, NEW c, Owes(s, t, c.a), TwoPages(s)
  PROVE  Returns(s, StateOf("insert", Inserted(t, c)))
<1> DEFINE r == Fitted(t, c.p, c.a, c.i, c.parent)
           u == CopyBack(r.s, c.p, c.i, c.parent)
<1>1. StateOf("insert", Inserted(t, c)) = Release(u, r.a)
  BY DEF StateOf, Inserted, Then
<1>2. Owes(s, r.s, r.a)
  BY FittedOwes
<1> HIDE DEF r
<1>3. Returns(r.s, u)
  BY <1>2, OwingIsSound, CopyBackReturns
<1> HIDE DEF u
<1>4. Owes(s, u, r.a)
  BY <1>2, <1>3, Onward
<1> QED
  BY <1>1, <1>4, GivenBack

(* A merge in RecursiveRemove, with the release of a page not held.        *)
LEMMA MergedReturns ==
  ASSUME NEW s, NEW t, NEW a, Owes(s, t, a), TwoPages(s), NEW i, NEW parent
  PROVE  Returns(s, Merged(Get(t, parent), a, i, parent).s)
<1> DEFINE g == Get(t, parent)
           other == At(g, parent).child[IF i = 0 THEN 1 ELSE i - 1]
           u == Release(g, parent)
           m == MergeNode(u, parent, a, other, i)
           v == Get(m, parent)
           rest == At(v, parent).child[i]
<1>1. Merged(g, a, i, parent).s = ReleaseAll(v, <<a, parent, rest>>)
  BY DEF Merged, Then
<1>2. Returns(t, t) /\ TwoPages(t)
  BY OwingIsSound
<1>3. Returns(t, u)
  BY <1>2, GotIsSound, Stores, Bracket
<1> HIDE DEF u, other
<1>4. Returns(t, m)
  BY <1>2, <1>3, MergeReturns
<1> HIDE DEF m
<1>5. Owes(s, m, a)
  BY <1>4, Onward
<1>6. OwesTwo(s, v, a, parent)
  BY <1>5, Taken
<1> HIDE DEF v, rest
<1>7. Returns(s, Release(Release(Release(v, a), parent), rest))
  BY <1>6, GivenBack
<1> QED
  BY <1>1, <1>7, ThreeInTurn

(* The end of RecursiveRemove.                                             *)
LEMMA AdjustedReturns ==
  ASSUME NEW s, NEW t, NEW a, Owes(s, t, a), TwoPages(s), NEW p, NEW i, NEW parent
  PROVE  Returns(s, StateOf("remove", Adjusted(t, p, a, i, parent)))
<1> DEFINE sibling == FindSiblingM2(t, parent, i)
           merged == Merged(Get(sibling.s, parent), a, i, parent)
           moved == Move(sibling.s, sibling.a, a, parent, sibling.j, 1)
<1>1. \/ Adjusted(t, p, a, i, parent).s = Release(t, a)
      \/ Adjusted(t, p, a, i, parent).s = merged.s
      \/ Adjusted(t, p, a, i, parent).s = Release(moved, a)
  BY DEF Adjusted, Refilled
<1>2. Returns(s, Release(t, a))
  BY GivenBack
<1>3. Returns(t, sibling.s) /\ TwoPages(t)
  BY OwingIsSound, SiblingReturns
<1> HIDE DEF sibling
<1>4. Owes(s, sibling.s, a)
  BY <1>3, Onward
<1>5. Returns(s, merged.s)
  BY <1>4, MergedReturns
<1>6. Returns(s, Release(moved, a))
  <2>1. Returns(t, moved)
    BY <1>3, MoveReturns
  <2> HIDE DEF moved
  <2> QED
    BY <2>1, Onward, GivenBack
<1> HIDE DEF merged, moved
<1> QED
  BY <1>1, <1>2, <1>5, <1>6 DEF StateOf

(* RecursiveInsert on a leaf, and after the call below it has returned.    *)
LEMMA InsertBack ==
  /\ \A b, c, key : Owes(b, c.s, c.a) /\ TwoPages(b) =>
       Returns(b, StateOf("insert", InsertIntoLeaf(c, key)))
  /\ \A b, c, below :
       Owes(b, c.s, c.a) /\ TwoPages(b) /\ Returns(c.s, StateOf("insert", below)) =>
         Returns(b, StateOf("insert", Back("insert", c, below)))
<1>1. ASSUME NEW b, NEW c, NEW key, Owes(b, c.s, c.a), TwoPages(b)
      PROVE  Returns(b, StateOf("insert", InsertIntoLeaf(c, key)))
  <2> DEFINE r == Release(c.s, c.a)
             u == InsertKey(r, c.parent, c.a, key, c.i, c.j)
  <2>1. \/ InsertIntoLeaf(c, key) = [s |-> r, a |-> c.a]
        \/ InsertIntoLeaf(c, key) = Inserted(u, c)
    BY DEF InsertIntoLeaf
  <2>2. Returns(b, r)
    BY <1>1, GivenBack
  <2> HIDE DEF r
  <2>3. Owes(b, u, c.a)
    BY <2>2, InsertKeyReturns, Weaker
  <2> HIDE DEF u
  <2>4. Returns(b, StateOf("insert", Inserted(u, c)))
    BY <1>1, <2>3, InsertedReturns
  <2>5. StateOf("insert", [s |-> r, a |-> c.a]) = r
    BY DEF StateOf
  <2> QED
    BY <2>1, <2>2, <2>4, <2>5
<1>2. ASSUME NEW b, NEW c, NEW below,
             Owes(b, c.s, c.a), TwoPages(b), Returns(c.s, StateOf("insert", below))
      PROVE  Returns(b, StateOf("insert", Back("insert", c, below)))
  <2> DEFINE u == PutChild(below.s, c.p, c.j, below.a)
  <2>1. Returns(c.s, below.s)
    BY <1>2 DEF StateOf
  <2>2. Back("insert", c, below) = Inserted(u, c)
    BY DEF Back
  <2>3. Returns(c.s, u)
    BY <2>1, Stores
  <2> HIDE DEF u
  <2>4. Owes(b, u, c.a)
    BY <1>2, <2>3, Onward
  <2> QED
    BY <1>2, <2>2, <2>4, InsertedReturns
<1> QED
  BY <1>1, <1>2

(* RecursiveRemove likewise.                                               *)
LEMMA RemoveBack ==
  /\ \A b, c : Owes(b, c.s, c.a) /\ TwoPages(b) => Returns(b, StateOf("remove", RemoveFromLeaf(c)))
  /\ \A b, c, below :
       Owes(b, c.s, c.a) /\ TwoPages(b) /\ Returns(c.s, StateOf("remove", below)) =>
         Returns(b, StateOf("remove", Back("remove", c, below)))
<1>1. ASSUME NEW b, NEW c, Owes(b, c.s, c.a), TwoPages(b)
      PROVE  Returns(b, StateOf("remove", RemoveFromLeaf(c)))
  <2> DEFINE r == Release(c.s, c.a)
             u == RemoveKey(c.s, c.parent, c.a, c.i, c.stop)
  <2>1. \/ RemoveFromLeaf(c) = [s |-> r, a |-> c.a]
        \/ RemoveFromLeaf(c) = Adjusted(u, c.p, c.a, c.i, c.parent)
    BY DEF RemoveFromLeaf
  <2>2. Returns(b, r)
    BY <1>1, GivenBack
  <2>3. Returns(c.s, u)
    BY <1>1, OwingIsSound, RemoveKeyReturns
  <2> HIDE DEF r, u
  <2>4. Owes(b, u, c.a)
    BY <1>1, <2>3, Onward
  <2>5. Returns(b, StateOf("remove", Adjusted(u, c.p, c.a, c.i, c.parent)))
    BY <1>1, <2>4, AdjustedReturns
  <2>6. StateOf("remove", [s |-> r, a |-> c.a]) = r
    BY DEF StateOf
  <2> QED
    BY <2>1, <2>2, <2>5, <2>6
<1>2. ASSUME NEW b, NEW c, NEW below,
             Owes(b, c.s, c.a), TwoPages(b), Returns(c.s, StateOf("remove", below))
      PROVE  Returns(b, StateOf("remove", Back("remove", c, below)))
  <2> DEFINE u == PutChild(below.s, c.p, c.j, below.a)
  <2>1. Returns(c.s, below.s)
    BY <1>2 DEF StateOf
  <2>2. Back("remove", c, below) = Adjusted(u, c.p, c.a, c.i, c.parent)
    BY DEF Back
  <2>3. Returns(c.s, u)
    BY <2>1, Stores
  <2> HIDE DEF u
  <2>4. Owes(b, u, c.a)
    BY <1>2, <2>3, Onward
  <2> QED
    BY <1>2, <2>2, <2>4, AdjustedReturns
<1> QED
  BY <1>1, <1>2

(* RecursiveSearch likewise.                                               *)
LEMMA SearchBack ==
  /\ \A b, c, rid : Owes(b, c.s, c.a) =>
       Returns(b, StateOf("search", [s |-> Release(c.s, c.a), rid |-> rid]))
  /\ \A b, c, below :
       Owes(b, c.s, c.a) /\ TwoPages(b) /\ Returns(c.s, StateOf("search", below)) =>
         Returns(b, StateOf("search", Back("search", c, below)))
<1>1. ASSUME NEW b, NEW c, NEW rid, Owes(b, c.s, c.a)
      PROVE  Returns(b, StateOf("search", [s |-> Release(c.s, c.a), rid |-> rid]))
  <2>1. StateOf("search", [s |-> Release(c.s, c.a), rid |-> rid]) = Release(c.s, c.a)
    BY DEF StateOf
  <2> QED
    BY <1>1, <2>1, GivenBack
<1>2. ASSUME NEW b, NEW c, NEW below, Owes(b, c.s, c.a), Returns(c.s, StateOf("search", below))
      PROVE  Returns(b, StateOf("search", Back("search", c, below)))
  <2>1. Returns(c.s, below.s)
    BY <1>2 DEF StateOf
  <2>2. StateOf("search", Back("search", c, below)) = Release(below.s, c.a)
    BY DEF Back, StateOf
  <2>3. Owes(b, below.s, c.a)
    BY <1>2, <2>1, Onward
  <2> QED
    BY <2>2, <2>3, GivenBack
<1> QED
  BY <1>1, <1>2

(* RecursiveInsert as a whole.                                             *)
LEMMA InsertCalls ==
  ASSUME NEW s, NEW t, Returns(s, t), TwoPages(s), NEW a, NEW key, NEW i, NEW parent
  PROVE  Returns(s, StateOf("insert", RecursiveInsert(t, a, key, i, parent)))
<1> DEFINE first == InsertCall(t, a, key, i, parent)
           Down(c) == InsertCall(c.s, c.child, key, c.j, c.a)
           more(p) == Then(p, LAMBDA q : IF Last(q).end THEN q ELSE Append(q, Down(Last(q))))
           n == CachePage
           F(g) == [d \in 0 .. n |-> IF d = 0 THEN <<first>> ELSE more(g[d - 1])]
           made == CHOOSE g : g = F(g)
           path == Calls(first, Down)
           Return(c, below) == Inserted(PutChild(below.s, c.p, c.j, below.a), c)
           up(c, z) == Then(z, LAMBDA below : Return(c, below))
           bottom == InsertIntoLeaf(Last(path), key)
           len == Len(path)
           G(g) == [d \in 1 .. len |-> IF d = len THEN bottom ELSE up(path[d], g[d + 1])]
           answers == CHOOSE g : g = G(g)
<1>1. Owes(s, first.s, first.a)
  BY CallOwes
<1>2. n \in Nat
  BY CacheAssumption
<1>3. RecursiveInsert(t, a, key, i, parent) = answers[1]
  <2>1. RecursiveInsert(t, a, key, i, parent) = Returned(path, bottom, Return)
    BY DEF RecursiveInsert, Then
  <2>2. Returned(path, bottom, Return) = answers[1]
    BY DEF Returned
  <2> QED
    BY <2>1, <2>2, Zenon
<1>4. path = made[n]
  BY Zenon DEF Calls
<1>5. \A p : more(p) = More("insert", key, key, p)
  BY DEF More, NextCall, Then
<1>6. \A c, z : up(c, z) = Back("insert", c, z)
  BY DEF Back, Then
<1> HIDE DEF more, up, n, path, first
<1>7. PICK h : Paths("insert", key, key, first, n, h)
  BY <1>2, PathsExist
<1>8. \A g : F(g) =
        [d \in 0 .. n |-> IF d = 0 THEN <<first>> ELSE More("insert", key, key, g[d - 1])]
  BY <1>5
<1>9. h = F(h)
  BY <1>7, <1>8 DEF Paths
<1> HIDE DEF F
<1>10. made = F(made)
  BY <1>9
<1> HIDE DEF made
<1>11. Paths("insert", key, key, first, n, made)
  BY <1>8, <1>10 DEF Paths
<1>12. CallsOwe("insert", s, path)
  BY <1>1, <1>2, <1>4, <1>11, PathsOwe DEF Kind
<1>13. Returns(Base("insert", s, path, len), StateOf("insert", bottom))
  BY <1>12, LastOwes, InsertBack
<1> HIDE DEF bottom
<1>14. len \in Nat \ {0}
  BY <1>12, FileWritten DEF CallsOwe
<1>15. PICK r : Unwound("insert", path, len, bottom, r)
  BY <1>14, UnwoundExists
<1>16. \A g : G(g) =
        [d \in 1 .. len |-> IF d = len THEN bottom ELSE Back("insert", path[d], g[d + 1])]
  BY <1>6
<1>17. r = G(r)
  BY <1>15, <1>16 DEF Unwound
<1> HIDE DEF G
<1>18. answers = G(answers)
  BY <1>17
<1> HIDE DEF answers
<1>19. Unwound("insert", path, len, bottom, answers)
  BY <1>16, <1>18 DEF Unwound
<1>20. Returns(s, StateOf("insert", answers[1]))
  BY <1>12, <1>13, <1>19, InsertBack, UnwoundReturns DEF Kind
<1> QED
  BY <1>3, <1>20

(* RecursiveRemove as a whole.                                             *)
LEMMA RemoveCalls ==
  ASSUME NEW s, NEW t, Returns(s, t), TwoPages(s), NEW a, NEW key, NEW i, NEW parent
  PROVE  Returns(s, StateOf("remove", RecursiveRemove(t, a, key, i, parent)))
<1> DEFINE first == RemoveCall(t, a, key, i, parent)
           Down(c) == RemoveCall(c.s, c.child, key, c.j, c.a)
           more(p) == Then(p, LAMBDA q : IF Last(q).end THEN q ELSE Append(q, Down(Last(q))))
           n == CachePage
           F(g) == [d \in 0 .. n |-> IF d = 0 THEN <<first>> ELSE more(g[d - 1])]
           made == CHOOSE g : g = F(g)
           path == Calls(first, Down)
           Return(c, below) == Adjusted(PutChild(below.s, c.p, c.j, below.a), c.p, c.a, c.i, c.parent)
           up(c, z) == Then(z, LAMBDA below : Return(c, below))
           bottom == RemoveFromLeaf(Last(path))
           len == Len(path)
           G(g) == [d \in 1 .. len |-> IF d = len THEN bottom ELSE up(path[d], g[d + 1])]
           answers == CHOOSE g : g = G(g)
<1>1. Owes(s, first.s, first.a)
  BY CallOwes
<1>2. n \in Nat
  BY CacheAssumption
<1>3. RecursiveRemove(t, a, key, i, parent) = answers[1]
  <2>1. RecursiveRemove(t, a, key, i, parent) = Returned(path, bottom, Return)
    BY DEF RecursiveRemove, Then
  <2>2. Returned(path, bottom, Return) = answers[1]
    BY DEF Returned
  <2> QED
    BY <2>1, <2>2, Zenon
<1>4. path = made[n]
  BY Zenon DEF Calls
<1>5. \A p : more(p) = More("remove", key, key, p)
  BY DEF More, NextCall, Then
<1>6. \A c, z : up(c, z) = Back("remove", c, z)
  BY DEF Back, Then
<1> HIDE DEF more, up, n, path, first
<1>7. PICK h : Paths("remove", key, key, first, n, h)
  BY <1>2, PathsExist
<1>8. \A g : F(g) =
        [d \in 0 .. n |-> IF d = 0 THEN <<first>> ELSE More("remove", key, key, g[d - 1])]
  BY <1>5
<1>9. h = F(h)
  BY <1>7, <1>8 DEF Paths
<1> HIDE DEF F
<1>10. made = F(made)
  BY <1>9
<1> HIDE DEF made
<1>11. Paths("remove", key, key, first, n, made)
  BY <1>8, <1>10 DEF Paths
<1>12. CallsOwe("remove", s, path)
  BY <1>1, <1>2, <1>4, <1>11, PathsOwe DEF Kind
<1>13. Returns(Base("remove", s, path, len), StateOf("remove", bottom))
  BY <1>12, LastOwes, RemoveBack
<1> HIDE DEF bottom
<1>14. len \in Nat \ {0}
  BY <1>12, FileWritten DEF CallsOwe
<1>15. PICK r : Unwound("remove", path, len, bottom, r)
  BY <1>14, UnwoundExists
<1>16. \A g : G(g) =
        [d \in 1 .. len |-> IF d = len THEN bottom ELSE Back("remove", path[d], g[d + 1])]
  BY <1>6
<1>17. r = G(r)
  BY <1>15, <1>16 DEF Unwound
<1> HIDE DEF G
<1>18. answers = G(answers)
  BY <1>17
<1> HIDE DEF answers
<1>19. Unwound("remove", path, len, bottom, answers)
  BY <1>16, <1>18 DEF Unwound
<1>20. Returns(s, StateOf("remove", answers[1]))
  BY <1>12, <1>13, <1>19, RemoveBack, UnwoundReturns DEF Kind
<1> QED
  BY <1>3, <1>20

(* RecursiveSearch as a whole.                                             *)
LEMMA SearchCalls ==
  ASSUME NEW s, NEW t, Returns(s, t), TwoPages(s), NEW a, NEW key
  PROVE  Returns(s, StateOf("search", RecursiveSearch(t, a, key)))
<1> DEFINE first == SearchCall(t, a, key)
           Down(c) == SearchCall(c.s, c.child, key)
           more(p) == Then(p, LAMBDA q : IF Last(q).end THEN q ELSE Append(q, Down(Last(q))))
           n == CachePage
           F(g) == [d \in 0 .. n |-> IF d = 0 THEN <<first>> ELSE more(g[d - 1])]
           made == CHOOSE g : g = F(g)
           path == Calls(first, Down)
           Return(c, below) == [s |-> Release(below.s, c.a), rid |-> below.rid]
           up(c, z) == Then(z, LAMBDA below : Return(c, below))
           bottom == [s |-> Release(Last(path).s, Last(path).a), rid |-> Last(path).rid]
           len == Len(path)
           G(g) == [d \in 1 .. len |-> IF d = len THEN bottom ELSE up(path[d], g[d + 1])]
           answers == CHOOSE g : g = G(g)
<1>1. Owes(s, first.s, first.a)
  BY CallOwes
<1>2. n \in Nat
  BY CacheAssumption
<1>3. RecursiveSearch(t, a, key) = answers[1]
  <2>1. RecursiveSearch(t, a, key) = Returned(path, bottom, Return)
    BY Zenon DEF RecursiveSearch, SearchPath, Then
  <2>2. Returned(path, bottom, Return) = answers[1]
    BY Zenon DEF Returned
  <2> QED
    BY <2>1, <2>2, Zenon
<1>4. path = made[n]
  BY Zenon DEF Calls
<1>5. \A p : more(p) = More("search", key, key, p)
  BY DEF More, NextCall, Then
<1>6. \A c, z : up(c, z) = Back("search", c, z)
  BY DEF Back, Then
<1> HIDE DEF more, up, n, path, first
<1>7. PICK h : Paths("search", key, key, first, n, h)
  BY <1>2, PathsExist
<1>8. \A g : F(g) =
        [d \in 0 .. n |-> IF d = 0 THEN <<first>> ELSE More("search", key, key, g[d - 1])]
  BY <1>5
<1>9. h = F(h)
  BY <1>7, <1>8 DEF Paths
<1> HIDE DEF F
<1>10. made = F(made)
  BY <1>9
<1> HIDE DEF made
<1>11. Paths("search", key, key, first, n, made)
  BY <1>8, <1>10 DEF Paths
<1>12. CallsOwe("search", s, path)
  BY <1>1, <1>2, <1>4, <1>11, PathsOwe DEF Kind
<1>13. Returns(Base("search", s, path, len), StateOf("search", bottom))
  BY <1>12, LastOwes, SearchBack
<1> HIDE DEF bottom
<1>14. len \in Nat \ {0}
  BY <1>12, FileWritten DEF CallsOwe
<1>15. PICK r : Unwound("search", path, len, bottom, r)
  BY <1>14, UnwoundExists
<1>16. \A g : G(g) =
        [d \in 1 .. len |-> IF d = len THEN bottom ELSE Back("search", path[d], g[d + 1])]
  BY <1>6
<1>17. r = G(r)
  BY <1>15, <1>16 DEF Unwound
<1> HIDE DEF G
<1>18. answers = G(answers)
  BY <1>17
<1> HIDE DEF answers
<1>19. Unwound("search", path, len, bottom, answers)
  BY <1>16, <1>18 DEF Unwound
<1>20. Returns(s, StateOf("search", answers[1]))
  BY <1>12, <1>13, <1>19, SearchBack, UnwoundReturns DEF Kind
<1> QED
  BY <1>3, <1>20

(* The three, by the state they answer with.                               *)
LEMMA AnswersReturn ==
  ASSUME NEW s, NEW t, Returns(s, t), TwoPages(s), NEW a, NEW key
  PROVE  /\ \A i, parent : Returns(s, RecursiveInsert(t, a, key, i, parent).s)
         /\ \A i, parent : Returns(s, RecursiveRemove(t, a, key, i, parent).s)
         /\ Returns(s, RecursiveSearch(t, a, key).s)
<1>1. ASSUME NEW i, NEW parent PROVE Returns(s, RecursiveInsert(t, a, key, i, parent).s)
  BY InsertCalls DEF StateOf
<1>2. ASSUME NEW i, NEW parent PROVE Returns(s, RecursiveRemove(t, a, key, i, parent).s)
  BY RemoveCalls DEF StateOf
<1>3. Returns(s, RecursiveSearch(t, a, key).s)
  BY SearchCalls DEF StateOf
<1> QED
  BY <1>1, <1>2, <1>3

-----------------------------------------------------------------------------
(* The interface of b_tree.h.                                              *)
LEMMA SearchReturns ==
  ASSUME NEW s, Sound(s), TwoPages(s), NEW key
  PROVE  Returns(s, BTreeSearch(s, key).s)
<1> DEFINE g == Get(s, Ctrl)
           u == RecursiveSearch(g, OldRoot(g), key)
<1>1. BTreeSearch(s, key).s = Release(u.s, Ctrl)
  BY DEF BTreeSearch, Then
<1>2. Returns(s, s)
  BY Idle
<1>3. Returns(g, g) /\ TwoPages(g)
  BY <1>2, GotIsSound, PagesStay
<1>4. Returns(g, u.s)
  BY <1>3, AnswersReturn
<1> HIDE DEF u
<1> QED
  BY <1>1, <1>2, <1>4, Bracket

(* The control block stays in its frame while it is held, so that the root *)
(* read from it again is the root that was got.                            *)
LEMMA HeldFirst ==
  ASSUME NEW s, Sound(s), ~Get(s, Ctrl).null
  PROVE  LET g == Get(s, Ctrl) IN
         /\ FramesOf(g, Ctrl) # {}
         /\ g.ref[Smallest(FramesOf(g, Ctrl))] > 0
<1> DEFINE hits == FramesOf(s, Ctrl)
           victims == {f \in Frame : s.ref[f] = 0}
           g == Get(s, Ctrl)
<1>1. /\ s.ref \in [Frame -> Nat] /\ DOMAIN s.at = Frame
      /\ \A f \in Frame : s.ref[f] + 1 > 0
  BY DEF Sound
<1>2. CASE s.null
  BY <1>2 DEF Get
<1>3. CASE ~s.null /\ hits # {}
  <2> DEFINE hit == Smallest(hits)
             r == [s.ref EXCEPT ![hit] = @ + 1]
  <2>1. hit \in hits /\ hits \subseteq Frame
    BY <1>3, SmallestFrame DEF FramesOf
  <2>2. g = [s EXCEPT !.ref = r]
    BY <1>3 DEF Get
  <2>3. g.at = s.at /\ g.ref = r
    BY <2>2, Fields
  <2> HIDE DEF g
  <2>4. FramesOf(g, Ctrl) = hits
    BY <2>3 DEF FramesOf
  <2>5. r[hit] > 0
    <3> HIDE DEF hit
    <3> QED
      BY <1>1, <2>1
  <2> QED
    BY <1>3, <2>3, <2>4, <2>5 DEF g
<1>4. CASE ~s.null /\ hits = {} /\ victims = {}
  <2> DEFINE m == [h \in Frame |-> DeadNode]
  <2>1. g = [s EXCEPT !.null = TRUE, !.mem = m]
    BY <1>4 DEF Get, Lost
  <2>2. g.null
    BY <2>1, Fields
  <2> QED
    BY <2>2
<1>5. CASE ~s.null /\ hits = {} /\ victims # {}
  <2> DEFINE f == Smallest(victims)
             p == [s.at EXCEPT ![f] = Ctrl]
             r == [s.ref EXCEPT ![f] = 1]
             m == [s.mem EXCEPT ![f] = IF Ctrl \in 0 .. Len(s.file) - 1 THEN s.file[Ctrl + 1] ELSE @]
             l == IF Ctrl = Len(s.file) THEN Append(s.file, s.mem[f]) ELSE s.file
  <2>1. f \in victims
    BY <1>5, SmallestFrame
  <2>2. g = [s EXCEPT !.at = p, !.ref = r, !.mem = m, !.file = l]
    BY <1>5 DEF Get
  <2>3. g.at = p /\ g.ref = r
    BY <2>2, Fields
  <2> HIDE DEF g, f, m, l
  <2>4. r[f] = 1 /\ p[f] = Ctrl /\ \A h \in Frame : h # f => p[h] = s.at[h]
    BY <1>1, <2>1
  <2>5. f \in FramesOf(g, Ctrl) /\ \A h \in FramesOf(g, Ctrl) : h = f
    BY <1>5, <2>1, <2>3, <2>4 DEF FramesOf
  <2>6. Smallest(FramesOf(g, Ctrl)) = f
    BY <2>5, SmallestFrame DEF FramesOf
  <2> QED
    BY <2>3, <2>4, <2>5, <2>6 DEF g
<1> QED
  BY <1>2, <1>3, <1>4, <1>5

(* get_page of another page leaves it there.                               *)
LEMMA HeldStays ==
  ASSUME NEW s, Sound(s), ~s.null, FramesOf(s, Ctrl) # {},
         s.ref[Smallest(FramesOf(s, Ctrl))] > 0, NEW a, ~Get(s, a).null
  PROVE  At(Get(s, a), Ctrl) = At(s, Ctrl)
<1> DEFINE hits == FramesOf(s, a)
           victims == {f \in Frame : s.ref[f] = 0}
           held == Smallest(FramesOf(s, Ctrl))
           g == Get(s, a)
<1>1. /\ DOMAIN s.at = Frame /\ DOMAIN s.mem = Frame
      /\ held \in Frame /\ s.at[held] = Ctrl /\ \A f \in FramesOf(s, Ctrl) : held <= f
      /\ At(s, Ctrl) = s.mem[held]
  <2>1. FramesOf(s, Ctrl) \in SUBSET Nat
    BY FrameNumbers DEF FramesOf
  <2>2. held \in FramesOf(s, Ctrl) /\ \A f \in FramesOf(s, Ctrl) : held <= f
    BY <2>1, LeastElement
  <2> QED
    BY <2>2 DEF Sound, FramesOf, At, Ptr
<1>2. CASE hits # {}
  <2> DEFINE r == [s.ref EXCEPT ![Smallest(hits)] = @ + 1]
  <2>1. g = [s EXCEPT !.ref = r]
    BY <1>2 DEF Get
  <2>2. g.at = s.at /\ g.mem = s.mem /\ g.null = s.null
    BY <2>1, Fields
  <2> HIDE DEF g
  <2> QED
    BY <2>2 DEF At, Ptr, FramesOf, g
<1>3. CASE hits = {} /\ victims = {}
  <2> DEFINE m == [h \in Frame |-> DeadNode]
  <2>1. g = [s EXCEPT !.null = TRUE, !.mem = m]
    BY <1>3 DEF Get, Lost
  <2>2. g.null
    BY <2>1, Fields
  <2> QED
    BY <2>2
<1>4. CASE hits = {} /\ victims # {}
  <2> DEFINE f == Smallest(victims)
             p == [s.at EXCEPT ![f] = a]
             r == [s.ref EXCEPT ![f] = 1]
             m == [s.mem EXCEPT ![f] = IF a \in 0 .. Len(s.file) - 1 THEN s.file[a + 1] ELSE @]
             l == IF a = Len(s.file) THEN Append(s.file, s.mem[f]) ELSE s.file
  <2>1. f \in victims
    BY <1>4, SmallestFrame
  <2>2. g = [s EXCEPT !.at = p, !.ref = r, !.mem = m, !.file = l]
    BY <1>4 DEF Get
  <2>3. g.at = p /\ g.mem = m /\ g.null = s.null
    BY <2>2, Fields
  <2> HIDE DEF g, f
  <2>4. f # held /\ a # Ctrl
    BY <1>1, <1>4, <2>1 DEF FramesOf
  <2>5. /\ p[held] = Ctrl /\ m[held] = s.mem[held]
        /\ p[f] = a /\ \A h \in Frame : h # f => p[h] = s.at[h]
    BY <1>1, <2>1, <2>4
  <2> HIDE DEF m, p
  <2>6. held \in FramesOf(g, Ctrl) /\ FramesOf(g, Ctrl) \subseteq FramesOf(s, Ctrl)
    BY <1>1, <2>3, <2>4, <2>5 DEF FramesOf
  <2>7. Smallest(FramesOf(g, Ctrl)) = held
    <3> DEFINE S == FramesOf(g, Ctrl)
    <3>1. S \in SUBSET Nat /\ S # {}
      BY <2>6, FrameNumbers DEF FramesOf
    <3>2. Smallest(S) \in S /\ \A k \in S : Smallest(S) <= k
      BY <3>1, LeastElement
    <3>3. Smallest(S) \in Nat /\ held \in Nat /\ Smallest(S) <= held /\ held <= Smallest(S)
      BY <1>1, <2>6, <3>1, <3>2
    <3> QED
      BY <3>3
  <2> QED
    BY <1>1, <2>3, <2>5, <2>7 DEF At, Ptr, g
<1> QED
  BY <1>2, <1>3, <1>4

(* b_tree_insert and b_tree_delete return the control block and the root.  *)
LEMMA HoldOwes ==
  ASSUME NEW s, Sound(s), TwoPages(s)
  PROVE  LET t == HoldRoot(s) IN OwesTwo(s, t, OldRoot(t), Ctrl) /\ Sound(t) /\ TwoPages(t)
<1> DEFINE g == Get(s, Ctrl)
           t == HoldRoot(s)
<1>1. t = Get(g, OldRoot(g))
  BY DEF HoldRoot, Then
<1>2. Returns(s, s) /\ Returns(g, g)
  BY Idle, GotIsSound
<1>3. OwesTwo(s, t, Ctrl, OldRoot(g))
  BY <1>1, <1>2, Taken
<1>4. Sound(t) /\ TwoPages(t)
  BY <1>3 DEF OwesTwo
<1>5. CASE t.null
  <2>1. \A c, n : AtMost(t, c, n)
    BY <1>5 DEF AtMost
  <2> QED
    BY <1>4, <2>1 DEF OwesTwo
<1>6. CASE ~t.null
  <2>1. ~g.null
    <3>1. \A x, a : x.null => Get(x, a) = x
      BY DEF Get
    <3> QED
      BY <1>1, <1>6, <3>1
  <2>2. At(t, Ctrl) = At(g, Ctrl)
    BY <1>1, <1>2, <1>6, <2>1, HeldFirst, HeldStays DEF Returns
  <2>3. OldRoot(t) = OldRoot(g)
    BY <2>2 DEF OldRoot
  <2>4. \A c : \A n \in Nat :
          n + One(Ctrl, c) + One(OldRoot(g), c) = n + One(OldRoot(g), c) + One(Ctrl, c)
    BY DEF One
  <2> QED
    BY <1>3, <1>4, <2>3, <2>4 DEF OwesTwo
<1> QED
  BY <1>4, <1>5, <1>6

(* The new root is set and both pages are released.                        *)
LEMMA SetRootReturns ==
  ASSUME NEW s, NEW t, OwesTwo(s, t, OldRoot(t), Ctrl), NEW u, Returns(t, u.s)
  PROVE  Returns(s, SetRoot(t, u))
<1> DEFINE v == Put(u.s, Ptr(t, Ctrl), [u.s.mem[Ptr(t, Ctrl)] EXCEPT !.n = u.a])
<1>1. SetRoot(t, u) = Release(Release(v, OldRoot(t)), Ctrl)
  BY TwoInTurn DEF SetRoot
<1>2. Returns(t, v)
  BY Stores
<1> HIDE DEF v
<1>3. OwesTwo(s, v, OldRoot(t), Ctrl)
  BY <1>2, Onward
<1> QED
  BY <1>1, <1>3, GivenBack

(* b_tree_insert.                                                          *)
LEMMA InsertReturns ==
  ASSUME NEW s, Sound(s), TwoPages(s), NEW rid
  PROVE  Returns(s, BTreeInsert(s, rid))
<1> DEFINE t == HoldRoot(s)
           u == RecursiveInsert(t, OldRoot(t), rid, 0, NoPage)
<1>1. BTreeInsert(s, rid) = SetRoot(t, u)
  BY DEF BTreeInsert, Then
<1>2. OwesTwo(s, t, OldRoot(t), Ctrl) /\ Sound(t) /\ TwoPages(t)
  BY HoldOwes
<1> HIDE DEF t
<1>3. Returns(t, u.s)
  BY <1>2, Idle, AnswersReturn
<1> HIDE DEF u
<1> QED
  BY <1>1, <1>2, <1>3, SetRootReturns

(* b_tree_delete.                                                          *)
LEMMA DeleteReturns ==
  ASSUME NEW s, Sound(s), TwoPages(s), NEW rid
  PROVE  Returns(s, BTreeDelete(s, rid))
<1> DEFINE t == HoldRoot(s)
           u == RecursiveRemove(t, OldRoot(t), rid, 0, NoPage)
<1>1. BTreeDelete(s, rid) = SetRoot(t, u)
  BY DEF BTreeDelete, Then
<1>2. OwesTwo(s, t, OldRoot(t), Ctrl) /\ Sound(t) /\ TwoPages(t)
  BY HoldOwes
<1> HIDE DEF t
<1>3. Returns(t, u.s)
  BY <1>2, Idle, AnswersReturn
<1> HIDE DEF u
<1> QED
  BY <1>1, <1>2, <1>3, SetRootReturns

Printed(x, n, g) ==
  g = [k \in 0 .. n |-> IF k = 0 THEN x ELSE PrintOne(g[k - 1])]

(* They are those of the steps.                                            *)
LEMMA PrintedExists ==
  ASSUME NEW x
  PROVE  \A n \in Nat : \E g : Printed(x, n, g)
<1>1. \A z, k : Step("print", <<>>, z, k) = PrintOne(z)
  BY DEF Step
<1>2. \A n, g : Steps("print", <<>>, x, n, g) <=> Printed(x, n, g)
  BY <1>1 DEF Steps, Printed
<1>3. \A n \in Nat : \E g : Steps("print", <<>>, x, n, g)
  BY StepsExist
<1> QED
  BY <1>2, <1>3

GrownBy(q, n, g) ==
  g = [k \in 0 .. n |-> IF k = 0 THEN BTreeInit(<<>>, 0) ELSE BTreeInsert(g[k - 1], q[k])]

(* They are those of the steps.                                            *)
LEMMA GrownExists ==
  ASSUME NEW q
  PROVE  \A n \in Nat : \E g : GrownBy(q, n, g)
<1>1. \A z, k : Step("insert", q, z, k) = BTreeInsert(z, q[k])
  BY DEF Step
<1>2. \A n, g : Steps("insert", q, BTreeInit(<<>>, 0), n, g) <=> GrownBy(q, n, g)
  BY <1>1 DEF Steps, GrownBy
<1>3. \A n \in Nat : \E g : Steps("insert", q, BTreeInit(<<>>, 0), n, g)
  BY StepsExist
<1> QED
  BY <1>2, <1>3

(* Each node that is printed is returned.                                  *)
LEMMA PrintOwes ==
  ASSUME NEW s, Sound(s), TwoPages(s)
  PROVE  Owes(s, PrintTree(s).s, Ctrl) /\ TwoPages(PrintTree(s).s)
<1> DEFINE t == Get(s, Ctrl)
           first == [s |-> t, queue |-> <<OldRoot(t)>>, printed |-> <<>>]
           step(u) == Then(u, LAMBDA x :
                        IF x.queue = <<>> THEN x
                        ELSE LET a == Head(x.queue)
                                 v == Get(x.s, a)
                             IN [s |-> Release(v, a),
                                 queue |-> Tail(x.queue) \o ChildrenOf(At(v, a)),
                                 printed |-> Append(x.printed, At(v, a))])
           len == Len(t.file) - 1
           F(g) == [n \in 0 .. len |-> IF n = 0 THEN first ELSE step(g[n - 1])]
           walk == CHOOSE g : g = F(g)
<1>1. PrintTree(s) = walk[len]
  BY Zenon DEF PrintTree, Then
<1>2. Owes(s, t, Ctrl)
  BY GetOwes
<1>3. len \in Nat
  BY <1>2, FileWritten DEF Owes, Sound, TwoPages
<1>4. \A u : step(u) = PrintOne(u)
  BY Zenon DEF PrintOne, Then
<1>5. Owes(s, first.s, Ctrl)
  BY <1>2
<1> HIDE DEF step, first, len
<1>6. PICK h : Printed(first, len, h)
  BY <1>3, PrintedExists
<1>7. h = F(h)
  BY <1>4, <1>6 DEF Printed
<1> HIDE DEF F
<1>8. walk = F(walk)
  BY <1>7
<1> HIDE DEF walk
<1> DEFINE S == {n \in Nat : n <= len => Owes(s, walk[n].s, Ctrl)}
<1>9. \A n \in 0 .. len : walk[n] = IF n = 0 THEN first ELSE step(walk[n - 1])
  BY <1>8 DEF F
<1>10. 0 \in S
  BY <1>3, <1>5, <1>9
<1>11. ASSUME NEW n \in Nat, n \in S PROVE n + 1 \in S
  <2>1. CASE n + 1 <= len
    <3> DEFINE x == walk[n]
    <3>1. n + 1 \in 0 .. len /\ n + 1 # 0 /\ (n + 1) - 1 = n /\ n <= len
      BY <1>3, <2>1
    <3>2. walk[n + 1] = PrintOne(x)
      BY <1>4, <1>9, <3>1
    <3>3. Owes(s, x.s, Ctrl)
      BY <1>11, <3>1
    <3> HIDE DEF x
    <3>4. \E a : PrintOne(x).s = x.s \/ PrintOne(x).s = Release(Get(x.s, a), a)
      BY DEF PrintOne
    <3>5. Returns(x.s, x.s) /\ \A a : Returns(x.s, Release(Get(x.s, a), a))
      BY <3>3, OwingIsSound, GotIsSound, Bracket DEF Returns
    <3>6. Owes(s, PrintOne(x).s, Ctrl)
      BY <3>3, <3>4, <3>5, Onward
    <3> QED
      BY <3>2, <3>6
  <2>2. CASE ~(n + 1 <= len)
    BY <2>2
  <2> QED
    BY <2>1, <2>2
<1>12. S = Nat
  <2>1. S \in SUBSET Nat
    OBVIOUS
  <2>2. \A n \in S : n + 1 \in S
    BY <1>11
  <2> HIDE DEF S
  <2> QED
    BY <1>10, <2>1, <2>2, Induction
<1>13. Owes(s, walk[len].s, Ctrl)
  BY <1>3, <1>12
<1> QED
  BY <1>1, <1>13 DEF Owes

(* An index that has just been opened has no pins.                         *)
Unpinned(s) == Sound(s) /\ TwoPages(s) /\ \A a : AtMost(s, a, 0)

(* init_buffer_pool.                                                       *)
LEMMA OpenedIsUnpinned ==
  ASSUME NEW file, IsSequence(file), NEW env, NEW zero
  PROVE  LET s == Opened(file, env, zero) IN
         /\ Sound(s) /\ s.file = file /\ \A a : AtMost(s, a, 0)
         /\ ~s.null /\ \A f \in Frame : s.at[f] = NoPage /\ s.ref[f] = 0
BY DEF Opened, Sound, AtMost, FramesOf

(* A call that returns its pins leaves no pin either.                      *)
LEMMA UnpinnedStays ==
  ASSUME NEW s, NEW t, Unpinned(s), Returns(s, t)
  PROVE  Unpinned(t)
BY DEF Unpinned, Returns

(* b_tree_close leaves as many pages in the file as there were.            *)
LEMMA ReopenedIsUnpinned ==
  ASSUME NEW s, Sound(s), TwoPages(s), NEW env, NEW zero
  PROVE  Unpinned(Opened(BTreeClose(s).file, env, zero))
<1> DEFINE file == BTreeClose(s).file
           v(k) == IF FramesOf(s, k - 1) = {} THEN s.file[k]
                   ELSE s.mem[CHOOSE f \in FramesOf(s, k - 1) : \A g \in FramesOf(s, k - 1) : g <= f]
<1>1. file = [k \in DOMAIN s.file |-> v(k)]
  BY DEF BTreeClose, Sound
<1>2. DOMAIN s.file = 1 .. Len(s.file) /\ Len(s.file) \in Nat
  BY DEF Sound, IsSequence
<1> HIDE DEF v
<1> DEFINE T == {v(k) : k \in DOMAIN s.file}
<1>3. file \in Seq(T) /\ Len(file) = Len(s.file)
  BY <1>1, <1>2
<1>4. IsSequence(file) /\ Len(file) >= 2
  BY <1>3 DEF IsSequence, TwoPages
<1> HIDE DEF file
<1>5. Unpinned(Opened(file, env, zero))
  BY <1>4, OpenedIsUnpinned DEF Unpinned, TwoPages
<1> QED
  BY <1>5 DEF file

(* A page appended to the file by get_page, which found no frame that held *)
(* it but one that nothing is pinned on.                                   *)
LEMMA GetAppends ==
  ASSUME NEW s, Sound(s), ~s.null, FramesOf(s, Len(s.file)) = {},
         NEW f \in Frame, s.ref[f] = 0
  PROVE  LET t == Get(s, Len(s.file)) IN
         /\ Len(t.file) = Len(s.file) + 1 /\ ~t.null
         /\ \E g \in Frame : \A h \in Frame : h # g => t.at[h] = s.at[h] /\ t.ref[h] = s.ref[h]
         /\ \A h \in Frame : t.at[h] \in {s.at[h], Len(s.file)}
<1> DEFINE a == Len(s.file)
           victims == {g \in Frame : s.ref[g] = 0}
           g == Smallest(victims)
           p == [s.at EXCEPT ![g] = a]
           r == [s.ref EXCEPT ![g] = 1]
           m == [s.mem EXCEPT ![g] = IF a \in 0 .. Len(s.file) - 1 THEN s.file[a + 1] ELSE @]
           l == IF a = Len(s.file) THEN Append(s.file, s.mem[g]) ELSE s.file
           t == Get(s, a)
<1>1. victims # {} /\ DOMAIN s.at = Frame /\ DOMAIN s.ref = Frame
  BY DEF Sound
<1>2. g \in victims
  BY <1>1, SmallestFrame
<1>3. t = [s EXCEPT !.at = p, !.ref = r, !.mem = m, !.file = l]
  BY <1>1 DEF Get
<1>4. t.at = p /\ t.ref = r /\ t.file = l /\ t.null = s.null
  BY <1>3, Fields
<1>5. Len(l) = Len(s.file) + 1
  BY FileWritten DEF Sound
<1> HIDE DEF t, g, l, a
<1>6. \A h \in Frame : /\ h # g => p[h] = s.at[h] /\ r[h] = s.ref[h]
                       /\ p[h] = IF h = g THEN a ELSE s.at[h]
  BY <1>1, <1>2
<1> HIDE DEF p, r
<1>7. \E x \in Frame : \A h \in Frame : h # x => t.at[h] = s.at[h] /\ t.ref[h] = s.ref[h]
  BY <1>2, <1>4, <1>6
<1>8. \A h \in Frame : t.at[h] \in {s.at[h], a}
  BY <1>4, <1>6
<1> QED
  BY <1>4, <1>5, <1>7, <1>8 DEF t, a

(* b_tree_init makes two pages, which takes two frames, and returns both.  *)
LEMMA InitIsUnpinned ==
  ASSUME NEW env, NEW zero
  PROVE  Unpinned(BTreeInit(env, zero))
<1> DEFINE o == Opened(<<>>, env, zero)
           set(s, root) == PutAt(s, Ctrl, [At(s, Ctrl) EXCEPT !.n = root, !.next = 2])
           g == Get(o, Ctrl)
           v == set(g, NoPage)
           w == Get(v, 1)
           x == PutAt(w, 1, EmptyNode)
           y == Release(x, 1)
           z == set(y, 1)
<1>1. BTreeInit(env, zero) = Release(z, Ctrl)
  BY DEF BTreeInit
<1>2. /\ Sound(o) /\ o.file = <<>> /\ \A a : AtMost(o, a, 0)
      /\ ~o.null /\ \A f \in Frame : o.at[f] = NoPage /\ o.ref[f] = 0
  <2>1. IsSequence(<<>>)
    BY DEF IsSequence
  <2> QED
    BY <2>1, OpenedIsUnpinned
<1>3. Len(o.file) = 0 /\ Len(o.file) = Ctrl
  BY <1>2 DEF Ctrl
<1> HIDE DEF o
<1>4. 1 \in Frame /\ 2 \in Frame /\ Ctrl # NoPage /\ 1 # NoPage
  BY CacheAssumption DEF Frame, Ctrl, NoPage
<1>5. /\ Sound(g) /\ ~g.null /\ Len(g.file) = 1
      /\ \E f \in Frame : \A h \in Frame : h # f => g.ref[h] = 0
      /\ \A h \in Frame : g.at[h] # 1
  <2>1. FramesOf(o, Len(o.file)) = {}
    BY <1>2, <1>3, <1>4 DEF FramesOf
  <2>2. LET t == Get(o, Len(o.file)) IN
         /\ Len(t.file) = Len(o.file) + 1 /\ ~t.null
         /\ \E f \in Frame : \A h \in Frame : h # f => t.at[h] = o.at[h] /\ t.ref[h] = o.ref[h]
         /\ \A h \in Frame : t.at[h] \in {o.at[h], Len(o.file)}
    BY <1>2, <1>4, <2>1, GetAppends
  <2>3. Get(o, Len(o.file)) = g
    BY <1>3
  <2>4. Sound(g)
    BY <1>2, GetOwes DEF Owes
  <2> HIDE DEF g
  <2> QED
    BY <1>2, <1>3, <1>4, <2>2, <2>3, <2>4 DEF Ctrl
<1>6. Returns(g, v) /\ v.at = g.at /\ v.ref = g.ref /\ v.file = g.file /\ v.null = g.null
  <2>1. Returns(g, v)
    BY <1>5, Idle, Stores
  <2>2. \A p, node : LET t == Put(g, p, node) IN
          t.at = g.at /\ t.ref = g.ref /\ t.file = g.file /\ t.null = g.null
    BY <1>5, Fields DEF Put
  <2> HIDE DEF g
  <2> QED
    BY <2>1, <2>2 DEF PutAt
<1> HIDE DEF v
<1>7. Owes(o, v, Ctrl)
  BY <1>2, <1>6, GetOwes, Onward
<1> HIDE DEF g
<1>8. Sound(w) /\ TwoPages(w)
  <2>1. PICK f \in Frame : v.ref[f] = 0
    BY <1>4, <1>5, <1>6
  <2>2. FramesOf(v, Len(v.file)) = {} /\ Sound(v) /\ ~v.null /\ Len(v.file) = 1
    BY <1>5, <1>6 DEF FramesOf, Returns
  <2>3. LET t == Get(v, Len(v.file)) IN Len(t.file) = Len(v.file) + 1
    BY <2>1, <2>2, GetAppends
  <2>4. Len(w.file) = 2
    BY <2>2, <2>3
  <2>5. Sound(w)
    BY <2>2, GetOwes DEF Owes
  <2> HIDE DEF w
  <2> QED
    BY <2>4, <2>5 DEF TwoPages
<1>9. Returns(w, x)
  BY <1>8, Idle, Stores
<1> HIDE DEF x
<1>10. Owes(o, y, Ctrl)
  <2>1. Returns(v, v)
    BY <1>6, Stores, Idle
  <2>2. Returns(v, y)
    BY <1>9, <2>1, Bracket
  <2> HIDE DEF y
  <2> QED
    BY <1>7, <2>2, Onward
<1>11. Sound(y) /\ TwoPages(y)
  <2>1. Sound(x) /\ TwoPages(x)
    BY <1>8, <1>9 DEF Returns
  <2> QED
    BY <2>1, ReleaseIs
<1> HIDE DEF y
<1>12. Returns(y, z)
  BY <1>11, Idle, Stores
<1> HIDE DEF z
<1>13. Returns(o, Release(z, Ctrl))
  BY <1>10, <1>12, Onward, GivenBack
<1>14. TwoPages(Release(z, Ctrl))
  BY <1>11, <1>12, ReleaseIs DEF Returns
<1>15. \A a : AtMost(Release(z, Ctrl), a, 0)
  <2>1. 0 \in Nat
    OBVIOUS
  <2> QED
    BY <1>2, <1>13, <2>1 DEF Returns
<1> QED
  BY <1>1, <1>13, <1>14, <1>15 DEF Unpinned, Returns

(* Init: an index that was built by insertions.                            *)
LEMMA GrownIsUnpinned ==
  ASSUME NEW q, Len(q) \in Nat
  PROVE  Unpinned(Grown(q))
<1> DEFINE F(g) == [n \in 0 .. Len(q) |-> IF n = 0 THEN BTreeInit(<<>>, 0)
                                          ELSE BTreeInsert(g[n - 1], q[n])]
           grown == CHOOSE g : g = F(g)
<1>1. Grown(q) = grown[Len(q)]
  BY DEF Grown
<1>2. PICK h : GrownBy(q, Len(q), h)
  BY GrownExists
<1>3. h = F(h)
  BY <1>2 DEF GrownBy
<1> HIDE DEF F
<1>4. grown = F(grown)
  BY <1>3
<1> HIDE DEF grown
<1>5. \A n \in 0 .. Len(q) : grown[n] = IF n = 0 THEN BTreeInit(<<>>, 0)
                                         ELSE BTreeInsert(grown[n - 1], q[n])
  BY <1>4 DEF F
<1> DEFINE S == {n \in Nat : n <= Len(q) => Unpinned(grown[n])}
<1>6. 0 \in S
  BY <1>5, InitIsUnpinned
<1>7. ASSUME NEW n \in Nat, n \in S PROVE n + 1 \in S
  <2>1. CASE n + 1 <= Len(q)
    <3> DEFINE s == grown[n]
    <3>1. n + 1 \in 0 .. Len(q) /\ n + 1 # 0 /\ (n + 1) - 1 = n /\ n <= Len(q)
      BY <2>1
    <3>2. grown[n + 1] = BTreeInsert(s, q[n + 1])
      BY <1>5, <3>1
    <3>3. Unpinned(s)
      BY <1>7, <3>1
    <3> HIDE DEF s
    <3>4. Unpinned(BTreeInsert(s, q[n + 1]))
      BY <3>3, InsertReturns, UnpinnedStays DEF Unpinned
    <3> QED
      BY <3>2, <3>4
  <2>2. CASE ~(n + 1 <= Len(q))
    BY <2>2
  <2> QED
    BY <2>1, <2>2
<1>8. S = Nat
  <2>1. S \in SUBSET Nat
    OBVIOUS
  <2>2. \A n \in S : n + 1 \in S
    BY <1>7
  <2> HIDE DEF S
  <2> QED
    BY <1>6, <2>1, <2>2, Induction
<1> QED
  BY <1>1, <1>8

-----------------------------------------------------------------------------
(* The invariant: no page has more pins than were left on it.              *)
Left(a) == IF a = Ctrl THEN prints ELSE 0
PinsInv ==
  /\ Sound(idx) /\ TwoPages(idx)
  /\ prints \in Nat
  /\ \A a : AtMost(idx, a, Left(a))

(* An index without pins satisfies it.                                     *)
LEMMA UnpinnedIsPinsInv ==
  ASSUME Unpinned(idx), prints = 0
  PROVE  PinsInv
BY DEF Unpinned, PinsInv, Left

(* A call that returns its pins.                                           *)
LEMMA ReturnsKeepsPins ==
  ASSUME PinsInv, Returns(idx, idx'), prints' = prints
  PROVE  PinsInv'
<1>1. \A a : AtMost(idx', a, Left(a))
  BY DEF PinsInv, Left, Returns
<1>2. \A a : Left(a)' = Left(a)
  BY DEF Left
<1> QED
  BY <1>1, <1>2 DEF PinsInv, Returns, Sound, TwoPages, AtMost, FramesOf

(* It holds initially,                                                     *)
LEMMA PinsInit == Init => PinsInv
<1> SUFFICES ASSUME Init PROVE PinsInv
  OBVIOUS
<1>1. PICK q \in Growth : idx = Grown(q)
  BY DEF Init
<1>2. Len(q) \in Nat
  BY GrowthAssumption
<1>3. Unpinned(idx)
  BY <1>1, <1>2, GrownIsUnpinned
<1> QED
  BY <1>3, UnpinnedIsPinsInv DEF Init

(* and every step keeps it.                                                *)
LEMMA PinsNext == PinsInv /\ [Next]_vars => PinsInv'
<1> SUFFICES ASSUME PinsInv, [Next]_vars PROVE PinsInv'
  OBVIOUS
<1> USE DEF PinsInv
<1>1. Sound(idx) /\ TwoPages(idx) /\ prints \in Nat
  OBVIOUS
<1>2. ASSUME NEW k \in Key, Insert(k) PROVE PinsInv'
  <2>1. idx' = BTreeInsert(idx, k) /\ prints' = prints
    BY <1>2 DEF Insert
  <2>2. Returns(idx, idx')
    BY <1>1, <2>1, InsertReturns
  <2> QED
    BY <2>1, <2>2, ReturnsKeepsPins
<1>3. ASSUME NEW k \in Key, Delete(k) PROVE PinsInv'
  <2>1. idx' = BTreeDelete(idx, k) /\ prints' = prints
    BY <1>3 DEF Delete
  <2>2. Returns(idx, idx')
    BY <1>1, <2>1, DeleteReturns
  <2> QED
    BY <2>1, <2>2, ReturnsKeepsPins
<1>4. ASSUME NEW k \in Key, Search(k) PROVE PinsInv'
  <2>1. idx' = BTreeSearch(idx, k).s /\ prints' = prints
    BY <1>4 DEF Search
  <2>2. Returns(idx, idx')
    BY <1>1, <2>1, SearchReturns
  <2> QED
    BY <2>1, <2>2, ReturnsKeepsPins
<1>5. CASE Print_b_tree
  <2>1. idx' = PrintTree(idx).s /\ prints' = prints + 1
    BY <1>5 DEF Print_b_tree
  <2>2. Owes(idx, idx', Ctrl) /\ TwoPages(idx')
    BY <1>1, <2>1, PrintOwes
  <2>3. ASSUME NEW a PROVE AtMost(idx', a, Left(a) + One(Ctrl, a))
    BY <2>2 DEF Owes, Left
  <2>4. \A a : Left(a)' = Left(a) + One(Ctrl, a)
    BY <1>1, <2>1 DEF Left, One
  <2>5. Sound(idx') /\ prints' \in Nat
    BY <1>1, <2>1, <2>2 DEF Owes
  <2> QED
    BY <2>2, <2>3, <2>4, <2>5 DEF Sound, TwoPages, AtMost, FramesOf
<1>6. CASE Reopen
  <2>1. idx' = Opened(BTreeClose(idx).file, idx.env, 0) /\ prints' = 0
    BY <1>6 DEF Reopen
  <2>2. Unpinned(idx')
    BY <1>1, <2>1, ReopenedIsUnpinned
  <2>3. \A a : Left(a)' = 0
    BY <2>1 DEF Left
  <2> QED
    BY <2>1, <2>2, <2>3 DEF Unpinned, Sound, TwoPages, AtMost, FramesOf
<1>7. CASE UNCHANGED vars
  BY <1>7 DEF vars, Sound, TwoPages, AtMost, FramesOf, Left
<1> QED
  BY <1>2, <1>3, <1>4, <1>5, <1>6, <1>7 DEF Next

(* Every call returns every pin it took, on every way through a split, a   *)
(* move, a merge or a descent of any depth, as long as get_page has not    *)
(* failed: for every DEGREE, every size of the cache, every index built by *)
(* insertions and every number of calls.  Only Print_b_tree leaves pins,   *)
(* one per call, on the control block.                                     *)
THEOREM NoPinLeftAlways == Spec => []NoPinLeft
<1>1. PinsInv => NoPinLeft
  BY DEF PinsInv, NoPinLeft, FramesSuffice, AtMost, FramesOf, Left
<1> QED
  BY <1>1, PinsInit, PinsNext, PTL DEF Spec
=============================================================================
