----------------------------- MODULE WireProofs -----------------------------
(***************************************************************************)
(* TypeOK, InStep and ResultsTrue of Wire, for any lines, any number of    *)
(* them, any way in which recv cuts texts into parts, and a server that    *)
(* may stop.  A request is at most five messages and an answer at most     *)
(* three; the invariant says which of them are on their way, by the places *)
(* of the two processes, and what is left of that when a recv has returned *)
(* a part of a text.                                                       *)
(***************************************************************************)
EXTENDS Wire, SequenceTheorems, TLAPS

Texts == Seq(Nat) \ {<<>>}
Messages == Seq(Elements) \ {<<>>}

(* The messages i + 1 to j of a sequence of at most five, end to end.      *)
Cat(s, t) == s \o t
Piece(m, k, i, j) == IF i < k /\ k <= j THEN m[k] ELSE <<>>
Between(m, i, j) ==
  Cat(Piece(m, 1, i, j), Cat(Piece(m, 2, i, j), Cat(Piece(m, 3, i, j),
    Cat(Piece(m, 4, i, j), Piece(m, 5, i, j)))))

-----------------------------------------------------------------------------
(* The type invariant that is inductive: TypeOK, with the number and the   *)
(* lengths of the arguments a thread has received so far.                  *)
Needed == IF op = 1 THEN 2 ELSE 1

Receiving ==
  /\ lens \in Seq(Nat) /\ args \in Seq(Texts)
  /\ spc \in {"length", "text", "call"} =>
       \A i \in 1 .. Len(args) : Len(args[i]) = lens[i]
  /\ spc = "length" => Len(lens) = Len(args) /\ Len(args) < Needed
  /\ spc = "text" => /\ Len(lens) = Len(args) + 1 /\ Len(args) < Needed
                     /\ scode = lens[Len(lens)]

WellTyped ==
  /\ TypeOK
  /\ up \in Seq(Elements) /\ down \in Seq(Elements)
  /\ cout \in Seq(Messages) /\ sout \in Seq(Messages)
  /\ Receiving
  /\ \A k \in DOMAIN db : k \in Texts /\ db[k] \in Texts

(* The driver: the command under way, what it has sent of it, and the      *)
(* variable code, which after a length has been sent is not 0.             *)
Commanded(c) ==
  /\ c[1] \in {0, 1, 2}
  /\ c[2] \in Seq(Texts)
  /\ Len(c[2]) = IF c[1] = 1 THEN 2 ELSE 1

Asked == RequestOf(cmd)
Sent == Len(Asked) - Len(cout)

Commanding ==
  /\ shell = "none" => up = <<>> /\ down = <<>> /\ result = NoResult
  /\ shell \in {"none", "typing"} => cpc = "none"
  /\ InCommand => cpc # "none"
  /\ InCommand \/ shell = "killed" => result = NoResult
  /\ cpc \in {"code", "length", "text"} => cout = <<>>
  /\ shell = "leaving" => cmd = <<3, <<>>>> /\ cpc \in {"send", "code"}
  /\ shell = "busy" => /\ Commanded(cmd)
                       /\ Len(cout) <= Len(Asked)
                       /\ \A i \in 1 .. Len(cout) : cout[i] = Asked[Sent + i]
                       /\ Sent >= 2 => ccode >= 1

(* The answer to the request that was served last, how many of its         *)
(* messages the thread has sent and how many the driver has received.      *)
ReplyOf(r) ==
  CASE r.said = "value" -> <<Message(1), Message(Len(r.value)), Chars(r.value)>>
    [] r.said = "not_found" -> <<Message(0)>>
    [] r.said = "OK" -> <<Message(1)>>
    [] r.said = "key_too_long" -> <<Message(2)>>
    [] r.said = "value_too_long" -> <<Message(3)>>
    [] OTHER -> <<>>
Reply == ReplyOf(served)
Spoken == Len(Reply) - IF spc = "answer" THEN Len(sout) ELSE 0
Heard == CASE cpc = "length" -> 1 [] cpc = "text" -> 2 [] OTHER -> 0

Outcomes(code) ==
  CASE code = 0 -> {"value", "not_found", "key_too_long"}
    [] code = 1 -> {"OK", "key_too_long", "value_too_long"}
    [] OTHER -> {"OK", "key_too_long"}

Unanswered == served = Nobody
Answered ==
  /\ served.op = cmd[1]
  /\ ~short => served.args = cmd[2]
  /\ served.said \in Outcomes(cmd[1])
  /\ served.value \in Seq(Nat)
  /\ served.said = "value" <=> served.value # <<>>

(* What is on its way to the driver is what it has not received of what    *)
(* the thread has sent.  When the server has stopped the driver may have   *)
(* gone beyond that.                                                       *)
DownFramed ==
  /\ shell = "typing" => down = <<>>
  /\ shell = "busy" =>
       /\ down = Between(Reply, Heard, Spoken)
       /\ ~Unanswered => Answered /\ cpc # "send"
       /\ cpc \in {"length", "text"} => cmd[1] = 0 /\ (Spoken >= 1 => served.said = "value")
       /\ cpc = "text" /\ Spoken >= 2 => ccode = Len(served.value)

(* The thread works on the command under way.                              *)
Answering ==
  /\ shell = "typing" => spc = "code"
  /\ shell = "busy" =>
       /\ Unanswered => cpc \in {"send", "code"} /\ spc \in {"code", "length", "text", "call"}
       /\ Unanswered /\ spc # "code" => op = cmd[1]
       /\ ~Unanswered => spc \in {"answer", "code"} /\ Heard <= Spoken
       /\ spc = "answer" => /\ op = cmd[1]
                            /\ Len(sout) <= Len(Reply)
                            /\ \A i \in 1 .. Len(sout) : sout[i] = Reply[Spoken + i]

(* How many messages of the request the thread has received, and what is   *)
(* on its way to it.                                                       *)
Taken ==
  IF ~Unanswered THEN Len(Asked)
  ELSE CASE spc = "code" -> 0
         [] spc = "length" -> 1 + 2 * Len(args)
         [] spc = "text" -> 2 + 2 * Len(args)
         [] OTHER -> Len(Asked)

UpFramed ==
  /\ shell = "typing" => up = <<>>
  /\ shell = "busy" =>
       /\ up = Between(Asked, Taken, Sent)
       /\ Taken <= Sent
       /\ Unanswered /\ spc \in {"length", "text", "call"} =>
            /\ Len(args) <= Len(cmd[2])
            /\ \A i \in 1 .. Len(args) : args[i] = cmd[2][i]
       /\ Unanswered /\ spc = "text" => scode = Len(cmd[2][Len(args) + 1])

(* After a part of a text its rest is met where an integer should be: the  *)
(* side that is to receive it never gets beyond.                           *)
DownLost ==
  /\ short /\ LosesWay(down)
  /\ cpc \in {"none", "send", "code"}
  /\ result.said # "value"
UpLost ==
  /\ short /\ LosesWay(up)
  /\ shell = "busy" => /\ spc # "text"
                       /\ spc = "call" => cpc = "code"

Framed ==
  DownLost \/ /\ DownFramed
              /\ server = "running" => Answering /\ (UpLost \/ UpFramed)

Talking == shell \in {"typing", "busy"}
IInv == WellTyped /\ Commanding /\ (Talking => Framed) /\ ResultsTrue

-----------------------------------------------------------------------------
LEMMA CatFacts ==
  ASSUME NEW S
  PROVE  /\ <<>> \in Seq(S)
         /\ \A s, t \in Seq(S) : Cat(s, t) \in Seq(S)
         /\ \A s \in Seq(S) : Cat(<<>>, s) = s /\ Cat(s, <<>>) = s
         /\ \A s, t, u \in Seq(S) : Cat(Cat(s, t), u) = Cat(s, Cat(t, u))
<1>1. <<>> \in Seq(S)
  BY EmptySeq
<1>2. \A s, t \in Seq(S) : Cat(s, t) \in Seq(S)
  BY ConcatProperties DEF Cat
<1>3. \A s \in Seq(S) : Cat(<<>>, s) = s /\ Cat(s, <<>>) = s
  BY ConcatEmptySeq DEF Cat
<1>4. \A s, t, u \in Seq(S) : Cat(Cat(s, t), u) = Cat(s, Cat(t, u))
  BY ConcatAssociative DEF Cat
<1> QED
  BY <1>1, <1>2, <1>3, <1>4

LEMMA CatElements ==
  ASSUME NEW S, NEW s \in Seq(S), NEW t \in Seq(S)
  PROVE  /\ Cat(s, t) \in Seq(S)
         /\ Len(Cat(s, t)) = Len(s) + Len(t)
         /\ \A i \in 1 .. Len(s) + Len(t) :
              Cat(s, t)[i] = IF i <= Len(s) THEN s[i] ELSE t[i - Len(s)]
  BY ConcatProperties DEF Cat

LEMMA PieceSeq ==
  ASSUME NEW S, NEW m \in Seq(Seq(S)), NEW i \in Nat, NEW j \in Int, j <= Len(m), NEW k \in 1 .. 5
  PROVE  Piece(m, k, i, j) \in Seq(S)
<1>1. CASE i < k /\ k <= j
  <2>1. k \in 1 .. Len(m)
    BY <1>1, LenProperties
  <2> QED
    BY <1>1, <2>1, ElementOfSeq DEF Piece
<1>2. CASE ~(i < k /\ k <= j)
  BY <1>2, EmptySeq DEF Piece
<1> QED
  BY <1>1, <1>2

LEMMA BetweenSeq ==
  ASSUME NEW S, NEW m \in Seq(Seq(S)), NEW i \in Nat, NEW j \in Int, j <= Len(m)
  PROVE  Between(m, i, j) \in Seq(S)
<1>1. \A k \in 1 .. 5 : Piece(m, k, i, j) \in Seq(S)
  BY PieceSeq
<1>2. \A s, t \in Seq(S) : Cat(s, t) \in Seq(S)
  BY CatFacts
<1> HIDE DEF Piece
<1> QED
  BY <1>1, <1>2 DEF Between

(* No message lies between a place and an earlier one.                     *)
LEMMA BetweenNone ==
  ASSUME NEW m, NEW i \in Int, NEW j \in Int, j <= i
  PROVE  Between(m, i, j) = <<>>
<1>1. \A k \in 1 .. 5 : Piece(m, k, i, j) = <<>>
  BY DEF Piece
<1>2. Cat(<<>>, <<>>) = <<>>
  BY CatFacts, Zenon
<1> QED
  BY <1>1, <1>2 DEF Between

LEMMA BetweenFirst ==
  ASSUME NEW S, NEW m \in Seq(Seq(S)), NEW i \in 0 .. 4, NEW j \in Int, i < j, j <= Len(m)
  PROVE  Between(m, i, j) = Cat(m[i + 1], Between(m, i + 1, j))
<1> DEFINE p(k) == Piece(m, k, i, j)
           q(k) == Piece(m, k, i + 1, j)
<1>1. /\ \A k \in 1 .. 5 : k < i + 1 => p(k) = <<>> /\ q(k) = <<>>
      /\ \A k \in 1 .. 5 : k > i + 1 => p(k) = q(k)
      /\ p(i + 1) = m[i + 1] /\ q(i + 1) = <<>>
  <2>1. \A k \in 1 .. 5 : k < i + 1 => p(k) = <<>> /\ q(k) = <<>>
    BY DEF Piece
  <2>2. \A k \in 1 .. 5 : k > i + 1 => p(k) = q(k)
    BY DEF Piece
  <2>3. p(i + 1) = m[i + 1] /\ q(i + 1) = <<>>
    BY DEF Piece
  <2> QED
    BY <2>1, <2>2, <2>3
<1>2. p(1) \in Seq(S) /\ p(2) \in Seq(S) /\ p(3) \in Seq(S) /\ p(4) \in Seq(S) /\ p(5) \in Seq(S)
  <2>1. i \in Nat
    OBVIOUS
  <2>2. \A k \in 1 .. 5 : Piece(m, k, i, j) \in Seq(S)
    BY <2>1, PieceSeq
  <2> QED
    BY <2>2
<1>3. /\ Between(m, i, j) = Cat(p(1), Cat(p(2), Cat(p(3), Cat(p(4), p(5)))))
      /\ Between(m, i + 1, j) = Cat(q(1), Cat(q(2), Cat(q(3), Cat(q(4), q(5)))))
  BY DEF Between
<1>4. /\ <<>> \in Seq(S)
      /\ \A s, t \in Seq(S) : Cat(s, t) \in Seq(S)
      /\ \A s \in Seq(S) : Cat(<<>>, s) = s /\ Cat(s, <<>>) = s
  BY CatFacts
<1> HIDE DEF p, q
<1>5. CASE i = 0
  <2>1. /\ p(1) = m[1] /\ q(1) = <<>>
        /\ p(2) = q(2)
        /\ p(3) = q(3)
        /\ p(4) = q(4)
        /\ p(5) = q(5)
    BY <1>1, <1>5
  <2> QED
    BY ONLY <1>2, <1>3, <1>4, <1>5, <2>1
<1>6. CASE i = 1
  <2>1. /\ p(1) = <<>> /\ q(1) = <<>>
        /\ p(2) = m[2] /\ q(2) = <<>>
        /\ p(3) = q(3)
        /\ p(4) = q(4)
        /\ p(5) = q(5)
    BY <1>1, <1>6
  <2> QED
    BY ONLY <1>2, <1>3, <1>4, <1>6, <2>1
<1>7. CASE i = 2
  <2>1. /\ p(1) = <<>> /\ q(1) = <<>>
        /\ p(2) = <<>> /\ q(2) = <<>>
        /\ p(3) = m[3] /\ q(3) = <<>>
        /\ p(4) = q(4)
        /\ p(5) = q(5)
    BY <1>1, <1>7
  <2> QED
    BY ONLY <1>2, <1>3, <1>4, <1>7, <2>1
<1>8. CASE i = 3
  <2>1. /\ p(1) = <<>> /\ q(1) = <<>>
        /\ p(2) = <<>> /\ q(2) = <<>>
        /\ p(3) = <<>> /\ q(3) = <<>>
        /\ p(4) = m[4] /\ q(4) = <<>>
        /\ p(5) = q(5)
    BY <1>1, <1>8
  <2> QED
    BY ONLY <1>2, <1>3, <1>4, <1>8, <2>1
<1>9. CASE i = 4
  <2>1. /\ p(1) = <<>> /\ q(1) = <<>>
        /\ p(2) = <<>> /\ q(2) = <<>>
        /\ p(3) = <<>> /\ q(3) = <<>>
        /\ p(4) = <<>> /\ q(4) = <<>>
        /\ p(5) = m[5] /\ q(5) = <<>>
    BY <1>1, <1>9
  <2> QED
    BY ONLY <1>2, <1>3, <1>4, <1>9, <2>1
<1> QED
  BY <1>5, <1>6, <1>7, <1>8, <1>9

LEMMA CatFour ==
  ASSUME NEW S, NEW a \in Seq(S), NEW b \in Seq(S), NEW c \in Seq(S), NEW d \in Seq(S),
         NEW x \in Seq(S)
  PROVE  Cat(Cat(a, Cat(b, Cat(c, d))), x) = Cat(a, Cat(b, Cat(c, Cat(d, x))))
<1>1. \A s, t, u \in Seq(S) : Cat(s, t) \in Seq(S) /\ Cat(Cat(s, t), u) = Cat(s, Cat(t, u))
  BY CatFacts
<1>2. Cat(c, d) \in Seq(S) /\ Cat(b, Cat(c, d)) \in Seq(S)
  BY <1>1
<1>3. Cat(Cat(a, Cat(b, Cat(c, d))), x) = Cat(a, Cat(Cat(b, Cat(c, d)), x))
  BY <1>1, <1>2
<1>4. Cat(Cat(b, Cat(c, d)), x) = Cat(b, Cat(Cat(c, d), x))
  BY <1>1, <1>2
<1>5. Cat(Cat(c, d), x) = Cat(c, Cat(d, x))
  BY <1>1, <1>2
<1> QED
  BY <1>3, <1>4, <1>5

LEMMA BetweenLast ==
  ASSUME NEW S, NEW m \in Seq(Seq(S)), NEW i \in Nat, NEW j \in 0 .. 4, i <= j, j < Len(m)
  PROVE  Between(m, i, j + 1) = Cat(Between(m, i, j), m[j + 1])
<1> DEFINE p(k) == Piece(m, k, i, j)
           q(k) == Piece(m, k, i, j + 1)
<1>1. /\ \A k \in 1 .. 5 : k > j + 1 => p(k) = <<>> /\ q(k) = <<>>
      /\ \A k \in 1 .. 5 : k < j + 1 => p(k) = q(k)
      /\ q(j + 1) = m[j + 1] /\ p(j + 1) = <<>>
  <2>1. \A k \in 1 .. 5 : k > j + 1 => p(k) = <<>> /\ q(k) = <<>>
    BY DEF Piece
  <2>2. \A k \in 1 .. 5 : k < j + 1 => p(k) = q(k)
    BY DEF Piece
  <2>3. q(j + 1) = m[j + 1] /\ p(j + 1) = <<>>
    BY DEF Piece
  <2> QED
    BY <2>1, <2>2, <2>3
<1>2. /\ q(1) \in Seq(S) /\ q(2) \in Seq(S) /\ q(3) \in Seq(S) /\ q(4) \in Seq(S) /\ q(5) \in Seq(S)
      /\ m[j + 1] \in Seq(S)
  <2>1. j + 1 \in Int /\ j + 1 <= Len(m)
    BY LenProperties
  <2>2. \A k \in 1 .. 5 : Piece(m, k, i, j + 1) \in Seq(S)
    BY <2>1, PieceSeq
  <2> QED
    BY <2>2, <1>1
<1>3. /\ Between(m, i, j) = Cat(p(1), Cat(p(2), Cat(p(3), Cat(p(4), p(5)))))
      /\ Between(m, i, j + 1) = Cat(q(1), Cat(q(2), Cat(q(3), Cat(q(4), q(5)))))
  BY DEF Between
<1>4. /\ <<>> \in Seq(S)
      /\ \A s, t \in Seq(S) : Cat(s, t) \in Seq(S)
      /\ \A s \in Seq(S) : Cat(<<>>, s) = s /\ Cat(s, <<>>) = s
  BY CatFacts
<1> DEFINE x == m[j + 1]
<1>10. p(1) \in Seq(S) /\ p(2) \in Seq(S) /\ p(3) \in Seq(S) /\ p(4) \in Seq(S) /\ p(5) = <<>>
  <2>1. \A k \in 1 .. 5 : Piece(m, k, i, j) \in Seq(S)
    <3>1. j \in Int /\ j <= Len(m)
      BY LenProperties
    <3> QED
      BY <3>1, PieceSeq
  <2>2. p(5) = <<>>
    BY DEF Piece
  <2> QED
    BY <2>1, <2>2
<1>11. Cat(Between(m, i, j), x) = Cat(p(1), Cat(p(2), Cat(p(3), Cat(p(4), x))))
  <2>1. Between(m, i, j) = Cat(p(1), Cat(p(2), Cat(p(3), p(4))))
    BY ONLY <1>3, <1>4, <1>10
  <2>2. x \in Seq(S)
    BY <1>2
  <2> HIDE DEF p, x
  <2> QED
    BY ONLY <2>1, <2>2, <1>10, CatFour
<1> HIDE DEF p, q, x
<1>5. CASE j = 0
  <2>1. /\ q(1) = m[1] /\ p(1) = <<>>
        /\ p(2) = <<>> /\ q(2) = <<>>
        /\ p(3) = <<>> /\ q(3) = <<>>
        /\ p(4) = <<>> /\ q(4) = <<>>
        /\ p(5) = <<>> /\ q(5) = <<>>
    BY <1>1, <1>5
  <2> QED
    BY ONLY <1>2, <1>3, <1>4, <1>10, <1>11, <1>5, <2>1 DEF x
<1>6. CASE j = 1
  <2>1. /\ p(1) = q(1)
        /\ q(2) = m[2] /\ p(2) = <<>>
        /\ p(3) = <<>> /\ q(3) = <<>>
        /\ p(4) = <<>> /\ q(4) = <<>>
        /\ p(5) = <<>> /\ q(5) = <<>>
    BY <1>1, <1>6
  <2> QED
    BY ONLY <1>2, <1>3, <1>4, <1>10, <1>11, <1>6, <2>1 DEF x
<1>7. CASE j = 2
  <2>1. /\ p(1) = q(1)
        /\ p(2) = q(2)
        /\ q(3) = m[3] /\ p(3) = <<>>
        /\ p(4) = <<>> /\ q(4) = <<>>
        /\ p(5) = <<>> /\ q(5) = <<>>
    BY <1>1, <1>7
  <2> QED
    BY ONLY <1>2, <1>3, <1>4, <1>10, <1>11, <1>7, <2>1 DEF x
<1>8. CASE j = 3
  <2>1. /\ p(1) = q(1)
        /\ p(2) = q(2)
        /\ p(3) = q(3)
        /\ q(4) = m[4] /\ p(4) = <<>>
        /\ p(5) = <<>> /\ q(5) = <<>>
    BY <1>1, <1>8
  <2> QED
    BY ONLY <1>2, <1>3, <1>4, <1>10, <1>11, <1>8, <2>1 DEF x
<1>9. CASE j = 4
  <2>1. /\ p(1) = q(1)
        /\ p(2) = q(2)
        /\ p(3) = q(3)
        /\ p(4) = q(4)
        /\ q(5) = m[5] /\ p(5) = <<>>
    BY <1>1, <1>9
  <2> QED
    BY ONLY <1>2, <1>3, <1>4, <1>10, <1>11, <1>9, <2>1 DEF x
<1> QED
  BY <1>5, <1>6, <1>7, <1>8, <1>9


LEMMA NumberFirst ==
  ASSUME NEW n \in Nat, NEW r \in Seq(Elements)
  PROVE  /\ Cat(Message(n), r) \in Messages
         /\ Head(Cat(Message(n), r)) = Number(n)
         /\ Tail(Cat(Message(n), r)) = r
<1> DEFINE b == Cat(Message(n), r)
<1>1. Message(n) \in Seq(Elements) /\ Len(Message(n)) = 1 /\ Message(n)[1] = Number(n)
  BY DEF Message, Number, Elements
<1>2. /\ b \in Seq(Elements) /\ Len(b) = 1 + Len(r)
      /\ \A i \in 1 .. 1 + Len(r) : b[i] = IF i <= 1 THEN Number(n) ELSE r[i - 1]
  <2> DEFINE u == Message(n)
  <2>1. u \in Seq(Elements)
    BY <1>1
  <2> HIDE DEF u
  <2>2. /\ Cat(u, r) \in Seq(Elements) /\ Len(Cat(u, r)) = Len(u) + Len(r)
        /\ \A i \in 1 .. Len(u) + Len(r) :
             Cat(u, r)[i] = IF i <= Len(u) THEN u[i] ELSE r[i - Len(u)]
    BY ONLY <2>1, r \in Seq(Elements), CatElements
  <2>3. b = Cat(u, r) /\ Len(u) = 1 /\ u[1] = Number(n)
    BY <1>1 DEF u
  <2> HIDE DEF b
  <2> QED
    BY ONLY <2>2, <2>3, LenProperties, r \in Seq(Elements)
<1> HIDE DEF b
<1>3. b # <<>> /\ b[1] = Number(n)
  BY <1>2, LenProperties, EmptySeq
<1>4. Tail(b) = r
  <2>1. Tail(b) \in Seq(Elements) /\ Len(Tail(b)) = Len(r) /\ \A i \in 1 .. Len(r) : Tail(b)[i] = r[i]
    BY <1>2, <1>3, HeadTailProperties, LenProperties
  <2> QED
    BY <2>1, SeqEqual
<1>5. Head(b) = b[1]
  BY <1>2, <1>3
<1> QED
  BY <1>2, <1>3, <1>4, <1>5 DEF b, Messages

LEMMA CharsText ==
  ASSUME NEW t \in Seq(Nat)
  PROVE  /\ Chars(t) \in Seq(Elements) /\ Len(Chars(t)) = Len(t)
         /\ \A i \in 1 .. Len(t) : Chars(t)[i].kind = "char"
         /\ Text(Chars(t)) = t
<1>1. DOMAIN t = 1 .. Len(t) /\ Len(t) \in Nat /\ \A i \in 1 .. Len(t) : t[i] \in Nat
  BY LenProperties, ElementOfSeq
<1>2. Chars(t) \in [1 .. Len(t) -> Elements]
  BY <1>1 DEF Chars, Elements
<1>3. Chars(t) \in Seq(Elements) /\ Len(Chars(t)) = Len(t)
  BY <1>1, <1>2
<1>4. \A i \in 1 .. Len(t) : Chars(t)[i].kind = "char" /\ Chars(t)[i].val = t[i]
  BY <1>1 DEF Chars
<1>5. Text(Chars(t)) = t
  <2>1. DOMAIN Chars(t) = 1 .. Len(t)
    BY <1>1, <1>2
  <2>2. Text(Chars(t)) = [i \in 1 .. Len(t) |-> t[i]]
    BY <1>1, <1>4, <2>1 DEF Text
  <2>3. t = [i \in 1 .. Len(t) |-> t[i]]
    BY <1>1, LenProperties
  <2> QED
    BY <2>2, <2>3
<1> QED
  BY <1>3, <1>4, <1>5

LEMMA TextFirst ==
  ASSUME NEW t \in Texts, NEW r \in Seq(Elements), NEW b, b = Cat(Chars(t), r)
  PROVE  /\ b \in Messages /\ Len(b) >= Len(t) /\ Len(t) \in Nat \ {0}
         /\ LosesWay(b)
         /\ SubSeq(b, 1, Len(t)) = Chars(t)
         /\ SubSeq(b, Len(t) + 1, Len(b)) = r
         /\ \A n \in 1 .. Len(t) - 1 : LosesWay(SubSeq(b, n + 1, Len(b)))
<1> DEFINE c == Chars(t)
<1>1. t \in Seq(Nat) /\ Len(t) \in Nat \ {0}
  BY EmptySeq DEF Texts
<1>2. c \in Seq(Elements) /\ Len(c) = Len(t) /\ \A i \in 1 .. Len(t) : c[i].kind = "char"
  BY <1>1, CharsText
<1> HIDE DEF c
<1>3. /\ b \in Seq(Elements) /\ Len(b) = Len(t) + Len(r) /\ Len(r) \in Nat
      /\ \A i \in 1 .. Len(t) + Len(r) : b[i] = IF i <= Len(t) THEN c[i] ELSE r[i - Len(t)]
  <2>1. b = Cat(c, r) /\ Len(r) \in Nat
    BY LenProperties DEF c
  <2>2. /\ Cat(c, r) \in Seq(Elements) /\ Len(Cat(c, r)) = Len(c) + Len(r)
        /\ \A i \in 1 .. Len(c) + Len(r) :
             Cat(c, r)[i] = IF i <= Len(c) THEN c[i] ELSE r[i - Len(c)]
    BY ONLY <1>2, r \in Seq(Elements), CatElements, ZenonT(60)
  <2> QED
    BY ONLY <1>2, <2>1, <2>2
<1>4. \A n \in 0 .. Len(t) - 1 : LosesWay(SubSeq(b, n + 1, Len(b)))
  <2> TAKE n \in 0 .. Len(t) - 1
  <2>1. n + 1 \in 1 .. Len(b) /\ Len(b) \in n + 1 .. Len(b)
    BY <1>1, <1>3
  <2>2. Head(SubSeq(b, n + 1, Len(b))) = b[n + 1]
    BY <1>3, <2>1, HeadTailOfSubSeq
  <2>3. b[n + 1].kind = "char"
    BY <1>1, <1>2, <1>3
  <2>4. Len(SubSeq(b, n + 1, Len(b))) # 0
    BY <1>3, <2>1, SubSeqProperties, ElementOfSeq
  <2>5. SubSeq(b, n + 1, Len(b)) # <<>>
    BY <2>4
  <2> QED
    BY <2>2, <2>3, <2>5 DEF LosesWay
<1>5. SubSeq(b, 1, Len(t)) = c
  <2>1. \A i \in 1 .. Len(t) : b[i] \in Elements
    BY <1>1, <1>3, ElementOfSeq
  <2>2. /\ SubSeq(b, 1, Len(t)) \in Seq(Elements)
        /\ Len(SubSeq(b, 1, Len(t))) = Len(t)
        /\ \A i \in 1 .. Len(t) : SubSeq(b, 1, Len(t))[i] = b[i]
    BY <1>1, <1>3, <2>1, SubSeqProperties
  <2> QED
    BY <1>1, <1>2, <1>3, <2>2, SeqEqual
<1>6. SubSeq(b, Len(t) + 1, Len(b)) = r
  <2>1. \A i \in Len(t) + 1 .. Len(b) : b[i] \in Elements
    BY <1>1, <1>3, ElementOfSeq
  <2>2. /\ SubSeq(b, Len(t) + 1, Len(b)) \in Seq(Elements)
        /\ Len(SubSeq(b, Len(t) + 1, Len(b))) = Len(r)
        /\ \A i \in 1 .. Len(r) : SubSeq(b, Len(t) + 1, Len(b))[i] = b[Len(t) + i]
    BY <1>1, <1>3, <2>1, SubSeqProperties
  <2> QED
    BY <1>1, <1>2, <1>3, <2>2, SeqEqual
<1>7. SubSeq(b, 1, Len(b)) = b
  BY <1>3, SubSeqFull
<1>8. LosesWay(b)
  <2>1. LosesWay(SubSeq(b, 0 + 1, Len(b))) /\ 0 + 1 = 1
    BY <1>1, <1>4
  <2> QED
    BY <1>7, <2>1
<1> QED
  BY <1>1, <1>3, <1>4, <1>5, <1>6, <1>8 DEF c, Messages, LosesWay
-----------------------------------------------------------------------------
(* The messages of a request and of an answer.                             *)
LEMMA MessageTypes ==
  /\ \A n \in Nat : Message(n) \in Messages
  /\ \A t \in Texts : Chars(t) \in Messages /\ Len(t) \in Nat \ {0}
<1>1. ASSUME NEW n \in Nat PROVE Message(n) \in Messages
  BY DEF Message, Number, Messages, Elements
<1>2. ASSUME NEW t \in Texts PROVE Chars(t) \in Messages /\ Len(t) \in Nat \ {0}
  <2>1. t \in Seq(Nat) /\ Len(t) \in Nat \ {0}
    BY EmptySeq DEF Texts
  <2>2. Chars(t) \in Seq(Elements) /\ Len(Chars(t)) = Len(t)
    BY <2>1, CharsText
  <2>3. Chars(t) # <<>>
    BY <2>1, <2>2, EmptySeq
  <2> QED
    BY <2>1, <2>2, <2>3 DEF Messages
<1> QED
  BY <1>1, <1>2

LEMMA RequestMessages ==
  ASSUME NEW c, Commanded(c)
  PROVE  /\ RequestOf(c) \in Seq(Messages)
         /\ Len(c[2]) \in {1, 2}
         /\ Len(RequestOf(c)) = 2 * Len(c[2]) + 1 /\ Len(RequestOf(c)) \in {3, 5}
         /\ RequestOf(c)[1] = Message(c[1])
         /\ \A a \in 1 .. Len(c[2]) : /\ c[2][a] \in Texts
                                      /\ RequestOf(c)[2 * a] = Message(Len(c[2][a]))
                                      /\ RequestOf(c)[2 * a + 1] = Chars(c[2][a])
<1> DEFINE n == 2 * Len(c[2]) + 1
           f(i) == IF i = 1 THEN Message(c[1])
                   ELSE IF i % 2 = 0 THEN Message(Len(c[2][i \div 2]))
                   ELSE Chars(c[2][i \div 2])
<1>1. c[1] \in Nat /\ Len(c[2]) \in {1, 2} /\ n \in Nat
  BY DEF Commanded
<1>2. \A a \in 1 .. Len(c[2]) : c[2][a] \in Texts
  BY ElementOfSeq DEF Commanded
<1>3. RequestOf(c) = [i \in 1 .. n |-> f(i)]
  BY DEF RequestOf
<1>4. ASSUME NEW i \in 1 .. n PROVE f(i) \in Messages
  <2>1. CASE i = 1
    BY <1>1, <2>1, MessageTypes
  <2>2. CASE i # 1
    <3>1. i \div 2 \in 1 .. Len(c[2])
      BY <1>1, <2>2
    <3>2. c[2][i \div 2] \in Texts
      BY <1>2, <3>1
    <3> QED
      BY <2>2, <3>2, MessageTypes
  <2> QED
    BY <2>1, <2>2
<1>5. ASSUME NEW a \in 1 .. Len(c[2])
      PROVE  /\ 2 * a \in 1 .. n /\ 2 * a + 1 \in 1 .. n
             /\ f(2 * a) = Message(Len(c[2][a]))
             /\ f(2 * a + 1) = Chars(c[2][a])
  <2>1. a \in {1, 2}
    <3>1. CASE Len(c[2]) = 1
      BY <3>1
    <3>2. CASE Len(c[2]) = 2
      BY <3>2
    <3> QED
      BY <1>1, <3>1, <3>2
  <2>2. /\ (2 * a) % 2 = 0 /\ (2 * a) \div 2 = a /\ 2 * a # 1
        /\ (2 * a + 1) % 2 # 0 /\ (2 * a + 1) \div 2 = a /\ 2 * a + 1 # 1
    BY <2>1
  <2>3. 2 * a \in 1 .. n /\ 2 * a + 1 \in 1 .. n
    BY <1>1, <2>1
  <2> QED
    BY <2>2, <2>3
<1>6. f(1) = Message(c[1]) /\ 1 \in 1 .. n
  BY <1>1
<1> HIDE DEF f
<1>7. RequestOf(c) \in [1 .. n -> Messages]
  BY <1>3, <1>4
<1>8. RequestOf(c) \in Seq(Messages) /\ Len(RequestOf(c)) = n
  BY <1>1, <1>7
<1>9. n \in {3, 5}
  <2>1. CASE Len(c[2]) = 1
    BY <2>1
  <2>2. CASE Len(c[2]) = 2
    BY <2>2
  <2> QED
    BY <1>1, <2>1, <2>2
<1> HIDE DEF n
<1> QED
  BY <1>1, <1>2, <1>3, <1>5, <1>6, <1>8, <1>9 DEF n

LEMMA MessagesAreSequences ==
  ASSUME NEW m \in Seq(Messages)
  PROVE  m \in Seq(Seq(Elements)) /\ \A i \in 1 .. Len(m) : m[i] \in Messages
<1>1. Messages \subseteq Seq(Elements)
  BY DEF Messages
<1> QED
  BY <1>1, SeqMonotonic, ElementOfSeq

(* The first message a receiver meets is there if there is anything.       *)
LEMMA BetweenEmpty ==
  ASSUME NEW m \in Seq(Messages), Len(m) <= 5, NEW i \in Nat, NEW j \in Int, j <= Len(m)
  PROVE  /\ Between(m, i, j) \in Seq(Elements)
         /\ Between(m, i, j) = <<>> <=> j <= i
<1>1. m \in Seq(Seq(Elements)) /\ Len(m) \in Nat /\ \A k \in 1 .. Len(m) : m[k] \in Messages
  BY MessagesAreSequences, LenProperties
<1>2. Between(m, i, j) \in Seq(Elements)
  BY <1>1, BetweenSeq
<1>3. CASE j <= i
  BY <1>2, <1>3, BetweenNone
<1>4. CASE j > i
  <2>1. i \in 0 .. 4 /\ i + 1 \in 1 .. Len(m) /\ i + 1 \in Nat
    BY <1>1, <1>4
  <2>2. Between(m, i, j) = Cat(m[i + 1], Between(m, i + 1, j))
    BY <1>1, <1>4, <2>1, BetweenFirst
  <2>3. m[i + 1] \in Messages
    BY <1>1, <2>1
  <2>4. Between(m, i + 1, j) \in Seq(Elements)
    BY <1>1, <2>1, BetweenSeq
  <2>5. Cat(m[i + 1], Between(m, i + 1, j)) # <<>>
    <3> DEFINE u == m[i + 1]
               v == Between(m, i + 1, j)
    <3>1. u \in Seq(Elements) /\ u # <<>> /\ v \in Seq(Elements)
      BY <2>3, <2>4 DEF Messages
    <3> HIDE DEF u, v
    <3>2. Cat(u, v) # <<>>
      BY ONLY <3>1, ConcatEqualIffEmpty DEF Cat
    <3> QED
      BY <3>2 DEF u, v
  <2> QED
    BY <1>2, <1>4, <2>2, <2>5
<1> QED
  BY <1>3, <1>4

(* The answer has one message, or three if it is a value.                  *)
LEMMA ReplyMessages ==
  ASSUME DownFramed, shell = "busy", Commanded(cmd)
  PROVE  /\ Reply \in Seq(Messages)
         /\ Len(Reply) \in {0, 1, 3}
         /\ Len(Reply) = 0 <=> Unanswered
         /\ Len(Reply) >= 2 <=> served.said = "value"
         /\ served.said = "value" => /\ ~Unanswered /\ served.value \in Texts
                                     /\ cmd[1] = 0
                                     /\ Reply[1] = Message(1)
                                     /\ Reply[2] = Message(Len(served.value))
                                     /\ Reply[3] = Chars(served.value)
         /\ ~Unanswered /\ served.said # "value" =>
              \E n \in Nat : /\ Reply = <<Message(n)>>
                             /\ cmd[1] = 0 => n # 1
                             /\ Says(n) = served.said
<1>1. CASE Unanswered
  <2>1. served.said = "nothing"
    BY <1>1 DEF Unanswered, Nobody
  <2>2. Reply = <<>>
    BY <2>1 DEF Reply, ReplyOf
  <2> QED
    BY <1>1, <2>1, <2>2
<1>2. CASE ~Unanswered /\ served.said = "value"
  <2>1. Answered
    BY <1>2 DEF DownFramed
  <2>2. served.value \in Texts /\ cmd[1] = 0
    BY <1>2, <2>1 DEF Answered, Texts, Outcomes, Commanded
  <2>3. Reply = <<Message(1), Message(Len(served.value)), Chars(served.value)>>
    BY <1>2 DEF Reply, ReplyOf
  <2>4. Message(1) \in Messages /\ Message(Len(served.value)) \in Messages /\ Chars(served.value) \in Messages
    BY <2>2, MessageTypes
  <2>5. Reply \in Seq(Messages) /\ Len(Reply) = 3
    BY <2>3, <2>4
  <2> QED
    BY <1>2, <2>2, <2>3, <2>5
<1>3. CASE ~Unanswered /\ served.said # "value"
  <2>1. served.said \in Outcomes(cmd[1])
    BY <1>3 DEF DownFramed, Answered
  <2>2. PICK n \in Nat : /\ Reply = <<Message(n)>>
                         /\ cmd[1] = 0 => n # 1
                         /\ Says(n) = served.said
    <3>1. \/ cmd[1] = 0 /\ served.said = "not_found"
          \/ cmd[1] \in {1, 2} /\ served.said = "OK"
          \/ cmd[1] \in {0, 1, 2} /\ served.said = "key_too_long"
          \/ cmd[1] = 1 /\ served.said = "value_too_long"
      BY <1>3, <2>1 DEF Outcomes, Commanded
    <3>2. CASE cmd[1] = 0 /\ served.said = "not_found"
      <4>1. Reply = <<Message(0)>>
        BY <3>2 DEF Reply, ReplyOf
      <4>2. Says(0) = "not_found"
        BY <3>2 DEF Says
      <4> QED
        BY <3>2, <4>1, <4>2
    <3>3. CASE cmd[1] \in {1, 2} /\ served.said = "OK"
      <4>1. Reply = <<Message(1)>>
        BY <3>3 DEF Reply, ReplyOf
      <4>2. Says(1) = "OK"
        BY <3>3 DEF Says
      <4> QED
        BY <3>3, <4>1, <4>2
    <3>4. CASE cmd[1] \in {0, 1, 2} /\ served.said = "key_too_long"
      <4>1. Reply = <<Message(2)>>
        BY <3>4 DEF Reply, ReplyOf
      <4>2. Says(2) = "key_too_long"
        BY <3>4 DEF Says
      <4> QED
        BY <3>4, <4>1, <4>2
    <3>5. CASE cmd[1] = 1 /\ served.said = "value_too_long"
      <4>1. Reply = <<Message(3)>>
        BY <3>5 DEF Reply, ReplyOf
      <4>2. Says(3) = "value_too_long"
        BY <3>5 DEF Says
      <4> QED
        BY <3>5, <4>1, <4>2
    <3> QED
      BY <3>1, <3>2, <3>3, <3>4, <3>5
  <2>3. Message(n) \in Messages
    BY MessageTypes
  <2>4. Reply \in Seq(Messages) /\ Len(Reply) = 1
    BY <2>2, <2>3
  <2> QED
    BY <1>3, <2>2, <2>4
<1> QED
  BY <1>1, <1>2, <1>3

-----------------------------------------------------------------------------
(* The initial state and the steps of neither process.                     *)
LEMMA InitInv == Init => IInv
<1> SUFFICES ASSUME Init PROVE IInv
  OBVIOUS
<1>1. <<>> \in Seq(Elements) /\ <<>> \in Seq(Messages) /\ <<>> \in Seq(Nat) /\ <<>> \in Seq(Texts)
  BY EmptySeq
<1>2. TypeOK
  BY DEF Init, TypeOK
<1>3. WellTyped
  BY <1>1, <1>2 DEF Init, WellTyped, Receiving, Needed
<1>4. Commanding
  BY DEF Init, Commanding, InCommand
<1>5. ~Talking
  BY DEF Init, Talking
<1>6. ResultsTrue
  BY DEF Init, ResultsTrue, NoResult
<1> QED
  BY <1>3, <1>4, <1>5, <1>6 DEF IInv

LEMMA ConnectInv == ASSUME IInv, Connect PROVE IInv'
<1>1. /\ shell = "none"
      /\ \/ server = "running" /\ shell' = "typing" /\ spc' = "code"
         \/ server # "running" /\ shell' = "terminated" /\ spc' = spc
      /\ UNCHANGED <<cmd, cpc, ccode, cout, scode, op, args, lens, sout, db, served, lines,
                     result, server, refused, short, astray, up, down>>
  BY DEF Connect, driver
<1>2. WellTyped'
  BY <1>1 DEF IInv, WellTyped, TypeOK, Receiving, Needed
<1>3. Commanding'
  BY <1>1 DEF IInv, Commanding, InCommand
<1>4. up = <<>> /\ down = <<>> /\ result = NoResult
  BY <1>1 DEF IInv, Commanding
<1>5. Framed'
  <2>1. DownFramed'
    BY <1>1, <1>4 DEF DownFramed
  <2>2. CASE server = "running"
    BY <1>1, <1>4, <2>1, <2>2 DEF Framed, Answering, UpFramed
  <2>3. CASE server # "running"
    BY <1>1, <2>1, <2>3 DEF Framed
  <2> QED
    BY <2>2, <2>3
<1>6. ResultsTrue'
  BY <1>1, <1>4 DEF ResultsTrue, NoResult
<1> QED
  BY <1>2, <1>3, <1>5, <1>6 DEF IInv

LEMMA StopInv == ASSUME IInv, Stop PROVE IInv'
<1>1. /\ server = "running" /\ server' = "stopped"
      /\ UNCHANGED <<cmd, cpc, ccode, cout, spc, scode, op, args, lens, sout, db, served, shell,
                     lines, result, refused, short, astray, up, down>>
  BY DEF Stop, driver, thread
<1>2. WellTyped'
  BY <1>1 DEF IInv, WellTyped, TypeOK, Receiving, Needed
<1>3. Commanding'
  BY <1>1 DEF IInv, Commanding, InCommand, Sent, Asked
<1>4. Talking' => Framed'
  <2>1. Talking' = Talking /\ DownLost' = DownLost
    BY <1>1 DEF Talking, DownLost
  <2>2. DownFramed' = DownFramed
    BY <1>1 DEF DownFramed, Reply, Heard, Spoken, Unanswered, Answered
  <2> QED
    BY <1>1, <2>1, <2>2 DEF IInv, Framed
<1>5. ResultsTrue'
  BY <1>1 DEF IInv, ResultsTrue, ServedAs
<1> QED
  BY <1>2, <1>3, <1>4, <1>5 DEF IInv

(* A line that is a command is one with texts for its arguments.           *)
LEMMA ParsedCommands ==
  ASSUME NEW line \in Line, Parsed(line) # <<>>
  PROVE  Commanded(Parsed(line))
<1> DEFINE name == Head(line.words)
           given == Tail(line.words)
           c == Commands[name]
<1>1. /\ line.words # <<>> /\ name \in DOMAIN Commands /\ ~(Len(given) < c.arity)
      /\ Parsed(line) = <<c.code, SubSeq(given, 1, c.arity)>>
  BY DEF Parsed
<1>2. given \in Seq(Texts)
  BY <1>1, LineAssumption DEF Texts
<1>3. name \in {"get", "set", "del"}
  BY <1>1 DEF Commands
<1>4. /\ c.code \in {0, 1, 2}
      /\ c.arity = IF c.code = 1 THEN 2 ELSE 1
  BY <1>3 DEF Commands
<1> HIDE DEF c, given
<1>5. /\ SubSeq(given, 1, c.arity) \in Seq(Texts)
      /\ Len(SubSeq(given, 1, c.arity)) = c.arity
  <2>1. c.arity \in {1, 2} /\ c.arity <= Len(given) /\ Len(given) \in Nat
    BY <1>1, <1>2, <1>4, LenProperties
  <2>2. \A i \in 1 .. c.arity : given[i] \in Texts
    BY <1>2, <2>1, ElementOfSeq
  <2> QED
    BY <2>1, <2>2, SubSeqProperties
<1> QED
  BY <1>1, <1>4, <1>5 DEF Commanded

(* A command starts with nothing on its way in either direction, unless a  *)
(* text has been cut before.                                               *)
LEMMA StartFramed ==
  ASSUME IInv, shell = "typing", shell' = "busy", cpc' = "send", cout' = RequestOf(cmd'),
         Commanded(cmd'), served' = Nobody, result' = NoResult,
         UNCHANGED <<spc, op, args, sout, server, short, up, down>>
  PROVE  Framed'
<1>1. CASE DownLost
  BY <1>1 DEF Framed, DownLost, NoResult
<1>2. CASE ~DownLost
  <2>1. DownFramed /\ (server = "running" => Answering /\ (UpLost \/ UpFramed))
    BY <1>2 DEF IInv, Talking, Framed
  <2>2. Reply' = <<>> /\ Unanswered' /\ Heard' = 0
    BY DEF Reply, ReplyOf, Unanswered, Nobody, Heard
  <2>3. Spoken' \in Int /\ Spoken' <= 0
    <3>1. Len(sout) \in Nat
      BY LenProperties DEF IInv, WellTyped
    <3> QED
      BY <2>2, <3>1, EmptySeq DEF Spoken
  <2>4. Between(Reply', Heard', Spoken') = <<>>
    BY <2>2, <2>3, BetweenNone
  <2>5. DownFramed'
    BY <2>1, <2>2, <2>4 DEF DownFramed
  <2>6. CASE server = "running"
    <3>1. spc = "code" /\ Answering'
      BY <2>1, <2>2, <2>6 DEF Answering
    <3>2. CASE UpLost
      BY <2>5, <3>1, <3>2 DEF Framed, UpLost
    <3>3. CASE UpFramed
      <4>1. up' = <<>>
        BY <3>3 DEF UpFramed
      <4>2. Sent' = 0 /\ Taken' = 0
        <5>1. Len(cout') \in Nat /\ Asked' = cout'
          BY RequestMessages, LenProperties DEF Asked
        <5> QED
          BY <2>2, <3>1, <5>1 DEF Sent, Taken
      <4>3. Between(Asked', Taken', Sent') = <<>>
        BY <4>2, BetweenNone
      <4> QED
        BY <2>5, <3>1, <4>1, <4>2, <4>3 DEF Framed, UpFramed
    <3> QED
      BY <2>1, <2>6, <3>2, <3>3
  <2>7. CASE server # "running"
    BY <2>5, <2>7 DEF Framed
  <2> QED
    BY <2>6, <2>7
<1> QED
  BY <1>1, <1>2

LEMMA TypeLineInv == ASSUME IInv, NEW line \in Line, Type(line) PROVE IInv'
<1>1. /\ shell = "typing"
      /\ UNCHANGED <<spc, scode, op, args, lens, sout, db, server, refused, short, astray,
                     up, down, ccode>>
  BY DEF Type, Start, driver
<1>2. CASE /\ shell' \in {"gone", "spinning", "typing"}
           /\ UNCHANGED <<cmd, cpc, cout, result, served>>
  <2>1. WellTyped'
    BY <1>1, <1>2 DEF IInv, WellTyped, TypeOK, Receiving, Needed
  <2>2. Commanding'
    BY <1>1, <1>2 DEF IInv, Commanding, InCommand, Sent, Asked
  <2>3. Talking' => Framed'
    <3> SUFFICES ASSUME shell' = "typing" PROVE Framed'
      BY <1>2 DEF Talking
    <3>1. Framed
      BY <1>1 DEF IInv, Talking
    <3> QED
      BY <1>1, <1>2, <3>1
         DEF Framed, DownLost, UpLost, DownFramed, Answering, UpFramed
  <2>4. ResultsTrue'
    BY <1>1, <1>2 DEF IInv, ResultsTrue, ServedAs
  <2> QED
    BY <2>1, <2>2, <2>3, <2>4 DEF IInv
<1>3. ASSUME NEW c, NEW messages, Start(c, messages), messages \in Seq(Messages), messages # <<>>,
             \/ shell' = "leaving" /\ c = <<3, <<>>>>
             \/ shell' = "busy" /\ Commanded(c) /\ messages = RequestOf(c)
      PROVE  IInv'
  <2>1. cmd' = c /\ cpc' = "send" /\ cout' = messages /\ result' = NoResult /\ served' = Nobody
    BY <1>3 DEF Start
  <2>2. WellTyped'
    <3>1. TypeOK'
      BY <1>1, <1>3, <2>1 DEF IInv, WellTyped, TypeOK
    <3> QED
      BY <1>1, <1>3, <2>1, <3>1 DEF IInv, WellTyped, Receiving, Needed
  <2>3. Commanding'
    <3>1. CASE shell' = "leaving"
      BY <1>3, <2>1, <3>1 DEF Commanding, InCommand
    <3>2. CASE shell' = "busy"
      <4>1. Asked' = cout' /\ Len(cout') \in Nat
        BY <1>3, <2>1, <3>2, LenProperties DEF Asked
      <4>2. Sent' = 0
        BY <4>1 DEF Sent
      <4> QED
        BY <1>3, <2>1, <3>2, <4>1, <4>2 DEF Commanding, InCommand
    <3> QED
      BY <1>3, <3>1, <3>2
  <2>4. Talking' => Framed'
    BY <1>1, <1>3, <2>1, StartFramed DEF Talking
  <2>5. ResultsTrue'
    BY <2>1 DEF ResultsTrue, NoResult
  <2> QED
    BY <2>2, <2>3, <2>4, <2>5 DEF IInv
<1>4. \/ shell' \in {"gone", "spinning", "typing"} /\ UNCHANGED <<cmd, cpc, cout, result, served>>
      \/ shell' = "leaving" /\ Start(<<3, <<>>>>, <<Message(3)>>)
      \/ shell' = "busy" /\ Parsed(line) # <<>> /\ Start(Parsed(line), RequestOf(Parsed(line)))
  BY <1>1 DEF Type, driver
<1>5. <<Message(3)>> \in Seq(Messages) /\ <<Message(3)>> # <<>>
  BY MessageTypes
<1>6. ASSUME NEW c, Commanded(c) PROVE RequestOf(c) \in Seq(Messages) /\ RequestOf(c) # <<>>
  <2>1. RequestOf(c) \in Seq(Messages) /\ Len(RequestOf(c)) # 0
    BY <1>6, RequestMessages
  <2> QED
    BY <2>1, EmptySeq
<1> QED
  BY <1>2, <1>3, <1>4, <1>5, <1>6, ParsedCommands

-----------------------------------------------------------------------------
(* The steps of the driver.                                                *)

(* The driver sends the next message of its request.                       *)
LEMMA NextMessage ==
  ASSUME IInv, shell = "busy", cpc = "send"
  PROVE  /\ Asked \in Seq(Messages) /\ Len(Asked) \in {3, 5}
         /\ Len(cout) \in 1 .. Len(Asked) /\ Sent \in 0 .. Len(Asked) - 1
         /\ Head(cout) = Asked[Sent + 1] /\ Head(cout) \in Messages
<1>1. Commanded(cmd)
  BY DEF IInv, Commanding
<1>2. Asked \in Seq(Messages) /\ Len(Asked) \in {3, 5}
  BY <1>1, RequestMessages DEF Asked
<1>3. cout \in Seq(Messages) /\ cout # <<>>
  BY DEF IInv, WellTyped, TypeOK
<1>4. Len(cout) \in Nat \ {0} /\ Head(cout) \in Messages /\ Head(cout) = cout[1]
  BY <1>3, EmptySeq, HeadTailProperties
<1>5. Len(cout) <= Len(Asked) /\ cout[1] = Asked[Sent + 1]
  BY <1>4 DEF IInv, Commanding
<1> QED
  BY <1>2, <1>4, <1>5 DEF Sent

(* After the first length its variable code is not 0 again.                *)
LEMMA CodeKnown ==
  ASSUME IInv, shell = "busy", cpc = "send", Sent >= 1, NEW m, m = Head(cout)
  PROVE  (IF Len(m) = 1 /\ m[1].kind = "int" THEN m[1].val ELSE ccode) >= 1
<1>1. Commanded(cmd)
  BY DEF IInv, Commanding
<1>2. /\ Sent \in 0 .. Len(Asked) - 1 /\ m = Asked[Sent + 1]
      /\ Len(cmd[2]) \in {1, 2} /\ Len(Asked) = 2 * Len(cmd[2]) + 1
      /\ \A a \in 1 .. Len(cmd[2]) : /\ cmd[2][a] \in Texts
                                     /\ Asked[2 * a] = Message(Len(cmd[2][a]))
                                     /\ Asked[2 * a + 1] = Chars(cmd[2][a])
  BY <1>1, NextMessage, RequestMessages DEF Asked
<1>3. CASE \E a \in 1 .. Len(cmd[2]) : Sent + 1 = 2 * a
  <2>1. PICK a \in 1 .. Len(cmd[2]) : Sent + 1 = 2 * a
    BY <1>3
  <2>2. m = Message(Len(cmd[2][a])) /\ Len(cmd[2][a]) \in Nat \ {0}
    BY <1>2, <2>1, MessageTypes
  <2>3. Len(m) = 1 /\ m[1].kind = "int" /\ m[1].val = Len(cmd[2][a])
    BY <2>2 DEF Message, Number
  <2> QED
    BY <2>2, <2>3
<1>4. CASE \E a \in 1 .. Len(cmd[2]) : Sent + 1 = 2 * a + 1
  <2>1. PICK a \in 1 .. Len(cmd[2]) : Sent + 1 = 2 * a + 1
    BY <1>4
  <2>2. m = Chars(cmd[2][a]) /\ cmd[2][a] \in Texts
    BY <1>2, <2>1
  <2>3. m[1].kind = "char"
    <3>1. Len(cmd[2][a]) \in Nat \ {0} /\ cmd[2][a] \in Seq(Nat)
      BY <2>2, MessageTypes DEF Texts
    <3> QED
      BY <2>2, <3>1, CharsText
  <2>4. ccode >= 1
    BY <1>2, <2>1 DEF IInv, Commanding
  <2> QED
    BY <2>3, <2>4
<1>5. \/ \E a \in 1 .. Len(cmd[2]) : Sent + 1 = 2 * a
      \/ \E a \in 1 .. Len(cmd[2]) : Sent + 1 = 2 * a + 1
  <2>1. Sent + 1 \in {2, 3, 4, 5} /\ Sent + 1 <= 2 * Len(cmd[2]) + 1
    <3>1. Sent \in 1 .. 4 /\ Sent + 1 <= Len(Asked)
      BY <1>2, NextMessage
    <3> QED
      BY <1>2, <3>1
  <2>2. CASE Len(cmd[2]) = 1
    BY <2>1, <2>2
  <2>3. CASE Len(cmd[2]) = 2
    BY <2>1, <2>3
  <2> QED
    BY <1>2, <2>2, <2>3
<1> QED
  BY <1>3, <1>4, <1>5

LEMMA HeadKept ==
  ASSUME NEW s \in Seq(Elements), NEW m \in Seq(Elements), LosesWay(s)
  PROVE  LosesWay(Cat(s, m))
<1>1. s # <<>> /\ Head(s) = s[1] /\ s[1].kind = "char" /\ Len(s) \in Nat \ {0}
  BY EmptySeq DEF LosesWay
<1>2. /\ Cat(s, m) \in Seq(Elements) /\ Len(Cat(s, m)) = Len(s) + Len(m)
      /\ \A i \in 1 .. Len(s) + Len(m) :
           Cat(s, m)[i] = IF i <= Len(s) THEN s[i] ELSE m[i - Len(s)]
  BY CatElements
<1>3. Len(m) \in Nat
  BY LenProperties
<1>4. Cat(s, m)[1] = s[1] /\ Len(Cat(s, m)) # 0
  BY <1>1, <1>2, <1>3
<1>5. Cat(s, m) # <<>>
  BY <1>4, EmptySeq
<1>6. Head(Cat(s, m)) = Cat(s, m)[1]
  BY <1>2, <1>5
<1> QED
  BY <1>1, <1>4, <1>5, <1>6 DEF LosesWay

LEMMA SendFramed ==
  ASSUME IInv, shell = "busy", shell' = "busy", cpc = "send", cpc' \in {"send", "code"},
         cout' = Tail(cout), cout' = <<>> => cpc' = "code",
         server = "running" => up' = Cat(up, Head(cout)),
         UNCHANGED <<spc, scode, op, args, lens, sout, served, cmd, result, server, short, down>>
  PROVE  Framed'
<1>1. CASE DownLost
  BY <1>1 DEF DownLost, Framed
<1>2. CASE ~DownLost
  <2>1. DownFramed /\ (server = "running" => Answering /\ (UpLost \/ UpFramed))
    BY <1>2 DEF IInv, Talking, Framed
  <2>2. Unanswered /\ Unanswered'
    BY <2>1 DEF DownFramed, Unanswered
  <2>3. Reply' = Reply /\ Spoken' = Spoken /\ Heard' = Heard
    BY DEF Reply, Spoken, Heard
  <2>4. DownFramed'
    BY <2>1, <2>2, <2>3 DEF DownFramed
  <2>5. CASE server = "running"
    <3>1. Answering'
      BY <2>1, <2>2, <2>3, <2>5 DEF Answering
    <3>2. /\ Asked \in Seq(Messages) /\ Len(Asked) \in {3, 5}
          /\ Sent \in 0 .. Len(Asked) - 1
          /\ Head(cout) = Asked[Sent + 1] /\ Head(cout) \in Messages
      BY NextMessage
    <3>3. Head(cout) \in Seq(Elements) /\ up \in Seq(Elements)
      BY <3>2 DEF Messages, IInv, WellTyped
    <3>4. CASE UpLost
      <4>1. LosesWay(up')
        BY <2>5, <3>3, <3>4, HeadKept DEF UpLost
      <4>2. spc # "call"
        BY <3>4 DEF UpLost
      <4> QED
        BY <2>4, <3>1, <3>4, <4>1, <4>2 DEF UpLost, Framed
    <3>5. CASE UpFramed
      <4>1. Asked' = Asked /\ Taken' = Taken /\ Sent' = Sent + 1
        <5>1. Len(cout') = Len(cout) - 1
          <6>1. cout \in Seq(Messages) /\ cout # <<>>
            BY DEF IInv, WellTyped, TypeOK
          <6> QED
            BY <6>1, HeadTailProperties
        <5>2. Len(cout) \in Nat
          BY LenProperties DEF IInv, WellTyped
        <5>3. Asked' = Asked
          BY DEF Asked
        <5>4. Taken' = Taken
          BY <2>2, <5>3 DEF Taken
        <5>5. Sent' = Len(Asked') - Len(cout') /\ Sent = Len(Asked) - Len(cout)
          BY DEF Sent
        <5>6. Len(Asked) \in Nat
          BY <3>2
        <5> QED
          BY <5>1, <5>2, <5>3, <5>4, <5>5, <5>6
      <4>2. up = Between(Asked, Taken, Sent) /\ Taken <= Sent
        BY <3>5 DEF UpFramed
      <4>3. Taken \in Nat
        <5>1. Len(args) \in Nat
          BY LenProperties DEF IInv, WellTyped, Receiving
        <5> QED
          BY <3>2, <5>1 DEF Taken
      <4>4. Between(Asked, Taken, Sent + 1) = Cat(Between(Asked, Taken, Sent), Asked[Sent + 1])
        <5>1. Asked \in Seq(Seq(Elements))
          BY <3>2, MessagesAreSequences
        <5>2. Sent \in 0 .. 4 /\ Sent < Len(Asked)
          BY <3>2
        <5> QED
          BY <4>2, <4>3, <5>1, <5>2, BetweenLast
      <4>5. up' = Between(Asked', Taken', Sent')
        BY <2>5, <3>2, <4>1, <4>2, <4>4
      <4>6. Taken' <= Sent'
        BY <3>2, <4>1, <4>2, <4>3
      <4> QED
        BY <2>2, <2>4, <3>1, <3>5, <4>5, <4>6 DEF UpFramed, Framed
    <3> QED
      BY <2>1, <2>5, <3>4, <3>5
  <2>6. CASE server # "running"
    BY <2>4, <2>6 DEF Framed
  <2> QED
    BY <2>5, <2>6
<1> QED
  BY <1>1, <1>2

LEMMA ClientSendInv == ASSUME IInv, InCommand, ClientSend PROVE IInv'
<1> DEFINE m == Head(cout)
<1>1. /\ cpc = "send" /\ cpc' = IF Len(cout) = 1 THEN "code" ELSE "send"
      /\ ccode' = IF Len(m) = 1 /\ m[1].kind = "int" THEN m[1].val ELSE ccode
      /\ cout' = Tail(cout)
      /\ shell' = shell \/ shell' = "killed"
      /\ UNCHANGED <<spc, scode, op, args, lens, sout, db, served, cmd, lines, result, server,
                     short, astray, down>>
  BY DEF ClientSend, thread
<1>2. up' = IF server = "running" THEN Cat(up, m) ELSE up
  BY DEF ClientSend, Cat
<1>3. shell \in {"busy", "leaving"}
  BY DEF InCommand
<1>4. /\ cout \in Seq(Messages) /\ cout # <<>> /\ Len(cout) \in Nat \ {0}
      /\ m \in Messages /\ m \in Seq(Elements) /\ cout' \in Seq(Messages)
      /\ Len(cout') = Len(cout) - 1
      /\ \A i \in 1 .. Len(cout') : cout'[i] = cout[i + 1]
      /\ cout' = <<>> <=> Len(cout) = 1
  <2>1. cout \in Seq(Messages) /\ cout # <<>>
    BY <1>1 DEF IInv, WellTyped, TypeOK
  <2>2. m \in Messages /\ Tail(cout) \in Seq(Messages) /\ Len(Tail(cout)) = Len(cout) - 1
        /\ \A i \in 1 .. Len(Tail(cout)) : Tail(cout)[i] = cout[i + 1]
    BY <2>1, HeadTailProperties
  <2>3. Len(cout) \in Nat \ {0}
    BY <2>1, EmptySeq
  <2>4. Tail(cout) = <<>> <=> Len(Tail(cout)) = 0
    BY <2>2, EmptySeq
  <2>5. Len(Tail(cout)) = 0 <=> Len(cout) = 1
    BY <2>2, <2>3
  <2> QED
    BY <1>1, <2>1, <2>2, <2>3, <2>4, <2>5 DEF Messages
<1> HIDE DEF m
<1>5. WellTyped'
  <2>1. ccode' \in Nat \cup {-1}
    <3>1. CASE Len(m) = 1 /\ m[1].kind = "int"
      <4>1. m[1] \in Elements
        <5>1. 1 \in 1 .. Len(m)
          BY <3>1
        <5> QED
          BY <1>4, <5>1, ElementOfSeq
      <4> QED
        BY <1>1, <3>1, <4>1 DEF Elements
    <3>2. CASE ~(Len(m) = 1 /\ m[1].kind = "int")
      BY <1>1, <3>2 DEF IInv, WellTyped, TypeOK
    <3> QED
      BY <3>1, <3>2
  <2>2. up' \in Seq(Elements) /\ \A i \in DOMAIN up' : up'[i] \in Elements
    <3>1. up' \in Seq(Elements)
      BY <1>2, <1>4, CatFacts DEF IInv, WellTyped
    <3> QED
      BY <3>1, LenProperties, ElementOfSeq
  <2>3. cpc' = "send" => cout' # <<>>
    BY <1>1, <1>4
  <2>4. TypeOK'
    BY <1>1, <1>3, <2>1, <2>2, <2>3 DEF IInv, WellTyped, TypeOK
  <2> QED
    BY <1>1, <1>4, <2>2, <2>4 DEF IInv, WellTyped, Receiving, Needed
<1>6. Commanding'
  <2>1. CASE shell' = "busy"
    <3>1. shell = "busy"
      BY <1>1, <1>3, <2>1
    <3>2. /\ Asked' = Asked /\ Len(Asked) \in Nat /\ Sent \in Nat
          /\ Len(cout) <= Len(Asked)
      BY <1>1, <3>1, NextMessage DEF Asked
    <3>3. Sent' = Sent + 1
      <4>1. Sent' = Len(Asked') - Len(cout') /\ Sent = Len(Asked) - Len(cout)
        BY DEF Sent
      <4> QED
        BY <1>4, <3>2, <4>1
    <3>4. \A i \in 1 .. Len(cout') : cout'[i] = Asked'[Sent' + i]
      <4> SUFFICES ASSUME NEW i \in 1 .. Len(cout') PROVE cout'[i] = Asked'[Sent' + i]
        OBVIOUS
      <4>1. i + 1 \in 1 .. Len(cout)
        BY <1>4
      <4>2. cout[i + 1] = Asked[Sent + (i + 1)]
        BY <3>1, <4>1 DEF IInv, Commanding
      <4>3. Sent + (i + 1) = Sent' + i
        BY <3>2, <3>3
      <4> QED
        BY <1>4, <3>2, <4>2, <4>3
    <3>5. Sent' >= 2 => ccode' >= 1
      BY <1>1, <3>1, <3>2, <3>3, CodeKnown DEF m
    <3>6. cpc' \in {"code", "length", "text"} => cout' = <<>>
      BY <1>1, <1>4
    <3>7. Commanded(cmd') /\ Len(cout') <= Len(Asked')
      BY <1>1, <1>4, <3>1, <3>2 DEF IInv, Commanding
    <3> QED
      BY <1>1, <2>1, <3>1, <3>4, <3>5, <3>6, <3>7 DEF IInv, Commanding, InCommand
  <2>2. CASE shell' # "busy"
    <3>1. cpc' \in {"code", "length", "text"} => cout' = <<>>
      BY <1>1, <1>4
    <3> QED
      BY <1>1, <1>3, <2>2, <3>1 DEF IInv, Commanding, InCommand
  <2> QED
    BY <2>1, <2>2
<1>7. Talking' => Framed'
  <2> SUFFICES ASSUME Talking' PROVE Framed'
    OBVIOUS
  <2>1. shell = "busy" /\ shell' = "busy"
    BY <1>1, <1>3 DEF Talking
  <2>2. cout' = <<>> => cpc' = "code"
    BY <1>1, <1>4
  <2>3. server = "running" => up' = Cat(up, Head(cout))
    BY <1>2 DEF m
  <2>4. cpc' \in {"send", "code"}
    BY <1>1
  <2> QED
    BY <1>1, <2>1, <2>2, <2>3, <2>4, SendFramed
<1>8. ResultsTrue'
  BY <1>1, <1>3 DEF IInv, Commanding, InCommand, ResultsTrue, NoResult
<1> QED
  BY <1>5, <1>6, <1>7, <1>8 DEF IInv

(* A driver that receives has sent the whole request.                      *)
LEMMA WholeRequest ==
  ASSUME IInv, shell = "busy", cpc \in {"code", "length", "text"}
  PROVE  /\ Asked \in Seq(Messages) /\ Len(Asked) \in {3, 5} /\ Sent = Len(Asked)
         /\ ccode \in Nat \ {0}
         /\ Commanded(cmd)
<1>1. Commanded(cmd) /\ cout = <<>>
  BY DEF IInv, Commanding
<1>2. Asked \in Seq(Messages) /\ Len(Asked) \in {3, 5}
  BY <1>1, RequestMessages DEF Asked
<1>3. Sent = Len(Asked)
  BY <1>1, <1>2 DEF Sent
<1>4. ccode \in Nat \ {0}
  BY <1>2, <1>3 DEF IInv, Commanding, WellTyped, TypeOK
<1> QED
  BY <1>1, <1>2, <1>3, <1>4

(* A driver that receives has not lost its way before.                     *)
LEMMA NotLost ==
  ASSUME IInv, shell = "busy",
         \/ cpc \in {"length", "text"}
         \/ Closed
         \/ down # <<>> /\ Head(down).kind = "int"
  PROVE  /\ ~DownLost /\ DownFramed
         /\ server = "running" => Answering /\ (UpLost \/ UpFramed)
<1>1. ~DownLost
  BY DEF DownLost, Closed, LosesWay
<1> QED
  BY <1>1 DEF IInv, Talking, Framed

LEMMA WhatArrives ==
  ASSUME IInv, shell = "busy", DownFramed
  PROVE  /\ Spoken \in Int /\ Spoken <= Len(Reply)
         /\ Heard \in 0 .. 2
         /\ down = Between(Reply, Heard, Spoken)
         /\ down = <<>> <=> Spoken <= Heard
<1>1. Commanded(cmd)
  BY DEF IInv, Commanding
<1>2. Reply \in Seq(Messages) /\ Len(Reply) \in {0, 1, 3}
  BY <1>1, ReplyMessages
<1>3. Len(sout) \in Nat
  BY LenProperties DEF IInv, WellTyped
<1>4. Spoken \in Int /\ Spoken <= Len(Reply)
  BY <1>2, <1>3 DEF Spoken
<1>5. Heard \in 0 .. 2
  BY DEF Heard
<1>6. down = Between(Reply, Heard, Spoken)
  BY DEF DownFramed
<1>7. Between(Reply, Heard, Spoken) = <<>> <=> Spoken <= Heard
  <2>1. Len(Reply) <= 5
    <3>1. CASE Len(Reply) = 0
      BY <3>1
    <3>2. CASE Len(Reply) = 1
      BY <3>2
    <3>3. CASE Len(Reply) = 3
      BY <3>3
    <3> QED
      BY <1>2, <3>1, <3>2, <3>3
  <2>2. Heard \in Nat
    BY <1>5
  <2> QED
    BY <1>2, <1>4, <2>1, <2>2, BetweenEmpty
<1> QED
  BY <1>4, <1>5, <1>6, <1>7

(* The number that arrives is the one the driver waits for.                *)
LEMMA NumberArrives ==
  ASSUME IInv, shell = "busy", DownFramed, cpc \in {"code", "length"}, down # <<>>
  PROVE  /\ Spoken > Heard /\ ~Unanswered
         /\ Tail(down) = Between(Reply, Heard + 1, Spoken)
         /\ Head(down).val \in Nat
         /\ served.said = "value" =>
              Head(down).val = IF cpc = "code" THEN 1 ELSE Len(served.value)
         /\ served.said # "value" => /\ cpc = "code" /\ Spoken = 1 /\ Len(Reply) = 1
                                     /\ Says(Head(down).val) = served.said
                                     /\ cmd[1] = 0 => Head(down).val # 1
<1>1. Commanded(cmd)
  BY DEF IInv, Commanding
<1>2. /\ Spoken \in Int /\ Spoken <= Len(Reply) /\ Spoken > Heard
      /\ Heard = IF cpc = "code" THEN 0 ELSE 1
      /\ down = Between(Reply, Heard, Spoken)
  BY WhatArrives DEF Heard
<1>3. /\ Reply \in Seq(Messages) /\ Reply \in Seq(Seq(Elements)) /\ Len(Reply) \in {0, 1, 3}
      /\ Len(Reply) = 0 <=> Unanswered
      /\ Len(Reply) >= 2 <=> served.said = "value"
  BY <1>1, ReplyMessages, MessagesAreSequences
<1>4. ~Unanswered
  BY <1>2, <1>3
<1>5. down = Cat(Reply[Heard + 1], Between(Reply, Heard + 1, Spoken))
  <2>1. Heard \in 0 .. 4
    BY <1>2
  <2> QED
    BY <1>2, <1>3, <2>1, BetweenFirst
<1>6. Between(Reply, Heard + 1, Spoken) \in Seq(Elements)
  <2>1. Heard + 1 \in Nat
    BY <1>2
  <2> QED
    BY <1>2, <1>3, <2>1, BetweenSeq
<1>7. ASSUME NEW n \in Nat, Reply[Heard + 1] = Message(n)
      PROVE  Tail(down) = Between(Reply, Heard + 1, Spoken) /\ Head(down).val = n
  <2>1. Head(down) = Number(n) /\ Tail(down) = Between(Reply, Heard + 1, Spoken)
    BY <1>5, <1>6, <1>7, NumberFirst
  <2> QED
    BY <2>1 DEF Number
<1>8. CASE served.said = "value"
  <2>1. /\ served.value \in Texts
        /\ Reply[1] = Message(1) /\ Reply[2] = Message(Len(served.value))
    BY <1>1, <1>8, ReplyMessages
  <2>2. Len(served.value) \in Nat
    BY <2>1, MessageTypes
  <2>3. CASE cpc = "code"
    BY <1>2, <1>4, <1>7, <1>8, <2>1, <2>3
  <2>4. CASE cpc = "length"
    BY <1>2, <1>4, <1>7, <1>8, <2>1, <2>2, <2>4
  <2> QED
    BY <2>3, <2>4
<1>9. CASE served.said # "value"
  <2>1. PICK n \in Nat : /\ Reply = <<Message(n)>>
                         /\ cmd[1] = 0 => n # 1
                         /\ Says(n) = served.said
    BY <1>1, <1>4, <1>9, ReplyMessages
  <2>2. Len(Reply) = 1 /\ Spoken = 1 /\ Heard = 0 /\ cpc = "code"
    BY <1>2, <1>3, <1>9, <2>1
  <2>3. Reply[Heard + 1] = Message(n)
    BY <2>1, <2>2
  <2> QED
    BY <1>2, <1>4, <1>7, <1>9, <2>1, <2>2, <2>3
<1> QED
  BY <1>8, <1>9

(* When all of the answer is sent, the thread waits for the next code.     *)
LEMMA AllSpoken ==
  ASSUME IInv, shell = "busy", Answering, ~Unanswered, Spoken = Len(Reply), Len(Reply) \in Nat
  PROVE  spc = "code"
<1>1. spc \in {"answer", "code"}
  BY DEF Answering
<1>2. spc # "answer"
  <2> SUFFICES ASSUME spc = "answer" PROVE FALSE
    OBVIOUS
  <2>1. sout \in Seq(Messages) /\ sout # <<>>
    BY DEF IInv, WellTyped, TypeOK
  <2>2. Len(sout) \in Nat \ {0}
    BY <2>1, EmptySeq
  <2> QED
    BY <2>2 DEF Spoken
<1> QED
  BY <1>1, <1>2

(* A command that is at its end has left nothing on its way.               *)
LEMMA FinishFramed ==
  ASSUME IInv, shell = "busy", cpc \in {"code", "length", "text"}, DownFramed,
         server = "running" => Answering /\ (UpLost \/ UpFramed) /\ ~Unanswered /\ spc = "code",
         shell' = "typing", cpc' = "none",
         \/ down' = <<>>
         \/ short' /\ LosesWay(down') /\ result'.said # "value",
         short => short',
         UNCHANGED <<spc, up, server>>
  PROVE  Framed'
<1>1. CASE short' /\ LosesWay(down') /\ result'.said # "value"
  BY <1>1 DEF Framed, DownLost
<1>2. CASE down' = <<>>
  <2>1. DownFramed'
    BY <1>2 DEF DownFramed
  <2>2. CASE server = "running"
    <3>1. Answering'
      BY <2>2 DEF Answering
    <3>2. UpLost => UpLost'
      BY DEF UpLost
    <3>3. UpFramed => UpFramed'
      <4> SUFFICES ASSUME UpFramed PROVE up = <<>>
        BY DEF UpFramed
      <4>1. Sent = Len(Asked) /\ Len(Asked) \in Int
        BY WholeRequest
      <4>2. Taken = Len(Asked)
        <5>1. ~Unanswered
          BY <2>2
        <5> QED
          BY <5>1 DEF Taken
      <4>3. up = Between(Asked, Taken, Sent)
        BY DEF UpFramed
      <4> QED
        BY <4>1, <4>2, <4>3, BetweenNone
    <3> QED
      BY <2>1, <2>2, <3>1, <3>2, <3>3 DEF Framed
  <2>3. CASE server # "running"
    BY <2>1, <2>3 DEF Framed
  <2> QED
    BY <2>2, <2>3
<1> QED
  BY <1>1, <1>2

LEMMA FinishTyped ==
  ASSUME IInv, InCommand, NEW said, NEW value, Finish(said, value),
         ccode' \in Nat \cup {-1}, down' \in Seq(Elements),
         cout' \in {cout, <<>>},
         UNCHANGED <<spc, scode, op, args, lens, sout, db, served, cmd, lines, server,
                     astray, up>>
  PROVE  WellTyped' /\ Commanding'
<1>1. /\ shell \in {"busy", "leaving"}
      /\ shell' = IF shell = "leaving" THEN "left" ELSE "typing"
      /\ cpc' = "none"
  BY DEF Finish, InCommand
<1>2. \A i \in DOMAIN down' : down'[i] \in Elements
  BY LenProperties, ElementOfSeq
<1>3. TypeOK'
  BY <1>1, <1>2 DEF IInv, WellTyped, TypeOK
<1>4. WellTyped'
  <2>1. cout \in Seq(Messages) /\ <<>> \in Seq(Messages)
    BY DEF IInv, WellTyped
  <2>2. cout' \in Seq(Messages)
    BY <2>1
  <2> QED
    BY <1>3, <2>2 DEF IInv, WellTyped, Receiving, Needed
<1>5. Commanding'
  BY <1>1 DEF IInv, Commanding, InCommand
<1> QED
  BY <1>4, <1>5

LEMMA SendErrorInv == ASSUME IInv, InCommand, SendError PROVE IInv'
<1>1. /\ cpc = "send" /\ Finish("send", NoText) /\ server # "running" /\ cout' = <<>>
      /\ UNCHANGED <<spc, scode, op, args, lens, sout, db, served, cmd, ccode, lines, server,
                     short, astray, up, down>>
  BY DEF SendError, thread
<1>2. ccode' \in Nat \cup {-1} /\ down' \in Seq(Elements)
  BY <1>1 DEF IInv, WellTyped, TypeOK
<1>3. WellTyped' /\ Commanding'
  BY <1>1, <1>2, FinishTyped
<1>4. ResultsTrue'
  BY <1>1 DEF Finish, ResultsTrue
<1>5. ASSUME Talking' PROVE Framed'
  <2>1. shell = "busy" /\ shell' = "typing" /\ cpc' = "none" /\ result'.said # "value"
    BY <1>1, <1>5 DEF Talking, Finish, InCommand
  <2>2. Framed
    BY <2>1 DEF IInv, Talking
  <2>3. CASE DownLost
    BY <1>1, <2>1, <2>3 DEF DownLost, Framed
  <2>4. CASE DownFramed
    <3>1. Unanswered
      BY <1>1, <2>1, <2>4 DEF DownFramed
    <3>2. Reply = <<>> /\ down = Between(Reply, Heard, Spoken)
      BY <2>1, <2>4, <3>1 DEF DownFramed, Reply, ReplyOf, Unanswered, Nobody
    <3>3. Spoken \in Int /\ Spoken <= 0 /\ Heard = 0
      BY <1>1, <3>2, LenProperties DEF Spoken, Heard, IInv, WellTyped
    <3>4. down = <<>>
      <4>1. Reply \in Seq(Messages) /\ Len(Reply) = 0
        BY <3>2
      <4>2. Spoken <= Len(Reply) /\ Spoken <= Heard /\ Heard \in Nat /\ Len(Reply) <= 5
        BY <3>3, <4>1
      <4> QED
        BY <3>2, <3>3, <4>1, <4>2, BetweenEmpty
    <3>5. DownFramed'
      BY <1>1, <2>1, <3>4 DEF DownFramed
    <3> QED
      BY <1>1, <3>5 DEF Framed
  <2> QED
    BY <2>2, <2>3, <2>4 DEF Framed
<1> QED
  BY <1>3, <1>4, <1>5 DEF IInv

LEMMA RecvErrorInv == ASSUME IInv, InCommand, RecvError PROVE IInv'
<1>1. /\ cpc \in {"code", "length", "text"} /\ Finish("recv", NoText)
      /\ Closed /\ server # "running" /\ down = <<>>
      /\ UNCHANGED <<spc, scode, op, args, lens, sout, db, served, cmd, ccode, cout, lines, server,
                     refused, short, astray, up, down>>
  BY DEF RecvError, Reset, Closed, thread
<1>2. ccode' \in Nat \cup {-1} /\ down' \in Seq(Elements)
  BY <1>1 DEF IInv, WellTyped, TypeOK
<1>3. WellTyped' /\ Commanding'
  BY <1>1, <1>2, FinishTyped
<1>4. ResultsTrue'
  BY <1>1 DEF Finish, ResultsTrue
<1>5. ASSUME Talking' PROVE Framed'
  <2>1. shell = "busy" /\ shell' = "typing" /\ cpc' = "none"
    BY <1>1, <1>5 DEF Talking, Finish, InCommand
  <2>2. DownFramed
    BY <1>1, <2>1, NotLost
  <2> QED
    BY <1>1, <2>1, <2>2, FinishFramed
<1> QED
  BY <1>3, <1>4, <1>5 DEF IInv

LEMMA KeptInv ==
  ASSUME IInv,
         UNCHANGED <<cmd, cpc, ccode, cout, spc, scode, op, args, lens, sout, db, served, shell,
                     lines, result, server, refused, short, up, down>>
  PROVE  IInv'
<1>1. UNCHANGED <<cmd, cpc, ccode, cout, spc, scode, op, args, lens, sout, db, served, shell,
                  lines, result, server, refused, short, up, down>>
  OBVIOUS
<1>2. WellTyped'
  BY <1>1 DEF IInv, WellTyped, TypeOK, Receiving, Needed
<1>3. Commanding'
  BY <1>1 DEF IInv, Commanding, InCommand, Sent, Asked
<1>4. Talking' => Framed'
  <2>1. Talking' = Talking /\ DownLost' = DownLost /\ UpLost' = UpLost
    BY <1>1 DEF Talking, DownLost, UpLost
  <2>2. DownFramed' = DownFramed
    BY <1>1 DEF DownFramed, Reply, Heard, Spoken, Unanswered, Answered
  <2>3. Answering' = Answering /\ UpFramed' = UpFramed
    BY <1>1 DEF Answering, UpFramed, Reply, Heard, Spoken, Unanswered, Asked, Sent, Taken
  <2> QED
    BY <1>1, <2>1, <2>2, <2>3 DEF IInv, Framed
<1>5. ResultsTrue'
  BY <1>1 DEF IInv, ResultsTrue, ServedAs
<1> QED
  BY <1>2, <1>3, <1>4, <1>5 DEF IInv

(* A side that is astray takes no further step.                            *)
LEMMA AstrayInv == ASSUME IInv, ClientAstray \/ ServerAstray PROVE IInv'
<1>1. UNCHANGED <<cmd, cpc, ccode, cout, spc, scode, op, args, lens, sout, db, served, shell,
                  lines, result, server, refused, short, up, down>>
  BY DEF ClientAstray, ServerAstray, driver, thread
<1> QED
  BY <1>1, KeptInv

LEMMA TakesTyped ==
  ASSUME IInv, ClientTakes
  PROVE  ccode' \in Nat \cup {-1} /\ down' \in Seq(Elements)
<1>1. ccode \in Nat \cup {-1} /\ down \in Seq(Elements)
  BY DEF IInv, WellTyped, TypeOK
<1>2. CASE Closed
  BY <1>1, <1>2 DEF ClientTakes, Received
<1>3. CASE ~Closed
  <2>1. down # <<>> /\ ccode' = Head(down).val /\ down' = Tail(down)
    BY <1>3 DEF ClientTakes, Received
  <2>2. Head(down) \in Elements /\ Tail(down) \in Seq(Elements)
    BY <1>1, <2>1
  <2>3. Head(down).val \in Nat
    BY <2>2 DEF Elements
  <2> QED
    BY <2>1, <2>2, <2>3
<1> QED
  BY <1>2, <1>3

(* The driver of a get goes on to the length and to the text of its value. *)
LEMMA GoesOnInv ==
  ASSUME IInv, shell = "busy", ClientTakes, cmd[1] = 0,
         \/ cpc = "code" /\ cpc' = "length"
         \/ cpc = "length" /\ cpc' = "text",
         ~Closed => served.said = "value",
         UNCHANGED <<shell, result>>
  PROVE  IInv'
<1>1. /\ UNCHANGED <<spc, scode, op, args, lens, sout, db, served, shell, result, cmd, cout, lines,
                     server, refused, short, astray, up>>
      /\ Closed \/ (down # <<>> /\ Head(down).kind = "int")
      /\ ccode' = Received
      /\ down' = IF Closed THEN down ELSE Tail(down)
  BY DEF ClientTakes, thread
<1>2. ccode' \in Nat \cup {-1} /\ down' \in Seq(Elements)
  BY TakesTyped
<1>3. /\ ~DownLost /\ DownFramed
      /\ server = "running" => Answering /\ (UpLost \/ UpFramed)
  BY <1>1, NotLost
<1>4. /\ Spoken \in Int /\ Heard' = Heard + 1 /\ Heard = (IF cpc = "code" THEN 0 ELSE 1)
      /\ down = Between(Reply, Heard, Spoken)
      /\ down = <<>> <=> Spoken <= Heard
  BY <1>3, WhatArrives DEF Heard
<1>5. Reply' = Reply /\ Spoken' = Spoken /\ Unanswered' = Unanswered /\ Answered' = Answered
  BY <1>1 DEF Reply, Spoken, Unanswered, Answered
<1>6. WellTyped'
  <2>1. \A i \in DOMAIN down' : down'[i] \in Elements
    BY <1>2, LenProperties, ElementOfSeq
  <2>2. TypeOK'
    BY <1>1, <1>2, <2>1 DEF IInv, WellTyped, TypeOK
  <2> QED
    BY <1>1, <1>2, <2>2 DEF IInv, WellTyped, Receiving, Needed
<1>7. DownFramed' /\ ccode' >= 1
  <2>1. CASE Closed
    <3>1. down = <<>> /\ down' = <<>> /\ ccode' = ccode
      BY <1>1, <2>1 DEF Closed, Received
    <3>2. Spoken <= Heard /\ Spoken <= Heard + 1
      BY <1>4, <3>1
    <3>3. Between(Reply, Heard + 1, Spoken) = <<>>
      BY <1>4, <3>2, BetweenNone
    <3>4. ccode' >= 1
      BY <3>1, WholeRequest
    <3>5. Spoken >= 1 => served.said = "value"
      BY <1>3, <1>4, <3>2 DEF DownFramed
    <3>6. ~(cpc' = "text" /\ Spoken' >= 2)
      BY <1>4, <1>5, <3>2
    <3>7. down' = Between(Reply', Heard', Spoken')
      BY <1>4, <1>5, <3>1, <3>3
    <3> QED
      BY <1>1, <1>3, <1>5, <3>4, <3>5, <3>6, <3>7 DEF DownFramed
  <2>2. CASE ~Closed
    <3>1. served.said = "value" /\ down # <<>> /\ ccode' = Head(down).val /\ down' = Tail(down)
      BY <1>1, <2>2 DEF Received
    <3>2. /\ Spoken > Heard /\ ~Unanswered
          /\ Tail(down) = Between(Reply, Heard + 1, Spoken)
          /\ Head(down).val = IF cpc = "code" THEN 1 ELSE Len(served.value)
      BY <1>3, <3>1, NumberArrives
    <3>3. served.value \in Texts
      BY <1>3, <3>1, ReplyMessages DEF IInv, Commanding
    <3>4. Len(served.value) \in Nat \ {0}
      BY <3>3, MessageTypes
    <3>5. ccode' >= 1
      BY <3>1, <3>2, <3>4
    <3>6. down' = Between(Reply', Heard', Spoken')
      BY <1>4, <1>5, <3>1, <3>2
    <3>7. cpc' = "text" => ccode' = Len(served'.value)
      BY <1>1, <3>1, <3>2
    <3> QED
      BY <1>1, <1>3, <1>5, <3>1, <3>5, <3>6, <3>7 DEF DownFramed
  <2> QED
    BY <2>1, <2>2
<1>8. Commanding'
  <2>1. Asked' = Asked /\ Sent' = Sent
    BY <1>1 DEF Asked, Sent
  <2> QED
    BY <1>1, <1>7, <2>1 DEF IInv, Commanding, InCommand
<1>9. Framed'
  <2>1. CASE server = "running"
    <3>1. ~Closed /\ down # <<>>
      BY <1>1, <2>1 DEF Closed
    <3>2. Spoken > Heard /\ ~Unanswered
      BY <1>3, <3>1, NumberArrives
    <3>3. Answering'
      <4>1. Heard' <= Spoken'
        BY <1>4, <1>5, <3>2
      <4> QED
        BY <1>1, <1>3, <1>5, <2>1, <3>2, <4>1 DEF Answering
    <3>4. UpLost => UpLost'
      <4>1. spc # "call"
        BY <1>3, <2>1, <3>2 DEF Answering
      <4> QED
        BY <1>1, <4>1 DEF UpLost
    <3>5. UpFramed => UpFramed'
      <4>1. Asked' = Asked /\ Sent' = Sent
        BY <1>1 DEF Asked, Sent
      <4>2. Taken' = Taken
        BY <1>5, <3>2, <4>1 DEF Taken
      <4> QED
        BY <1>1, <1>5, <3>2, <4>1, <4>2 DEF UpFramed
    <3> QED
      BY <1>1, <1>3, <1>7, <2>1, <3>3, <3>4, <3>5 DEF Framed
  <2>2. CASE server # "running"
    BY <1>1, <1>7, <2>2 DEF Framed
  <2> QED
    BY <2>1, <2>2
<1>10. ResultsTrue'
  BY <1>1 DEF IInv, Commanding, InCommand, ResultsTrue, NoResult
<1> QED
  BY <1>6, <1>8, <1>9, <1>10 DEF IInv

LEMMA ClientLengthInv == ASSUME IInv, InCommand, ClientLength PROVE IInv'
<1>1. cpc = "length" /\ cpc' = "text" /\ ClientTakes /\ UNCHANGED <<shell, result>>
  BY DEF ClientLength
<1>2. shell = "busy"
  BY <1>1 DEF IInv, Commanding, InCommand
<1>3. DownFramed
  BY <1>1, <1>2, NotLost
<1>4. cmd[1] = 0
  BY <1>1, <1>2, <1>3 DEF DownFramed
<1>5. ~Closed => served.said = "value"
  <2> SUFFICES ASSUME ~Closed PROVE served.said = "value"
    OBVIOUS
  <2>1. down # <<>>
    BY <1>1 DEF ClientTakes
  <2> QED
    BY <1>1, <1>2, <1>3, <2>1, NumberArrives
<1> QED
  BY <1>1, <1>2, <1>4, <1>5, GoesOnInv

LEMMA ClientCodeInv == ASSUME IInv, InCommand, ClientCode PROVE IInv'
<1> DEFINE said == Says(Received)
<1>1. /\ cpc = "code" /\ ClientTakes
      /\ ccode' = Received /\ down' = IF Closed THEN down ELSE Tail(down)
      /\ Closed \/ (down # <<>> /\ Head(down).kind = "int")
      /\ UNCHANGED <<spc, scode, op, args, lens, sout, db, served, cmd, cout, lines, server,
                     refused, short, astray, up>>
  BY DEF ClientCode, ClientTakes, thread
<1>2. ccode' \in Nat \cup {-1} /\ down' \in Seq(Elements)
  BY <1>1, TakesTyped
<1>3. CASE shell = "leaving"
  <2>1. cmd[1] = 3
    BY <1>3 DEF IInv, Commanding
  <2>2. Finish("bye", NoText)
    <3>1. said = "bye"
      BY <2>1 DEF Says
    <3> QED
      BY <2>1, <3>1 DEF ClientCode
  <2>3. WellTyped' /\ Commanding'
    BY <1>1, <1>2, <2>2, FinishTyped
  <2>4. shell' = "left" /\ result'.said = "bye"
    BY <1>3, <2>2 DEF Finish
  <2> QED
    BY <2>3, <2>4 DEF IInv, Talking, ResultsTrue
<1>4. CASE shell = "busy"
  <2>1. DownFramed /\ (server = "running" => Answering /\ (UpLost \/ UpFramed))
    BY <1>1, <1>4, NotLost
  <2>2. Commanded(cmd) /\ ccode \in Nat \ {0}
    BY <1>1, <1>4, WholeRequest
  <2>3. CASE cmd[1] = 0 /\ Received = 1
    <3>1. cpc' = "length" /\ UNCHANGED <<shell, result>>
      BY <2>3 DEF ClientCode
    <3>2. ~Closed => served.said = "value"
      <4> SUFFICES ASSUME ~Closed, served.said # "value" PROVE FALSE
        OBVIOUS
      <4>1. down # <<>> /\ Head(down).val = 1
        BY <1>1, <2>3 DEF Received
      <4> QED
        BY <1>1, <1>4, <2>1, <2>3, <4>1, NumberArrives
    <3> QED
      BY <1>1, <1>4, <2>3, <3>1, <3>2, GoesOnInv
  <2>4. CASE ~(cmd[1] = 0 /\ Received = 1)
    <3>1. Finish(said, NoText)
      BY <2>4 DEF ClientCode
    <3>2. WellTyped' /\ Commanding'
      BY <1>1, <1>2, <3>1, FinishTyped
    <3>3. /\ shell' = "typing" /\ cpc' = "none"
          /\ result' = [cmd |-> cmd, said |-> said, value |-> <<>>]
      BY <1>4, <3>1 DEF Finish, NoText
    <3> HIDE DEF said
    <3>4. /\ ResultsTrue' /\ down' = <<>>
          /\ server = "running" => ~Unanswered /\ spc = "code"
      <4>1. CASE Closed
        <5>1. said \notin {"value", "not_found"}
          <6>1. Received # 0
            BY <2>2, <4>1 DEF Received
          <6> QED
            BY <6>1 DEF said, Says
        <5>2. server' # "running" /\ server' = "stopped" /\ down' = <<>> /\ server # "running"
          BY <1>1, <4>1 DEF Closed
        <5> QED
          BY <3>3, <5>1, <5>2 DEF ResultsTrue
      <4>2. CASE ~Closed
        <5>1. down # <<>> /\ Received = Head(down).val /\ down' = Tail(down)
          BY <1>1, <4>2 DEF Received
        <5>2. served.said # "value"
          <6> SUFFICES ASSUME served.said = "value" PROVE FALSE
            OBVIOUS
          <6>1. Received = 1
            BY <1>1, <1>4, <2>1, <5>1, NumberArrives
          <6>2. cmd[1] = 0
            BY <1>4, <2>1, <2>2, ReplyMessages
          <6> QED
            BY <2>4, <6>1, <6>2
        <5>3. /\ ~Unanswered /\ Spoken = 1 /\ Len(Reply) = 1 /\ said = served.said
              /\ down' = Between(Reply, Heard + 1, Spoken)
          BY <1>1, <1>4, <2>1, <5>1, <5>2, NumberArrives DEF said
        <5>4. down' = <<>>
          <6>1. Heard = 0
            BY <1>1 DEF Heard
          <6> QED
            BY <5>3, <6>1, BetweenNone
        <5>5. server = "running" => spc = "code"
          BY <1>4, <2>1, <5>3, AllSpoken
        <5>6. Answered
          BY <1>4, <2>1, <5>3 DEF DownFramed
        <5>7. served.value = <<>> /\ served.said # "unknown_code"
          BY <5>2, <5>6 DEF Answered, Outcomes
        <5>8. ResultsTrue'
          BY <1>1, <3>3, <5>2, <5>3, <5>6, <5>7 DEF ResultsTrue, ServedAs, Answered
        <5> QED
          BY <5>3, <5>4, <5>5, <5>8
      <4> QED
        BY <4>1, <4>2
    <3>5. Framed'
      BY <1>1, <1>4, <2>1, <3>3, <3>4, FinishFramed
    <3> QED
      BY <3>2, <3>4, <3>5 DEF IInv
  <2> QED
    BY <2>3, <2>4
<1> QED
  BY <1>3, <1>4 DEF InCommand

(* A text that arrives at a driver that waits for one is the value.        *)
LEMMA ValueArrives ==
  ASSUME IInv, shell = "busy", cpc = "text", DownFramed, down # <<>>
  PROVE  /\ served.said = "value" /\ ~Unanswered /\ Answered
         /\ Spoken = 3 /\ Len(Reply) = 3
         /\ served.value \in Texts /\ ccode = Len(served.value)
         /\ down = Chars(served.value)
<1>1. Commanded(cmd)
  BY DEF IInv, Commanding
<1>2. /\ Spoken \in Int /\ Spoken <= Len(Reply) /\ Spoken > Heard
      /\ Heard = 2 /\ down = Between(Reply, Heard, Spoken)
  BY WhatArrives DEF Heard
<1>3. /\ Reply \in Seq(Messages) /\ Reply \in Seq(Seq(Elements)) /\ Len(Reply) \in {0, 1, 3}
      /\ Len(Reply) >= 2 <=> served.said = "value"
  BY <1>1, ReplyMessages, MessagesAreSequences
<1>4. Spoken = 3 /\ Len(Reply) = 3 /\ served.said = "value"
  <2>1. CASE Len(Reply) = 0
    BY <1>2, <2>1
  <2>2. CASE Len(Reply) = 1
    BY <1>2, <2>2
  <2>3. CASE Len(Reply) = 3
    BY <1>2, <1>3, <2>3
  <2> QED
    BY <1>3, <2>1, <2>2, <2>3
<1>5. ~Unanswered /\ served.value \in Texts /\ Reply[3] = Chars(served.value)
  BY <1>1, <1>4, ReplyMessages
<1>6. Answered /\ ccode = Len(served.value)
  BY <1>4, <1>5 DEF DownFramed
<1>7. down = Cat(Reply[3], Between(Reply, 3, 3))
  <2>1. 2 \in 0 .. 4 /\ 3 \in Int /\ 2 + 1 = 3
    OBVIOUS
  <2> QED
    BY <1>2, <1>3, <1>4, <2>1, BetweenFirst
<1>8. Between(Reply, 3, 3) = <<>>
  BY BetweenNone
<1>9. Cat(Chars(served.value), <<>>) = Chars(served.value)
  <2>1. Chars(served.value) \in Seq(Elements)
    BY <1>5, CharsText DEF Texts
  <2> QED
    BY <2>1, CatFacts
<1> QED
  BY <1>4, <1>5, <1>6, <1>7, <1>8, <1>9

LEMMA ClientTextInv == ASSUME IInv, InCommand, ClientText PROVE IInv'
<1>1. PICK n \in IF Closed THEN {0} ELSE Parts(down, ccode) :
        /\ down' = SubSeq(down, n + 1, Len(down))
        /\ short' = (short \/ (n < ccode /\ ~Closed))
        /\ IF n = ccode
           THEN Finish("value", Text(SubSeq(down, 1, n)))
           ELSE Finish("incomplete_response", NoText)
  BY DEF ClientText, Accepts
<1>2. /\ cpc = "text"
      /\ UNCHANGED <<spc, scode, op, args, lens, sout, db, served, cmd, ccode, cout, lines, server,
                     refused, astray, up>>
  BY DEF ClientText, thread
<1>3. shell = "busy"
  BY <1>2 DEF IInv, Commanding, InCommand
<1>4. DownFramed /\ (server = "running" => Answering /\ (UpLost \/ UpFramed))
  BY <1>2, <1>3, NotLost
<1>5. ccode \in Nat \ {0}
  BY <1>2, <1>3, WholeRequest
<1>6. down \in Seq(Elements)
  BY DEF IInv, WellTyped
<1>7. CASE Closed
  <2>1. n = 0 /\ n # ccode /\ down = <<>> /\ server # "running"
    BY <1>5, <1>7 DEF Closed
  <2>2. Finish("incomplete_response", NoText)
    BY <1>1, <2>1
  <2>3. down' = <<>>
    <3>1. down' = SubSeq(<<>>, 1, 0)
      BY <1>1, <2>1
    <3> QED
      BY <3>1
  <2>4. short => short'
    BY <1>1
  <2>5. ccode' \in Nat \cup {-1} /\ down' \in Seq(Elements)
    BY <1>2, <1>5, <1>6, <2>1, <2>3
  <2>6. WellTyped' /\ Commanding'
    BY <1>2, <2>2, <2>5, FinishTyped
  <2>7. ResultsTrue'
    BY <2>2 DEF Finish, ResultsTrue
  <2>8. shell' = "typing" /\ cpc' = "none"
    BY <1>3, <2>2 DEF Finish
  <2>9. Framed'
    BY <1>2, <1>3, <1>4, <2>1, <2>3, <2>4, <2>8, FinishFramed
  <2> QED
    BY <2>6, <2>7, <2>9 DEF IInv
<1>8. CASE ~Closed
  <2>1. n \in 1 .. Len(down) /\ n <= ccode /\ down # <<>>
    <3>1. n \in Parts(down, ccode)
      BY <1>1, <1>8
    <3>2. Len(down) \in Nat
      BY <1>6, LenProperties
    <3>3. n \in 1 .. Len(down) /\ n <= ccode
      BY <1>5, <3>1, <3>2 DEF Parts
    <3>4. down # <<>>
      BY <3>3, EmptySeq
    <3> QED
      BY <3>3, <3>4
  <2>2. /\ served.said = "value" /\ ~Unanswered /\ Answered
        /\ Spoken = 3 /\ Len(Reply) = 3
        /\ served.value \in Texts /\ ccode = Len(served.value)
        /\ down = Chars(served.value)
    BY <1>2, <1>3, <1>4, <2>1, ValueArrives
  <2>3. Chars(served.value) \in Seq(Elements) /\ Len(down) = ccode
        /\ Text(Chars(served.value)) = served.value
    BY <2>2, CharsText DEF Texts
  <2>4. server = "running" => spc = "code"
    BY <1>3, <1>4, <2>2, AllSpoken
  <2>5. down = Cat(Chars(served.value), <<>>)
    BY <2>2, <2>3, CatFacts
  <2>6. /\ SubSeq(down, 1, ccode) = Chars(served.value)
        /\ SubSeq(down, ccode + 1, Len(down)) = <<>>
        /\ \A k \in 1 .. ccode - 1 : LosesWay(SubSeq(down, k + 1, Len(down)))
    <3>1. <<>> \in Seq(Elements)
      BY EmptySeq
    <3> DEFINE b == down
               t == served.value
    <3>2. t \in Texts /\ b = Cat(Chars(t), <<>>) /\ ccode = Len(t)
      BY <2>2, <2>5
    <3> HIDE DEF b, t
    <3>3. /\ SubSeq(b, 1, Len(t)) = Chars(t)
          /\ SubSeq(b, Len(t) + 1, Len(b)) = <<>>
          /\ \A k \in 1 .. Len(t) - 1 : LosesWay(SubSeq(b, k + 1, Len(b)))
      BY ONLY <3>1, <3>2, TextFirst
    <3> QED
      BY <3>2, <3>3 DEF b, t
  <2>7. PICK said, value : /\ Finish(said, value)
                           /\ \/ n = ccode /\ said = "value" /\ value = served.value
                              \/ n < ccode /\ said = "incomplete_response"
    <3>1. CASE n = ccode
      <4>1. Finish("value", Text(SubSeq(down, 1, n)))
        BY <1>1, <3>1
      <4>2. Text(SubSeq(down, 1, n)) = served.value
        BY <2>3, <2>6, <3>1
      <4> QED
        BY <3>1, <4>1, <4>2
    <3>2. CASE n # ccode
      <4>1. n < ccode
        BY <1>5, <2>1, <3>2
      <4>2. Finish("incomplete_response", NoText)
        BY <1>1, <3>2
      <4> QED
        BY <4>1, <4>2
    <3> QED
      BY <3>1, <3>2
  <2>8. /\ shell' = "typing" /\ cpc' = "none"
        /\ result' = [cmd |-> cmd, said |-> said, value |-> value]
    BY <1>3, <2>7 DEF Finish
  <2>9. /\ n = ccode => down' = <<>> /\ (short' <=> short)
        /\ n < ccode => short' /\ LosesWay(down')
        /\ short => short'
    <3>1. n = ccode => down' = <<>>
      BY <1>1, <2>6
    <3>2. n = ccode => ~(n < ccode)
      BY <1>5
    <3>3. n < ccode => n \in 1 .. ccode - 1
      BY <1>5, <2>1
    <3>4. short' = (short \/ n < ccode)
      BY <1>1, <1>8
    <3>5. n < ccode => LosesWay(down')
      BY <1>1, <2>6, <3>3
    <3>6. n = ccode => (short' <=> short)
      BY <3>2, <3>4
    <3> QED
      BY <3>1, <3>4, <3>5, <3>6
  <2>10. down' \in Seq(Elements)
    <3>1. \A i \in n + 1 .. Len(down) : down[i] \in Elements
      BY <1>6, <2>1, ElementOfSeq
    <3> QED
      BY <1>1, <1>6, <2>1, <3>1, SubSeqProperties
  <2>11. WellTyped' /\ Commanding'
    <3>1. ccode' \in Nat \cup {-1}
      BY <1>2, <1>5
    <3> QED
      BY <1>2, <2>7, <2>10, <3>1, FinishTyped
  <2>12. ResultsTrue'
    <3>1. CASE n = ccode
      BY <1>2, <2>2, <2>7, <2>8, <2>9, <3>1 DEF ResultsTrue, ServedAs, Answered
    <3>2. CASE n < ccode
      <4>1. said = "incomplete_response"
        BY <2>7, <3>2
      <4> QED
        BY <2>8, <4>1 DEF ResultsTrue
    <3> QED
      BY <2>7, <3>1, <3>2
  <2>13. Framed'
    BY <1>2, <1>3, <1>4, <2>2, <2>4, <2>7, <2>8, <2>9, FinishFramed
  <2> QED
    BY <2>11, <2>12, <2>13 DEF IInv
<1> QED
  BY <1>7, <1>8

-----------------------------------------------------------------------------
(* The steps of the thread.                                                *)

(* While the shell waits for a line the thread goes on only after a text   *)
(* has been cut.                                                           *)
LEMMA ThreadKeeps ==
  ASSUME IInv, Serving, WellTyped', UNCHANGED driver,
         UNCHANGED <<shell, lines, result, server, refused, astray>>,
         short => short',
         \/ down' = down
         \/ \E m \in Seq(Elements) : down' = Cat(down, m),
         shell = "typing" => DownLost,
         shell = "busy" /\ ~DownLost => Framed'
  PROVE  IInv'
<1>1. /\ UNCHANGED <<cmd, cpc, ccode, cout, shell, lines, result, server, refused, astray>>
      /\ server = "running" /\ shell \in {"typing", "busy", "leaving"}
  BY DEF driver, Serving
<1>2. Commanding'
  BY <1>1 DEF IInv, Commanding, InCommand, Sent, Asked
<1>3. DownLost => DownLost'
  <2> SUFFICES ASSUME DownLost PROVE LosesWay(down')
    BY <1>1 DEF DownLost
  <2>1. LosesWay(down) /\ down \in Seq(Elements)
    BY DEF DownLost, IInv, WellTyped
  <2>2. ASSUME NEW m \in Seq(Elements), down' = Cat(down, m) PROVE LosesWay(down')
    BY <2>1, <2>2, HeadKept
  <2> QED
    BY <2>1, <2>2
<1>4. Talking' => Framed'
  BY <1>1, <1>3 DEF Talking, Framed
<1>5. ResultsTrue'
  <2>1. CASE shell = "typing"
    <3>1. DownLost
      BY <2>1
    <3>2. short' /\ result'.said # "value"
      BY <1>1, <3>1 DEF DownLost
    <3> QED
      BY <3>2 DEF ResultsTrue
  <2>2. CASE shell # "typing"
    BY <1>1, <2>2 DEF IInv, Commanding, InCommand, ResultsTrue, NoResult
  <2> QED
    BY <2>1, <2>2
<1> QED
  BY <1>2, <1>4, <1>5 DEF IInv

LEMMA ThreadFacts ==
  ASSUME IInv, Serving, ~DownLost
  PROVE  /\ shell \in {"typing", "busy"} =>
              DownFramed /\ Answering /\ (UpLost \/ UpFramed)
         /\ shell = "typing" => spc = "code" /\ (up = <<>> \/ LosesWay(up))
         /\ shell = "busy" =>
              /\ Commanded(cmd) /\ cmd[1] \in {0, 1, 2}
              /\ Len(cmd[2]) \in {1, 2} /\ Len(cmd[2]) = IF cmd[1] = 1 THEN 2 ELSE 1
              /\ Asked \in Seq(Messages) /\ Asked \in Seq(Seq(Elements))
              /\ Len(Asked) = 2 * Len(cmd[2]) + 1 /\ Len(Asked) \in {3, 5}
              /\ Sent \in 0 .. Len(Asked) /\ Len(cout) = Len(Asked) - Sent
<1>1. shell \in {"typing", "busy"} => DownFramed /\ Answering /\ (UpLost \/ UpFramed)
  BY DEF IInv, Talking, Serving, Framed
<1>2. shell = "typing" => spc = "code" /\ (up = <<>> \/ LosesWay(up))
  BY <1>1 DEF Answering, UpLost, UpFramed
<1>3. ASSUME shell = "busy"
      PROVE  /\ Commanded(cmd) /\ cmd[1] \in {0, 1, 2}
             /\ Len(cmd[2]) \in {1, 2} /\ Len(cmd[2]) = IF cmd[1] = 1 THEN 2 ELSE 1
             /\ Asked \in Seq(Messages) /\ Asked \in Seq(Seq(Elements))
             /\ Len(Asked) = 2 * Len(cmd[2]) + 1 /\ Len(Asked) \in {3, 5}
             /\ Sent \in 0 .. Len(Asked) /\ Len(cout) = Len(Asked) - Sent
  <2>1. Commanded(cmd) /\ Len(cout) <= Len(Asked)
    BY <1>3 DEF IInv, Commanding
  <2>2. /\ Asked \in Seq(Messages) /\ Len(cmd[2]) \in {1, 2}
        /\ Len(Asked) = 2 * Len(cmd[2]) + 1 /\ Len(Asked) \in {3, 5}
    BY <2>1, RequestMessages DEF Asked
  <2>3. Asked \in Seq(Seq(Elements))
    BY <2>2, MessagesAreSequences
  <2>4. Len(cout) \in Nat
    BY LenProperties DEF IInv, WellTyped
  <2>5. cmd[1] \in {0, 1, 2} /\ Len(cmd[2]) = IF cmd[1] = 1 THEN 2 ELSE 1
    BY <2>1 DEF Commanded
  <2>6. Len(Asked) \in Nat
    BY <2>2, LenProperties
  <2>7. Sent \in 0 .. Len(Asked) /\ Len(cout) = Len(Asked) - Sent
    BY <2>1, <2>4, <2>6 DEF Sent
  <2> QED
    BY <2>1, <2>2, <2>3, <2>5, <2>7
<1> QED
  BY <1>1, <1>2, <1>3

LEMMA TakenFromTyped ==
  ASSUME IInv, ServerTakes
  PROVE  /\ up \in Seq(Elements) /\ up # <<>> /\ Head(up).kind = "int"
         /\ Head(up) \in Elements /\ Head(up).val \in Nat
         /\ Tail(up) \in Seq(Elements)
         /\ \A i \in DOMAIN Tail(up) : Tail(up)[i] \in Elements
         /\ ~LosesWay(up)
         /\ Serving
<1>1. up \in Seq(Elements) /\ up # <<>> /\ Head(up).kind = "int" /\ Serving
  BY DEF ServerTakes, IInv, WellTyped
<1>2. Head(up) \in Elements /\ Tail(up) \in Seq(Elements)
  BY <1>1
<1>3. \A i \in DOMAIN Tail(up) : Tail(up)[i] \in Elements
  BY <1>2, LenProperties, ElementOfSeq
<1>4. Head(up).val \in Nat
  BY <1>2 DEF Elements
<1> QED
  BY <1>1, <1>2, <1>3, <1>4 DEF LosesWay

(* What is first on its way to the thread.                                 *)
LEMMA MessageArrives ==
  ASSUME NEW m \in Seq(Seq(Elements)), NEW i \in 0 .. 4, NEW j \in Int, j <= Len(m),
         Between(m, i, j) # <<>>
  PROVE  /\ i < j
         /\ Between(m, i, j) = Cat(m[i + 1], Between(m, i + 1, j))
         /\ Between(m, i + 1, j) \in Seq(Elements)
<1>1. i < j
  BY BetweenNone
<1>2. Between(m, i, j) = Cat(m[i + 1], Between(m, i + 1, j))
  BY <1>1, BetweenFirst
<1>3. i + 1 \in Nat
  OBVIOUS
<1>4. Between(m, i + 1, j) \in Seq(Elements)
  BY <1>3, BetweenSeq
<1> QED
  BY <1>1, <1>2, <1>4

LEMMA NumberTaken ==
  ASSUME NEW m \in Seq(Seq(Elements)), NEW i \in 0 .. 4, NEW j \in Int, j <= Len(m),
         Between(m, i, j) # <<>>, NEW n \in Nat, m[i + 1] = Message(n)
  PROVE  /\ i < j
         /\ Head(Between(m, i, j)).val = n
         /\ Tail(Between(m, i, j)) = Between(m, i + 1, j)
<1>1. /\ i < j
      /\ Between(m, i, j) = Cat(m[i + 1], Between(m, i + 1, j))
      /\ Between(m, i + 1, j) \in Seq(Elements)
  BY MessageArrives
<1>2. Head(Between(m, i, j)) = Number(n) /\ Tail(Between(m, i, j)) = Between(m, i + 1, j)
  BY <1>1, NumberFirst
<1> QED
  BY <1>1, <1>2 DEF Number

LEMMA ServerCodeInv == ASSUME IInv, ServerCode PROVE IInv'
<1> DEFINE c == Head(up).val
<1>1. /\ spc = "code" /\ ServerTakes
      /\ scode' = c /\ op' = c /\ args' = <<>> /\ lens' = <<>>
      /\ spc' = IF c = 3 THEN "answer" ELSE "length"
      /\ sout' = IF c = 3 THEN <<Message(1)>> ELSE <<>>
      /\ up' = Tail(up)
      /\ UNCHANGED driver
      /\ UNCHANGED <<shell, lines, result, server, refused, short, astray, db, served, down>>
  BY DEF ServerCode, ends
<1>2. /\ up # <<>> /\ c \in Nat /\ Tail(up) \in Seq(Elements)
      /\ \A i \in DOMAIN Tail(up) : Tail(up)[i] \in Elements
      /\ ~LosesWay(up) /\ Serving
  BY <1>1, TakenFromTyped
<1> HIDE DEF c
<1>3. WellTyped'
  <2>1. sout' \in Seq(Messages) /\ (spc' = "answer" => sout' # <<>>)
    <3>1. CASE c = 3
      <4>1. Message(1) \in Messages
        BY MessageTypes
      <4> QED
        BY <1>1, <3>1, <4>1
    <3>2. CASE c # 3
      BY <1>1, <3>2, EmptySeq
    <3> QED
      BY <3>1, <3>2
  <2>2. TypeOK'
    BY <1>1, <1>2, <2>1 DEF IInv, WellTyped, TypeOK, driver
  <2>3. Receiving'
    <3>1. <<>> \in Seq(Nat) /\ <<>> \in Seq(Texts) /\ Len(<<>>) = 0
      BY EmptySeq
    <3> QED
      BY <1>1, <3>1 DEF Receiving, Needed
  <2> QED
    BY <1>1, <1>2, <2>1, <2>2, <2>3 DEF IInv, WellTyped, driver
<1>4. shell = "typing" => DownLost
  BY <1>2, ThreadFacts
<1>5. ASSUME shell = "busy", ~DownLost PROVE Framed'
  <2>1. /\ DownFramed /\ Answering /\ (UpLost \/ UpFramed)
        /\ Commanded(cmd) /\ cmd[1] \in {0, 1, 2}
        /\ Asked \in Seq(Seq(Elements)) /\ Len(Asked) \in {3, 5}
        /\ Sent \in 0 .. Len(Asked)
    BY <1>2, <1>5, ThreadFacts
  <2>2. UpFramed
    BY <1>2, <2>1 DEF UpLost
  <2>3. up = Between(Asked, Taken, Sent)
    BY <1>5, <2>2 DEF UpFramed
  <2>4. Unanswered
    <3> SUFFICES ASSUME ~Unanswered PROVE up = <<>>
      BY <1>2
    <3>1. Taken = Len(Asked) /\ Sent <= Taken /\ Taken \in Int /\ Sent \in Int
      BY <2>1 DEF Taken
    <3> QED
      BY <2>3, <3>1, BetweenNone
  <2>5. Taken = 0
    BY <1>1, <2>4 DEF Taken
  <2>6. Sent > 0 /\ c = cmd[1] /\ up' = Between(Asked, 1, Sent)
    <3>1. Asked[0 + 1] = Message(cmd[1]) /\ cmd[1] \in Nat
      BY <2>1, RequestMessages DEF Asked
    <3>2. Sent \in Int /\ Sent <= Len(Asked) /\ 0 \in 0 .. 4 /\ 0 + 1 = 1
      BY <2>1
    <3>3. up = Between(Asked, 0, Sent)
      BY <2>3, <2>5
    <3>4. 0 < Sent /\ Head(up).val = cmd[1] /\ Tail(up) = Between(Asked, 1, Sent)
      BY <1>2, <2>1, <3>1, <3>2, <3>3, NumberTaken
    <3> QED
      BY <1>1, <3>4 DEF c
  <2>7. spc' = "length" /\ op' = cmd[1]
    BY <1>1, <2>1, <2>6
  <2>8. /\ Asked' = Asked /\ Sent' = Sent /\ Unanswered' /\ Reply' = Reply /\ Heard' = Heard
        /\ Spoken' = Spoken /\ Answered' = Answered
    BY <1>1, <2>4, <2>7
       DEF Asked, Sent, Unanswered, Reply, Heard, Spoken, Answered, driver
  <2>9. Taken' = 1
    <3>1. Len(args') = 0
      BY <1>1
    <3> QED
      BY <2>7, <2>8, <3>1 DEF Taken
  <2>10. DownFramed'
    BY <1>1, <2>1, <2>4, <2>8 DEF DownFramed, driver
  <2>11. Answering'
    BY <1>1, <1>5, <2>1, <2>4, <2>7, <2>8 DEF Answering, driver
  <2>12. UpFramed'
    <3>1. Len(args') = 0 /\ Len(cmd[2]) \in Nat
      BY <1>1, <2>1, LenProperties DEF Commanded
    <3>2. Taken' <= Sent'
      BY <2>1, <2>6, <2>8, <2>9
    <3>3. up' = Between(Asked', Taken', Sent')
      BY <2>6, <2>8, <2>9
    <3> QED
      BY <1>1, <1>5, <2>7, <3>1, <3>2, <3>3 DEF UpFramed, driver
  <2> QED
    BY <1>1, <2>10, <2>11, <2>12 DEF Framed
<1> QED
  BY <1>1, <1>2, <1>3, <1>4, <1>5, ThreadKeeps

LEMMA ServerLengthInv == ASSUME IInv, ServerLength PROVE IInv'
<1> DEFINE l == Head(up).val
<1>1. /\ spc = "length" /\ ServerTakes
      /\ scode' = l /\ lens' = Append(lens, l) /\ spc' = "text" /\ up' = Tail(up)
      /\ UNCHANGED driver
      /\ UNCHANGED <<shell, lines, result, server, refused, short, astray, op, args, sout, db,
                     served, down>>
  BY DEF ServerLength, ends
<1>2. /\ up # <<>> /\ l \in Nat /\ Tail(up) \in Seq(Elements)
      /\ \A i \in DOMAIN Tail(up) : Tail(up)[i] \in Elements
      /\ ~LosesWay(up) /\ Serving
  BY <1>1, TakenFromTyped
<1>3. /\ lens \in Seq(Nat) /\ args \in Seq(Texts) /\ Len(args) \in Nat
      /\ Len(lens) = Len(args) /\ Len(args) < Needed
      /\ \A i \in 1 .. Len(args) : Len(args[i]) = lens[i]
  BY <1>1, LenProperties DEF IInv, WellTyped, Receiving
<1> HIDE DEF l
<1>4. WellTyped'
  <2>1. TypeOK'
    BY <1>1, <1>2 DEF IInv, WellTyped, TypeOK, driver
  <2>2. Receiving'
    <3>1. /\ lens' \in Seq(Nat) /\ Len(lens') = Len(lens) + 1
          /\ lens'[Len(lens) + 1] = l
          /\ \A i \in 1 .. Len(lens) : lens'[i] = lens[i]
      BY <1>1, <1>2, <1>3, AppendProperties
    <3>2. scode' = lens'[Len(lens')] /\ Len(lens') = Len(args') + 1
      BY <1>1, <1>3, <3>1
    <3>3. \A i \in 1 .. Len(args') : Len(args'[i]) = lens'[i]
      BY <1>1, <1>3, <3>1
    <3>4. Needed' = Needed
      BY <1>1 DEF Needed
    <3> QED
      BY <1>1, <1>3, <3>1, <3>2, <3>3, <3>4 DEF Receiving
  <2> QED
    BY <1>1, <1>2, <2>1, <2>2 DEF IInv, WellTyped, driver
<1>5. shell = "typing" => DownLost
  BY <1>1, <1>2, ThreadFacts
<1>6. ASSUME shell = "busy", ~DownLost PROVE Framed'
  <2> DEFINE a == Len(args)
  <2>1. /\ DownFramed /\ Answering /\ (UpLost \/ UpFramed)
        /\ Commanded(cmd) /\ cmd[1] \in {0, 1, 2}
        /\ Len(cmd[2]) = IF cmd[1] = 1 THEN 2 ELSE 1
        /\ Asked \in Seq(Seq(Elements)) /\ Len(Asked) \in {3, 5}
        /\ Sent \in 0 .. Len(Asked)
    BY <1>2, <1>6, ThreadFacts
  <2>2. UpFramed
    BY <1>2, <2>1 DEF UpLost
  <2>3. Unanswered /\ op = cmd[1]
    BY <1>1, <1>6, <2>1 DEF Answering
  <2>4. /\ up = Between(Asked, Taken, Sent) /\ Taken = 1 + 2 * a
        /\ \A i \in 1 .. a : args[i] = cmd[2][i]
    BY <1>1, <1>6, <2>2, <2>3 DEF UpFramed, Taken
  <2>5. a \in {0, 1} /\ a + 1 \in 1 .. Len(cmd[2])
    BY <1>3, <2>1, <2>3 DEF Needed
  <2>6. /\ 1 + 2 * a < Sent /\ l = Len(cmd[2][a + 1])
        /\ up' = Between(Asked, 2 + 2 * a, Sent)
    <3> DEFINE i == 1 + 2 * a
    <3>1. i \in 0 .. 4 /\ i + 1 = 2 + 2 * a /\ 2 * (a + 1) = 2 + 2 * a
      <4> HIDE DEF a
      <4>1. CASE a = 0
        BY <4>1
      <4>2. CASE a = 1
        BY <4>2
      <4> QED
        BY <2>5, <4>1, <4>2
    <3>2. /\ cmd[2][a + 1] \in Texts
          /\ Asked[2 * (a + 1)] = Message(Len(cmd[2][a + 1]))
      BY <2>1, <2>5, RequestMessages DEF Asked
    <3>3. Len(cmd[2][a + 1]) \in Nat
      BY <3>2, MessageTypes
    <3>4. Sent \in Int /\ Sent <= Len(Asked)
      BY <2>1
    <3>5. up = Between(Asked, i, Sent)
      BY <2>4
    <3> HIDE DEF a, i
    <3>6. Asked[i + 1] = Message(Len(cmd[2][a + 1]))
      BY <3>1, <3>2
    <3>7. Asked \in Seq(Seq(Elements)) /\ Between(Asked, i, Sent) # <<>>
      BY <1>2, <2>1, <3>5
    <3>8. /\ i < Sent
          /\ Head(Between(Asked, i, Sent)).val = Len(cmd[2][a + 1])
          /\ Tail(Between(Asked, i, Sent)) = Between(Asked, i + 1, Sent)
      BY <3>1, <3>3, <3>4, <3>6, <3>7, NumberTaken
    <3>9. l = Len(cmd[2][a + 1]) /\ up' = Between(Asked, 2 + 2 * a, Sent)
      BY <1>1, <3>1, <3>5, <3>8 DEF l
    <3> QED
      BY <3>8, <3>9 DEF i
  <2>7. /\ Asked' = Asked /\ Sent' = Sent /\ Unanswered' /\ Reply' = Reply /\ Heard' = Heard
        /\ Spoken' = Spoken /\ Answered' = Answered
    BY <1>1, <2>3
       DEF Asked, Sent, Unanswered, Reply, Heard, Spoken, Answered, driver
  <2>8. Taken' = 2 + 2 * a
    BY <1>1, <2>7 DEF Taken
  <2>9. DownFramed'
    BY <1>1, <2>1, <2>3, <2>7 DEF DownFramed, driver
  <2>10. Answering'
    BY <1>1, <1>6, <2>1, <2>3, <2>7 DEF Answering, driver
  <2>11. UpFramed'
    <3>1. Taken' <= Sent'
      BY <2>1, <2>5, <2>6, <2>7, <2>8
    <3>2. up' = Between(Asked', Taken', Sent')
      BY <2>6, <2>7, <2>8
    <3>3. Len(args') <= Len(cmd[2])
      BY <1>1, <2>5, LenProperties, <2>1
    <3> QED
      BY <1>1, <1>6, <2>4, <2>6, <3>1, <3>2, <3>3 DEF UpFramed, driver
  <2> QED
    BY <1>1, <2>9, <2>10, <2>11 DEF Framed
<1> QED
  BY <1>1, <1>2, <1>4, <1>5, <1>6, ThreadKeeps

(* The text that recv leaves in memory has the length announced for it.    *)
Kept(s, l, n) == Text(SubSeq(s, 1, n)) \o [i \in 1 .. l - n |-> Junk]
LEMMA TextReceived ==
  ASSUME NEW s \in Seq(Elements), NEW l \in Nat, NEW n \in 1 .. l, n <= Len(s),
         NEW got, got = Kept(s, l, n)
  PROVE  /\ got \in Texts /\ Len(got) = l
         /\ n = l => got = Text(SubSeq(s, 1, l))
         /\ SubSeq(s, n + 1, Len(s)) \in Seq(Elements)
<1> DEFINE p == SubSeq(s, 1, n)
           rest == [i \in 1 .. l - n |-> Junk]
<1>1. Len(s) \in Nat /\ \A i \in 1 .. Len(s) : s[i] \in Elements
  BY LenProperties, ElementOfSeq
<1>2. p \in Seq(Elements) /\ Len(p) = n
  BY <1>1, SubSeqProperties
<1>3. Text(p) \in Seq(Nat) /\ Len(Text(p)) = n
  <2>1. DOMAIN p = 1 .. n /\ \A i \in 1 .. n : p[i] \in Elements
    BY <1>2, LenProperties, ElementOfSeq
  <2> HIDE DEF p
  <2>2. \A i \in 1 .. n : p[i].val \in Nat
    BY <2>1 DEF Elements
  <2>3. Text(p) \in [1 .. n -> Nat]
    BY <2>1, <2>2 DEF Text
  <2> QED
    BY <2>3
<1>4. rest \in Seq(Nat) /\ Len(rest) = l - n
  <2> DEFINE k == l - n
  <2>1. rest \in [1 .. k -> Nat] /\ k \in Nat
    BY DEF Junk
  <2> HIDE DEF rest, k
  <2>2. rest \in Seq(Nat) /\ Len(rest) = k
    BY <2>1
  <2> QED
    BY <2>2 DEF k
<1>5. got = Cat(Text(p), rest)
  BY DEF Cat, Kept
<1> HIDE DEF p, rest
<1>6. got \in Seq(Nat) /\ Len(got) = l
  <2>1. got \in Seq(Nat) /\ Len(got) = Len(Text(p)) + Len(rest)
    BY <1>3, <1>4, <1>5, CatElements
  <2> QED
    BY <1>3, <1>4, <2>1
<1>7. got # <<>>
  BY <1>6, EmptySeq
<1>8. n = l => got = Text(p)
  <2> SUFFICES ASSUME n = l PROVE got = Text(p)
    OBVIOUS
  <2>1. rest = <<>>
    BY <1>4, EmptySeq
  <2> QED
    BY <1>3, <1>5, <2>1, CatFacts
<1>9. SubSeq(s, n + 1, Len(s)) \in Seq(Elements)
  <2>1. \A i \in n + 1 .. Len(s) : s[i] \in Elements
    BY <1>1
  <2> QED
    BY <1>1, <2>1, SubSeqProperties
<1> QED
  BY <1>6, <1>7, <1>8, <1>9 DEF Texts, p

LEMMA ServerTextInv == ASSUME IInv, ServerText PROVE IInv'
<1>1. PICK n \in Parts(up, scode) :
        LET got == Text(SubSeq(up, 1, n)) \o [i \in 1 .. scode - n |-> Junk] IN
        /\ args' = Append(args, got)
        /\ short' = (short \/ n < scode)
        /\ up' = SubSeq(up, n + 1, Len(up))
  BY DEF ServerText
<1> DEFINE got == Kept(up, scode, n)
           a == Len(args)
<1>2. /\ Serving /\ spc = "text"
      /\ args' = Append(args, got) /\ short' = (short \/ n < scode)
      /\ up' = SubSeq(up, n + 1, Len(up))
      /\ spc' = IF op = 1 /\ a = 0 THEN "length" ELSE "call"
      /\ UNCHANGED driver
      /\ UNCHANGED <<shell, lines, result, server, refused, astray, scode, op, lens, sout, db,
                     served, down>>
  BY <1>1 DEF ServerText, Kept
<1>3. /\ lens \in Seq(Nat) /\ args \in Seq(Texts) /\ a \in Nat
      /\ Len(lens) = a + 1 /\ a < Needed /\ scode = lens[a + 1] /\ scode \in Nat
      /\ \A i \in 1 .. a : Len(args[i]) = lens[i]
  <2>1. /\ lens \in Seq(Nat) /\ args \in Seq(Texts) /\ a \in Nat
        /\ Len(lens) = a + 1 /\ a < Needed /\ scode = lens[Len(lens)]
        /\ \A i \in 1 .. a : Len(args[i]) = lens[i]
    BY <1>2, LenProperties DEF IInv, WellTyped, Receiving
  <2>2. lens[a + 1] \in Nat
    <3>1. a + 1 \in 1 .. Len(lens)
      BY <2>1
    <3> QED
      BY <2>1, <3>1, ElementOfSeq
  <2> QED
    BY <2>1, <2>2
<1>4. up \in Seq(Elements) /\ n \in 1 .. scode /\ n <= Len(up) /\ Len(up) \in Nat
  <2>1. up \in Seq(Elements) /\ Len(up) \in Nat
    BY LenProperties DEF IInv, WellTyped
  <2> QED
    BY <1>3, <2>1 DEF Parts
<1>5. /\ got \in Texts /\ Len(got) = scode
      /\ n = scode => got = Text(SubSeq(up, 1, scode))
      /\ SubSeq(up, n + 1, Len(up)) \in Seq(Elements)
  BY <1>3, <1>4, TextReceived
<1> HIDE DEF got
<1>6. /\ args' \in Seq(Texts) /\ Len(args') = a + 1 /\ args'[a + 1] = got
      /\ \A i \in 1 .. a : args'[i] = args[i]
  BY <1>2, <1>3, <1>5, AppendProperties
<1>7. /\ spc' = "length" <=> op = 1 /\ a = 0
      /\ spc' \in {"length", "call"}
      /\ spc' = "length" => a + 1 < Needed
      /\ spc' = "call" => a + 1 = Needed
  <2>1. CASE op = 1
    BY <1>2, <1>3, <2>1 DEF Needed
  <2>2. CASE op # 1
    BY <1>2, <1>3, <2>2 DEF Needed
  <2> QED
    BY <2>1, <2>2
<1> HIDE DEF a
<1>8. WellTyped'
  <2>1. \A i \in DOMAIN up' : up'[i] \in Elements
    BY <1>2, <1>5, LenProperties, ElementOfSeq
  <2>2. Needed' = Needed
    BY <1>2 DEF Needed
  <2>3. TypeOK'
    <3>1. spc' = "call" => Len(lens') = Len(args') /\ Len(args') = IF op' = 1 THEN 2 ELSE 1
      BY <1>2, <1>3, <1>6, <1>7 DEF Needed
    <3> QED
      BY <1>2, <1>7, <2>1, <3>1 DEF IInv, WellTyped, TypeOK, driver
  <2>4. Receiving'
    <3>1. \A i \in 1 .. Len(args') : Len(args'[i]) = lens'[i]
      <4> SUFFICES ASSUME NEW i \in 1 .. a + 1 PROVE Len(args'[i]) = lens[i]
        BY <1>2, <1>6
      <4>1. CASE i = a + 1
        BY <1>3, <1>5, <1>6, <4>1
      <4>2. CASE i # a + 1
        <5>1. i \in 1 .. a
          BY <1>3, <4>2
        <5> QED
          BY <1>3, <1>6, <5>1
      <4> QED
        BY <4>1, <4>2
    <3>2. spc' = "length" => Len(lens') = Len(args') /\ Len(args') < Needed'
      BY <1>2, <1>3, <1>6, <1>7, <2>2
    <3> QED
      BY <1>2, <1>3, <1>6, <1>7, <3>1, <3>2 DEF Receiving
  <2> QED
    BY <1>2, <1>5, <2>3, <2>4 DEF IInv, WellTyped, driver
<1>9. shell = "typing" => DownLost
  BY <1>2, ThreadFacts
<1>10. ASSUME shell = "busy", ~DownLost PROVE Framed'
  <2>1. /\ DownFramed /\ Answering /\ (UpLost \/ UpFramed)
        /\ Commanded(cmd) /\ cmd[1] \in {0, 1, 2}
        /\ Len(cmd[2]) = (IF cmd[1] = 1 THEN 2 ELSE 1)
        /\ Asked \in Seq(Seq(Elements)) /\ Len(Asked) = 2 * Len(cmd[2]) + 1
        /\ Sent \in 0 .. Len(Asked) /\ Len(cout) = Len(Asked) - Sent
    BY <1>2, <1>10, ThreadFacts
  <2>2. UpFramed
    BY <1>2, <1>10, <2>1 DEF UpLost
  <2>3. Unanswered /\ op = cmd[1] /\ cpc \in {"send", "code"}
    BY <1>2, <1>10, <2>1 DEF Answering
  <2>4. /\ up = Between(Asked, Taken, Sent) /\ Taken = 2 + 2 * a
        /\ \A i \in 1 .. a : args[i] = cmd[2][i]
        /\ scode = Len(cmd[2][a + 1])
    BY <1>2, <1>10, <2>2, <2>3 DEF UpFramed, Taken, a
  <2>5. Needed = Len(cmd[2]) /\ Len(cmd[2]) \in {1, 2} /\ a \in {0, 1} /\ a + 1 \in 1 .. Len(cmd[2])
    <3>1. Needed = Len(cmd[2]) /\ Len(cmd[2]) \in {1, 2}
      BY <2>1, <2>3 DEF Needed
    <3>2. CASE Needed = 1
      BY <1>3, <3>1, <3>2
    <3>3. CASE Needed = 2
      BY <1>3, <3>1, <3>3
    <3> QED
      BY <3>1, <3>2, <3>3
  <2> DEFINE t == cmd[2][a + 1]
             i == 2 + 2 * a
             r == Between(Asked, i + 1, Sent)
  <2>6. /\ i \in 0 .. 4 /\ i + 1 = 2 * (a + 1) + 1 /\ i + 1 = 1 + 2 * (a + 1)
    <3>1. CASE a = 0
      BY <3>1
    <3>2. CASE a = 1
      BY <3>2
    <3> QED
      BY <2>5, <3>1, <3>2
  <2>7. t \in Texts /\ Asked[i + 1] = Chars(t) /\ scode = Len(t)
    BY <2>1, <2>4, <2>5, <2>6, RequestMessages, ZenonT(60) DEF Asked
  <2>8. up = Between(Asked, i, Sent) /\ up # <<>>
    <3>1. up # <<>>
      BY <1>4, EmptySeq
    <3> QED
      BY <2>4, <3>1
  <2>9. i < Sent /\ up = Cat(Chars(t), r) /\ r \in Seq(Elements)
    <3> HIDE DEF i, t
    <3>1. Sent \in Int /\ Sent <= Len(Asked) /\ Between(Asked, i, Sent) # <<>>
      BY <2>1, <2>8
    <3>2. /\ i < Sent
          /\ Between(Asked, i, Sent) = Cat(Asked[i + 1], Between(Asked, i + 1, Sent))
          /\ Between(Asked, i + 1, Sent) \in Seq(Elements)
      BY <2>1, <2>6, <3>1, MessageArrives
    <3> QED
      BY <2>7, <2>8, <3>2
  <2> HIDE DEF t, i, r
  <2>10. /\ SubSeq(up, 1, scode) = Chars(t)
         /\ SubSeq(up, scode + 1, Len(up)) = r
         /\ \A k \in 1 .. scode - 1 : LosesWay(SubSeq(up, k + 1, Len(up)))
    <3>1. /\ SubSeq(up, 1, Len(t)) = Chars(t)
          /\ SubSeq(up, Len(t) + 1, Len(up)) = r
          /\ \A k \in 1 .. Len(t) - 1 : LosesWay(SubSeq(up, k + 1, Len(up)))
      BY ONLY <2>7, <2>9, TextFirst
    <3> QED
      BY <2>7, <3>1
  <2>11. /\ Asked' = Asked /\ Sent' = Sent /\ Unanswered' /\ Reply' = Reply /\ Heard' = Heard
         /\ Spoken' = Spoken /\ cmd' = cmd /\ cpc' = cpc
    BY <1>2, <1>7, <2>3
       DEF Asked, Sent, Unanswered, Reply, Heard, Spoken, driver
  <2>12. DownFramed'
    BY <1>2, <2>1, <2>3, <2>11 DEF DownFramed, driver
  <2>13. Answering'
    BY <1>2, <1>7, <1>10, <2>1, <2>3, <2>11 DEF Answering, driver
  <2>14. i + 1 <= Sent /\ (spc' = "call" => i + 1 = Len(Asked))
    <3>1. spc' = "call" => a + 1 = Len(cmd[2])
      BY <1>7, <2>5
    <3>2. i \in Int /\ Sent \in Int
      BY <2>1, <2>6
    <3> QED
      BY <2>1, <2>6, <2>9, <3>1, <3>2
  <2>15. CASE n < scode
    <3>1. short' /\ LosesWay(up')
      <4>1. n \in 1 .. scode - 1
        BY <1>3, <1>4, <2>15
      <4> QED
        BY <1>2, <2>10, <2>15, <4>1
    <3>2. spc' = "call" => cpc = "code"
      <4> SUFFICES ASSUME spc' = "call" PROVE cpc # "send"
        BY <2>3
      <4>1. Len(cout) = 0
        <5>1. Sent = Len(Asked)
          BY <2>1, <2>14
        <5> QED
          BY <2>1, <5>1
      <4>2. cout = <<>>
        BY <4>1, EmptySeq DEF IInv, WellTyped
      <4> QED
        BY <4>2 DEF IInv, WellTyped, TypeOK
    <3> QED
      BY <1>2, <1>7, <2>11, <2>12, <2>13, <3>1, <3>2 DEF Framed, UpLost
  <2>16. CASE n = scode
    <3>1. got = t /\ up' = r
      <4>1. Text(Chars(t)) = t
        BY <2>7, CharsText DEF Texts
      <4> QED
        BY <1>2, <1>5, <2>10, <2>16, <4>1
    <3>2. Taken' = i + 1
      <4>1. CASE spc' = "length"
        <5>1. Len(args') = a + 1
          BY <1>6
        <5> QED
          BY <2>6, <2>11, <4>1, <5>1 DEF Taken
      <4>2. CASE spc' = "call"
        BY <2>11, <2>14, <4>2 DEF Taken
      <4> QED
        BY <1>7, <4>1, <4>2
    <3>3. \A k \in 1 .. Len(args') : args'[k] = cmd'[2][k]
      <4> SUFFICES ASSUME NEW k \in 1 .. a + 1 PROVE args'[k] = cmd[2][k]
        BY <1>6, <2>11
      <4>1. CASE k = a + 1
        BY <1>6, <3>1, <4>1 DEF t
      <4>2. CASE k # a + 1
        <5>1. k \in 1 .. a
          BY <1>3, <4>2
        <5> QED
          BY <1>6, <2>4, <5>1
      <4> QED
        BY <4>1, <4>2
    <3>4. Len(args') <= Len(cmd'[2])
      BY <1>6, <2>5, <2>11
    <3>5. up' = Between(Asked', Taken', Sent') /\ Taken' <= Sent'
      BY <2>11, <2>14, <3>1, <3>2 DEF r
    <3>6. UpFramed'
      BY <1>2, <1>7, <1>10, <2>11, <3>3, <3>4, <3>5 DEF UpFramed
    <3> QED
      BY <2>12, <2>13, <3>6 DEF Framed
  <2> QED
    BY <1>3, <1>4, <2>15, <2>16
<1>11. short => short'
  BY <1>2
<1> QED
  BY <1>2, <1>8, <1>9, <1>10, <1>11, ThreadKeeps

(* What a call leaves in the store and has to be sent.                     *)
LEMMA CallOutcome ==
  ASSUME IInv, ServerCall
  PROVE  /\ spc = "call" /\ spc' = "answer" /\ op \in {0, 1, 2}
         /\ Serving /\ UNCHANGED driver
         /\ UNCHANGED <<shell, lines, result, server, refused, short, astray, scode, op, args,
                        lens, up, down>>
         /\ Len(args) = Needed /\ Len(lens) = Needed
         /\ args \in Seq(Texts) /\ lens \in Seq(Nat)
         /\ \A k \in DOMAIN db' : /\ k \in Texts /\ Len(k) <= MaxStrLen
                                  /\ db'[k] \in Texts /\ Len(db'[k]) <= MaxStrLen
         /\ served'.op = op /\ served'.args = args
         /\ sout' = ReplyOf(served')
         /\ served'.said \in Outcomes(op)
         /\ served'.value \in Seq(Nat)
         /\ served'.said = "value" <=> served'.value # <<>>
<1>1. /\ spc = "call" /\ spc' = "answer" /\ Serving /\ UNCHANGED driver
      /\ UNCHANGED <<shell, lines, result, server, refused, short, astray, scode, op, args,
                     lens, up, down>>
      /\ ServerGet \/ ServerSet \/ ServerDel
  BY DEF ServerCall, ends
<1>2. /\ Len(args) = Needed /\ Len(lens) = Needed
      /\ args \in Seq(Texts) /\ lens \in Seq(Nat)
      /\ \A i \in 1 .. Needed : /\ args[i] \in Texts
                                /\ Len(args[i]) = lens[i]
  <2>1. /\ Len(args) = Needed /\ Len(lens) = Needed
        /\ args \in Seq(Texts) /\ lens \in Seq(Nat)
        /\ \A i \in 1 .. Len(args) : Len(args[i]) = lens[i]
    BY <1>1 DEF IInv, WellTyped, TypeOK, Receiving, Needed
  <2>2. \A i \in 1 .. Len(args) : args[i] \in Texts
    BY <2>1, ElementOfSeq
  <2> QED
    BY <2>1, <2>2
<1>3. \A k \in DOMAIN db : /\ k \in Texts /\ Len(k) <= MaxStrLen
                           /\ db[k] \in Texts /\ Len(db[k]) <= MaxStrLen
  BY DEF IInv, WellTyped, TypeOK
<1>4. <<>> \in Seq(Nat)
  BY EmptySeq
<1> DEFINE Right(said, value, messages) ==
             /\ served' = [op |-> op, args |-> args, said |-> said, value |-> value]
             /\ sout' = messages
             /\ messages = ReplyOf([op |-> op, args |-> args, said |-> said, value |-> value])
             /\ said \in Outcomes(op) /\ value \in Seq(Nat)
             /\ said = "value" <=> value # <<>>
<1>5. ASSUME NEW said, NEW value, NEW messages, Right(said, value, messages), op \in {0, 1, 2},
             \A k \in DOMAIN db' : /\ k \in Texts /\ Len(k) <= MaxStrLen
                                   /\ db'[k] \in Texts /\ Len(db'[k]) <= MaxStrLen
      PROVE  /\ op \in {0, 1, 2}
             /\ \A k \in DOMAIN db' : /\ k \in Texts /\ Len(k) <= MaxStrLen
                                      /\ db'[k] \in Texts /\ Len(db'[k]) <= MaxStrLen
             /\ served'.op = op /\ served'.args = args
             /\ sout' = ReplyOf(served')
             /\ served'.said \in Outcomes(op)
             /\ served'.value \in Seq(Nat)
             /\ served'.said = "value" <=> served'.value # <<>>
  BY <1>5
<1>6. CASE \E code, said : Refuse(code, said) /\ \/ code = 0 /\ said = "not_found" /\ op = 0
                                                 \/ code = 2 /\ said = "key_too_long" /\ op \in {0, 1, 2}
                                                 \/ code = 3 /\ said = "value_too_long" /\ op = 1
  <2>1. PICK code, said : Refuse(code, said) /\ \/ code = 0 /\ said = "not_found" /\ op = 0
                                                \/ code = 2 /\ said = "key_too_long" /\ op \in {0, 1, 2}
                                                \/ code = 3 /\ said = "value_too_long" /\ op = 1
    BY <1>6
  <2>2. Right(said, <<>>, <<Message(code)>>)
    BY <1>4, <2>1 DEF Refuse, Answers, NoText, ReplyOf, Outcomes
  <2>3. db' = db /\ op \in {0, 1, 2}
    BY <2>1 DEF Refuse
  <2> HIDE DEF Right
  <2> QED
    BY <1>1, <1>2, <1>3, <1>5, <2>2, <2>3
<1>7. CASE /\ ServerGet /\ args[1] \in DOMAIN db
           /\ \E value : /\ value = db[args[1]] /\ db' = db
                         /\ Answers(<<Message(1), Message(Len(value)), Chars(value)>>, "value", value)
  <2>1. PICK value : /\ value = db[args[1]] /\ db' = db
                     /\ Answers(<<Message(1), Message(Len(value)), Chars(value)>>, "value", value)
    BY <1>7
  <2>2. op = 0
    BY <1>7 DEF ServerGet
  <2>3. value \in Seq(Nat) /\ value # <<>>
    BY <1>3, <1>7, <2>1 DEF Texts
  <2>4. Right("value", value, <<Message(1), Message(Len(value)), Chars(value)>>)
    BY <2>1, <2>2, <2>3 DEF Answers, ReplyOf, Outcomes
  <2> HIDE DEF Right
  <2> QED
    BY <1>1, <1>2, <1>3, <1>5, <2>1, <2>2, <2>4
<1>8. CASE /\ ServerSet /\ Fits(1) /\ Fits(2) /\ Answers(<<Message(1)>>, "OK", NoText)
           /\ db' = [k \in DOMAIN db \cup {args[1]} |-> IF k = args[1] THEN args[2] ELSE db[k]]
  <2>1. op = 1 /\ Needed = 2
    BY <1>8 DEF ServerSet, Needed
  <2>2. /\ args[1] \in Texts /\ Len(args[1]) <= MaxStrLen
        /\ args[2] \in Texts /\ Len(args[2]) <= MaxStrLen
    BY <1>2, <1>8, <2>1 DEF Fits
  <2>3. ASSUME NEW k \in DOMAIN db'
        PROVE  /\ k \in Texts /\ Len(k) <= MaxStrLen
               /\ db'[k] \in Texts /\ Len(db'[k]) <= MaxStrLen
    <3>1. k = args[1] \/ (k # args[1] /\ k \in DOMAIN db)
      BY <1>8, <2>3
    <3>2. db'[k] = IF k = args[1] THEN args[2] ELSE db[k]
      BY <1>8, <2>3
    <3> QED
      BY <1>3, <2>2, <3>1, <3>2
  <2>4. Right("OK", <<>>, <<Message(1)>>)
    BY <1>4, <1>8, <2>1 DEF Answers, NoText, ReplyOf, Outcomes
  <2> HIDE DEF Right
  <2> QED
    BY <1>1, <1>2, <1>5, <2>1, <2>3, <2>4
<1>9. CASE /\ ServerDel /\ Answers(<<Message(1)>>, "OK", NoText)
           /\ db' = [k \in DOMAIN db \ {args[1]} |-> db[k]]
  <2>1. op = 2
    BY <1>9 DEF ServerDel
  <2>2. ASSUME NEW k \in DOMAIN db'
        PROVE  /\ k \in Texts /\ Len(k) <= MaxStrLen
               /\ db'[k] \in Texts /\ Len(db'[k]) <= MaxStrLen
    <3>1. k \in DOMAIN db /\ db'[k] = db[k]
      BY <1>9, <2>2
    <3> QED
      BY <1>3, <3>1
  <2>3. Right("OK", <<>>, <<Message(1)>>)
    BY <1>4, <1>9, <2>1 DEF Answers, NoText, ReplyOf, Outcomes
  <2> HIDE DEF Right
  <2> QED
    BY <1>1, <1>2, <1>5, <2>1, <2>2, <2>3
<1>10. ServerGet => \/ Refuse(2, "key_too_long") /\ op = 0
                    \/ Refuse(0, "not_found") /\ op = 0
                    \/ /\ args[1] \in DOMAIN db
                       /\ \E value : /\ value = db[args[1]] /\ db' = db
                                     /\ Answers(<<Message(1), Message(Len(value)), Chars(value)>>,
                                                "value", value)
  BY DEF ServerGet
<1>11. ServerSet => \/ Refuse(2, "key_too_long") /\ op = 1
                    \/ Refuse(3, "value_too_long") /\ op = 1
                    \/ /\ Fits(1) /\ Fits(2) /\ Answers(<<Message(1)>>, "OK", NoText)
                       /\ db' = [k \in DOMAIN db \cup {args[1]} |->
                                   IF k = args[1] THEN args[2] ELSE db[k]]
  BY DEF ServerSet
<1>12. ServerDel => \/ Refuse(2, "key_too_long") /\ op = 2
                    \/ /\ Answers(<<Message(1)>>, "OK", NoText)
                       /\ db' = [k \in DOMAIN db \ {args[1]} |-> db[k]]
  BY DEF ServerDel
<1> QED
  BY <1>1, <1>6, <1>7, <1>8, <1>9, <1>10, <1>11, <1>12

LEMMA ServerCallInv == ASSUME IInv, ServerCall PROVE IInv'
<1> DEFINE Stored(d) == \A k \in DOMAIN d : /\ k \in Texts /\ Len(k) <= MaxStrLen
                                             /\ d[k] \in Texts /\ Len(d[k]) <= MaxStrLen
<1>1. /\ spc = "call" /\ spc' = "answer" /\ op \in {0, 1, 2}
      /\ Serving /\ UNCHANGED driver
      /\ UNCHANGED <<shell, lines, result, server, refused, short, astray, scode, op, args,
                     lens, up, down>>
      /\ Len(args) = Needed /\ Len(lens) = Needed
      /\ args \in Seq(Texts) /\ lens \in Seq(Nat)
      /\ Stored(db')
      /\ served'.op = op /\ served'.args = args
      /\ sout' = ReplyOf(served')
      /\ served'.said \in Outcomes(op)
      /\ served'.value \in Seq(Nat)
      /\ served'.said = "value" <=> served'.value # <<>>
  BY CallOutcome
<1>2. sout' \in Seq(Messages) /\ sout' # <<>> /\ Len(sout') \in Nat
  <2>1. served'.said = "value" \/ served'.said \in {"not_found", "OK", "key_too_long", "value_too_long"}
    BY <1>1 DEF Outcomes
  <2>2. CASE served'.said = "value"
    <3>1. served'.value \in Texts
      BY <1>1, <2>2 DEF Texts
    <3>2. sout' = <<Message(1), Message(Len(served'.value)), Chars(served'.value)>>
      BY <1>1, <2>2 DEF ReplyOf
    <3>3. /\ Message(1) \in Messages /\ Message(Len(served'.value)) \in Messages
          /\ Chars(served'.value) \in Messages
      BY <3>1, MessageTypes
    <3> QED
      BY <3>2, <3>3
  <2>3. CASE served'.said \in {"not_found", "OK", "key_too_long", "value_too_long"}
    <3>1. PICK n \in Nat : sout' = <<Message(n)>>
      BY <1>1, <2>3 DEF ReplyOf
    <3>2. Message(n) \in Messages
      BY MessageTypes
    <3> QED
      BY <3>1, <3>2
  <2> QED
    BY <2>1, <2>2, <2>3
<1>3. WellTyped'
  <2>1. TypeOK'
    BY <1>1, <1>2 DEF IInv, WellTyped, TypeOK, driver
  <2>2. Receiving'
    BY <1>1 DEF Receiving
  <2> QED
    BY <1>1, <1>2, <2>1, <2>2 DEF IInv, WellTyped, driver
<1> HIDE DEF Stored
<1>4. shell = "typing" => DownLost
  BY <1>1, ThreadFacts
<1>5. ASSUME shell = "busy", ~DownLost PROVE Framed'
  <2>1. /\ DownFramed /\ Answering /\ (UpLost \/ UpFramed)
        /\ Commanded(cmd) /\ cmd[1] \in {0, 1, 2}
        /\ Len(cmd[2]) = (IF cmd[1] = 1 THEN 2 ELSE 1)
        /\ Asked \in Seq(Seq(Elements)) /\ Len(Asked) \in {3, 5}
        /\ Sent \in 0 .. Len(Asked) /\ Len(cout) = Len(Asked) - Sent
    BY <1>1, <1>5, ThreadFacts
  <2>2. Unanswered /\ op = cmd[1] /\ cpc \in {"send", "code"}
    BY <1>1, <1>5, <2>1 DEF Answering
  <2>3. Needed = Len(cmd[2])
    BY <2>1, <2>2 DEF Needed
  <2>4. UpFramed => Taken = Len(Asked) /\ up = Between(Asked, Taken, Sent) /\ Taken <= Sent
    BY <1>1, <1>5, <2>2 DEF UpFramed, Taken
  <2>5. cpc = "code"
    <3>1. CASE UpLost
      BY <1>1, <1>5, <3>1 DEF UpLost
    <3>2. CASE UpFramed
      <4>1. Len(cout) = 0
        <5>1. Sent = Len(Asked)
          BY <2>1, <2>4, <3>2
        <5> QED
          BY <2>1, <5>1
      <4>2. cout = <<>>
        BY <4>1, EmptySeq DEF IInv, WellTyped
      <4> QED
        BY <2>2, <4>2 DEF IInv, WellTyped, TypeOK
    <3> QED
      BY <2>1, <3>1, <3>2
  <2>6. ~short => args = cmd[2]
    <3> SUFFICES ASSUME ~short PROVE args = cmd[2]
      OBVIOUS
    <3>1. UpFramed
      BY <2>1 DEF UpLost
    <3>2. \A i \in 1 .. Len(args) : args[i] = cmd[2][i]
      BY <1>1, <1>5, <2>2, <3>1 DEF UpFramed
    <3>3. cmd[2] \in Seq(Texts) /\ Len(args) = Len(cmd[2])
      BY <1>1, <2>1, <2>3 DEF Commanded
    <3> QED
      BY <1>1, <3>2, <3>3, SeqEqual
  <2>7. down = <<>>
    <3>1. Reply = <<>>
      BY <2>2 DEF Unanswered, Nobody, Reply, ReplyOf
    <3>2. Spoken = 0 /\ Heard = 0
      <4>1. Len(Reply) = 0
        BY <3>1
      <4> QED
        BY <1>1, <2>5, <4>1 DEF Spoken, Heard
    <3>3. Between(Reply, Heard, Spoken) = <<>>
      BY <3>2, BetweenNone
    <3> QED
      BY <1>5, <2>1, <3>3 DEF DownFramed
  <2>8. Reply' = sout' /\ Spoken' = 0 /\ Heard' = 0 /\ cmd' = cmd /\ cpc' = "code"
    <3>1. Reply' = sout'
      BY <1>1 DEF Reply
    <3>2. Spoken' = Len(Reply') - Len(sout')
      BY <1>1 DEF Spoken
    <3>3. cmd' = cmd /\ cpc' = "code"
      BY <1>1, <2>5 DEF driver
    <3> QED
      BY <1>2, <3>1, <3>2, <3>3 DEF Heard
  <2>9. ~Unanswered'
    BY <1>1 DEF Unanswered, Nobody
  <2>10. Answered'
    BY <1>1, <2>2, <2>6, <2>8 DEF Answered
  <2>11. DownFramed'
    <3>1. Between(Reply', Heard', Spoken') = <<>>
      BY <2>8, BetweenNone
    <3> QED
      BY <1>1, <1>5, <2>7, <2>8, <2>10, <3>1 DEF DownFramed
  <2>12. Answering'
    <3>1. \A i \in 1 .. Len(sout') : sout'[i] = Reply'[Spoken' + i]
      BY <1>2, <2>8
    <3> QED
      BY <1>1, <1>2, <1>5, <2>2, <2>8, <2>9, <3>1 DEF Answering
  <2>13. UpLost => UpLost'
    BY <1>1 DEF UpLost
  <2>14. UpFramed => UpFramed'
    <3> SUFFICES ASSUME UpFramed PROVE UpFramed'
      OBVIOUS
    <3>1. Asked' = Asked /\ Sent' = Sent
      BY <1>1 DEF Asked, Sent, driver
    <3>2. Taken' = Taken
      BY <2>4, <2>9, <3>1 DEF Taken
    <3> QED
      BY <1>1, <1>5, <2>4, <2>9, <3>1, <3>2 DEF UpFramed
  <2> QED
    BY <2>1, <2>11, <2>12, <2>13, <2>14 DEF Framed
<1> QED
  BY <1>1, <1>3, <1>4, <1>5, ThreadKeeps

LEMMA ServerSendInv == ASSUME IInv, ServerSend PROVE IInv'
<1> DEFINE m == Head(sout)
<1>1. /\ spc = "answer" /\ Serving
      /\ down' = Cat(down, m) /\ sout' = Tail(sout)
      /\ spc' = IF Len(sout) > 1 THEN "answer" ELSE IF op = 3 THEN "done" ELSE "code"
      /\ UNCHANGED driver
      /\ UNCHANGED <<shell, lines, result, server, refused, short, astray, op, args, lens, db,
                     served, up>>
  BY DEF ServerSend, ends, Cat
<1>2. /\ sout \in Seq(Messages) /\ sout # <<>> /\ Len(sout) \in Nat \ {0}
      /\ m \in Messages /\ m \in Seq(Elements) /\ m = sout[1]
      /\ sout' \in Seq(Messages) /\ Len(sout') = Len(sout) - 1
      /\ \A i \in 1 .. Len(sout') : sout'[i] = sout[i + 1]
  <2>1. sout \in Seq(Messages) /\ sout # <<>>
    BY <1>1 DEF IInv, WellTyped, TypeOK
  <2>2. m \in Messages /\ Tail(sout) \in Seq(Messages) /\ Len(Tail(sout)) = Len(sout) - 1
        /\ \A i \in 1 .. Len(Tail(sout)) : Tail(sout)[i] = sout[i + 1]
    BY <2>1, HeadTailProperties
  <2>3. Len(sout) \in Nat \ {0}
    BY <2>1, EmptySeq
  <2>4. m = sout[1]
    BY <2>1
  <2> QED
    BY <1>1, <2>1, <2>2, <2>3, <2>4 DEF Messages
<1> HIDE DEF m
<1>3. down \in Seq(Elements) /\ down' \in Seq(Elements)
  BY <1>1, <1>2, CatFacts DEF IInv, WellTyped
<1>4. WellTyped'
  <2>1. \A i \in DOMAIN down' : down'[i] \in Elements
    BY <1>3, LenProperties, ElementOfSeq
  <2>2. spc' = "answer" => sout' # <<>>
    <3> SUFFICES ASSUME spc' = "answer" PROVE Len(sout') # 0
      BY <1>2
    <3> QED
      BY <1>1, <1>2
  <2>3. TypeOK'
    BY <1>1, <2>1, <2>2 DEF IInv, WellTyped, TypeOK, driver
  <2>4. Receiving'
    BY <1>1 DEF IInv, WellTyped, Receiving
  <2> QED
    BY <1>1, <1>2, <1>3, <2>3, <2>4 DEF IInv, WellTyped, driver
<1>5. shell = "typing" => DownLost
  BY <1>1, ThreadFacts
<1>6. ASSUME shell = "busy", ~DownLost PROVE Framed'
  <2>1. /\ DownFramed /\ Answering /\ (UpLost \/ UpFramed)
        /\ Commanded(cmd) /\ cmd[1] \in {0, 1, 2}
    BY <1>1, <1>6, ThreadFacts
  <2>2. /\ ~Unanswered /\ op = cmd[1] /\ Heard <= Spoken /\ Len(sout) <= Len(Reply)
        /\ sout[1] = Reply[Spoken + 1]
        /\ \A i \in 1 .. Len(sout) : sout[i] = Reply[Spoken + i]
    <3>1. 1 \in 1 .. Len(sout)
      BY <1>2
    <3> QED
      BY <1>1, <1>6, <2>1, <3>1 DEF Answering
  <2>3. spc' = IF Len(sout) > 1 THEN "answer" ELSE "code"
    BY <1>1, <2>1, <2>2
  <2>4. Reply \in Seq(Messages) /\ Reply \in Seq(Seq(Elements)) /\ Len(Reply) \in {0, 1, 3}
    BY <1>6, <2>1, ReplyMessages, MessagesAreSequences
  <2>5. Spoken = Len(Reply) - Len(sout) /\ Spoken \in 0 .. 4 /\ Spoken < Len(Reply) /\ Heard \in Nat
    <3>1. Spoken = Len(Reply) - Len(sout)
      BY <1>1 DEF Spoken
    <3>2. Heard \in Nat
      BY DEF Heard
    <3>3. CASE Len(Reply) = 0
      BY <1>2, <2>2, <3>3
    <3>4. CASE Len(Reply) = 1
      BY <1>2, <2>2, <3>1, <3>2, <3>4
    <3>5. CASE Len(Reply) = 3
      BY <1>2, <2>2, <3>1, <3>2, <3>5
    <3> QED
      BY <2>4, <3>3, <3>4, <3>5
  <2>6. /\ Reply' = Reply /\ Heard' = Heard /\ ~Unanswered' /\ Answered' = Answered
        /\ Asked' = Asked /\ Sent' = Sent /\ cmd' = cmd /\ cpc' = cpc
    BY <1>1, <2>2 DEF Reply, Heard, Unanswered, Answered, Asked, Sent, driver
  <2>7. Spoken' = Spoken + 1
    <3>1. CASE Len(sout) > 1
      <4>1. Spoken' = Len(Reply') - Len(sout')
        BY <2>3, <3>1 DEF Spoken
      <4>2. Len(Reply) \in Int
        BY <2>4
      <4> QED
        BY <1>2, <2>5, <2>6, <4>1, <4>2
    <3>2. CASE ~(Len(sout) > 1)
      <4>1. Spoken' = Len(Reply') - 0
        BY <2>3, <3>2 DEF Spoken
      <4>2. Len(sout) = 1 /\ Len(Reply) \in Int
        BY <1>2, <2>4, <3>2
      <4> QED
        BY <2>5, <2>6, <4>1, <4>2
    <3> QED
      BY <3>1, <3>2
  <2>8. down' = Between(Reply', Heard', Spoken')
    <3>1. down = Between(Reply, Heard, Spoken)
      BY <1>6, <2>1 DEF DownFramed
    <3>2. Between(Reply, Heard, Spoken + 1) = Cat(Between(Reply, Heard, Spoken), Reply[Spoken + 1])
      BY <2>2, <2>4, <2>5, BetweenLast
    <3> QED
      BY <1>1, <1>2, <2>2, <2>6, <2>7, <3>1, <3>2
  <2>9. DownFramed'
    <3>1. /\ Answered /\ cpc # "send"
          /\ cpc \in {"length", "text"} => cmd[1] = 0 /\ (Spoken >= 1 => served.said = "value")
          /\ cpc = "text" /\ Spoken >= 2 => ccode = Len(served.value)
      BY <1>6, <2>1, <2>2 DEF DownFramed
    <3>2. cpc \in {"length", "text"} => Spoken >= 1
      <4>1. cpc \in {"length", "text"} => Heard \in {1, 2}
        BY DEF Heard
      <4> QED
        BY <2>2, <2>5, <4>1
    <3>3. cpc = "text" => Spoken >= 2
      <4>1. cpc = "text" => Heard = 2
        BY DEF Heard
      <4> QED
        BY <2>2, <2>5, <4>1
    <3> QED
      BY <1>1, <1>6, <2>6, <2>8, <3>1, <3>2, <3>3 DEF DownFramed, driver
  <2>10. Answering'
    <3>1. Heard' <= Spoken'
      BY <2>2, <2>5, <2>6, <2>7
    <3>2. ASSUME spc' = "answer" PROVE \A i \in 1 .. Len(sout') : sout'[i] = Reply'[Spoken' + i]
      <4> SUFFICES ASSUME NEW i \in 1 .. Len(sout') PROVE sout'[i] = Reply'[Spoken' + i]
        OBVIOUS
      <4>1. i + 1 \in 1 .. Len(sout)
        BY <1>2
      <4>2. sout[i + 1] = Reply[Spoken + (i + 1)]
        BY <2>2, <4>1
      <4>3. Spoken + (i + 1) = Spoken' + i
        BY <2>5, <2>7
      <4> QED
        BY <1>2, <2>6, <4>2, <4>3
    <3>3. Len(sout') <= Len(Reply')
      BY <1>2, <2>2, <2>4, <2>6, LenProperties
    <3>4. spc' \in {"answer", "code"}
      BY <2>3
    <3> QED
      BY <1>1, <1>6, <2>2, <2>6, <3>1, <3>2, <3>3, <3>4 DEF Answering
  <2>11. UpLost => UpLost'
    BY <1>1, <2>3 DEF UpLost
  <2>12. UpFramed => UpFramed'
    <3>1. Taken' = Taken
      BY <2>2, <2>6 DEF Taken
    <3> QED
      BY <1>1, <1>6, <2>2, <2>6, <3>1 DEF UpFramed
  <2> QED
    BY <2>1, <2>9, <2>10, <2>11, <2>12 DEF Framed
<1> QED
  BY <1>1, <1>2, <1>4, <1>5, <1>6, ThreadKeeps

-----------------------------------------------------------------------------
LEMMA NextInv == IInv /\ [Next]_vars => IInv'
<1> SUFFICES ASSUME IInv, [Next]_vars PROVE IInv'
  OBVIOUS
<1>1. CASE Connect
  BY <1>1, ConnectInv
<1>2. CASE Stop
  BY <1>2, StopInv
<1>3. CASE \E line \in Line : Type(line)
  BY <1>3, TypeLineInv
<1>4. CASE InCommand /\ Client
  <2>1. CASE ClientSend
    BY <1>4, <2>1, ClientSendInv
  <2>2. CASE RecvError
    BY <1>4, <2>2, RecvErrorInv
  <2>3. CASE ClientAstray
    BY <2>3, AstrayInv
  <2>4. CASE ClientCode
    BY <1>4, <2>4, ClientCodeInv
  <2>5. CASE ClientLength
    BY <1>4, <2>5, ClientLengthInv
  <2>6. CASE ClientText
    BY <1>4, <2>6, ClientTextInv
  <2>7. CASE SendError
    BY <1>4, <2>7, SendErrorInv
  <2> QED
    BY <1>4, <2>1, <2>2, <2>3, <2>4, <2>5, <2>6, <2>7 DEF Client
<1>5. CASE Thread
  <2>1. CASE ServerAstray
    BY <2>1, AstrayInv
  <2>2. CASE ServerCode
    BY <2>2, ServerCodeInv
  <2>3. CASE ServerLength
    BY <2>3, ServerLengthInv
  <2>4. CASE ServerText
    BY <2>4, ServerTextInv
  <2>5. CASE ServerCall
    BY <2>5, ServerCallInv
  <2>6. CASE ServerSend
    BY <2>6, ServerSendInv
  <2> QED
    BY <1>5, <2>1, <2>2, <2>3, <2>4, <2>5, <2>6 DEF Thread
<1>6. CASE UNCHANGED vars
  <2>1. UNCHANGED <<cmd, cpc, ccode, cout, spc, scode, op, args, lens, sout, db, served, shell,
                    lines, result, server, refused, short, up, down>>
    BY <1>6 DEF vars, driver, thread, ends
  <2> QED
    BY <2>1, KeptInv
<1> QED
  BY <1>1, <1>2, <1>3, <1>4, <1>5, <1>6 DEF Next

(* In every state of every conversation: what is on its way between the    *)
(* two processes is what the one has sent of its messages and the other    *)
(* has not received, unless a recv returned a part of a text.              *)
THEOREM Invariance == Spec => []IInv
  BY InitInv, NextInv, PTL DEF Spec

(* Every variable of the conversation has its type in every state, and     *)
(* with it what InstanceThread has of a request when it calls the store.   *)
THEOREM TypeCorrect == Spec => []TypeOK
<1>1. IInv => TypeOK
  BY DEF IInv, WellTyped
<1> QED
  BY <1>1, Invariance, PTL

(* What the shell prints is what the server did for that very command, for *)
(* any keys and values: a value and "not found" also when the server stops *)
(* in the middle of it, an OK or a refusal as long as it runs.             *)
THEOREM TrueResults == Spec => []ResultsTrue
<1>1. IInv => ResultsTrue
  BY DEF IInv
<1> QED
  BY <1>1, Invariance, PTL

(* As long as recv returns whole texts, no command, however it ended,      *)
(* leaves anything behind that the next one would be misread by.           *)
THEOREM StaysInStep == Spec => []InStep
<1>1. IInv => InStep
  <2> SUFFICES ASSUME IInv, shell = "typing", server = "running", ~short
               PROVE  up = <<>> /\ down = <<>> /\ spc = "code"
    BY DEF InStep
  <2>1. ~DownLost /\ ~UpLost
    BY DEF DownLost, UpLost
  <2> QED
    BY <2>1 DEF IInv, Talking, Framed, DownFramed, Answering, UpFramed
<1> QED
  BY <1>1, Invariance, PTL

=============================================================================
