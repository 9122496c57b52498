------------------------------- MODULE Sockv5Proofs -------------------------
(***************************************************************************)
(* Proofs about Sockv5, for every greeting and request a browser may send, *)
(* every number of values of a byte, signed or not, and every cut of the   *)
(* stream: the dialogue is understood, taken as soon as it is whole, and   *)
(* the same however it is cut.                                             *)
(***************************************************************************)
EXTENDS Sockv5, WireLemmas

-----------------------------------------------------------------------------
(* Parts of a stream.                                                      *)

(* String a and what is behind it in q.                                    *)
LEMMA PartOf ==
  ASSUME NEW a \in Seq(Int), NEW w \in Seq(Int), NEW q, a \o w = q
  PROVE  /\ q \in Seq(Int) /\ Len(a) \in Nat /\ Len(w) \in Nat
         /\ Len(q) = Len(a) + Len(w)
         /\ \A i \in 1 .. Len(a) : q[i] = a[i]
<1>1. Len(a) \in Nat /\ Len(w) \in Nat
  BY LenProperties
<1>2. ASSUME NEW i \in 1 .. Len(a) PROVE q[i] = a[i]
  <2>1. i \in 1 .. Len(a) + Len(w) /\ i <= Len(a)
    BY <1>1
  <2> QED
    BY <2>1, ConcatProperties
<1> QED
  BY <1>1, <1>2, ConcatProperties

(* Two strings, one behind the other.                                      *)
Joins(x, y, z) ==
  /\ z \in Seq(Int) /\ Len(z) = Len(x) + Len(y)
  /\ \A i \in 1 .. Len(x) : z[i] = x[i]
  /\ \A i \in 1 .. Len(y) : z[Len(x) + i] = y[i]

(* That is what they make.                                                 *)
LEMMA Joined ==
  ASSUME NEW x \in Seq(Int), NEW y \in Seq(Int)
  PROVE  Joins(x, y, x \o y)
<1>1. Len(x) \in Nat /\ Len(y) \in Nat
  BY LenProperties
<1>2. /\ x \o y \in Seq(Int) /\ Len(x \o y) = Len(x) + Len(y)
      /\ \A i \in 1 .. Len(x) + Len(y) :
           (x \o y)[i] = IF i <= Len(x) THEN x[i] ELSE y[i - Len(x)]
  BY ConcatProperties
<1>3. ASSUME NEW i \in 1 .. Len(x) PROVE (x \o y)[i] = x[i]
  <2>1. i \in 1 .. Len(x) + Len(y) /\ i <= Len(x)
    BY <1>1
  <2> QED
    BY <1>2, <2>1
<1>4. ASSUME NEW i \in 1 .. Len(y) PROVE (x \o y)[Len(x) + i] = y[i]
  <2>1. Len(x) + i \in 1 .. Len(x) + Len(y) /\ ~ Len(x) + i <= Len(x)
        /\ (Len(x) + i) - Len(x) = i
    BY <1>1
  <2> QED
    BY <1>2, <2>1
<1> QED
  BY <1>2, <1>3, <1>4 DEF Joins

(* A piece that lies in the first part.                                    *)
LEMMA SamePiece ==
  ASSUME NEW a \in Seq(Int), NEW q \in Seq(Int), Len(a) <= Len(q),
         \A i \in 1 .. Len(a) : q[i] = a[i],
         NEW m \in Nat \ {0}, NEW n \in Int, n <= Len(a)
  PROVE  SubSeq(a, m, n) = SubSeq(q, m, n)
<1>1. Len(a) \in Nat /\ Len(q) \in Nat
  BY LenProperties
<1>2. \A i \in m .. n : i \in 1 .. Len(a) /\ i \in 1 .. Len(q)
  BY <1>1
<1>3. \A i \in m .. n : a[i] \in Int /\ q[i] \in Int /\ q[i] = a[i]
  BY <1>2, ElementOfSeq
<1>4. /\ SubSeq(a, m, n) \in Seq(Int)
      /\ Len(SubSeq(a, m, n)) = IF m <= n THEN n - m + 1 ELSE 0
      /\ \A i \in 1 .. n - m + 1 : SubSeq(a, m, n)[i] = a[m + i - 1]
  BY <1>3, SubSeqProperties
<1>5. /\ SubSeq(q, m, n) \in Seq(Int)
      /\ Len(SubSeq(q, m, n)) = IF m <= n THEN n - m + 1 ELSE 0
      /\ \A i \in 1 .. n - m + 1 : SubSeq(q, m, n)[i] = q[m + i - 1]
  BY <1>3, SubSeqProperties
<1>6. ASSUME NEW i \in 1 .. Len(SubSeq(a, m, n))
      PROVE  SubSeq(a, m, n)[i] = SubSeq(q, m, n)[i]
  <2>1. i \in 1 .. n - m + 1 /\ m + i - 1 \in m .. n
    <3>1. m <= n
      BY <1>4, <1>6
    <3> QED
      BY <1>4, <1>6, <3>1
  <2> QED
    BY <1>3, <1>4, <1>5, <2>1
<1> QED
  BY <1>4, <1>5, <1>6, SeqEqual

(* A piece of q has the elements at its places.                            *)
LEMMA PieceIs ==
  ASSUME NEW q \in Seq(Int), NEW t \in Seq(Int), NEW n \in 0 .. Len(q),
         n + Len(t) <= Len(q), \A i \in 1 .. Len(t) : q[n + i] = t[i]
  PROVE  SubSeq(q, n + 1, n + Len(t)) = t
<1>1. Len(t) \in Nat /\ Len(q) \in Nat
  BY LenProperties
<1>2. \A i \in n + 1 .. n + Len(t) : i \in 1 .. Len(q)
  BY <1>1
<1>3. \A i \in n + 1 .. n + Len(t) : q[i] \in Int
  BY <1>2, ElementOfSeq
<1> DEFINE u == SubSeq(q, n + 1, n + Len(t))
<1>4. /\ u \in Seq(Int)
      /\ Len(u) = IF n + 1 <= n + Len(t) THEN (n + Len(t)) - (n + 1) + 1 ELSE 0
      /\ \A i \in 1 .. (n + Len(t)) - (n + 1) + 1 : u[i] = q[(n + 1) + i - 1]
  BY <1>1, <1>3, SubSeqProperties
<1> HIDE DEF u
<1>5. Len(u) = Len(t)
  BY <1>1, <1>4
<1>6. ASSUME NEW i \in 1 .. Len(u) PROVE u[i] = t[i]
  <2>1. i \in 1 .. (n + Len(t)) - (n + 1) + 1 /\ (n + 1) + i - 1 = n + i /\ i \in 1 .. Len(t)
    BY <1>1, <1>5
  <2> QED
    BY <1>4, <2>1
<1>7. u = t
  BY <1>4, <1>5, <1>6, SeqEqual
<1> QED
  BY <1>7 DEF u

(* Three strings are one string, however they are put together.            *)
LEMMA Regroups ==
  ASSUME NEW a \in Seq(Int), NEW b \in Seq(Int), NEW c \in Seq(Int)
  PROVE  (a \o b) \o c = a \o (b \o c)
BY ConcatAssociative

(* What is behind a place of the first part.                               *)
LEMMA RestKeeps ==
  ASSUME NEW a \in Seq(Int), NEW w \in Seq(Int), NEW n \in 1 .. Len(a)
  PROVE  SubSeq(a, n + 1, Len(a)) \o w = SubSeq(a \o w, n + 1, Len(a \o w))
<1> DEFINE q == a \o w
           x == SubSeq(a, 1, n)
           y == SubSeq(a, n + 1, Len(a))
           t == y \o w
<1>1. n \in 0 .. Len(a) /\ Len(a) \in Nat /\ n \in Nat
  BY LenProperties
<1>2. x \in Seq(Int) /\ Len(x) = n /\ y \in Seq(Int) /\ x \o y = a
  BY <1>1, Splits
<1>10. q = a \o w
  OBVIOUS
<1> HIDE DEF x, y, q
<1>3. (x \o y) \o w = x \o (y \o w)
  <2>1. x \in Seq(Int) /\ y \in Seq(Int) /\ w \in Seq(Int)
    BY <1>2
  <2> QED
    BY ONLY <2>1, Regroups
<1>4. t \in Seq(Int) /\ Len(t) \in Nat
  <2>1. t \in Seq(Int)
    BY <1>2, ConcatProperties
  <2> QED
    BY <2>1, LenProperties
<1>5. q = x \o t
  BY <1>2, <1>3, <1>10
<1> HIDE DEF t
<1>6. Joins(x, t, q)
  <2>1. x \in Seq(Int) /\ t \in Seq(Int)
    BY <1>2, <1>4
  <2>2. Joins(x, t, x \o t)
    BY ONLY <2>1, Joined
  <2> QED
    BY <1>5, <2>2
<1>7. q \in Seq(Int) /\ Len(q) = n + Len(t) /\ \A i \in 1 .. Len(t) : q[n + i] = t[i]
  BY <1>2, <1>6 DEF Joins
<1>8. n \in 0 .. Len(q) /\ n + Len(t) <= Len(q)
  BY <1>1, <1>4, <1>7
<1>9. SubSeq(q, n + 1, n + Len(t)) = t
  BY <1>4, <1>7, <1>8, PieceIs
<1> QED
  BY <1>7, <1>9 DEF t, y, q

-----------------------------------------------------------------------------
(* protocol/Sockv5Def, with the sign of a char as an argument.             *)

CharAs(s, b) == IF s /\ b >= B \div 2 THEN b - B ELSE b
GreetingLenAs(s, d) == 2 + CharAs(s, d[2])
GreetingCheckAs(s, d) ==
  IF Len(d) < 2 THEN 0 ELSE IF Len(d) < GreetingLenAs(s, d) THEN 0 ELSE GreetingLenAs(s, d)
RequestLenAs(s, d) ==
  CASE d[4] = 1 -> 8
    [] d[4] = 4 -> 20
    [] d[4] = 3 -> 7 + CharAs(s, d[5])
    [] OTHER -> 4
CheckAs(s, d) ==
  IF Len(d) <= 5 \/ Len(d) < RequestLenAs(s, d) THEN 0 ELSE RequestLenAs(s, d)
ThrowsAs(s, d) == d[4] = 3 /\ 5 + CharAs(s, d[5]) \notin 0 .. Len(d)
PortIn(p) ==
  B * (IF 1 <= Len(p) THEN p[1] ELSE 0) + (IF 2 <= Len(p) THEN p[2] ELSE 0)
AddressAs(s, d) ==
  CASE d[4] = 1 -> Substr(d, 4, 4)
    [] d[4] = 3 -> Substr(d, 5, CharAs(s, d[5]))
    [] d[4] = 4 -> Substr(d, 4, 16)
    [] OTHER -> << >>
PortAs(s, d) == IF d[4] = 3 THEN PortIn(Substr(d, 5 + CharAs(s, d[5]), 2)) ELSE NotSet
ParsedAs(s, d) ==
  [type |-> d[4], cmd |-> d[2], address |-> AddressAs(s, d), port |-> PortAs(s, d)]

(* That is what check() and parseFrom() are in a build.                    *)
LEMMA AsDefined ==
  ASSUME NEW d
  PROVE  /\ greetingCheck(d) = GreetingCheckAs(charSigned, d)
         /\ check(d) = CheckAs(charSigned, d)
         /\ parseThrows(d) <=> ThrowsAs(charSigned, d)
         /\ parseFrom(d) = ParsedAs(charSigned, d)
<1>1. \A b : Char(b) = CharAs(charSigned, b)
  BY DEF Char, CharAs
<1>2. greetingCheck(d) = GreetingCheckAs(charSigned, d)
  BY <1>1 DEF greetingCheck, GreetingCheckAs, GreetingLenAs
<1>3. check(d) = CheckAs(charSigned, d)
  BY <1>1 DEF check, CheckAs, requestLen, RequestLenAs
<1>4. parseThrows(d) <=> ThrowsAs(charSigned, d)
  BY <1>1 DEF parseThrows, ThrowsAs
<1>5. parseFrom(d) = ParsedAs(charSigned, d)
  <2>1. Char(d[5]) = CharAs(charSigned, d[5])
    BY <1>1
  <2> QED
    BY <2>1, Zenon DEF parseFrom, ParsedAs, AddressAs, PortAs, PortIn
<1> QED
  BY <1>2, <1>3, <1>4, <1>5

(* A length that is not negative as a char is what it was.                 *)
LEMMA CharKeeps ==
  ASSUME NEW s \in BOOLEAN, NEW n \in 0 .. B - 1, CharAs(s, n) >= 0
  PROVE  CharAs(s, n) = n
<1>1. B \in Nat
  BY Sockv5Assumption
<1>2. n - B < 0
  BY <1>1
<1> QED
  BY <1>1, <1>2 DEF CharAs

-----------------------------------------------------------------------------
(* The greeting.                                                           *)

GreetingPlain(s, g) == CharAs(s, Len(g.methods)) >= 0

(* What the browser sends, and what check() makes of the whole of it.      *)
LEMMA GreetingShape ==
  ASSUME NEW g \in Greetings
  PROVE  /\ GreetingBytes(g) \in Seq(Int) /\ Len(g.methods) \in 0 .. B - 1
         /\ Len(GreetingBytes(g)) = 2 + Len(g.methods)
         /\ GreetingBytes(g)[2] = Len(g.methods)
<1> DEFINE m == g.methods
           h == << g.ver, Len(m) >>
<1>1. g.ver \in Int /\ m \in Seq(Int) /\ Len(m) < B /\ B \in Nat
  <2>1. g \in [ver : 0 .. B - 1, methods : Bytes] /\ Len(m) < B /\ B \in Nat
    BY Sockv5Assumption
  <2>2. g.ver \in 0 .. B - 1 /\ m \in Bytes
    BY <2>1
  <2>3. m \in Seq(Int)
    BY <2>1, <2>2 DEF Bytes
  <2> QED
    BY <2>1, <2>2, <2>3
<1>2. Len(m) \in Nat
  BY <1>1, LenProperties
<1>3. GreetingBytes(g) = h \o m
  BY DEF GreetingBytes
<1> HIDE DEF m
<1>4. h \in Seq(Int) /\ Len(h) = 2 /\ h[2] = Len(m)
  BY <1>1, <1>2
<1> HIDE DEF h
<1>5. h \o m \in Seq(Int) /\ Len(h \o m) = 2 + Len(m) /\ (h \o m)[2] = Len(m)
  <2>1. h \in Seq(Int) /\ m \in Seq(Int)
    BY <1>1, <1>4
  <2>2. Joins(h, m, h \o m)
    BY ONLY <2>1, Joined
  <2>3. 2 \in 1 .. Len(h)
    BY <1>4
  <2> QED
    BY <1>4, <2>2, <2>3 DEF Joins
<1>7. Len(m) \in 0 .. B - 1
  BY <1>1, <1>2
<1> QED
  BY <1>3, <1>5, <1>7 DEF m

(* check() of a part of a greeting: it waits, or has it all.               *)
LEMMA GreetingRead ==
  ASSUME NEW s \in BOOLEAN, NEW g \in Greetings, GreetingPlain(s, g),
         NEW a \in Seq(Int), NEW w \in Seq(Int), a \o w = GreetingBytes(g)
  PROVE  \/ GreetingCheckAs(s, a) = 0 /\ w # << >>
         \/ GreetingCheckAs(s, a) = Len(a) /\ Len(a) > 0 /\ w = << >>
<1> DEFINE q == GreetingBytes(g)
           n == Len(g.methods)
<1>1. n \in 0 .. B - 1 /\ Len(q) = 2 + n /\ q[2] = n
  BY GreetingShape
<1>2. /\ Len(a) \in Nat /\ Len(w) \in Nat /\ Len(q) = Len(a) + Len(w)
      /\ \A i \in 1 .. Len(a) : q[i] = a[i]
  BY PartOf
<1>3. CharAs(s, n) = n
  BY <1>1, CharKeeps DEF GreetingPlain
<1> HIDE DEF q, n
<1>4. CASE Len(a) < 2
  <2>1. Len(w) # 0
    BY <1>1, <1>2, <1>4
  <2> QED
    BY <1>4, <2>1 DEF GreetingCheckAs
<1>5. CASE Len(a) >= 2
  <2>1. a[2] = n
    <3>1. 2 \in 1 .. Len(a)
      BY <1>2, <1>5
    <3> QED
      BY <1>1, <1>2, <3>1
  <2>2. GreetingLenAs(s, a) = 2 + n
    BY <1>3, <2>1 DEF GreetingLenAs
  <2>3. CASE Len(a) < 2 + n
    <3>1. Len(w) # 0
      BY <1>1, <1>2, <2>3
    <3> QED
      BY <2>2, <2>3, <3>1 DEF GreetingCheckAs
  <2>4. CASE ~ Len(a) < 2 + n
    <3>1. Len(w) = 0 /\ Len(a) = 2 + n
      BY <1>1, <1>2, <2>4
    <3>2. w = << >>
      BY <3>1, EmptySeq
    <3>3. GreetingCheckAs(s, a) = 2 + n
      BY <1>5, <2>2, <2>4, <3>1 DEF GreetingCheckAs
    <3> QED
      BY <1>2, <1>5, <3>1, <3>2, <3>3
  <2> QED
    BY <2>3, <2>4
<1> QED
  BY <1>2, <1>4, <1>5

-----------------------------------------------------------------------------
(* The request.                                                            *)

RequestPlain(s, r) == r.type = 3 => CharAs(s, Len(r.address)) >= 0

(* The length in front of a host name.                                     *)
NameLen(r) == IF r.type = 3 THEN << Len(r.address) >> ELSE << >>

(* The fields of a request.                                                *)
LEMMA RequestType ==
  ASSUME NEW r \in Requests
  PROVE  /\ r.cmd \in Int /\ r.type \in 0 .. B - 1 /\ r.address \in Seq(Int)
         /\ r.port \in Nat /\ Len(r.address) \in Nat /\ B \in Nat \ {0}
         /\ r.type = 3 => Len(r.address) \in 0 .. B - 1
         /\ r.type = 1 => Len(r.address) = 4
         /\ r.type = 4 => Len(r.address) = 16
<1>1. /\ r \in [cmd : 0 .. B - 1, type : 0 .. B - 1, address : Bytes, port : 0 .. B * B - 1]
      /\ r.type = 3 => Len(r.address) < B
      /\ r.type = 1 => Len(r.address) = 4
      /\ r.type = 4 => Len(r.address) = 16
      /\ B \in Nat /\ B > 5
  BY Sockv5Assumption
<1>2. r.cmd \in 0 .. B - 1 /\ r.type \in 0 .. B - 1 /\ r.address \in Bytes
      /\ r.port \in 0 .. B * B - 1
  BY <1>1
<1>3. r.address \in Seq(Int)
  BY <1>1, <1>2 DEF Bytes
<1>4. B * B \in Nat
  <2>1. \A x \in Nat : x * x \in Nat
    BY SMT
  <2> QED
    BY <1>1, <2>1
<1>5. r.port \in Nat
  BY <1>2, <1>4
<1>6. Len(r.address) \in Nat
  BY <1>3, LenProperties
<1> QED
  BY <1>1, <1>2, <1>3, <1>5, <1>6

(* What the browser sends.                                                 *)
LEMMA RequestShape ==
  ASSUME NEW r \in Requests
  PROVE  /\ RequestBytes(r) \in Seq(Int)
         /\ Len(RequestBytes(r)) = 6 + Len(NameLen(r)) + Len(r.address)
         /\ Len(NameLen(r)) = IF r.type = 3 THEN 1 ELSE 0
         /\ RequestBytes(r)[2] = r.cmd /\ RequestBytes(r)[4] = r.type
         /\ r.type = 3 =>
              /\ RequestBytes(r)[5] = Len(r.address)
              /\ \A i \in 1 .. Len(r.address) : RequestBytes(r)[5 + i] = r.address[i]
              /\ RequestBytes(r)[6 + Len(r.address)] = r.port \div B
              /\ RequestBytes(r)[7 + Len(r.address)] = r.port % B
<1> DEFINE h == << 5, r.cmd, 0, r.type >>
           l == NameLen(r)
           a == r.address
           e == << r.port \div B, r.port % B >>
           hl == h \o l
           hla == hl \o a
           q == hla \o e
<1>1. r.cmd \in Int /\ r.type \in Int /\ a \in Seq(Int) /\ Len(a) \in Nat
  BY RequestType
<1>2. r.port \div B \in Int /\ r.port % B \in Int
  <2>1. \A x \in Nat : \A y \in Nat \ {0} : x \div y \in Int /\ x % y \in Int
    OBVIOUS
  <2>2. r.port \in Nat /\ B \in Nat \ {0}
    BY RequestType
  <2> QED
    BY ONLY <2>1, <2>2
<1>3. RequestBytes(r) = q
  BY DEF RequestBytes, NameLen
<1>4. h \in Seq(Int) /\ Len(h) = 4 /\ h[2] = r.cmd /\ h[4] = r.type
  BY <1>1
<1>5. l \in Seq(Int) /\ Len(l) = (IF r.type = 3 THEN 1 ELSE 0)
      /\ (r.type = 3 => l[1] = Len(a))
  BY <1>1 DEF NameLen
<1>6. e \in Seq(Int) /\ Len(e) = 2 /\ e[1] = r.port \div B /\ e[2] = r.port % B
  BY <1>2
<1> HIDE DEF h, l, a, e
<1>7. Joins(h, l, hl)
  <2>1. h \in Seq(Int) /\ l \in Seq(Int)
    BY <1>4, <1>5
  <2> QED
    BY ONLY <2>1, Joined
<1> HIDE DEF hl
<1>8. Joins(hl, a, hla)
  <2>1. hl \in Seq(Int) /\ a \in Seq(Int)
    BY <1>1, <1>7 DEF Joins
  <2> QED
    BY ONLY <2>1, Joined
<1> HIDE DEF hla
<1>9. Joins(hla, e, q)
  <2>1. hla \in Seq(Int) /\ e \in Seq(Int)
    BY <1>6, <1>8 DEF Joins
  <2> QED
    BY ONLY <2>1, Joined
<1> HIDE DEF q
<1>10. /\ Len(l) \in 0 .. 1 /\ Len(hl) = 4 + Len(l) /\ Len(hla) = 4 + Len(l) + Len(a)
       /\ q \in Seq(Int) /\ Len(q) = 4 + Len(l) + Len(a) + 2
  BY <1>4, <1>5, <1>6, <1>7, <1>8, <1>9 DEF Joins
<1>11. Len(q) = 6 + Len(l) + Len(a)
  BY <1>1, <1>10
<1>12. \A i \in 1 .. 4 : q[i] = h[i]
  <2> TAKE i \in 1 .. 4
  <2>1. i \in 1 .. Len(h) /\ i \in 1 .. Len(hl) /\ i \in 1 .. Len(hla)
    BY <1>1, <1>4, <1>10
  <2> QED
    BY <1>7, <1>8, <1>9, <2>1 DEF Joins
<1>13. ASSUME r.type = 3
       PROVE  /\ q[5] = Len(a)
              /\ \A i \in 1 .. Len(a) : q[5 + i] = a[i]
              /\ q[6 + Len(a)] = r.port \div B /\ q[7 + Len(a)] = r.port % B
  <2>1. Len(l) = 1 /\ l[1] = Len(a) /\ Len(hl) = 5 /\ Len(hla) = 5 + Len(a)
    BY <1>1, <1>5, <1>10, <1>13
  <2>2. q[5] = Len(a)
    <3>1. 1 \in 1 .. Len(l) /\ 5 = Len(h) + 1 /\ 5 \in 1 .. Len(hl) /\ 5 \in 1 .. Len(hla)
      BY <1>1, <1>4, <2>1
    <3>2. hl[5] = l[1]
      BY <1>7, <3>1 DEF Joins
    <3>3. hla[5] = hl[5] /\ q[5] = hla[5]
      BY <1>8, <1>9, <3>1 DEF Joins
    <3> QED
      BY <2>1, <3>2, <3>3
  <2>3. ASSUME NEW i \in 1 .. Len(a) PROVE q[5 + i] = a[i]
    <3>1. 5 + i \in 1 .. Len(hla) /\ 5 + i = Len(hl) + i
      BY <1>1, <2>1
    <3>2. hla[5 + i] = a[i]
      BY <1>8, <3>1 DEF Joins
    <3>3. q[5 + i] = hla[5 + i]
      BY <1>9, <3>1 DEF Joins
    <3> QED
      BY <3>2, <3>3
  <2>4. q[Len(hla) + 1] = e[1] /\ q[Len(hla) + 2] = e[2]
    <3>1. 1 \in 1 .. Len(e) /\ 2 \in 1 .. Len(e)
      BY <1>6
    <3> QED
      BY <1>9, <3>1 DEF Joins
  <2>5. Len(hla) + 1 = 6 + Len(a) /\ Len(hla) + 2 = 7 + Len(a)
    BY <1>1, <2>1
  <2> QED
    BY <1>6, <2>2, <2>3, <2>4, <2>5
<1>14. q[2] = r.cmd /\ q[4] = r.type
  BY <1>4, <1>12
<1> QED
  BY <1>3, <1>5, <1>10, <1>11, <1>13, <1>14 DEF l, a

(* What check() counts: the length of a request for a host name, and less  *)
(* than that of any other.                                                 *)
Counted(r) ==
  CASE r.type = 1 -> 8
    [] r.type = 4 -> 20
    [] r.type = 3 -> 7 + Len(r.address)
    [] OTHER -> 4

(* It is a number, and never more than there is.                           *)
LEMMA CountedIs ==
  ASSUME NEW r \in Requests
  PROVE  /\ Counted(r) \in Nat \ {0} /\ Counted(r) <= Len(RequestBytes(r))
         /\ Len(RequestBytes(r)) > 5
         /\ r.type = 3 => Counted(r) = Len(RequestBytes(r))
<1> DEFINE n == Len(r.address)
           k == Len(RequestBytes(r))
<1>1. /\ n \in Nat /\ (r.type = 1 => n = 4) /\ (r.type = 4 => n = 16)
      /\ r.type \in Int
  BY RequestType
<1>2. k = 6 + (IF r.type = 3 THEN 1 ELSE 0) + n
  BY RequestShape
<1>3. Counted(r) = IF r.type = 1 THEN 8 ELSE IF r.type = 4 THEN 20
                   ELSE IF r.type = 3 THEN 7 + n ELSE 4
  BY <1>1 DEF Counted
<1> HIDE DEF n, k
<1>4. /\ Counted(r) \in Nat \ {0} /\ Counted(r) <= k /\ k > 5
      /\ r.type = 3 => Counted(r) = k
  BY <1>1, <1>2, <1>3
<1> QED
  BY <1>4 DEF k

(* It counts the same in every part that it looks at.                      *)
LEMMA LenIsCounted ==
  ASSUME NEW s \in BOOLEAN, NEW r \in Requests, RequestPlain(s, r),
         NEW d, d[4] = r.type, r.type = 3 => d[5] = Len(r.address)
  PROVE  /\ RequestLenAs(s, d) = Counted(r)
         /\ r.type = 3 => CharAs(s, d[5]) = Len(r.address)
<1>1. r.type = 3 => CharAs(s, Len(r.address)) = Len(r.address)
  BY RequestType, CharKeeps DEF RequestPlain
<1>2. r.type = 3 => CharAs(s, d[5]) = Len(r.address)
  BY <1>1
<1>3. r.type \in Int
  BY RequestType
<1> QED
  BY <1>2, <1>3 DEF RequestLenAs, Counted

(* What a part that is long enough begins with.                            *)
Starts(a, q) ==
  /\ a \in Seq(Int) /\ q \in Seq(Int)
  /\ Len(a) \in Nat /\ Len(q) \in Nat /\ Len(a) <= Len(q)
  /\ \A i \in 1 .. Len(a) : q[i] = a[i]

(* A stream begins with what was read of it.                               *)
LEMMA StartsWith ==
  ASSUME NEW a \in Seq(Int), NEW w \in Seq(Int), NEW q, a \o w = q
  PROVE  Starts(a, q)
<1>1. /\ q \in Seq(Int) /\ Len(a) \in Nat /\ Len(w) \in Nat
      /\ Len(q) = Len(a) + Len(w)
      /\ \A i \in 1 .. Len(a) : q[i] = a[i]
  BY PartOf
<1>2. Len(a) <= Len(q) /\ Len(q) \in Nat
  BY <1>1
<1> QED
  BY <1>1, <1>2 DEF Starts

(* substr() of it.                                                         *)
LEMMA SubstrSame ==
  ASSUME NEW a, NEW q, Starts(a, q), NEW pos \in Nat, NEW n \in Nat, pos + n <= Len(a)
  PROVE  /\ Substr(a, pos, n) = SubSeq(q, pos + 1, pos + n)
         /\ Substr(q, pos, n) = SubSeq(q, pos + 1, pos + n)
<1>1. /\ a \in Seq(Int) /\ q \in Seq(Int) /\ Len(a) \in Nat /\ Len(q) \in Nat
      /\ Len(a) <= Len(q) /\ \A i \in 1 .. Len(a) : q[i] = a[i]
  BY DEF Starts
<1>2. pos + 1 \in Nat \ {0} /\ pos + n \in Int /\ n >= 0 /\ pos + n <= Len(q)
  BY <1>1
<1>3. SubSeq(a, pos + 1, pos + n) = SubSeq(q, pos + 1, pos + n)
  <2> DEFINE m == pos + 1
             e == pos + n
  <2>1. m \in Nat \ {0} /\ e \in Int /\ e <= Len(a)
    BY <1>2
  <2> HIDE DEF m, e
  <2>2. SubSeq(a, m, e) = SubSeq(q, m, e)
    BY ONLY <1>1, <2>1, SamePiece
  <2> QED
    BY <2>2 DEF m, e
<1> QED
  BY <1>2, <1>3 DEF Substr

(* check() and parseFrom() of a part of a request: it waits, or makes of   *)
(* it what it makes of all.                                                *)
Read(s, a, w, r) ==
  LET q == RequestBytes(r) IN
  \/ CheckAs(s, a) = 0 /\ w # << >>
  \/ /\ CheckAs(s, a) = CheckAs(s, q) /\ CheckAs(s, q) = Counted(r)
     /\ CheckAs(s, a) \in 1 .. Len(a)
     /\ ~ ThrowsAs(s, a) /\ ParsedAs(s, a) = ParsedAs(s, q)

(* It waits for bytes that are there, or reads as of the whole.            *)
LEMMA RequestRead ==
  ASSUME NEW s \in BOOLEAN, NEW r \in Requests, RequestPlain(s, r),
         NEW a \in Seq(Int), NEW w \in Seq(Int), a \o w = RequestBytes(r)
  PROVE  Read(s, a, w, r)
<1> DEFINE q == RequestBytes(r)
           n == Len(r.address)
           c == Counted(r)
<1>1. /\ c \in Nat \ {0} /\ c <= Len(q) /\ Len(q) > 5
      /\ r.type = 3 => c = Len(q)
  BY CountedIs
<1>2. q[4] = r.type /\ q[2] = r.cmd /\ (r.type = 3 => q[5] = n) /\ n \in Nat /\ r.type \in Int
  <2>1. q[4] = r.type /\ q[2] = r.cmd /\ (r.type = 3 => q[5] = n)
    BY RequestShape
  <2>2. n \in Nat /\ r.type \in Int
    BY RequestType
  <2> QED
    BY <2>1, <2>2
<1>3. /\ a \in Seq(Int) /\ q \in Seq(Int) /\ Len(a) \in Nat /\ Len(w) \in Nat
      /\ Len(q) = Len(a) + Len(w) /\ \A i \in 1 .. Len(a) : q[i] = a[i]
  BY PartOf
<1>4. Starts(a, q) /\ Starts(q, q)
  <2>1. Starts(a, q)
    BY StartsWith
  <2> QED
    BY <2>1 DEF Starts
<1>5. RequestLenAs(s, q) = c
  BY <1>2, LenIsCounted
<1>6. c = IF r.type = 1 THEN 8 ELSE IF r.type = 4 THEN 20
          ELSE IF r.type = 3 THEN 7 + n ELSE 4
  BY <1>2 DEF Counted
<1> HIDE DEF q, n, c
<1>7. CheckAs(s, q) = c
  BY <1>1, <1>3, <1>5 DEF CheckAs
<1>8. CASE Len(a) <= 5
  <2>1. Len(w) # 0
    BY <1>1, <1>3, <1>8
  <2> QED
    BY <1>8, <2>1 DEF Read, CheckAs
<1>9. CASE Len(a) > 5
  <2>1. a[2] = r.cmd /\ a[4] = r.type /\ (r.type = 3 => a[5] = n)
    <3>1. 2 \in 1 .. Len(a) /\ 4 \in 1 .. Len(a) /\ 5 \in 1 .. Len(a)
      BY <1>3, <1>9
    <3> QED
      BY <1>2, <1>3, <3>1
  <2>2. /\ RequestLenAs(s, a) = c
        /\ r.type = 3 => CharAs(s, a[5]) = n
    BY <2>1, LenIsCounted DEF c, n
  <2>3. r.type = 3 => CharAs(s, q[5]) = n
    BY <1>2, <2>1, <2>2
  <2>4. CASE Len(a) < c
    <3>1. Len(w) # 0
      BY <1>1, <1>3, <2>4
    <3> QED
      BY <2>2, <2>4, <3>1 DEF Read, CheckAs
  <2>5. CASE ~ Len(a) < c
    <3>1. CheckAs(s, a) = c /\ c \in 1 .. Len(a)
      BY <1>1, <1>3, <1>9, <2>2, <2>5 DEF CheckAs
    <3>2. ~ ThrowsAs(s, a)
      <4>1. r.type = 3 => 5 + n \in 0 .. Len(a)
        BY <1>2, <1>3, <1>6, <3>1
      <4> QED
        BY <2>1, <2>2, <4>1 DEF ThrowsAs
    <3>3. /\ r.type = 1 => Substr(a, 4, 4) = Substr(q, 4, 4)
          /\ r.type = 4 => Substr(a, 4, 16) = Substr(q, 4, 16)
          /\ r.type = 3 => Substr(a, 5, n) = Substr(q, 5, n)
          /\ r.type = 3 => Substr(a, 5 + n, 2) = Substr(q, 5 + n, 2)
      <4>1. /\ r.type = 1 => 4 + 4 <= Len(a)
            /\ r.type = 4 => 4 + 16 <= Len(a)
            /\ r.type = 3 => 5 + n <= Len(a) /\ (5 + n) + 2 <= Len(a)
        <5>1. c <= Len(a)
          BY <1>3, <3>1
        <5>2. ASSUME r.type = 1 PROVE 4 + 4 <= Len(a)
          BY <1>3, <1>6, <5>1, <5>2
        <5>3. ASSUME r.type = 4 PROVE 4 + 16 <= Len(a)
          BY <1>3, <1>6, <5>1, <5>3
        <5>4. ASSUME r.type = 3 PROVE 5 + n <= Len(a) /\ (5 + n) + 2 <= Len(a)
          BY <1>2, <1>3, <1>6, <5>1, <5>4
        <5> QED
          BY <5>2, <5>3, <5>4
      <4>2. ASSUME NEW pos \in Nat, NEW l \in Nat, pos + l <= Len(a)
            PROVE  Substr(a, pos, l) = Substr(q, pos, l)
        BY <1>4, <4>2, SubstrSame
      <4>3. 5 + n \in Nat
        BY <1>2
      <4> QED
        BY <1>2, <4>1, <4>2, <4>3
    <3>4. AddressAs(s, a) = AddressAs(s, q)
      BY <1>2, <2>1, <2>2, <2>3, <3>3 DEF AddressAs
    <3>5. PortAs(s, a) = PortAs(s, q)
      BY <1>2, <2>1, <2>2, <2>3, <3>3 DEF PortAs
    <3>6. ParsedAs(s, a) = ParsedAs(s, q)
      BY <1>2, <2>1, <3>4, <3>5 DEF ParsedAs
    <3>7. CheckAs(s, a) = CheckAs(s, q) /\ CheckAs(s, q) = c
      BY <1>7, <3>1
    <3> QED
      BY <3>1, <3>2, <3>6, <3>7 DEF Read, q, c
  <2> QED
    BY <2>4, <2>5
<1> QED
  BY <1>3, <1>8, <1>9

(* What parseFrom() makes of a request for a host name.                    *)
LEMMA HostIsParsed ==
  ASSUME NEW s \in BOOLEAN, NEW r \in Requests, RequestPlain(s, r), r.type = 3
  PROVE  /\ AddressAs(s, RequestBytes(r)) = r.address
         /\ PortAs(s, RequestBytes(r)) = r.port
<1> DEFINE q == RequestBytes(r)
           a == r.address
           n == Len(a)
<1>1. /\ q \in Seq(Int) /\ q[4] = 3 /\ q[5] = n
      /\ \A i \in 1 .. n : q[5 + i] = a[i]
      /\ q[6 + n] = r.port \div B /\ q[7 + n] = r.port % B
  BY RequestShape
<1>2. Len(q) = 7 + n
  <2>1. Len(q) = 6 + Len(NameLen(r)) + n /\ Len(NameLen(r)) = 1 /\ n \in Nat
    BY RequestShape, RequestType
  <2> QED
    BY <2>1
<1>3. a \in Seq(Int) /\ n \in Nat /\ r.port \in Nat /\ B \in Nat \ {0}
  BY RequestType
<1>4. CharAs(s, q[5]) = n
  BY <1>1, LenIsCounted
<1> HIDE DEF q, a
<1>5. Starts(q, q)
  BY <1>1, <1>2, <1>3 DEF Starts
<1>6. Substr(q, 5, n) = a
  <2>1. 5 + n <= Len(q) /\ 5 \in 0 .. Len(q)
    BY <1>2, <1>3
  <2>2. Substr(q, 5, n) = SubSeq(q, 5 + 1, 5 + n)
    BY <1>3, <1>5, <2>1, SubstrSame
  <2>3. SubSeq(q, 5 + 1, 5 + Len(a)) = a
    BY <1>1, <1>3, <2>1, PieceIs
  <2> QED
    BY <2>2, <2>3
<1>7. AddressAs(s, q) = a
  BY <1>1, <1>4, <1>6 DEF AddressAs
<1>8. PortIn(Substr(q, 5 + n, 2)) = r.port
  <2> DEFINE e == << r.port \div B, r.port % B >>
  <2>1. 5 + n \in Nat /\ (5 + n) + 2 <= Len(q) /\ 5 + n \in 0 .. Len(q)
        /\ (5 + n) + 1 = 6 + n /\ (5 + n) + 2 = 7 + n
    BY <1>2, <1>3
  <2>2. Substr(q, 5 + n, 2) = SubSeq(q, (5 + n) + 1, (5 + n) + 2)
    <3> DEFINE pos == 5 + n
    <3>1. pos \in Nat /\ pos + 2 <= Len(q) /\ 2 \in Nat
      BY <2>1
    <3> HIDE DEF pos
    <3>2. Substr(q, pos, 2) = SubSeq(q, pos + 1, pos + 2)
      BY <1>5, <3>1, SubstrSame
    <3> QED
      BY <3>2 DEF pos
  <2>3. /\ r.port \div B \in Int /\ r.port % B \in Int
        /\ r.port = B * (r.port \div B) + (r.port % B)
    <3>1. \A x \in Nat : \A y \in Nat \ {0} :
            x \div y \in Int /\ x % y \in Int /\ x = y * (x \div y) + (x % y)
      BY SMT
    <3> QED
      BY ONLY <1>3, <3>1
  <2>4. e \in Seq(Int) /\ Len(e) = 2 /\ e[1] = r.port \div B /\ e[2] = r.port % B
    BY <2>3
  <2> HIDE DEF e
  <2>5. \A i \in 1 .. Len(e) : q[(5 + n) + i] = e[i]
    <3>1. \A i \in 1 .. Len(e) : i = 1 \/ i = 2
      BY <2>4
    <3> QED
      BY <1>1, <2>1, <2>4, <3>1
  <2>6. SubSeq(q, (5 + n) + 1, (5 + n) + Len(e)) = e
    <3>1. (5 + n) + Len(e) <= Len(q)
      BY <2>1, <2>4
    <3> QED
      BY <1>1, <2>1, <2>4, <2>5, <3>1, PieceIs
  <2>7. Substr(q, 5 + n, 2) = e
    BY <2>2, <2>4, <2>6
  <2>8. PortIn(e) = B * e[1] + e[2]
    BY <2>4 DEF PortIn
  <2> QED
    BY <2>3, <2>4, <2>7, <2>8
<1>9. PortAs(s, q) = r.port
  BY <1>1, <1>4, <1>8 DEF PortAs
<1> QED
  BY <1>7, <1>9 DEF q, a

-----------------------------------------------------------------------------
(* Any bytes.                                                              *)

(* What is left behind a position is a string.                             *)
LEMMA LeftType ==
  ASSUME NEW a \in Seq(Int), NEW k \in Nat \ {0}
  PROVE  SubSeq(a, k + 1, Len(a)) \in Seq(Int)
<1>1. Len(a) \in Nat
  BY LenProperties
<1>2. \A i \in k + 1 .. Len(a) : i \in 1 .. Len(a)
  BY <1>1
<1>3. \A i \in k + 1 .. Len(a) : a[i] \in Int
  BY <1>2, ElementOfSeq
<1> QED
  BY <1>1, <1>3, SubSeqProperties

(* A char is a number.                                                     *)
LEMMA CharType ==
  ASSUME NEW s, NEW b \in Int
  PROVE  CharAs(s, b) \in Int
BY Sockv5Assumption DEF CharAs

(* Both check() return a number, of a request one that is not negative if  *)
(* parseFrom() does not throw.                                             *)
LEMMA ChecksType ==
  ASSUME NEW s, NEW a \in Seq(Int)
  PROVE  /\ GreetingCheckAs(s, a) \in Int
         /\ CheckAs(s, a) # 0 /\ ~ ThrowsAs(s, a) => CheckAs(s, a) \in Nat \ {0}
<1>1. Len(a) \in Nat
  BY LenProperties
<1>2. GreetingCheckAs(s, a) \in Int
  <2>1. CASE Len(a) < 2
    BY <2>1 DEF GreetingCheckAs
  <2>2. CASE ~ Len(a) < 2
    <3>1. 2 \in 1 .. Len(a)
      BY <1>1, <2>2
    <3>2. a[2] \in Int
      BY <3>1, ElementOfSeq
    <3>3. GreetingLenAs(s, a) \in Int
      BY <3>2, CharType DEF GreetingLenAs
    <3> QED
      BY <3>3 DEF GreetingCheckAs
  <2> QED
    BY <2>1, <2>2
<1>3. ASSUME CheckAs(s, a) # 0, ~ ThrowsAs(s, a) PROVE CheckAs(s, a) \in Nat \ {0}
  <2>1. ~ Len(a) <= 5 /\ CheckAs(s, a) = RequestLenAs(s, a)
    BY <1>3 DEF CheckAs
  <2>2. 4 \in 1 .. Len(a) /\ 5 \in 1 .. Len(a)
    BY <1>1, <2>1
  <2>3. a[4] \in Int /\ a[5] \in Int
    BY <2>2, ElementOfSeq
  <2>4. CharAs(s, a[5]) \in Int
    BY <2>3, CharType
  <2>5. a[4] = 3 => 5 + CharAs(s, a[5]) >= 0
    BY <1>1, <1>3, <2>4 DEF ThrowsAs
  <2>6. RequestLenAs(s, a) = IF a[4] = 1 THEN 8 ELSE IF a[4] = 4 THEN 20
                             ELSE IF a[4] = 3 THEN 7 + CharAs(s, a[5]) ELSE 4
    BY <2>3 DEF RequestLenAs
  <2> QED
    BY <2>1, <2>4, <2>5, <2>6
<1> QED
  BY <1>2, <1>3

-----------------------------------------------------------------------------
(* The dialogue.                                                           *)

PhaseNames == { "handleReadHandShake", "handleWriteHandShake", "handleReadSockv5Req",
            "handleConnectToRemote", "connected", "closed", "thrown" }

DialogueType ==
  /\ charSigned \in BOOLEAN
  /\ greeting \in Greetings \cup {NotYet} /\ asked \in Requests \cup {NotYet}
  /\ wire \in Seq(Int) /\ tmpB \in Seq(Int)
  /\ phase \in PhaseNames

(* Plain, of a build and what the browser sent.                            *)
PlainAs(s, g, r) ==
  /\ g # NotYet => GreetingPlain(s, g)
  /\ r # NotYet => RequestPlain(s, r)

(* Until a message is whole, the buffer and the wire are all of it.        *)
Greeted ==
  phase = "handleReadHandShake" =>
    IF greeting = NotYet THEN wire = << >> /\ tmpB = << >>
    ELSE tmpB \o wire = GreetingBytes(greeting) /\ wire # << >>

Requested ==
  phase \in {"handleWriteHandShake", "handleReadSockv5Req"} =>
    IF asked = NotYet THEN wire = << >> /\ tmpB = << >>
    ELSE tmpB \o wire = RequestBytes(asked) /\ wire # << >>

(* A request that was taken was taken as if it had come in one piece.      *)
Understood ==
  phase \in {"handleConnectToRemote", "connected"} =>
    /\ asked # NotYet
    /\ reqData = ParsedAs(charSigned, RequestBytes(asked))
    /\ CheckAs(charSigned, RequestBytes(asked)) = Counted(asked)
    /\ tmpB \o wire = SubSeq(RequestBytes(asked), Counted(asked) + 1, Len(RequestBytes(asked)))

Connects ==
  IF phase = "connected"
  THEN asked.type = 3 =>
         connReq = [type |-> 3, address |-> asked.address, port |-> asked.port]
  ELSE connReq = NotYet

(* Inductive.                                                              *)
InDialogue ==
  /\ DialogueType
  /\ phase # "handleReadHandShake" => greeting # NotYet
  /\ phase = "handleReadHandShake" => asked = NotYet
  /\ PlainAs(charSigned, greeting, asked) =>
       phase # "thrown" /\ Greeted /\ Requested /\ Understood /\ Connects

(* A greeting or request is something else than none.                      *)
LEMMA SentIsSome ==
  /\ \A g \in Greetings : g # NotYet
  /\ \A r \in Requests : r # NotYet
<1>1. ASSUME NEW g \in Greetings PROVE g # NotYet
  <2>1. g \in [ver : 0 .. B - 1, methods : Bytes]
    BY Sockv5Assumption
  <2>2. "ver" \in DOMAIN g /\ "ver" \notin DOMAIN NotYet
    BY <2>1 DEF NotYet
  <2> QED
    BY <2>2
<1>2. ASSUME NEW r \in Requests PROVE r # NotYet
  <2>1. r \in [cmd : 0 .. B - 1, type : 0 .. B - 1, address : Bytes, port : 0 .. B * B - 1]
    BY Sockv5Assumption
  <2>2. "cmd" \in DOMAIN r /\ "cmd" \notin DOMAIN NotYet
    BY <2>1 DEF NotYet
  <2> QED
    BY <2>2
<1> QED
  BY <1>1, <1>2

(* A dialogue that has not begun.                                          *)
LEMMA InDialogueInit ==
  Init => InDialogue
BY EmptySeq DEF Init, InDialogue, DialogueType, PhaseNames, PlainAs, Greeted, Requested,
                Understood, Connects

(* The greeting keeps the invariant.                                       *)
LEMMA InDialogueGreets ==
  ASSUME InDialogue, NEW g \in Greetings, Greets(g)
  PROVE  InDialogue'
<1>1. /\ greeting = NotYet /\ greeting' = g /\ wire' = GreetingBytes(g)
      /\ charSigned' = charSigned /\ asked' = asked /\ tmpB' = tmpB /\ phase' = phase
      /\ reqData' = reqData /\ connReq' = connReq
  BY DEF Greets
<1>2. phase = "handleReadHandShake" /\ asked = NotYet
  BY <1>1 DEF InDialogue
<1>3. /\ GreetingBytes(g) \in Seq(Int) /\ Len(GreetingBytes(g)) = 2 + Len(g.methods)
      /\ Len(g.methods) \in 0 .. B - 1 /\ g # NotYet
  BY GreetingShape, SentIsSome
<1>4. GreetingBytes(g) # << >>
  <2>1. Len(GreetingBytes(g)) # 0
    BY <1>3
  <2> QED
    BY <2>1
<1>5. DialogueType'
  BY <1>1, <1>3 DEF InDialogue, DialogueType
<1>6. PlainAs(charSigned, NotYet, NotYet)
  BY DEF PlainAs
<1>7. tmpB = << >> /\ connReq = NotYet
  BY <1>1, <1>2, <1>6 DEF InDialogue, Greeted, Connects
<1>8. tmpB' \o wire' = GreetingBytes(g)
  BY <1>1, <1>3, <1>7, ConcatEmptySeq
<1>9. Greeted' /\ Requested' /\ Understood' /\ Connects' /\ phase' # "thrown"
  BY <1>1, <1>2, <1>3, <1>4, <1>7, <1>8 DEF Greeted, Requested, Understood, Connects
<1> QED
  BY <1>1, <1>2, <1>3, <1>5, <1>9 DEF InDialogue

(* The request keeps it.                                                   *)
LEMMA InDialogueAsks ==
  ASSUME InDialogue, NEW r \in Requests, Asks(r)
  PROVE  InDialogue'
<1>1. /\ asked = NotYet /\ phase \in {"handleWriteHandShake", "handleReadSockv5Req"}
      /\ asked' = r /\ wire' = wire \o RequestBytes(r)
      /\ charSigned' = charSigned /\ greeting' = greeting /\ tmpB' = tmpB /\ phase' = phase
      /\ reqData' = reqData /\ connReq' = connReq
  BY DEF Asks
<1>2. wire \in Seq(Int) /\ greeting # NotYet
  BY <1>1 DEF InDialogue, DialogueType
<1>3. RequestBytes(r) \in Seq(Int) /\ RequestBytes(r) # << >> /\ r # NotYet
  <2>1. RequestBytes(r) \in Seq(Int) /\ r # NotYet
    BY RequestShape, SentIsSome
  <2>2. Len(RequestBytes(r)) > 5
    BY CountedIs
  <2>3. Len(RequestBytes(r)) # 0
    BY <2>2
  <2> QED
    BY <2>1, <2>3
<1>4. wire \o RequestBytes(r) \in Seq(Int)
  BY <1>2, <1>3, ConcatProperties
<1>5. DialogueType'
  BY <1>1, <1>4 DEF InDialogue, DialogueType
<1>6. ASSUME PlainAs(charSigned, greeting, r)
      PROVE  Greeted' /\ Requested' /\ Understood' /\ Connects' /\ phase' # "thrown"
  <2>1. PlainAs(charSigned, greeting, asked)
    BY <1>1, <1>6 DEF PlainAs
  <2>2. wire = << >> /\ tmpB = << >> /\ connReq = NotYet
    BY <1>1, <2>1 DEF InDialogue, Requested, Connects
  <2>3. wire' = RequestBytes(r) /\ tmpB' \o wire' = RequestBytes(r)
    BY <1>1, <1>3, <2>2, ConcatEmptySeq
  <2> QED
    BY <1>1, <1>3, <2>2, <2>3 DEF Greeted, Requested, Understood, Connects
<1> QED
  BY <1>1, <1>2, <1>5, <1>6 DEF InDialogue

(* A read moves some bytes to the buffer, and loses none.                  *)
LEMMA ReadKeeps ==
  ASSUME NEW b \in Seq(Int), NEW v \in Seq(Int), NEW k \in 1 .. Len(v)
  PROVE  /\ b \o SubSeq(v, 1, k) \in Seq(Int) /\ SubSeq(v, k + 1, Len(v)) \in Seq(Int)
         /\ (b \o SubSeq(v, 1, k)) \o SubSeq(v, k + 1, Len(v)) = b \o v
<1> DEFINE x == SubSeq(v, 1, k)
           y == SubSeq(v, k + 1, Len(v))
<1>1. k \in 0 .. Len(v)
  BY LenProperties
<1>2. x \in Seq(Int) /\ y \in Seq(Int) /\ x \o y = v
  BY <1>1, Splits
<1> HIDE DEF x, y
<1>3. b \o x \in Seq(Int)
  BY <1>2, ConcatProperties
<1>4. (b \o x) \o y = b \o (x \o y)
  <2>1. b \in Seq(Int) /\ x \in Seq(Int) /\ y \in Seq(Int)
    BY <1>2
  <2> QED
    BY ONLY <2>1, Regroups
<1> QED
  BY <1>2, <1>3, <1>4 DEF x, y

(* A read of the greeting keeps the invariant.                             *)
LEMMA InDialogueReadHandShake ==
  ASSUME InDialogue, NEW k \in 1 .. Len(wire), handleReadHandShake(k)
  PROVE  InDialogue'
<1> DEFINE buf == tmpB \o SubSeq(wire, 1, k)
           w == SubSeq(wire, k + 1, Len(wire))
           s == charSigned
           len == GreetingCheckAs(s, buf)
<1>1. /\ phase = "handleReadHandShake" /\ wire' = w
      /\ charSigned' = charSigned /\ greeting' = greeting /\ asked' = asked
      /\ reqData' = reqData /\ connReq' = connReq
  BY DEF handleReadHandShake
<1>2. \/ len = 0 /\ tmpB' = buf /\ phase' = phase
      \/ len < 0 /\ tmpB' = buf /\ phase' = "thrown"
      \/ /\ len > 0 /\ tmpB' = SubSeq(buf, len + 1, Len(buf))
         /\ phase' \in {"handleWriteHandShake", "closed"}
  <2>1. greetingCheck(buf) = len
    BY AsDefined
  <2> QED
    BY <2>1 DEF handleReadHandShake
<1>3. /\ s \in BOOLEAN /\ tmpB \in Seq(Int) /\ wire \in Seq(Int) /\ asked = NotYet
      /\ greeting \in Greetings \cup {NotYet}
  BY <1>1 DEF InDialogue, DialogueType
<1>4. buf \in Seq(Int) /\ w \in Seq(Int) /\ buf \o w = tmpB \o wire
  <2>1. tmpB \in Seq(Int) /\ wire \in Seq(Int) /\ k \in 1 .. Len(wire)
    BY <1>3
  <2> QED
    BY ONLY <2>1, ReadKeeps
<1> HIDE DEF buf, w
<1>5. len \in Int
  BY <1>4, ChecksType
<1> HIDE DEF len
<1>6. tmpB' \in Seq(Int)
  <2>1. len > 0 => SubSeq(buf, len + 1, Len(buf)) \in Seq(Int)
    BY <1>4, <1>5, LeftType
  <2> QED
    BY <1>2, <1>4, <1>5, <2>1
<1>7. DialogueType'
  BY <1>1, <1>2, <1>3, <1>4, <1>6 DEF InDialogue, DialogueType, PhaseNames
<1>8. greeting # NotYet
  <2>1. ASSUME greeting = NotYet PROVE FALSE
    <3>1. PlainAs(charSigned, greeting, asked)
      BY <1>3, <2>1 DEF PlainAs
    <3>2. wire = << >>
      BY <1>1, <2>1, <3>1 DEF InDialogue, Greeted
    <3> QED
      BY <3>2
  <2> QED
    BY <2>1
<1>9. ASSUME PlainAs(charSigned, greeting, asked)
      PROVE  Greeted' /\ Requested' /\ Understood' /\ Connects' /\ phase' # "thrown"
  <2>1. /\ greeting \in Greetings /\ GreetingPlain(s, greeting)
        /\ tmpB \o wire = GreetingBytes(greeting) /\ connReq = NotYet
    BY <1>1, <1>3, <1>8, <1>9 DEF InDialogue, PlainAs, Greeted, Connects
  <2>2. \/ len = 0 /\ w # << >>
        \/ len = Len(buf) /\ Len(buf) > 0 /\ w = << >>
    BY <1>3, <1>4, <2>1, GreetingRead DEF len
  <2>3. CASE len = 0 /\ w # << >>
    <3>1. tmpB' = buf /\ phase' = phase
      BY <1>2, <2>3
    <3>2. tmpB' \o wire' = GreetingBytes(greeting)
      BY <1>1, <1>4, <2>1, <3>1
    <3> QED
      BY <1>1, <1>8, <2>1, <2>3, <3>1, <3>2 DEF Greeted, Requested, Understood, Connects
  <2>4. CASE len = Len(buf) /\ Len(buf) > 0 /\ w = << >>
    <3>1. /\ tmpB' = SubSeq(buf, len + 1, Len(buf))
          /\ phase' \in {"handleWriteHandShake", "closed"}
      BY <1>2, <1>5, <2>4
    <3>2. tmpB' = << >>
      BY <1>5, <2>4, <3>1, SubSeqEmpty
    <3> QED
      BY <1>1, <1>3, <2>1, <2>4, <3>1, <3>2 DEF Greeted, Requested, Understood, Connects
  <2> QED
    BY <2>2, <2>3, <2>4
<1>10. asked' = NotYet /\ greeting' # NotYet
  BY <1>1, <1>3, <1>8
<1>11. PlainAs(charSigned, greeting, asked)' => PlainAs(charSigned, greeting, asked)
  BY <1>1
<1> QED
  BY <1>7, <1>9, <1>10, <1>11 DEF InDialogue

(* A read of the request keeps it.                                         *)
LEMMA InDialogueReadSockv5Req ==
  ASSUME InDialogue, NEW k \in 1 .. Len(wire), handleReadSockv5Req(k)
  PROVE  InDialogue'
<1> DEFINE buf == tmpB \o SubSeq(wire, 1, k)
           w == SubSeq(wire, k + 1, Len(wire))
           s == charSigned
           len == CheckAs(s, buf)
<1>1. /\ phase = "handleReadSockv5Req" /\ wire' = w
      /\ charSigned' = charSigned /\ greeting' = greeting /\ asked' = asked
      /\ connReq' = connReq
  BY DEF handleReadSockv5Req
<1>2. \/ len = 0 /\ tmpB' = buf /\ phase' = phase
      \/ len # 0 /\ ThrowsAs(s, buf) /\ tmpB' = buf /\ phase' = "thrown"
      \/ /\ len # 0 /\ ~ ThrowsAs(s, buf) /\ reqData' = ParsedAs(s, buf)
         /\ \/ tmpB' = buf /\ phase' = "closed"
            \/ tmpB' = SubSeq(buf, len + 1, Len(buf)) /\ phase' = "handleConnectToRemote"
  <2>1. /\ check(buf) = len /\ (parseThrows(buf) <=> ThrowsAs(s, buf))
        /\ parseFrom(buf) = ParsedAs(s, buf)
    BY AsDefined
  <2> HIDE DEF len, s
  <2> QED
    BY <2>1 DEF handleReadSockv5Req
<1>3. /\ s \in BOOLEAN /\ tmpB \in Seq(Int) /\ wire \in Seq(Int) /\ greeting # NotYet
      /\ asked \in Requests \cup {NotYet}
  BY <1>1 DEF InDialogue, DialogueType
<1>4. buf \in Seq(Int) /\ w \in Seq(Int) /\ buf \o w = tmpB \o wire
  <2>1. tmpB \in Seq(Int) /\ wire \in Seq(Int) /\ k \in 1 .. Len(wire)
    BY <1>3
  <2> QED
    BY ONLY <2>1, ReadKeeps
<1> HIDE DEF buf, w
<1>5. len # 0 /\ ~ ThrowsAs(s, buf) => len \in Nat \ {0}
  BY <1>4, ChecksType
<1> HIDE DEF len
<1>6. tmpB' \in Seq(Int)
  <2>1. len \in Nat \ {0} => SubSeq(buf, len + 1, Len(buf)) \in Seq(Int)
    BY <1>4, LeftType
  <2> QED
    BY <1>2, <1>4, <1>5, <2>1
<1>7. DialogueType'
  BY <1>1, <1>2, <1>3, <1>4, <1>6 DEF InDialogue, DialogueType, PhaseNames
<1>8. ASSUME PlainAs(charSigned, greeting, asked)
      PROVE  Greeted' /\ Requested' /\ Understood' /\ Connects' /\ phase' # "thrown"
  <2>1. asked # NotYet
    <3>1. ASSUME asked = NotYet PROVE FALSE
      <4>1. wire = << >>
        BY <1>1, <1>8, <3>1 DEF InDialogue, Requested
      <4> QED
        BY <4>1
    <3> QED
      BY <3>1
  <2>2. /\ asked \in Requests /\ RequestPlain(s, asked)
        /\ tmpB \o wire = RequestBytes(asked) /\ connReq = NotYet
    BY <1>1, <1>3, <1>8, <2>1 DEF InDialogue, PlainAs, Requested, Connects
  <2>3. Read(s, buf, w, asked)
    BY <1>3, <1>4, <2>2, RequestRead
  <2>4. CASE len = 0 /\ w # << >>
    <3>1. tmpB' = buf /\ phase' = phase
      BY <1>2, <2>4
    <3>2. tmpB' \o wire' = RequestBytes(asked)
      BY <1>1, <1>4, <2>2, <3>1
    <3> QED
      BY <1>1, <2>1, <2>2, <2>4, <3>1, <3>2 DEF Greeted, Requested, Understood, Connects
  <2>5. ASSUME len = CheckAs(s, RequestBytes(asked)), len = Counted(asked),
               len \in 1 .. Len(buf), ~ ThrowsAs(s, buf),
               ParsedAs(s, buf) = ParsedAs(s, RequestBytes(asked))
        PROVE  Greeted' /\ Requested' /\ Understood' /\ Connects' /\ phase' # "thrown"
    <3>1. /\ reqData' = ParsedAs(s, RequestBytes(asked))
          /\ \/ phase' = "closed"
             \/ tmpB' = SubSeq(buf, len + 1, Len(buf)) /\ phase' = "handleConnectToRemote"
      <4>1. len # 0
        BY <2>5
      <4> QED
        BY <1>2, <2>5, <4>1
    <3>2. SubSeq(buf, len + 1, Len(buf)) \o w
          = SubSeq(RequestBytes(asked), len + 1, Len(RequestBytes(asked)))
      <4> DEFINE q == RequestBytes(asked)
      <4>1. buf \in Seq(Int) /\ w \in Seq(Int) /\ buf \o w = q /\ len \in 1 .. Len(buf)
        BY <1>4, <2>2, <2>5
      <4>2. buf \in Seq(Int) /\ w \in Seq(Int) /\ len \in 1 .. Len(buf)
        BY <4>1
      <4> HIDE DEF q
      <4>3. SubSeq(buf, len + 1, Len(buf)) \o w = SubSeq(buf \o w, len + 1, Len(buf \o w))
        BY ONLY <4>2, RestKeeps
      <4>4. SubSeq(buf, len + 1, Len(buf)) \o w = SubSeq(q, len + 1, Len(q))
        BY <4>1, <4>3
      <4> QED
        BY <4>4 DEF q
    <3>3. CASE phase' = "closed"
      BY <1>1, <2>2, <3>3 DEF Greeted, Requested, Understood, Connects
    <3>4. CASE tmpB' = SubSeq(buf, len + 1, Len(buf)) /\ phase' = "handleConnectToRemote"
      <4>1. tmpB' \o wire'
            = SubSeq(RequestBytes(asked), Counted(asked) + 1, Len(RequestBytes(asked)))
        BY <1>1, <2>5, <3>2, <3>4
      <4>2. Understood'
        BY <1>1, <2>1, <2>5, <3>1, <3>4, <4>1 DEF Understood
      <4> QED
        BY <1>1, <2>2, <3>4, <4>2 DEF Greeted, Requested, Connects
    <3> QED
      BY <3>1, <3>3, <3>4
  <2> QED
    BY <2>3, <2>4, <2>5 DEF Read, len
<1>9. /\ phase' # "handleReadHandShake" /\ greeting' # NotYet
  BY <1>1, <1>2, <1>3
<1>10. PlainAs(charSigned, greeting, asked)' => PlainAs(charSigned, greeting, asked)
  BY <1>1
<1> QED
  BY <1>7, <1>8, <1>9, <1>10 DEF InDialogue

(* The connect message keeps it.                                           *)
LEMMA InDialogueConnects ==
  ASSUME InDialogue, handleConnectToRemote
  PROVE  InDialogue'
<1>1. /\ phase = "handleConnectToRemote" /\ phase' = "connected"
      /\ charSigned' = charSigned /\ greeting' = greeting /\ asked' = asked
      /\ wire' = wire /\ tmpB' = tmpB /\ reqData' = reqData
  BY DEF handleConnectToRemote
<1>2. DialogueType'
  BY <1>1 DEF InDialogue, DialogueType, PhaseNames
<1>3. greeting # NotYet
  BY <1>1 DEF InDialogue
<1>4. ASSUME PlainAs(charSigned, greeting, asked)
      PROVE  Greeted' /\ Requested' /\ Understood' /\ Connects' /\ phase' # "thrown"
  <2>1. /\ asked # NotYet /\ asked \in Requests /\ charSigned \in BOOLEAN
        /\ RequestPlain(charSigned, asked)
        /\ reqData = ParsedAs(charSigned, RequestBytes(asked))
        /\ Understood
    <3>1. Understood
      BY <1>4 DEF InDialogue
    <3> QED
      BY <1>1, <1>4, <3>1 DEF InDialogue, DialogueType, PlainAs, Understood
  <2>2. ASSUME asked.type = 3
        PROVE  connReq' = [type |-> 3, address |-> asked.address, port |-> asked.port]
    <3>1. /\ AddressAs(charSigned, RequestBytes(asked)) = asked.address
          /\ PortAs(charSigned, RequestBytes(asked)) = asked.port
      BY <2>1, <2>2, HostIsParsed
    <3>2. RequestBytes(asked)[4] = 3
      BY <2>1, <2>2, RequestShape
    <3>3. reqData.type = 3 /\ reqData.address = asked.address /\ reqData.port = asked.port
      BY <2>1, <3>1, <3>2 DEF ParsedAs
    <3>4. asked.port # NotSet
      BY <2>1, RequestType DEF NotSet
    <3>5. PICK port \in {asked.port} :
            connReq' = [type |-> reqData.type, port |-> port,
                        address |-> IF reqData.type = 1 THEN Reverse(reqData.address)
                                    ELSE reqData.address]
      BY <3>3, <3>4 DEF handleConnectToRemote
    <3> QED
      BY <3>3, <3>5
  <2>3. Understood'
    BY <1>1, <2>1 DEF Understood
  <2> QED
    BY <1>1, <2>2, <2>3 DEF Greeted, Requested, Connects
<1>5. PlainAs(charSigned, greeting, asked)' => PlainAs(charSigned, greeting, asked)
  BY <1>1
<1> QED
  BY <1>1, <1>2, <1>3, <1>4, <1>5 DEF InDialogue

(* The answer to the greeting was written.                                 *)
LEMMA InDialogueWritten ==
  ASSUME InDialogue, handleWriteHandShake
  PROVE  InDialogue'
<1>1. /\ phase = "handleWriteHandShake" /\ phase' = "handleReadSockv5Req"
      /\ charSigned' = charSigned /\ greeting' = greeting /\ asked' = asked
      /\ wire' = wire /\ tmpB' = tmpB /\ reqData' = reqData /\ connReq' = connReq
  BY DEF handleWriteHandShake
<1>2. DialogueType'
  BY <1>1 DEF InDialogue, DialogueType, PhaseNames
<1>3. ASSUME PlainAs(charSigned, greeting, asked)
      PROVE  Greeted' /\ Requested' /\ Understood' /\ Connects' /\ phase' # "thrown"
  <2>1. Requested /\ Connects
    BY <1>3 DEF InDialogue
  <2> QED
    BY <1>1, <2>1 DEF Greeted, Requested, Understood, Connects
<1>4. greeting # NotYet
  BY <1>1 DEF InDialogue
<1>5. PlainAs(charSigned, greeting, asked)' => PlainAs(charSigned, greeting, asked)
  BY <1>1
<1> QED
  BY <1>1, <1>2, <1>3, <1>4, <1>5 DEF InDialogue

(* In every state of the dialogue its invariant holds.                     *)
THEOREM InDialogueHolds == Spec => []InDialogue
<1>1. Init => InDialogue
  BY InDialogueInit
<1>2. InDialogue /\ [Next]_vars => InDialogue'
  <2> SUFFICES ASSUME InDialogue, [Next]_vars PROVE InDialogue'
    OBVIOUS
  <2>1. CASE \E g \in Greetings : Greets(g)
    BY <2>1, InDialogueGreets
  <2>2. CASE \E r \in Requests : Asks(r)
    BY <2>2, InDialogueAsks
  <2>3. CASE \E k \in 1 .. Len(wire) : handleReadHandShake(k)
    BY <2>3, InDialogueReadHandShake
  <2>4. CASE \E k \in 1 .. Len(wire) : handleReadSockv5Req(k)
    BY <2>4, InDialogueReadSockv5Req
  <2>5. CASE handleWriteHandShake
    BY <2>5, InDialogueWritten
  <2>6. CASE handleConnectToRemote
    BY <2>6, InDialogueConnects
  <2>7. CASE UNCHANGED vars
    BY <2>7 DEF vars, InDialogue, DialogueType, Greeted, Requested, Understood, Connects
  <2> QED
    BY <2>1, <2>2, <2>3, <2>4, <2>5, <2>6, <2>7 DEF Next
<1> QED
  BY <1>1, <1>2, PTL DEF Spec

(* A length that is plain is plain in the build.                           *)
LEMMA PlainIs ==
  Plain => PlainAs(charSigned, greeting, asked)
<1>1. \A b : Char(b) = CharAs(charSigned, b)
  BY DEF Char, CharAs
<1> QED
  BY <1>1 DEF Plain, PlainAs, GreetingPlain, RequestPlain

-----------------------------------------------------------------------------
(* For every greeting and request, in a build with or without a sign, and  *)
(* however TCP cuts the stream: a length that a char can hold neither ends *)
(* the program nor changes the host or the port that is asked for.         *)
THEOREM AsAskedHolds == Spec => []AsAsked
<1>1. InDialogue => AsAsked
  <2> SUFFICES ASSUME InDialogue, Plain
               PROVE  /\ phase # "thrown"
                      /\ connReq # NotYet /\ asked.type = 3 =>
                           connReq = [type |-> 3, address |-> asked.address,
                                      port |-> asked.port]
    BY DEF AsAsked
  <2>1. phase # "thrown" /\ Connects
    BY PlainIs DEF InDialogue
  <2> QED
    BY <2>1 DEF Connects
<1> QED
  BY <1>1, InDialogueHolds, PTL

(* And check() takes a greeting or request as soon as all of it is there.  *)
THEOREM WholeIsTakenHolds == Spec => []WholeIsTaken
<1>1. InDialogue => WholeIsTaken
  <2> SUFFICES ASSUME InDialogue, Plain, wire = << >>
               PROVE  /\ greeting # NotYet => phase # "handleReadHandShake"
                      /\ asked # NotYet => phase # "handleReadSockv5Req"
    BY DEF WholeIsTaken
  <2>1. Greeted /\ Requested
    BY PlainIs DEF InDialogue
  <2> QED
    BY <2>1 DEF Greeted, Requested
<1> QED
  BY <1>1, InDialogueHolds, PTL

(* And what parseFrom() makes of a request, and what is left for the pipe, *)
(* is what it makes of all of it: the cut of the stream decides nothing.   *)
THEOREM SameForEveryCutHolds == Spec => []SameForEveryCut
<1>1. InDialogue => SameForEveryCut
  <2> DEFINE all == RequestBytes(asked)
  <2> SUFFICES ASSUME InDialogue, Plain, phase \in {"handleConnectToRemote", "connected"}
               PROVE  /\ reqData = parseFrom(all)
                      /\ tmpB \o wire = SubSeq(all, check(all) + 1, Len(all))
                      /\ asked.type = 3 => tmpB \o wire = << >>
    BY DEF SameForEveryCut
  <2>1. Understood /\ asked \in Requests \cup {NotYet}
    BY PlainIs DEF InDialogue, DialogueType
  <2>2. /\ asked \in Requests /\ reqData = ParsedAs(charSigned, all)
        /\ CheckAs(charSigned, all) = Counted(asked)
        /\ tmpB \o wire = SubSeq(all, Counted(asked) + 1, Len(all))
    BY <2>1 DEF Understood
  <2>3. check(all) = Counted(asked) /\ parseFrom(all) = ParsedAs(charSigned, all)
    BY <2>2, AsDefined
  <2>4. ASSUME asked.type = 3 PROVE tmpB \o wire = << >>
    <3>1. Counted(asked) = Len(all) /\ Counted(asked) \in Nat
      BY <2>2, <2>4, CountedIs
    <3>2. all \in Seq(Int)
      BY <2>2, RequestShape
    <3> HIDE DEF all
    <3>3. SubSeq(all, Len(all) + 1, Len(all)) = << >>
      BY <3>1, <3>2, SubSeqEmpty
    <3> QED
      BY <2>2, <3>1, <3>3
  <2> QED
    BY <2>2, <2>3, <2>4
<1> QED
  BY <1>1, InDialogueHolds, PTL
=============================================================================
