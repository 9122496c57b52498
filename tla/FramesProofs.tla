---------------------------- MODULE FramesProofs ----------------------------
(***************************************************************************)
(* Proofs about FixLengthFrame, for every message that its length field    *)
(* can count and every width of a byte, and about HttpFrame, for every     *)
(* message: what addFrame makes, check() and removeFrame find again,       *)
(* however the stream is cut.  Then about lists of frames and the drain    *)
(* loop: the receiver stays in step with a sender that frames, and leaves  *)
(* no whole message in its buffer.                                         *)
(***************************************************************************)
EXTENDS Framing, WireLemmas

-----------------------------------------------------------------------------
(* Arithmetic.                                                             *)

(* A product grows with its factor.                                        *)
LEMMA Monotone ==
  ASSUME NEW c \in Nat, NEW a \in Int, NEW m \in Int, a <= m
  PROVE  a * c <= m * c
<1>1. m - a \in Nat /\ (m - a) * c = m * c - a * c
  BY SMT
<1>2. \A x, y \in Nat : x * y >= 0
  BY SMT
<1>3. (m - a) * c >= 0
  BY <1>1, <1>2
<1>4. a * c \in Int /\ m * c \in Int
  BY SMT
<1> QED
  BY <1>1, <1>3, <1>4, SMT

(* Division with remainder is unique.                                      *)
LEMMA Quotient ==
  ASSUME NEW c \in Nat \ {0}, NEW q \in Nat, NEW r \in 0 .. c - 1
  PROVE  (q * c + r) \div c = q
<1> DEFINE x == q * c + r
           p == x \div c
           s == x % c
<1>1. x \in Int /\ p \in Int /\ s \in 0 .. c - 1 /\ x = p * c + s
  BY SMT
<1>2. q * c \in Int /\ p * c \in Int /\ q * c + r = p * c + s
  BY <1>1, SMT
<1> HIDE DEF x, p, s
<1>3. ~ q >= p + 1
  <2>1. ASSUME q >= p + 1 PROVE FALSE
    <3>1. (p + 1) * c <= q * c
      BY <1>1, <2>1, Monotone
    <3>2. (p + 1) * c = p * c + c
      BY <1>1, SMT
    <3> QED
      BY <1>1, <1>2, <3>1, <3>2, SMT
  <2> QED
    BY <2>1
<1>4. ~ p >= q + 1
  <2>1. ASSUME p >= q + 1 PROVE FALSE
    <3>1. (q + 1) * c <= p * c
      BY <1>1, <2>1, Monotone
    <3>2. (q + 1) * c = q * c + c
      BY SMT
    <3> QED
      BY <1>1, <1>2, <3>1, <3>2, SMT
  <2> QED
    BY <2>1
<1>5. p = q
  BY <1>1, <1>3, <1>4, SMT
<1> QED
  BY <1>5 DEF p, x

(* A number by its quotient and its remainder.                             *)
LEMMA Divided ==
  ASSUME NEW c \in Nat \ {0}, NEW n \in Nat
  PROVE  /\ n \div c \in Nat /\ n % c \in 0 .. c - 1
         /\ n = (n \div c) * c + (n % c)
BY SMT

(* Dividing twice.                                                         *)
LEMMA DividedTwice ==
  ASSUME NEW b \in Nat \ {0}, NEW c \in Nat \ {0}, NEW n \in Nat
  PROVE  n \div (c * b) = (n \div b) \div c
<1> DEFINE p == n \div b
           s == n % b
           t == p \div c
           u == p % c
<1>1. p \in Nat /\ s \in 0 .. b - 1 /\ n = p * b + s
  BY Divided
<1>2. t \in Nat /\ u \in 0 .. c - 1 /\ p = t * c + u
  BY <1>1, Divided
<1> HIDE DEF p, s, t, u
<1>3. n = t * (c * b) + (u * b + s)
  <2>1. (t * c + u) * b = t * (c * b) + u * b
    BY <1>2, SMT
  <2>2. t * (c * b) \in Int /\ u * b \in Int
    BY <1>2, SMT
  <2> QED
    BY <1>1, <1>2, <2>1, <2>2, SMT
<1>4. c * b \in Nat \ {0}
  BY SMT
<1>5. u * b + s \in 0 .. c * b - 1
  <2>1. u \in Int /\ c - 1 \in Int /\ u <= c - 1 /\ 0 <= u
    BY <1>2, SMT
  <2>2. u * b <= (c - 1) * b /\ 0 * b <= u * b
    BY <2>1, Monotone
  <2>3. (c - 1) * b = c * b - b /\ 0 * b = 0 /\ u * b \in Int /\ c * b \in Int
    BY <1>2, SMT
  <2> QED
    BY <1>1, <2>2, <2>3, SMT
<1>6. (t * (c * b) + (u * b + s)) \div (c * b) = t
  BY <1>2, <1>4, <1>5, Quotient
<1> QED
  BY <1>3, <1>6 DEF t, p

(* A digit behind a number: how large both are together, and how much      *)
(* smaller if the digit is zero or the number not the largest.             *)
LEMMA Spelled ==
  ASSUME NEW c \in Nat \ {0}, NEW a \in 0 .. c - 1, NEW z \in 0 .. Base - 1
  PROVE  /\ c * Base \in Nat \ {0}
         /\ a * Base + z \in 0 .. c * Base - 1
         /\ z = 0 \/ a <= c - 2 => a * Base + z <= c * Base - Base
<1>1. Base \in Nat /\ Base > 4
  BY FramesAssumption
<1>2. a * Base \in Int /\ c * Base \in Int /\ (c - 1) * Base = c * Base - Base
      /\ (c - 2) * Base = c * Base - Base - Base /\ 0 * Base = 0 /\ 1 * Base = Base
  BY <1>1, SMT
<1>3. a * Base <= (c - 1) * Base /\ 0 * Base <= a * Base /\ 1 * Base <= c * Base
  BY <1>1, Monotone
<1>4. ASSUME a <= c - 2 PROVE a * Base <= (c - 2) * Base
  BY <1>1, <1>4, Monotone
<1> QED
  BY <1>1, <1>2, <1>3, <1>4, SMT

-----------------------------------------------------------------------------
(* The length field.                                                       *)

(* What four bytes spell, and the bytes that spell n.                      *)
Spells(q) == ((q[1] * Base + q[2]) * Base + q[3]) * Base + q[4]

Digits(n) == << (n \div (Base * Base * Base)) % Base, (n \div (Base * Base)) % Base,
                (n \div Base) % Base, n % Base >>

(* The bytes that addFrame writes spell the length again.                  *)
LEMMA DigitsSpell ==
  ASSUME NEW n \in Nat, n < Width
  PROVE  /\ Digits(n) \in [1 .. 4 -> 0 .. Base - 1]
         /\ Spells(Digits(n)) = n
<1> DEFINE p == n \div Base
           s == p \div Base
           t == s \div Base
<1>1. Base \in Nat \ {0} /\ Base * Base \in Nat \ {0} /\ Base * Base * Base \in Nat \ {0}
  <2>1. Base \in Nat \ {0}
    BY FramesAssumption
  <2>2. \A b, c \in Nat \ {0} : b * c \in Nat \ {0}
    BY SMT
  <2> QED
    BY <2>1, <2>2
<1>2. p \in Nat /\ n % Base \in 0 .. Base - 1 /\ n = p * Base + (n % Base)
  BY <1>1, Divided
<1>3. s \in Nat /\ p % Base \in 0 .. Base - 1 /\ p = s * Base + (p % Base)
  BY <1>1, <1>2, Divided
<1>4. t \in Nat /\ s % Base \in 0 .. Base - 1 /\ s = t * Base + (s % Base)
  BY <1>1, <1>3, Divided
<1>5. n \div (Base * Base) = s
  BY <1>1, DividedTwice
<1>6. n \div (Base * Base * Base) = t
  <2>1. n \div ((Base * Base) * Base) = p \div (Base * Base)
    BY <1>1, DividedTwice
  <2>2. p \div (Base * Base) = t
    BY <1>1, <1>2, DividedTwice
  <2> QED
    BY <2>1, <2>2
<1> HIDE DEF p, s, t
<1>7. t \in 0 .. Base - 1
  <2>1. ASSUME t >= Base PROVE FALSE
    <3>1. Base * Base <= t * Base
      BY <1>1, <1>4, <2>1, Monotone
    <3>2. Base * Base <= s
      BY <1>1, <1>4, <3>1, SMT
    <3>3. (Base * Base) * Base <= s * Base
      BY <1>1, <1>3, <3>2, Monotone
    <3>4. Base * Base * Base <= p
      BY <1>1, <1>3, <3>3, SMT
    <3>5. (Base * Base * Base) * Base <= p * Base
      BY <1>1, <1>2, <3>4, Monotone
    <3>6. Width \in Int /\ p * Base \in Int /\ Width <= p * Base
      BY <1>1, <1>2, <3>5 DEF Width
    <3> QED
      BY <1>2, <3>6, SMT
  <2> QED
    BY <1>1, <1>4, <2>1, SMT
<1>8. t % Base = t
  BY <1>1, <1>7, SMT
<1>9. Digits(n) = << t, s % Base, p % Base, n % Base >>
  BY <1>5, <1>6, <1>8 DEF Digits, p
<1>10. Digits(n) \in [1 .. 4 -> 0 .. Base - 1]
  BY <1>2, <1>3, <1>4, <1>7, <1>9, SMT
<1>11. Spells(Digits(n)) = ((t * Base + (s % Base)) * Base + (p % Base)) * Base + (n % Base)
  BY <1>9, SMT DEF Spells
<1> QED
  BY <1>2, <1>3, <1>4, <1>10, <1>11

(* A length with a zero among its bytes does not wrap with the four bytes  *)
(* of the header.                                                          *)
LEMMA ZeroDoesNotWrap ==
  ASSUME NEW q \in [1 .. 4 -> 0 .. Base - 1], NEW i \in 1 .. 4, q[i] = 0
  PROVE  Spells(q) \in Nat /\ (Spells(q) + 4) % Width = Spells(q) + 4
<1> DEFINE g == q[1] * Base + q[2]
           h == g * Base + q[3]
           BB == Base * Base
           BBB == BB * Base
           n == h * Base + q[4]
<1>1. Base \in Nat \ {0} /\ Base > 4 /\ \A j \in 1 .. 4 : q[j] \in 0 .. Base - 1
  BY FramesAssumption
<1>2. BB \in Nat \ {0} /\ g \in 0 .. BB - 1
      /\ (q[2] = 0 \/ q[1] <= Base - 2 => g <= BB - Base)
  BY <1>1, Spelled
<1>3. i \in {1, 2} => g <= BB - 2
  BY <1>1, <1>2, SMT
<1> HIDE DEF g, BB
<1>4. BBB \in Nat \ {0} /\ h \in 0 .. BBB - 1
      /\ (q[3] = 0 \/ g <= BB - 2 => h <= BBB - Base)
  BY <1>1, <1>2, Spelled
<1>5. i \in {1, 2, 3} => h <= BBB - 2
  BY <1>1, <1>3, <1>4, SMT
<1> HIDE DEF h, BBB
<1>6. BBB * Base \in Nat \ {0} /\ n \in 0 .. BBB * Base - 1
      /\ (q[4] = 0 \/ h <= BBB - 2 => n <= BBB * Base - Base)
  BY <1>1, <1>4, Spelled
<1>7. n <= BBB * Base - Base
  BY <1>5, <1>6, SMT
<1> HIDE DEF n
<1>8. Width = BBB * Base /\ Spells(q) = n
  BY DEF Width, Spells, n, h, g, BBB, BB
<1>9. Width \in Nat \ {0} /\ n \in Nat /\ n + 4 < Width
  BY <1>1, <1>6, <1>7, <1>8, SMT
<1> QED
  BY <1>8, <1>9, SMT

(* What check() and removeFrame() read from a whole header.                *)
LEMMA HeaderIsRead ==
  ASSUME NEW n \in Nat, n < Width, NEW s \in Seq(Token), Len(s) >= 4,
         \A i \in 1 .. 4 : s[i].n = Digits(n)[i]
  PROVE  FixLengths(s) = {n}
<1> DEFINE D == Digits(n)
           Suit(q) == \A i \in 1 .. 4 : /\ i <= Len(s) => q[i] = s[i].n
                                        /\ i = Len(s) + 1 => q[i] = 0
<1>1. D \in [1 .. 4 -> 0 .. Base - 1] /\ Spells(D) = n
  BY DigitsSpell
<1>2. FixLengths(s) = { Spells(q) : q \in { x \in [1 .. 4 -> 0 .. Base - 1] : Suit(x) } }
  BY DEF FixLengths, Spells
<1>3. Len(s) \in Nat
  BY LenProperties
<1> HIDE DEF D
<1>4. Suit(D)
  BY <1>3, SMT DEF D
<1>5. ASSUME NEW q \in [1 .. 4 -> 0 .. Base - 1], Suit(q) PROVE q = D
  <2>1. \A i \in 1 .. 4 : q[i] = D[i]
    BY <1>3, <1>5, SMT DEF D
  <2> QED
    BY <1>1, <2>1
<1> HIDE DEF Suit
<1> QED
  BY <1>1, <1>2, <1>4, <1>5

-----------------------------------------------------------------------------
(* The frames.                                                             *)

(* What addFrame makes: the bytes of the length, then the message.         *)
LEMMA Framed ==
  ASSUME NEW d \in Seq(Token)
  PROVE  /\ FixAdd(d) \in Seq(Token) /\ Len(FixAdd(d)) = Len(d) + 4
         /\ Len(d) < Width => \A i \in 1 .. 4 : FixAdd(d)[i].n = Digits(Len(d))[i]
         /\ \A i \in 1 .. Len(d) : FixAdd(d)[i + 4] = d[i]
<1> DEFINE D == Digits(Len(d))
           header == << Byte(D[1]), Byte(D[2]), Byte(D[3]), Byte(D[4]) >>
<1>1. Len(d) \in Nat
  BY LenProperties
<1>2. Base \in Nat \ {0}
  BY FramesAssumption
<1>3. \A i \in 1 .. 4 : D[i] \in Nat
  <2>1. \A x \in Int : x % Base \in Nat
    BY <1>2, SMT
  <2>2. Base * Base \in Nat \ {0} /\ Base * Base * Base \in Nat \ {0}
    <3>1. \A b, c \in Nat \ {0} : b * c \in Nat \ {0}
      BY SMT
    <3> QED
      BY <1>2, <3>1
  <2>3. \A c \in Nat \ {0} : Len(d) \div c \in Int
    BY <1>1, SMT
  <2>4. /\ (Len(d) \div (Base * Base * Base)) % Base \in Nat
        /\ (Len(d) \div (Base * Base)) % Base \in Nat
        /\ (Len(d) \div Base) % Base \in Nat /\ Len(d) % Base \in Nat
    BY <1>1, <1>2, <2>1, <2>2, <2>3
  <2> QED
    BY <2>4 DEF Digits
<1>4. FixAdd(d) = header \o d
  BY DEF FixAdd, Digits
<1> HIDE DEF D
<1>5. \A b \in Nat : Byte(b) \in Token /\ Byte(b).n = b
  BY DEF Byte, Token
<1>6. header \in Seq(Token) /\ Len(header) = 4 /\ \A i \in 1 .. 4 : header[i].n = D[i]
  <2>1. \A i \in 1 .. 4 : header[i] = Byte(D[i])
    OBVIOUS
  <2>2. /\ Byte(D[1]) \in Token /\ Byte(D[2]) \in Token
        /\ Byte(D[3]) \in Token /\ Byte(D[4]) \in Token
    BY <1>3, <1>5
  <2>3. header \in Seq(Token)
    BY <2>2
  <2> QED
    BY <1>3, <1>5, <2>1, <2>3
<1> HIDE DEF header
<1>7. /\ header \o d \in Seq(Token) /\ Len(header \o d) = Len(header) + Len(d)
      /\ \A i \in 1 .. Len(header) + Len(d) :
           (header \o d)[i] = IF i <= Len(header) THEN header[i] ELSE d[i - Len(header)]
  BY <1>6, ConcatProperties
<1>8. \A i \in 1 .. 4 : (header \o d)[i].n = D[i]
  BY <1>1, <1>6, <1>7, SMT
<1>9. \A i \in 1 .. Len(d) : (header \o d)[i + 4] = d[i]
  BY <1>1, <1>6, <1>7, SMT
<1> QED
  BY <1>1, <1>4, <1>6, <1>7, <1>8, <1>9 DEF D

(* A length that check() adds four to without wrapping.                    *)
LEMMA SmallLength ==
  ASSUME NEW n \in Nat, n + 4 < Width
  PROVE  n < Width /\ (n + 4) % Width = n + 4
<1>1. Width \in Nat \ {0}
  <2>1. \A b, c \in Nat \ {0} : b * c \in Nat \ {0}
    BY SMT
  <2> QED
    BY <2>1, FramesAssumption DEF Width
<1> QED
  BY <1>1, SMT

(* check() finds the whole frame that addFrame made, whatever of the next  *)
(* frames the same read delivered behind it.                               *)
THEOREM FrameIsFound ==
  ASSUME NEW d \in Seq(Token), Len(d) + 4 < Width, NEW r \in Seq(Token)
  PROVE  FixCheck(FixAdd(d) \o r) = {Len(d) + 4}
<1> DEFINE s == FixAdd(d) \o r
<1>1. Len(d) \in Nat /\ Len(r) \in Nat
  BY LenProperties
<1>2. Len(d) < Width /\ (Len(d) + 4) % Width = Len(d) + 4
  BY <1>1, SmallLength
<1>3. /\ FixAdd(d) \in Seq(Token) /\ Len(FixAdd(d)) = Len(d) + 4
      /\ \A i \in 1 .. 4 : FixAdd(d)[i].n = Digits(Len(d))[i]
  BY <1>2, Framed
<1>4. /\ s \in Seq(Token) /\ Len(s) = Len(d) + 4 + Len(r)
      /\ \A i \in 1 .. 4 : s[i] = FixAdd(d)[i]
  BY <1>1, <1>3, ConcatProperties
<1> HIDE DEF s
<1>5. FixLengths(s) = {Len(d)}
  <2>1. Len(s) >= 4 /\ \A i \in 1 .. 4 : s[i].n = Digits(Len(d))[i]
    BY <1>1, <1>3, <1>4
  <2> QED
    BY <1>1, <1>2, <1>4, <2>1, HeaderIsRead
<1>6. ~ (Len(d) + 4) % Width > Len(s)
  BY <1>1, <1>2, <1>4, SMT
<1>7. FixCheck(s) = {(Len(d) + 4) % Width}
  BY <1>5, <1>6 DEF FixCheck
<1> QED
  BY <1>2, <1>7 DEF s

(* check() waits as long as any part of the frame is missing, of the       *)
(* header too: behind a part of the header it reads the terminator and     *)
(* whatever is in memory, and no such length is taken for one that is      *)
(* already there.                                                          *)
THEOREM FrameIsAwaited ==
  ASSUME NEW d \in Seq(Token), Len(d) + 4 < Width, NEW k \in 0 .. Len(d) + 3
  PROVE  FixCheck(SubSeq(FixAdd(d), 1, k)) = {0}
<1> DEFINE s == SubSeq(FixAdd(d), 1, k)
<1>1. Len(d) \in Nat /\ k \in Nat
  BY LenProperties
<1>2. Len(d) < Width /\ (Len(d) + 4) % Width = Len(d) + 4
  BY <1>1, SmallLength
<1>3. /\ FixAdd(d) \in Seq(Token) /\ Len(FixAdd(d)) = Len(d) + 4
      /\ \A i \in 1 .. 4 : FixAdd(d)[i].n = Digits(Len(d))[i]
  BY <1>2, Framed
<1>4. s \in Seq(Token) /\ Len(s) = k /\ \A i \in 1 .. k : s[i] = FixAdd(d)[i]
  <2>1. \A i \in 1 .. k : FixAdd(d)[i] \in Token
    BY <1>1, <1>3, ElementOfSeq
  <2>2. /\ s \in Seq(Token) /\ Len(s) = (IF 1 <= k THEN k - 1 + 1 ELSE 0)
        /\ \A i \in 1 .. k - 1 + 1 : s[i] = FixAdd(d)[1 + i - 1]
    BY <1>1, <2>1, SubSeqProperties
  <2> HIDE DEF s
  <2> QED
    BY <1>1, <2>2
<1> HIDE DEF s
<1>5. ASSUME NEW len \in FixLengths(s) PROVE (len + 4) % Width > Len(s)
  <2>1. CASE k >= 4
    <3>1. FixLengths(s) = {Len(d)}
      <4>1. Len(s) >= 4 /\ \A i \in 1 .. 4 : s[i].n = Digits(Len(d))[i]
        BY <1>1, <1>3, <1>4, <2>1
      <4> QED
        BY <1>1, <1>2, <1>4, <4>1, HeaderIsRead
    <3> QED
      BY <1>1, <1>2, <1>4, <1>5, <3>1
  <2>2. CASE k < 4
    <3>1. PICK q \in [1 .. 4 -> 0 .. Base - 1] : len = Spells(q) /\ q[k + 1] = 0
      BY <1>1, <1>4, <1>5, <2>2, SMT DEF FixLengths, Spells
    <3>2. Spells(q) \in Nat /\ (Spells(q) + 4) % Width = Spells(q) + 4
      BY <1>1, <2>2, <3>1, ZeroDoesNotWrap
    <3> QED
      BY <1>1, <1>4, <2>2, <3>1, <3>2, SMT
  <2> QED
    BY <1>1, <2>1, <2>2
<1>6. FixLengths(s) # {}
  <2> DEFINE D == Digits(Len(d))
             q == [i \in 1 .. 4 |-> IF i <= k THEN D[i] ELSE 0]
  <2>1. D \in [1 .. 4 -> 0 .. Base - 1]
    BY <1>1, <1>2, DigitsSpell
  <2>2. q \in [1 .. 4 -> 0 .. Base - 1]
    <3>1. \A i \in 1 .. 4 : D[i] \in 0 .. Base - 1 /\ 0 \in 0 .. Base - 1
      BY <2>1, FramesAssumption
    <3> HIDE DEF D
    <3> QED
      BY <3>1
  <2>3. \A i \in 1 .. 4 : /\ i <= Len(s) => q[i] = s[i].n
                          /\ i = Len(s) + 1 => q[i] = 0
    BY <1>1, <1>3, <1>4, SMT
  <2> HIDE DEF q
  <2>4. Spells(q) \in FixLengths(s)
    BY <2>2, <2>3 DEF FixLengths, Spells
  <2> QED
    BY <2>4
<1>7. FixCheck(s) = {0}
  BY <1>5, <1>6 DEF FixCheck
<1> QED
  BY <1>7 DEF s

(* removeFrame() takes off what addFrame put on, and cannot throw on it.   *)
THEOREM FrameIsTaken ==
  ASSUME NEW d \in Seq(Token), Len(d) + 4 < Width
  PROVE  FixRemove(FixAdd(d)) = {d}
<1> DEFINE s == FixAdd(d)
<1>1. Len(d) \in Nat
  BY LenProperties
<1>2. Len(d) < Width
  BY <1>1, SmallLength
<1>3. /\ s \in Seq(Token) /\ Len(s) = Len(d) + 4
      /\ \A i \in 1 .. 4 : s[i].n = Digits(Len(d))[i]
      /\ \A i \in 1 .. Len(d) : s[i + 4] = d[i]
  BY <1>2, Framed
<1> HIDE DEF s
<1>4. FixLengths(s) = {Len(d)}
  BY <1>1, <1>2, <1>3, HeaderIsRead
<1>5. FixRemove(s) = {SubSeq(s, 5, Len(d) + 4)}
  <2>1. { l \in FixLengths(s) : Len(s) >= 4 } = {Len(d)}
    BY <1>1, <1>3, <1>4
  <2>2. (IF 4 + Len(d) < Len(s) THEN 4 + Len(d) ELSE Len(s)) = Len(d) + 4
    BY <1>1, <1>3
  <2> QED
    BY <2>1, <2>2 DEF FixRemove
<1>6. SubSeq(s, 5, Len(d) + 4) = d
  <2>1. /\ SubSeq(s, 5, Len(d) + 4) \in Seq(Token)
        /\ Len(SubSeq(s, 5, Len(d) + 4)) = Len(d)
        /\ \A i \in 1 .. Len(d) : SubSeq(s, 5, Len(d) + 4)[i] = s[i + 4]
    BY <1>1, <1>3, SubSeqProperties
  <2> QED
    BY <1>3, <2>1, SeqEqual
<1> QED
  BY <1>5, <1>6 DEF s

-----------------------------------------------------------------------------
(* HttpFrame.                                                              *)

(* The word in front of the length.                                        *)
LengthField == Word("Content-Length: ")

(* s begins with the header that addFrame puts before a message of n       *)
(* bytes, as far as it goes.                                               *)
Heads(s, first, n) ==
  /\ Len(s) >= 1 => s[1] = Word(first)
  /\ Len(s) >= 2 => s[2] = Word("line")
  /\ Len(s) >= 3 => s[3] = Word("cr")
  /\ Len(s) >= 4 => s[4] = Word("lf")
  /\ Len(s) >= 5 => s[5] = LengthField
  /\ Len(s) >= 6 => s[6] = Number(n)
  /\ Len(s) >= 7 => s[7] = Word("cr")
  /\ Len(s) >= 8 => s[8] = Word("lf")
  /\ Len(s) >= 9 => s[9] = Word("line")
  /\ Len(s) >= 10 => s[10] = Word("cr")
  /\ Len(s) >= 11 => s[11] = Word("lf")
  /\ Len(s) >= 12 => s[12] = Word("cr")
  /\ Len(s) >= 13 => s[13] = Word("lf")

(* The blank line that ends a header.                                      *)
Blank == CRLF \o CRLF

(* The words of an HTTP frame, and its numbers, are tokens.                *)
LEMMA WordType ==
  /\ Word("line") \in Token /\ Word("cr") \in Token /\ Word("lf") \in Token
  /\ Word("POST") \in Token /\ Word("HTTP") \in Token
  /\ LengthField \in Token
  /\ \A n \in Nat : Number(n) \in Token
BY DEF Word, Number, Token, LengthField

(* The words check() looks for are no other words of a header.             *)
LEMMA WordsDiffer ==
  ASSUME NEW first \in {"POST", "HTTP"}, NEW n
  PROVE  /\ Word("line") # Word("cr") /\ Word("lf") # Word("cr")
         /\ Word(first) # Word("cr") /\ LengthField # Word("cr")
         /\ Number(n) # Word("cr")
         /\ Word("line") # LengthField /\ Word("cr") # LengthField
         /\ Word("lf") # LengthField /\ Word(first) # LengthField
BY DEF Word, Number, LengthField

(* Strings of one token and of two, and what they make a string.           *)
LEMMA OneMore ==
  ASSUME NEW s \in Seq(Token), NEW a \in Token
  PROVE  /\ s \o << a >> \in Seq(Token) /\ Len(s \o << a >>) = Len(s) + 1
         /\ \A i \in 1 .. Len(s) : (s \o << a >>)[i] = s[i]
         /\ (s \o << a >>)[Len(s) + 1] = a
<1> DEFINE t == << a >>
<1>1. t \in Seq(Token) /\ Len(t) = 1 /\ t[1] = a
  OBVIOUS
<1> HIDE DEF t
<1>2. Len(s) \in Nat
  BY LenProperties
<1>3. /\ s \o t \in Seq(Token) /\ Len(s \o t) = Len(s) + Len(t)
      /\ \A i \in 1 .. Len(s) + Len(t) :
           (s \o t)[i] = IF i <= Len(s) THEN s[i] ELSE t[i - Len(s)]
  BY <1>1, ConcatProperties
<1>4. \A i \in 1 .. Len(s) : (s \o t)[i] = s[i]
  BY <1>1, <1>2, <1>3
<1>5. (s \o t)[Len(s) + 1] = t[1]
  BY <1>1, <1>2, <1>3
<1> QED
  BY <1>1, <1>3, <1>4, <1>5 DEF t

(* A string with two tokens more, and where they are.                      *)
LEMMA TwoMore ==
  ASSUME NEW s \in Seq(Token), NEW a \in Token, NEW b \in Token
  PROVE  /\ s \o << a, b >> \in Seq(Token) /\ Len(s \o << a, b >>) = Len(s) + 2
         /\ \A i \in 1 .. Len(s) : (s \o << a, b >>)[i] = s[i]
         /\ (s \o << a, b >>)[Len(s) + 1] = a
         /\ (s \o << a, b >>)[Len(s) + 2] = b
<1> DEFINE t == << a, b >>
<1>1. t \in Seq(Token) /\ Len(t) = 2 /\ t[1] = a /\ t[2] = b
  OBVIOUS
<1> HIDE DEF t
<1>2. Len(s) \in Nat
  BY LenProperties
<1>3. /\ s \o t \in Seq(Token) /\ Len(s \o t) = Len(s) + Len(t)
      /\ \A i \in 1 .. Len(s) + Len(t) :
           (s \o t)[i] = IF i <= Len(s) THEN s[i] ELSE t[i - Len(s)]
  BY <1>1, ConcatProperties
<1>4. \A i \in 1 .. Len(s) : (s \o t)[i] = s[i]
  BY <1>1, <1>2, <1>3
<1>5. (s \o t)[Len(s) + 1] = t[1] /\ (s \o t)[Len(s) + 2] = t[2]
  BY <1>1, <1>2, <1>3
<1> QED
  BY <1>1, <1>3, <1>4, <1>5 DEF t

(* An end of line is two tokens and a blank line four.                     *)
LEMMA BlankType ==
  /\ CRLF \in Seq(Token) /\ Len(CRLF) = 2
  /\ Blank \in Seq(Token) /\ Len(Blank) = 4
  /\ Blank[1] = Word("cr") /\ Blank[2] = Word("lf")
  /\ Blank[3] = Word("cr") /\ Blank[4] = Word("lf")
<1>1. /\ CRLF \in Seq(Token) /\ Len(CRLF) = 2
      /\ CRLF[1] = Word("cr") /\ CRLF[2] = Word("lf")
  <2>1. ASSUME NEW c \in Token, NEW l \in Token
        PROVE  /\ << c, l >> \in Seq(Token) /\ Len(<< c, l >>) = 2
               /\ << c, l >>[1] = c /\ << c, l >>[2] = l
    OBVIOUS
  <2> QED
    BY <2>1, WordType DEF CRLF
<1>2. /\ Blank \in Seq(Token) /\ Len(Blank) = Len(CRLF) + 2
      /\ \A i \in 1 .. Len(CRLF) : Blank[i] = CRLF[i]
      /\ Blank[Len(CRLF) + 1] = Word("cr") /\ Blank[Len(CRLF) + 2] = Word("lf")
  <2>1. Blank = CRLF \o << Word("cr"), Word("lf") >>
    BY DEF Blank, CRLF
  <2>2. Word("cr") \in Token /\ Word("lf") \in Token /\ CRLF \in Seq(Token)
    BY <1>1, WordType
  <2>3. ASSUME NEW c \in Token, NEW l \in Token, NEW s \in Seq(Token)
        PROVE  /\ s \o << c, l >> \in Seq(Token) /\ Len(s \o << c, l >>) = Len(s) + 2
               /\ \A i \in 1 .. Len(s) : (s \o << c, l >>)[i] = s[i]
               /\ (s \o << c, l >>)[Len(s) + 1] = c
               /\ (s \o << c, l >>)[Len(s) + 2] = l
    BY TwoMore
  <2> QED
    BY ONLY <2>1, <2>2, <2>3
<1>3. /\ Blank \in Seq(Token) /\ Len(Blank) = 4
      /\ Blank[1] = CRLF[1] /\ Blank[2] = CRLF[2]
      /\ Blank[3] = Word("cr") /\ Blank[4] = Word("lf")
  BY <1>1, <1>2
<1> QED
  BY <1>1, <1>3

(* Where a blank line is in a string.                                      *)
LEMMA BlankAt ==
  ASSUME NEW s \in Seq(Token), NEW i \in 1 .. Len(s) - 3
  PROVE  SubSeq(s, i, i + 3) = Blank
           <=> /\ s[i] = Word("cr") /\ s[i + 1] = Word("lf")
               /\ s[i + 2] = Word("cr") /\ s[i + 3] = Word("lf")
<1> DEFINE t == SubSeq(s, i, i + 3)
<1>1. Len(s) \in Nat
  BY LenProperties
<1>2. \A j \in i .. i + 3 : s[j] \in Token
  BY <1>1, ElementOfSeq
<1>3. /\ t \in Seq(Token) /\ Len(t) = 4
      /\ \A j \in 1 .. 4 : t[j] = s[i + j - 1]
  <2>1. i \in Nat /\ i + 3 \in Nat /\ i <= i + 3 /\ i + 3 - i + 1 = 4
    BY <1>1
  <2>2. /\ t \in Seq(Token)
        /\ Len(t) = (IF i <= i + 3 THEN i + 3 - i + 1 ELSE 0)
        /\ \A j \in 1 .. i + 3 - i + 1 : t[j] = s[i + j - 1]
    BY <1>2, <2>1, SubSeqProperties
  <2> HIDE DEF t
  <2> QED
    BY <2>1, <2>2
<1> HIDE DEF t
<1>4. t[1] = s[i] /\ t[2] = s[i + 1] /\ t[3] = s[i + 2] /\ t[4] = s[i + 3]
  BY <1>3
<1>5. ASSUME s[i] = Word("cr"), s[i + 1] = Word("lf"), s[i + 2] = Word("cr"),
             s[i + 3] = Word("lf")
      PROVE  t = Blank
  <2>1. t[1] = Blank[1] /\ t[2] = Blank[2] /\ t[3] = Blank[3] /\ t[4] = Blank[4]
    BY <1>4, <1>5, BlankType
  <2>2. \A j \in 1 .. 4 : j = 1 \/ j = 2 \/ j = 3 \/ j = 4
    OBVIOUS
  <2>3. \A j \in 1 .. 4 : t[j] = Blank[j]
    BY <2>1, <2>2
  <2> QED
    BY <1>3, <2>3, BlankType, SeqEqual
<1>6. ASSUME t = Blank
      PROVE  /\ s[i] = Word("cr") /\ s[i + 1] = Word("lf")
             /\ s[i + 2] = Word("cr") /\ s[i + 3] = Word("lf")
  BY <1>4, <1>6, BlankType
<1> QED
  BY <1>5, <1>6 DEF t

(* What Find returns.                                                      *)
LEMMA FindsNone ==
  ASSUME NEW s, NEW p, NEW m, Len(p) = m,
         \A i \in 1 .. Len(s) - m + 1 : SubSeq(s, i, i + m - 1) # p
  PROVE  Find(s, p) = 0
<1> DEFINE At == { i \in 1 .. Len(s) - Len(p) + 1 : SubSeq(s, i, i + Len(p) - 1) = p }
<1>1. Find(s, p) = IF At = {} THEN 0 ELSE CHOOSE i \in At : \A j \in At : i <= j
  BY DEF Find
<1>2. At = {}
  OBVIOUS
<1> QED
  BY <1>1, <1>2

(* k is the first place where s has p, which is m long.                    *)
FirstAt(s, p, m, k) ==
  /\ k \in 1 .. Len(s) - m + 1 /\ SubSeq(s, k, k + m - 1) = p
  /\ \A i \in 1 .. Len(s) - m + 1 : i < k => SubSeq(s, i, i + m - 1) # p

(* find() returns the first place that matches.                            *)
LEMMA FindsFirst ==
  ASSUME NEW s, NEW p, NEW m, Len(p) = m, NEW k, FirstAt(s, p, m, k)
  PROVE  Find(s, p) = k
<1> DEFINE At == { i \in 1 .. Len(s) - Len(p) + 1 : SubSeq(s, i, i + Len(p) - 1) = p }
<1>1. Find(s, p) = IF At = {} THEN 0 ELSE CHOOSE i \in At : \A j \in At : i <= j
  BY DEF Find
<1>2. k \in At
  BY DEF FirstAt
<1>3. \A i \in At : i \in Int /\ ~ i < k
  BY DEF FirstAt
<1>4. k \in Int
  BY DEF FirstAt
<1> HIDE DEF At
<1>5. \A i \in At : (\A j \in At : i <= j) <=> i = k
  BY <1>2, <1>3, <1>4
<1> QED
  BY <1>1, <1>2, <1>5

(* No blank line ends before the header does.                              *)
LEMMA NoBlankBefore ==
  ASSUME NEW s \in Seq(Token), NEW first \in {"POST", "HTTP"}, NEW n,
         Heads(s, first, n), NEW i \in 1 .. Len(s) - 3, i < 10
  PROVE  SubSeq(s, i, i + 3) # Blank
<1>1. Len(s) \in Nat
  BY LenProperties
<1>2. Len(s) >= i + 3 /\ i \in 1 .. 9
  BY <1>1
<1>3. s[i] # Word("cr") \/ s[i + 2] # Word("cr")
  <2>2. /\ i = 1 \/ i = 2 \/ i = 3 \/ i = 4 \/ i = 5 \/ i = 6 \/ i = 7 \/ i = 8 \/ i = 9
        /\ 3 + 2 = 5 /\ 7 + 2 = 9
    BY <1>2
  <2>3. /\ i = 1 => s[1] # Word("cr")
        /\ i = 2 => s[2] # Word("cr")
        /\ i = 3 => s[5] # Word("cr")
        /\ i = 4 => s[4] # Word("cr")
        /\ i = 5 => s[5] # Word("cr")
        /\ i = 6 => s[6] # Word("cr")
        /\ i = 7 => s[9] # Word("cr")
        /\ i = 8 => s[8] # Word("cr")
        /\ i = 9 => s[9] # Word("cr")
    BY <1>1, <1>2, WordsDiffer DEF Heads
  <2>4. i = 3 \/ i = 7 => s[i + 2] # Word("cr")
    BY <2>2, <2>3
  <2>5. i # 3 /\ i # 7 => s[i] # Word("cr")
    BY <2>2, <2>3
  <2> QED
    BY <2>4, <2>5
<1> QED
  BY <1>3, BlankAt

(* Where the header is whole, its end and its length field are found.      *)
LEMMA HeadingIsRead ==
  ASSUME NEW s \in Seq(Token), NEW first \in {"POST", "HTTP"}, NEW n,
         Heads(s, first, n), Len(s) >= 13
  PROVE  Find(s, Blank) = 10 /\ Find(s, << LengthField >>) = 5
<1>1. Len(s) \in Nat
  BY LenProperties
<1>2. Find(s, Blank) = 10
  <2>1. SubSeq(s, 10, 13) = Blank
    <3>1. 10 \in 1 .. Len(s) - 3 /\ 10 + 1 = 11 /\ 10 + 2 = 12 /\ 10 + 3 = 13
      BY <1>1
    <3>2. /\ s[10] = Word("cr") /\ s[11] = Word("lf") /\ s[12] = Word("cr")
          /\ s[13] = Word("lf")
      BY <1>1 DEF Heads
    <3> QED
      BY <3>1, <3>2, BlankAt
  <2>2. \A i \in 1 .. Len(s) - 3 : i < 10 => SubSeq(s, i, i + 3) # Blank
    BY NoBlankBefore
  <2>3. 10 \in 1 .. Len(s) - 4 + 1 /\ 10 + 4 - 1 = 13 /\ Len(s) - 4 + 1 = Len(s) - 3
    BY <1>1
  <2>4. \A i \in 1 .. Len(s) - 4 + 1 : i < 10 => SubSeq(s, i, i + 4 - 1) # Blank
    <3>1. \A i \in 1 .. Len(s) - 3 : i + 4 - 1 = i + 3
      BY <1>1
    <3> QED
      BY <2>2, <2>3, <3>1
  <2>5. SubSeq(s, 10, 10 + 4 - 1) = Blank
    BY <2>1, <2>3
  <2>6. FirstAt(s, Blank, 4, 10)
    BY ONLY <2>3, <2>4, <2>5 DEF FirstAt
  <2>7. Len(Blank) = 4
    BY BlankType
  <2> QED
    BY ONLY <2>6, <2>7, FindsFirst
<1>3. ASSUME NEW w, Len(<< w >>) = 1, w = LengthField
      PROVE  Find(s, << w >>) = 5
  <2>1. \A i \in 1 .. Len(s) : SubSeq(s, i, i) = << s[i] >>
    <3> TAKE i \in 1 .. Len(s)
    <3> DEFINE t == SubSeq(s, i, i)
    <3>1. i \in Nat /\ \A j \in i .. i : s[j] \in Token
      BY <1>1, ElementOfSeq
    <3>2. t \in Seq(Token) /\ Len(t) = 1 /\ t[1] = s[i]
      BY <1>1, <3>1, SubSeqProperties
    <3> HIDE DEF t
    <3>3. ASSUME NEW u \in Seq(Token), Len(u) = 1 PROVE u = << u[1] >>
      BY <3>3
    <3> QED
      BY <3>2, <3>3 DEF t
  <2>2. \A c, e : << c >> = << e >> <=> c = e
    OBVIOUS
  <2>3. \A i \in 1 .. Len(s) - 1 + 1 : SubSeq(s, i, i + 1 - 1) = << w >> <=> s[i] = w
    <3>1. \A i \in 1 .. Len(s) - 1 + 1 : i \in 1 .. Len(s) /\ i + 1 - 1 = i
      BY <1>1
    <3> QED
      BY <2>1, <2>2, <3>1
  <2>4. s[5] = w /\ s[1] # w /\ s[2] # w /\ s[3] # w /\ s[4] # w
    BY <1>1, <1>3, WordsDiffer DEF Heads
  <2>5. \A i \in 1 .. Len(s) - 1 + 1 : i < 5 => i = 1 \/ i = 2 \/ i = 3 \/ i = 4
    BY <1>1
  <2>6. \A i \in 1 .. Len(s) - 1 + 1 : i < 5 => SubSeq(s, i, i + 1 - 1) # << w >>
    BY <2>3, <2>4, <2>5
  <2>7. 5 \in 1 .. Len(s) - 1 + 1 /\ Len(<< w >>) \in Nat \ {0}
    BY <1>1, <1>3
  <2>8. SubSeq(s, 5, 5 + 1 - 1) = << w >>
    BY <2>3, <2>4, <2>7
  <2>9. ASSUME NEW p, p = << w >> PROVE Find(s, p) = 5
    <3>1. Len(p) = 1 /\ SubSeq(s, 5, 5 + 1 - 1) = p
      BY <1>3, <2>8, <2>9
    <3>2. \A i \in 1 .. Len(s) - 1 + 1 : i < 5 => SubSeq(s, i, i + 1 - 1) # p
      BY <2>6, <2>9
    <3>3. FirstAt(s, p, 1, 5)
      BY <2>7, <3>1, <3>2 DEF FirstAt
    <3> QED
      BY ONLY <3>1, <3>3, FindsFirst
  <2> QED
    BY <2>9
<1>4. Len(<< LengthField >>) = 1
  OBVIOUS
<1> QED
  BY <1>2, <1>3, <1>4

(* Where it is not, there is no end to find.                               *)
LEMMA NoEndYet ==
  ASSUME NEW s \in Seq(Token), NEW first \in {"POST", "HTTP"}, NEW n,
         Heads(s, first, n), Len(s) < 13
  PROVE  Find(s, Blank) = 0
<1>1. Len(s) \in Nat
  BY LenProperties
<1>2. \A i \in 1 .. Len(s) - 3 : i < 10 /\ i + 4 - 1 = i + 3
  BY <1>1
<1>3. \A i \in 1 .. Len(s) - 3 : SubSeq(s, i, i + 3) # Blank
  BY <1>2, NoBlankBefore
<1>4. \A i \in 1 .. Len(s) - 4 + 1 : SubSeq(s, i, i + 4 - 1) # Blank
  <2>1. Len(s) - 4 + 1 = Len(s) - 3
    BY <1>1
  <2> QED
    BY <1>2, <1>3, <2>1
<1> QED
  BY ONLY <1>4, BlankType, FindsNone

(* What checkPost() returns, by where the words it looks for are.          *)
PostSize(s, header, field) ==
  CASE header = 0 -> 0
    [] header # 0 /\ field = 0 -> -1
    [] header # 0 /\ field > header -> -2
    [] header # 0 /\ field \in 1 .. header
         /\ ~ (s[field + 1].k = "number" /\ s[field + 2] = Word("cr")) -> -4
    [] OTHER -> IF Len(s) < s[field + 1].n + header + 3 THEN 0
                ELSE s[field + 1].n + header + 3

(* checkPost() by the places find() returns: the blank line and the length *)
(* field.                                                                  *)
LEMMA CheckPostIs ==
  ASSUME NEW s
  PROVE  checkPost(s) = PostSize(s, Find(s, Blank), Find(s, << LengthField >>))
BY Zenon DEF checkPost, PostSize, Blank, LengthField

(* What check() makes of a string that begins as a frame does.             *)
LEMMA HttpReads ==
  ASSUME NEW s \in Seq(Token), NEW first \in {"POST", "HTTP"}, NEW n \in Nat,
         Heads(s, first, n)
  PROVE  /\ Len(s) < n + 13 => HttpCheck(s) = 0
         /\ Len(s) >= n + 13 => HttpCheck(s) = n + 13
<1> DEFINE header == Find(s, Blank)
           field == Find(s, << LengthField >>)
<1>1. Len(s) \in Nat /\ (s # << >> <=> Len(s) >= 1)
  BY EmptySeq, LenProperties
<1>2. Len(s) >= 1 => s[1].k = first
  <2>1. Word(first).k = first
    BY DEF Word
  <2> QED
    BY <2>1 DEF Heads
<1>3. Short(s) <=> Len(s) <= 1
  BY <1>1, <1>2 DEF Short
<1>4. checkPost(s) = PostSize(s, header, field)
  BY CheckPostIs
<1>5. HttpCheck(s) = IF Short(s) THEN 0 ELSE checkPost(s)
  <2>1. ~ Short(s) => s[1].k \in {"POST", "HTTP"}
    BY <1>1, <1>2, <1>3
  <2> HIDE DEF header, field
  <2> QED
    BY <2>1 DEF HttpCheck
<1>6. CASE Len(s) < 13
  <2>1. header = 0
    BY <1>6, NoEndYet
  <2> HIDE DEF header, field
  <2>2. checkPost(s) = 0
    BY <1>4, <2>1 DEF PostSize
  <2> QED
    BY <1>1, <1>5, <1>6, <2>2
<1>7. CASE Len(s) >= 13
  <2>1. header = 10 /\ field = 5
    BY <1>7, HeadingIsRead
  <2> HIDE DEF header, field
  <2>2. s[6].k = "number" /\ s[6].n = n /\ s[7] = Word("cr")
    <3>1. s[6] = Number(n) /\ s[7] = Word("cr")
      BY <1>1, <1>7 DEF Heads
    <3> QED
      BY <3>1 DEF Number
  <2>3. /\ field + 1 = 6 /\ field + 2 = 7 /\ field \in 1 .. header /\ ~ field > header
        /\ header # 0 /\ field # 0 /\ n + header + 3 = n + 13
    BY <2>1
  <2>4. checkPost(s) = IF Len(s) < n + 13 THEN 0 ELSE n + 13
    BY <1>4, <2>2, <2>3 DEF PostSize
  <2> QED
    BY <1>1, <1>3, <1>5, <1>7, <2>4
<1> QED
  BY <1>1, <1>6, <1>7

(* What begins as a header does, and what a part of it begins as.          *)
LEMMA HeadsGoOn ==
  ASSUME NEW s, NEW f, NEW first, NEW n, Heads(f, first, n),
         \A i \in 1 .. 13 : Len(s) >= i => s[i] = f[i] /\ Len(f) >= i
  PROVE  Heads(s, first, n)
<1>1. /\ Len(s) >= 1 => s[1] = f[1] /\ Len(f) >= 1
      /\ Len(s) >= 2 => s[2] = f[2] /\ Len(f) >= 2
      /\ Len(s) >= 3 => s[3] = f[3] /\ Len(f) >= 3
      /\ Len(s) >= 4 => s[4] = f[4] /\ Len(f) >= 4
      /\ Len(s) >= 5 => s[5] = f[5] /\ Len(f) >= 5
      /\ Len(s) >= 6 => s[6] = f[6] /\ Len(f) >= 6
      /\ Len(s) >= 7 => s[7] = f[7] /\ Len(f) >= 7
      /\ Len(s) >= 8 => s[8] = f[8] /\ Len(f) >= 8
      /\ Len(s) >= 9 => s[9] = f[9] /\ Len(f) >= 9
      /\ Len(s) >= 10 => s[10] = f[10] /\ Len(f) >= 10
      /\ Len(s) >= 11 => s[11] = f[11] /\ Len(f) >= 11
      /\ Len(s) >= 12 => s[12] = f[12] /\ Len(f) >= 12
      /\ Len(s) >= 13 => s[13] = f[13] /\ Len(f) >= 13
  OBVIOUS
<1> QED
  BY ONLY <1>1, Heads(f, first, n), SMTT(30) DEF Heads

(* What addFrame makes.                                                    *)
LEMMA HttpFramed ==
  ASSUME NEW d \in Seq(Token), NEW first \in {"POST", "HTTP"}
  PROVE  /\ HttpAdd(first, d) \in Seq(Token) /\ Len(HttpAdd(first, d)) = Len(d) + 13
         /\ Heads(HttpAdd(first, d), first, Len(d))
         /\ \A i \in 1 .. Len(d) : HttpAdd(first, d)[i + 13] = d[i]
<1> DEFINE A == << Word(first), Word("line") >>
           B == A \o CRLF
           N == B \o << LengthField, Number(Len(d)) >>
           D == N \o CRLF
           E == D \o << Word("line") >>
           F == E \o CRLF
           G == F \o CRLF
<1>1. Len(d) \in Nat
  BY LenProperties
<1>2. /\ Word(first) \in Token /\ Word("line") \in Token /\ Word("cr") \in Token
      /\ Word("lf") \in Token /\ LengthField \in Token /\ Number(Len(d)) \in Token
  BY <1>1, WordType
<1>3. HttpAdd(first, d) = G \o d
  BY DEF HttpAdd, LengthField
<1>4. ASSUME NEW s \in Seq(Token), NEW m \in Nat, Len(s) = m
      PROVE  /\ s \o CRLF \in Seq(Token) /\ Len(s \o CRLF) = m + 2
             /\ \A i \in 1 .. m : (s \o CRLF)[i] = s[i]
             /\ (s \o CRLF)[m + 1] = Word("cr") /\ (s \o CRLF)[m + 2] = Word("lf")
  BY <1>2, <1>4, TwoMore DEF CRLF
<1>5. /\ A \in Seq(Token) /\ Len(A) = 2 /\ A[1] = Word(first) /\ A[2] = Word("line")
  <2>1. ASSUME NEW c \in Token, NEW l \in Token
        PROVE  /\ << c, l >> \in Seq(Token) /\ Len(<< c, l >>) = 2
               /\ << c, l >>[1] = c /\ << c, l >>[2] = l
    OBVIOUS
  <2> QED
    BY ONLY <1>2, <2>1
<1> HIDE DEF A
<1>6. /\ B \in Seq(Token) /\ Len(B) = 4 /\ \A i \in 1 .. 2 : B[i] = A[i]
      /\ B[3] = Word("cr") /\ B[4] = Word("lf")
  <2>1. /\ B \in Seq(Token) /\ Len(B) = 2 + 2
        /\ \A i \in 1 .. 2 : B[i] = A[i]
        /\ B[2 + 1] = Word("cr") /\ B[2 + 2] = Word("lf")
    <3>1. A \in Seq(Token) /\ 2 \in Nat /\ Len(A) = 2
      BY <1>5
    <3> QED
      BY ONLY <1>4, <3>1
  <2> HIDE DEF B
  <2> QED
    BY <2>1
<1> HIDE DEF B
<1>7. /\ N \in Seq(Token) /\ Len(N) = 6 /\ \A i \in 1 .. 4 : N[i] = B[i]
      /\ N[5] = LengthField /\ N[6] = Number(Len(d))
  <2>1. /\ N \in Seq(Token) /\ Len(N) = Len(B) + 2
        /\ \A i \in 1 .. Len(B) : N[i] = B[i]
        /\ N[Len(B) + 1] = LengthField /\ N[Len(B) + 2] = Number(Len(d))
    <3>1. ASSUME NEW c \in Token, NEW l \in Token, NEW s \in Seq(Token)
          PROVE  /\ s \o << c, l >> \in Seq(Token) /\ Len(s \o << c, l >>) = Len(s) + 2
                 /\ \A i \in 1 .. Len(s) : (s \o << c, l >>)[i] = s[i]
                 /\ (s \o << c, l >>)[Len(s) + 1] = c
                 /\ (s \o << c, l >>)[Len(s) + 2] = l
      BY TwoMore
    <3> QED
      <4>1. B \in Seq(Token) /\ LengthField \in Token /\ Number(Len(d)) \in Token
        BY <1>2, <1>6
      <4> DEFINE number == Number(Len(d))
      <4>2. number \in Token
        BY <4>1
      <4> HIDE DEF number
      <4>3. /\ B \o << LengthField, number >> \in Seq(Token)
            /\ Len(B \o << LengthField, number >>) = Len(B) + 2
            /\ \A i \in 1 .. Len(B) : (B \o << LengthField, number >>)[i] = B[i]
            /\ (B \o << LengthField, number >>)[Len(B) + 1] = LengthField
            /\ (B \o << LengthField, number >>)[Len(B) + 2] = number
        BY ONLY <3>1, <4>1, <4>2
      <4> QED
        BY ONLY <4>3, Zenon DEF number, N
  <2> HIDE DEF N
  <2> QED
    BY <1>6, <2>1
<1> HIDE DEF N
<1>8. /\ D \in Seq(Token) /\ Len(D) = 8 /\ \A i \in 1 .. 6 : D[i] = N[i]
      /\ D[7] = Word("cr") /\ D[8] = Word("lf")
  <2>1. /\ D \in Seq(Token) /\ Len(D) = 6 + 2
        /\ \A i \in 1 .. 6 : D[i] = N[i]
        /\ D[6 + 1] = Word("cr") /\ D[6 + 2] = Word("lf")
    <3>1. N \in Seq(Token) /\ 6 \in Nat /\ Len(N) = 6
      BY <1>7
    <3> QED
      BY ONLY <1>4, <3>1
  <2> HIDE DEF D
  <2> QED
    BY <2>1
<1> HIDE DEF D
<1>9. /\ E \in Seq(Token) /\ Len(E) = 9 /\ \A i \in 1 .. 8 : E[i] = D[i]
      /\ E[9] = Word("line")
  <2>1. /\ E \in Seq(Token) /\ Len(E) = Len(D) + 1
        /\ \A i \in 1 .. Len(D) : E[i] = D[i]
        /\ E[Len(D) + 1] = Word("line")
    BY <1>2, <1>8, OneMore
  <2> HIDE DEF E
  <2> QED
    BY <1>8, <2>1
<1> HIDE DEF E
<1>10. /\ F \in Seq(Token) /\ Len(F) = 11 /\ \A i \in 1 .. 9 : F[i] = E[i]
       /\ F[10] = Word("cr") /\ F[11] = Word("lf")
  <2>1. /\ F \in Seq(Token) /\ Len(F) = 9 + 2
        /\ \A i \in 1 .. 9 : F[i] = E[i]
        /\ F[9 + 1] = Word("cr") /\ F[9 + 2] = Word("lf")
    <3>1. E \in Seq(Token) /\ 9 \in Nat /\ Len(E) = 9
      BY <1>9
    <3> QED
      BY ONLY <1>4, <3>1
  <2> HIDE DEF F
  <2> QED
    BY <2>1
<1> HIDE DEF F
<1>11. /\ G \in Seq(Token) /\ Len(G) = 13 /\ \A i \in 1 .. 11 : G[i] = F[i]
       /\ G[12] = Word("cr") /\ G[13] = Word("lf")
  <2>1. /\ G \in Seq(Token) /\ Len(G) = 11 + 2
        /\ \A i \in 1 .. 11 : G[i] = F[i]
        /\ G[11 + 1] = Word("cr") /\ G[11 + 2] = Word("lf")
    <3>1. F \in Seq(Token) /\ 11 \in Nat /\ Len(F) = 11
      BY <1>10
    <3> QED
      BY ONLY <1>4, <3>1
  <2> HIDE DEF G
  <2> QED
    BY <2>1
<1> HIDE DEF G
<1>12. /\ G \o d \in Seq(Token) /\ Len(G \o d) = Len(G) + Len(d)
       /\ \A i \in 1 .. Len(G) + Len(d) :
            (G \o d)[i] = IF i <= Len(G) THEN G[i] ELSE d[i - Len(G)]
  BY <1>11, ConcatProperties
<1> DEFINE H == G \o d
<1>13. \A i \in 1 .. Len(d) : H[i + 13] = d[i]
  <2>1. \A i \in 1 .. Len(d) : /\ i + 13 \in 1 .. 13 + Len(d) /\ ~ i + 13 <= 13
                               /\ i + 13 - 13 = i
    BY <1>1
  <2> QED
    BY <1>11, <1>12, <2>1
<1>14. \A i \in 1 .. 13 : H[i] = G[i]
  BY <1>1, <1>11, <1>12
<1>15. Len(H) = Len(d) + 13
  BY <1>1, <1>11, <1>12
<1> HIDE DEF H
<1>16. /\ G[1] = Word(first) /\ G[2] = Word("line") /\ G[3] = Word("cr")
       /\ G[4] = Word("lf") /\ G[5] = LengthField /\ G[6] = Number(Len(d))
       /\ G[7] = Word("cr") /\ G[8] = Word("lf") /\ G[9] = Word("line")
       /\ G[10] = Word("cr") /\ G[11] = Word("lf") /\ G[12] = Word("cr")
       /\ G[13] = Word("lf")
  <2>1. \A i \in 1 .. 2 : G[i] = A[i]
    BY <1>6, <1>7, <1>8, <1>9, <1>10, <1>11
  <2>2. G[3] = B[3] /\ G[4] = B[4] /\ G[5] = N[5] /\ G[6] = N[6]
    BY <1>7, <1>8, <1>9, <1>10, <1>11
  <2>3. G[7] = D[7] /\ G[8] = D[8] /\ G[9] = E[9] /\ G[10] = F[10] /\ G[11] = F[11]
    BY <1>9, <1>10, <1>11
  <2> QED
    BY <1>5, <1>6, <1>7, <1>8, <1>9, <1>10, <1>11, <2>1, <2>2, <2>3
<1>17. Heads(H, first, Len(d))
  <2>1. /\ H[1] = G[1]
        /\ H[2] = G[2]
        /\ H[3] = G[3]
        /\ H[4] = G[4]
        /\ H[5] = G[5]
        /\ H[6] = G[6]
        /\ H[7] = G[7]
        /\ H[8] = G[8]
        /\ H[9] = G[9]
        /\ H[10] = G[10]
        /\ H[11] = G[11]
        /\ H[12] = G[12]
        /\ H[13] = G[13]
    BY <1>14
  <2> QED
    BY ONLY <1>16, <2>1, Zenon DEF Heads
<1> QED
  BY <1>3, <1>12, <1>13, <1>15, <1>17 DEF H

(* check() finds the frame that addFrame made, whatever is behind it.      *)
THEOREM HttpIsFound ==
  ASSUME NEW d \in Seq(Token), NEW first \in {"POST", "HTTP"}, NEW r \in Seq(Token)
  PROVE  HttpCheck(HttpAdd(first, d) \o r) = Len(d) + 13
<1> DEFINE f == HttpAdd(first, d)
           s == f \o r
<1>1. Len(d) \in Nat /\ Len(r) \in Nat
  BY LenProperties
<1>2. f \in Seq(Token) /\ Len(f) = Len(d) + 13 /\ Heads(f, first, Len(d))
  BY HttpFramed
<1> HIDE DEF f
<1>3. /\ s \in Seq(Token) /\ Len(s) = Len(f) + Len(r)
      /\ \A i \in 1 .. Len(f) + Len(r) :
           s[i] = IF i <= Len(f) THEN f[i] ELSE r[i - Len(f)]
  BY <1>2, ConcatProperties
<1> HIDE DEF s
<1>4. \A i \in 1 .. 13 : s[i] = f[i] /\ Len(f) >= i
  BY <1>1, <1>2, <1>3
<1>5. Heads(s, first, Len(d))
  BY <1>2, <1>4, HeadsGoOn
<1>6. Len(s) >= Len(d) + 13
  BY <1>1, <1>2, <1>3
<1> QED
  BY <1>1, <1>3, <1>5, <1>6, HttpReads DEF s, f

(* It waits as long as any part of the frame is missing.                   *)
THEOREM HttpIsAwaited ==
  ASSUME NEW d \in Seq(Token), NEW first \in {"POST", "HTTP"}, NEW k \in 0 .. Len(d) + 12
  PROVE  HttpCheck(SubSeq(HttpAdd(first, d), 1, k)) = 0
<1> DEFINE f == HttpAdd(first, d)
           s == SubSeq(f, 1, k)
<1>1. Len(d) \in Nat /\ k \in Nat
  BY LenProperties
<1>2. f \in Seq(Token) /\ Len(f) = Len(d) + 13 /\ Heads(f, first, Len(d))
  BY HttpFramed
<1> HIDE DEF f
<1>3. s \in Seq(Token) /\ Len(s) = k /\ \A i \in 1 .. k : s[i] = f[i]
  <2>1. \A i \in 1 .. k : f[i] \in Token
    BY <1>1, <1>2, ElementOfSeq
  <2>2. /\ s \in Seq(Token) /\ Len(s) = (IF 1 <= k THEN k - 1 + 1 ELSE 0)
        /\ \A i \in 1 .. k - 1 + 1 : s[i] = f[1 + i - 1]
    BY <1>1, <2>1, SubSeqProperties
  <2> HIDE DEF s
  <2> QED
    BY <1>1, <2>2
<1> HIDE DEF s
<1>4. \A i \in 1 .. 13 : Len(s) >= i => s[i] = f[i] /\ Len(f) >= i
  BY <1>1, <1>2, <1>3
<1>5. Heads(s, first, Len(d))
  BY <1>2, <1>4, HeadsGoOn
<1>6. Len(s) < Len(d) + 13
  BY <1>1, <1>3
<1> QED
  BY <1>1, <1>3, <1>5, <1>6, HttpReads DEF s, f

(* removeFrame() takes off what addFrame put on, whatever the message      *)
(* looks like.                                                             *)
THEOREM HttpIsTaken ==
  ASSUME NEW d \in Seq(Token), NEW first \in {"POST", "HTTP"}
  PROVE  HttpRemove(HttpAdd(first, d)) = {d}
<1> DEFINE f == HttpAdd(first, d)
<1>1. Len(d) \in Nat
  BY LenProperties
<1>2. /\ f \in Seq(Token) /\ Len(f) = Len(d) + 13 /\ Heads(f, first, Len(d))
      /\ \A i \in 1 .. Len(d) : f[i + 13] = d[i]
  BY HttpFramed
<1> HIDE DEF f
<1>3. Find(f, Blank) = 10
  BY <1>1, <1>2, HeadingIsRead
<1>4. HttpRemove(f) = {SubSeq(f, 14, Len(f))}
  <2>1. {Find(f, Blank)} \ {0} = {10} /\ 10 + 4 = 14
    BY <1>3
  <2>2. HttpRemove(f) = { SubSeq(f, header + 4, Len(f)) : header \in {Find(f, Blank)} \ {0} }
    BY DEF HttpRemove, Blank
  <2> QED
    BY <2>1, <2>2
<1>5. SubSeq(f, 14, Len(f)) = d
  <2> DEFINE t == SubSeq(f, 14, Len(f))
  <2>1. t \in Seq(Token) /\ Len(t) = Len(d) /\ \A i \in 1 .. Len(d) : t[i] = f[i + 13]
    <3>1. \A i \in 14 .. Len(f) : f[i] \in Token
      BY <1>1, <1>2, ElementOfSeq
    <3>2. /\ t \in Seq(Token)
          /\ Len(t) = (IF 14 <= Len(f) THEN Len(f) - 14 + 1 ELSE 0)
          /\ \A i \in 1 .. Len(f) - 14 + 1 : t[i] = f[14 + i - 1]
      BY <1>1, <1>2, <3>1, SubSeqProperties
    <3> HIDE DEF t
    <3> QED
      BY <1>1, <1>2, <3>2
  <2> HIDE DEF t
  <2>2. t = d
    BY <1>2, <2>1, SeqEqual
  <2> QED
    BY <2>2 DEF t
<1> QED
  BY <1>4, <1>5 DEF f

(* What check() returns for any string, a frame or not, is a number.       *)
LEMMA Least ==
  ASSUME NEW A, A \subseteq Nat, A # {}
  PROVE  \E i \in A : \A j \in A : i <= j
<1> DEFINE Less == OpToRel(<, Nat)
<1>1. IsWellFoundedOn(Less, Nat)
  BY NatLessThanWellFounded
<1>2. \A x, y \in Nat : << y, x >> \in Less <=> y < x
  BY DEF OpToRel
<1> HIDE DEF Less
<1>3. PICK i \in A : \A j \in A : ~ << j, i >> \in Less
  BY <1>1, WFMin
<1>4. \A j \in A : ~ j < i
  BY <1>2, <1>3
<1>5. \A j \in A : i <= j
  BY <1>4
<1> QED
  BY <1>5

(* find() returns a place where the pattern is, or none.                   *)
LEMMA FindType ==
  ASSUME NEW s, NEW p, NEW m \in Nat \ {0}, Len(s) \in Nat, Len(p) = m
  PROVE  \/ Find(s, p) = 0
         \/ /\ Find(s, p) \in 1 .. Len(s) - m + 1
            /\ SubSeq(s, Find(s, p), Find(s, p) + m - 1) = p
<1> DEFINE At == { i \in 1 .. Len(s) - Len(p) + 1 : SubSeq(s, i, i + Len(p) - 1) = p }
<1>1. Find(s, p) = IF At = {} THEN 0 ELSE CHOOSE i \in At : \A j \in At : i <= j
  BY DEF Find
<1>2. At \subseteq Nat
  OBVIOUS
<1>3. \A i \in At : i \in 1 .. Len(s) - m + 1 /\ SubSeq(s, i, i + m - 1) = p
  OBVIOUS
<1> HIDE DEF At
<1>4. CASE At # {}
  <2>1. \E i \in At : \A j \in At : i <= j
    BY <1>2, <1>4, Least
  <2>2. Find(s, p) \in At
    BY <1>1, <1>4, <2>1
  <2> QED
    BY <1>3, <2>2
<1> QED
  BY <1>1, <1>4

(* HttpFrame::check returns a number, whatever the buffer holds.           *)
LEMMA HttpCheckType ==
  ASSUME NEW s \in Seq(Token)
  PROVE  HttpCheck(s) \in Int
<1> DEFINE header == Find(s, Blank)
           field == Find(s, << LengthField >>)
<1>1. Len(s) \in Nat
  BY LenProperties
<1>2. header = 0 \/ header \in 1 .. Len(s) - 3
  <2>1. 4 \in Nat \ {0} /\ Len(Blank) = 4
    BY BlankType
  <2>2. header = 0 \/ header \in 1 .. Len(s) - 4 + 1
    BY <1>1, <2>1, FindType
  <2> HIDE DEF header
  <2>3. Len(s) - 4 + 1 = Len(s) - 3
    BY <1>1
  <2> QED
    BY <2>2, <2>3
<1>3. field = 0 \/ field \in 1 .. Len(s)
  <2> DEFINE p == << LengthField >>
  <2>1. 1 \in Nat \ {0} /\ Len(p) = 1
    OBVIOUS
  <2> HIDE DEF p
  <2>2. Find(s, p) = 0 \/ Find(s, p) \in 1 .. Len(s) - 1 + 1
    BY <1>1, <2>1, FindType
  <2>3. Len(s) - 1 + 1 = Len(s)
    BY <1>1
  <2> QED
    BY <2>2, <2>3 DEF p
<1>4. /\ header \in Int /\ field \in Int
      /\ header # 0 /\ field \in 1 .. header => field + 1 \in 1 .. Len(s)
  <2> HIDE DEF header, field
  <2> QED
    BY <1>1, <1>2, <1>3
<1>5. \A i \in 1 .. Len(s) : s[i].n \in Int
  <2>1. \A i \in 1 .. Len(s) : s[i] \in Token
    BY ElementOfSeq
  <2>2. \A c \in Token : c.n \in Nat
    <3>1. \A w : Word(w).n \in Nat
      BY DEF Word
    <3>2. \A c \in [k : {"byte", "number"}, n : Nat] : c.n \in Nat
      OBVIOUS
    <3> QED
      BY <3>1, <3>2, Zenon DEF Token
  <2> QED
    BY <2>1, <2>2
<1>6. checkPost(s) \in Int
  <2>1. checkPost(s) = PostSize(s, header, field)
    BY CheckPostIs
  <2> HIDE DEF header, field
  <2>2. header # 0 /\ field \in 1 .. header => s[field + 1].n + header + 3 \in Int
    BY <1>4, <1>5
  <2>3. header # 0 /\ field # 0 /\ ~ field > header => field \in 1 .. header
    BY <1>1, <1>2, <1>3, <1>4
  <2> QED
    BY <1>4, <2>1, <2>2, <2>3 DEF PostSize
<1>7. checkGet(s) \in Int
  BY <1>4 DEF checkGet, Blank
<1> QED
  BY <1>6, <1>7 DEF HttpCheck

(* So does FixLengthFrame::check.                                          *)
LEMMA FixCheckType ==
  ASSUME NEW s
  PROVE  FixCheck(s) \subseteq Int
<1>1. \A q \in [1 .. 4 -> 0 .. Base - 1] : Spells(q) \in Int
  <2> TAKE q \in [1 .. 4 -> 0 .. Base - 1]
  <2>1. Base \in Int /\ \A i \in 1 .. 4 : q[i] \in Int
    BY FramesAssumption
  <2>2. \A x, y, z \in Int : x * y + z \in Int
    OBVIOUS
  <2>3. q[1] \in Int /\ q[2] \in Int /\ q[3] \in Int /\ q[4] \in Int
    BY <2>1
  <2>4. (q[1] * Base + q[2]) * Base + q[3] \in Int
    BY <2>1, <2>2, <2>3
  <2> QED
    BY <2>1, <2>2, <2>3, <2>4 DEF Spells
<1>2. FixLengths(s) \subseteq Int
  BY <1>1 DEF FixLengths, Spells
<1>3. Width \in Nat \ {0}
  <2>1. \A b, c \in Nat \ {0} : b * c \in Nat \ {0}
    BY SMT
  <2> QED
    BY <2>1, FramesAssumption DEF Width
<1>4. \A x \in Int : (x + 4) % Width \in Int
  BY <1>3
<1> QED
  BY <1>2, <1>4 DEF FixCheck

-----------------------------------------------------------------------------
(* FrameFacade.  Its two loops are folds over the list, which are defined  *)
(* by recursion over sets of indices.                                      *)

(* The functions by which the folds are defined.                           *)
Adds(f, list_, d, n) ==
  f = [s \in SUBSET (1 .. n) |->
         IF s = {} THEN d
         ELSE addFrame(f[s \ {Max(s)}], list_[Max(s)])]

Removes(f, list_, d, m, n) ==
  f = [s \in SUBSET (m .. n) |->
         IF s = {} THEN {d}
         ELSE RemoveFrom(list_[Min(s)], f[s \ {Min(s)}])]

(* The largest of a set of numbers.                                        *)
LEMMA LargestIs ==
  ASSUME NEW n \in Int, NEW s, s \subseteq Int, n \in s, \A i \in s : i <= n
  PROVE  Max(s) = n
<1>1. \A x \in s : (\A y \in s : x >= y) <=> x = n
  OBVIOUS
<1> QED
  BY <1>1 DEF Max

(* The smallest of a set of numbers.                                       *)
LEMMA SmallestIs ==
  ASSUME NEW n \in Int, NEW s, s \subseteq Int, n \in s, \A i \in s : n <= i
  PROVE  Min(s) = n
<1>1. \A x \in s : (\A y \in s : x =< y) <=> x = n
  OBVIOUS
<1> QED
  BY <1>1 DEF Min

(* There is such a function, for every list.                               *)
LEMMA AddsExists ==
  ASSUME NEW l, NEW d
  PROVE  \A n \in Nat : \E f : Adds(f, l, d, n)
<1> DEFINE T == { n \in Nat : \E f : Adds(f, l, d, n) }
<1>1. 0 \in T
  <2> DEFINE f == [s \in SUBSET (1 .. 0) |-> d]
  <2>1. \A s \in SUBSET (1 .. 0) : s = {}
    OBVIOUS
  <2>2. Adds(f, l, d, 0)
    BY <2>1 DEF Adds
  <2> HIDE DEF f
  <2> QED
    BY <2>2
<1>2. ASSUME NEW n \in Nat, n \in T PROVE n + 1 \in T
  <2>1. PICK f : Adds(f, l, d, n)
    BY <1>2
  <2> DEFINE new(s) == IF s = {} THEN d ELSE addFrame(f[s \ {Max(s)}], l[Max(s)])
             g == [s \in SUBSET (1 .. n + 1) |-> new(s)]
  <2>2. ASSUME NEW s \in SUBSET (1 .. n + 1), s # {}
        PROVE  s \ {Max(s)} \in SUBSET (1 .. n)
    <3>1. CASE n + 1 \in s
      <4>1. Max(s) = n + 1
        <5>1. s \subseteq Int /\ n + 1 \in Int /\ \A i \in s : i <= n + 1
          OBVIOUS
        <5> QED
          BY ONLY <3>1, <5>1, LargestIs
      <4>2. \A i \in 1 .. n + 1 : i # n + 1 => i \in 1 .. n
        OBVIOUS
      <4> QED
        BY <4>1, <4>2
    <3>2. CASE n + 1 \notin s
      <4>2. \A i \in 1 .. n + 1 : i # n + 1 => i \in 1 .. n
        OBVIOUS
      <4> QED
        BY <3>2, <4>2
    <3> QED
      BY <3>1, <3>2
  <2>3. ASSUME NEW s \in SUBSET (1 .. n) PROVE f[s] = new(s)
    BY <2>1 DEF Adds
  <2>4. \A s \in SUBSET (1 .. n) : s \in SUBSET (1 .. n + 1)
    <3>1. \A i \in 1 .. n : i \in 1 .. n + 1
      OBVIOUS
    <3> QED
      BY <3>1
  <2> HIDE DEF new
  <2>5. \A s \in SUBSET (1 .. n) : g[s] = f[s]
    BY <2>3, <2>4
  <2>6. ASSUME NEW s \in SUBSET (1 .. n + 1)
        PROVE  new(s) = IF s = {} THEN d ELSE addFrame(g[s \ {Max(s)}], l[Max(s)])
    <3> HIDE DEF g
    <3>1. s # {} => g[s \ {Max(s)}] = f[s \ {Max(s)}]
      BY <2>2, <2>5
    <3> QED
      BY <3>1 DEF new
  <2>7. g = [s \in SUBSET (1 .. n + 1) |->
               IF s = {} THEN d ELSE addFrame(g[s \ {Max(s)}], l[Max(s)])]
    <3> DEFINE old(s) == IF s = {} THEN d ELSE addFrame(g[s \ {Max(s)}], l[Max(s)])
    <3>1. \A s \in SUBSET (1 .. n + 1) : new(s) = old(s)
      BY <2>6
    <3> HIDE DEF old
    <3>2. g = [s \in SUBSET (1 .. n + 1) |-> old(s)]
      BY <3>1
    <3> QED
      BY <3>2 DEF old
  <2> HIDE DEF g
  <2>8. Adds(g, l, d, n + 1)
    BY <2>7 DEF Adds
  <2> QED
    BY <2>8
<1> HIDE DEF T
<1>3. \A n \in Nat : n \in T
  BY <1>1, <1>2, Induction
<1> QED
  BY <1>3 DEF T

(* addFrames() one frame at a time.                                        *)
AddsInTurn(f, l, d, n) ==
  /\ f[0] = d
  /\ \A i \in 0 .. n - 1 : f[i + 1] = addFrame(f[i], l[i + 1])
  /\ addFrames(l, d) = f[n]

(* addFrames() adds the frames of the list one after the other, the first  *)
(* first.                                                                  *)
LEMMA AddedInTurn ==
  ASSUME NEW l, NEW d, NEW n \in Nat, DOMAIN l = 1 .. n
  PROVE  \E f : AddsInTurn(f, l, d, n)
<1> DEFINE it == CHOOSE f : Adds(f, l, d, n)
           f == [i \in 0 .. n |-> it[1 .. i]]
<1>1. Adds(it, l, d, n)
  BY AddsExists
<1>2. addFrames(l, d) = it[1 .. n]
  BY DEF addFrames, FoldLeft, MapThenFoldSet, Adds
<1> HIDE DEF it
<1>3. \A s \in SUBSET (1 .. n) :
        it[s] = IF s = {} THEN d ELSE addFrame(it[s \ {Max(s)}], l[Max(s)])
  BY <1>1 DEF Adds
<1>4. it[1 .. 0] = d
  <2>1. 1 .. 0 = {} /\ {} \in SUBSET (1 .. n)
    OBVIOUS
  <2> QED
    BY <1>3, <2>1
<1>5. ASSUME NEW i \in 0 .. n - 1
      PROVE  it[1 .. i + 1] = addFrame(it[1 .. i], l[i + 1])
  <2> DEFINE s == 1 .. i + 1
  <2>1. s \in SUBSET (1 .. n) /\ s # {} /\ i + 1 \in s /\ i + 1 \in Int /\ s \subseteq Int
        /\ \A j \in s : j <= i + 1
    OBVIOUS
  <2>2. s \ {i + 1} = 1 .. i
    OBVIOUS
  <2> HIDE DEF s
  <2>3. Max(s) = i + 1
    BY ONLY <2>1, LargestIs
  <2>4. it[s] = addFrame(it[s \ {Max(s)}], l[Max(s)])
    BY <1>3, <2>1
  <2> QED
    BY <2>2, <2>3, <2>4 DEF s
<1>6. f[0] = d /\ addFrames(l, d) = f[n]
  BY <1>2, <1>4
<1>7. \A i \in 0 .. n - 1 : f[i + 1] = addFrame(f[i], l[i + 1])
  BY <1>5
<1> HIDE DEF f
<1> QED
  BY <1>6, <1>7 DEF AddsInTurn

(* There is such a function, for every list.                               *)
LEMMA RemovesExists ==
  ASSUME NEW l, NEW d, NEW n \in Nat
  PROVE  \A k \in Nat : \E f : Removes(f, l, d, n + 1 - k, n)
<1> DEFINE T == { k \in Nat : \E f : Removes(f, l, d, n + 1 - k, n) }
<1>1. 0 \in T
  <2> DEFINE f == [s \in SUBSET (n + 1 - 0 .. n) |-> {d}]
  <2>1. \A s \in SUBSET (n + 1 - 0 .. n) : s = {}
    OBVIOUS
  <2>2. Removes(f, l, d, n + 1 - 0, n)
    BY <2>1 DEF Removes
  <2> HIDE DEF f
  <2> QED
    BY <2>2
<1>2. ASSUME NEW k \in Nat, k \in T PROVE k + 1 \in T
  <2> DEFINE m == n + 1 - (k + 1)
  <2>0. m \in Int /\ n + 1 - k = m + 1
    OBVIOUS
  <2>1. PICK f : Removes(f, l, d, m + 1, n)
    BY <1>2, <2>0
  <2> HIDE DEF m
  <2> DEFINE new(s) == IF s = {} THEN {d} ELSE RemoveFrom(l[Min(s)], f[s \ {Min(s)}])
             g == [s \in SUBSET (m .. n) |-> new(s)]
  <2>2. ASSUME NEW s \in SUBSET (m .. n), s # {}
        PROVE  s \ {Min(s)} \in SUBSET (m + 1 .. n)
    <3>1. \A i \in m .. n : i # m => i \in m + 1 .. n
      BY <2>0
    <3>2. CASE m \in s
      <4>1. Min(s) = m
        <5>1. s \subseteq Int /\ \A i \in s : m <= i
          BY <2>0
        <5> QED
          BY ONLY <2>0, <3>2, <5>1, SmallestIs
      <4> QED
        BY <3>1, <4>1
    <3>3. CASE m \notin s
      BY <3>1, <3>3
    <3> QED
      BY <3>2, <3>3
  <2>3. ASSUME NEW s \in SUBSET (m + 1 .. n) PROVE f[s] = new(s)
    BY <2>1 DEF Removes
  <2>4. \A s \in SUBSET (m + 1 .. n) : s \in SUBSET (m .. n)
    <3>1. \A i \in m + 1 .. n : i \in m .. n
      BY <2>0
    <3> QED
      BY <3>1
  <2> HIDE DEF new
  <2>5. \A s \in SUBSET (m + 1 .. n) : g[s] = f[s]
    BY <2>3, <2>4
  <2>6. ASSUME NEW s \in SUBSET (m .. n)
        PROVE  new(s) = IF s = {} THEN {d} ELSE RemoveFrom(l[Min(s)], g[s \ {Min(s)}])
    <3> HIDE DEF g
    <3>1. s # {} => g[s \ {Min(s)}] = f[s \ {Min(s)}]
      BY <2>2, <2>5
    <3> QED
      BY <3>1 DEF new
  <2>7. g = [s \in SUBSET (m .. n) |->
               IF s = {} THEN {d} ELSE RemoveFrom(l[Min(s)], g[s \ {Min(s)}])]
    <3> DEFINE old(s) == IF s = {} THEN {d} ELSE RemoveFrom(l[Min(s)], g[s \ {Min(s)}])
    <3>1. \A s \in SUBSET (m .. n) : new(s) = old(s)
      BY <2>6
    <3> HIDE DEF old
    <3>2. g = [s \in SUBSET (m .. n) |-> old(s)]
      BY <3>1
    <3> QED
      BY <3>2 DEF old
  <2> HIDE DEF g
  <2>8. Removes(g, l, d, m, n)
    BY <2>7 DEF Removes
  <2> QED
    BY <2>8 DEF m
<1> HIDE DEF T
<1>3. \A k \in Nat : k \in T
  BY <1>1, <1>2, Induction
<1> QED
  BY <1>3 DEF T

(* remoteFrames() one frame at a time.                                     *)
RemovesInTurn(f, l, d, n) ==
  /\ f[n] = {d}
  /\ \A i \in 0 .. n - 1 : f[i] = RemoveFrom(l[i + 1], f[i + 1])
  /\ remoteFrames(l, d) = f[0]

(* remoteFrames() removes the frames one after the other, the last first.  *)
LEMMA RemovedInTurn ==
  ASSUME NEW l, NEW d, NEW n \in Nat, DOMAIN l = 1 .. n
  PROVE  \E f : RemovesInTurn(f, l, d, n)
<1> DEFINE it == CHOOSE f : Removes(f, l, d, 1, n)
           f == [i \in 0 .. n |-> it[i + 1 .. n]]
<1>1. Removes(it, l, d, 1, n)
  <2>1. \E h : Removes(h, l, d, n + 1 - n, n)
    BY RemovesExists
  <2>2. n + 1 - n = 1
    OBVIOUS
  <2> QED
    BY <2>1, <2>2
<1>2. remoteFrames(l, d) = it[1 .. n]
  BY DEF remoteFrames, FoldRight, MapThenFoldSet, Removes
<1> HIDE DEF it
<1>3. \A s \in SUBSET (1 .. n) :
        it[s] = IF s = {} THEN {d} ELSE RemoveFrom(l[Min(s)], it[s \ {Min(s)}])
  BY <1>1 DEF Removes
<1>4. it[n + 1 .. n] = {d}
  <2>1. n + 1 .. n = {} /\ {} \in SUBSET (1 .. n)
    OBVIOUS
  <2> QED
    BY <1>3, <2>1
<1>5. ASSUME NEW i \in 0 .. n - 1
      PROVE  it[i + 1 .. n] = RemoveFrom(l[i + 1], it[i + 1 + 1 .. n])
  <2> DEFINE s == i + 1 .. n
  <2>1. i + 1 \in s /\ i + 1 \in Int /\ \A j \in s : i + 1 <= j /\ j \in Int /\ j \in 1 .. n
    OBVIOUS
  <2>2. s \ {i + 1} = i + 1 + 1 .. n
    OBVIOUS
  <2> HIDE DEF s
  <2>5. s \in SUBSET (1 .. n) /\ s # {} /\ s \subseteq Int
    BY <2>1
  <2>3. Min(s) = i + 1
    BY ONLY <2>1, <2>5, SmallestIs
  <2>4. it[s] = RemoveFrom(l[Min(s)], it[s \ {Min(s)}])
    BY <1>3, <2>5
  <2> QED
    BY <2>2, <2>3, <2>4 DEF s
<1>6. f[n] = {d} /\ remoteFrames(l, d) = f[0]
  <2>1. n \in 0 .. n /\ 0 \in 0 .. n /\ 0 + 1 = 1
    OBVIOUS
  <2> QED
    BY <1>2, <1>4, <2>1
<1>7. \A i \in 0 .. n - 1 : f[i] = RemoveFrom(l[i + 1], f[i + 1])
  BY <1>5
<1> HIDE DEF f
<1> QED
  BY <1>6, <1>7 DEF RemovesInTurn

-----------------------------------------------------------------------------
(* One frame of the list.                                                  *)

(* The names of frames that either end may give one and the same frame.    *)
Same(a, b) == a = b \/ {a, b} = {"http_client", "http_server"}

(* check() of the one frame that it asks.                                  *)
CheckFrame(name, d) == IF name = "fix" THEN FixCheck(d) ELSE {HttpCheck(d)}

(* A frame makes a longer string.                                          *)
LEMMA FrameMade ==
  ASSUME NEW b \in FrameNames, NEW d \in Seq(Token)
  PROVE  /\ addFrame(d, b) \in Seq(Token)
         /\ Len(addFrame(d, b)) >= Len(d) + 4
         /\ b = "fix" => addFrame(d, b) = FixAdd(d) /\ Len(addFrame(d, b)) = Len(d) + 4
         /\ b # "fix" => \E first \in {"POST", "HTTP"} :
              addFrame(d, b) = HttpAdd(first, d) /\ Len(addFrame(d, b)) = Len(d) + 13
<1>1. Len(d) \in Nat
  BY LenProperties
<1>2. CASE b = "fix"
  <2>1. addFrame(d, b) = FixAdd(d)
    BY <1>2 DEF addFrame
  <2> QED
    BY <1>1, <1>2, <2>1, Framed
<1>3. CASE b # "fix"
  <2>1. PICK first \in {"POST", "HTTP"} : addFrame(d, b) = HttpAdd(first, d)
    BY <1>3 DEF addFrame, FrameNames
  <2>2. HttpAdd(first, d) \in Seq(Token) /\ Len(HttpAdd(first, d)) = Len(d) + 13
    BY HttpFramed
  <2> QED
    BY <1>1, <1>3, <2>1, <2>2
<1> QED
  BY <1>2, <1>3

(* What a frame adds, a frame of its kind finds the end of and removes,    *)
(* for fix and http frames and whoever sends: tun_local or tun_remote.     *)
LEMMA FrameWorks ==
  ASSUME NEW a \in FrameNames, NEW b \in FrameNames, Same(a, b), NEW d \in Seq(Token),
         Len(addFrame(d, b)) < Width
  PROVE  /\ \A r \in Seq(Token) :
              CheckFrame(a, addFrame(d, b) \o r) = {Len(addFrame(d, b))}
         /\ \A k \in 0 .. Len(addFrame(d, b)) - 1 :
              CheckFrame(a, SubSeq(addFrame(d, b), 1, k)) = {0}
         /\ removeFrame(a, addFrame(d, b)) = {d}
<1>1. Len(d) \in Nat
  BY LenProperties
<1>2. a = "fix" <=> b = "fix"
  BY DEF Same
<1>3. CASE b = "fix"
  <2>1. addFrame(d, b) = FixAdd(d) /\ Len(addFrame(d, b)) = Len(d) + 4
    BY <1>3, FrameMade
  <2>2. Len(d) + 4 < Width
    BY <2>1
  <2>3. \A r \in Seq(Token) : FixCheck(FixAdd(d) \o r) = {Len(d) + 4}
    BY <2>2, FrameIsFound
  <2>4. \A k \in 0 .. Len(d) + 3 : FixCheck(SubSeq(FixAdd(d), 1, k)) = {0}
    BY <2>2, FrameIsAwaited
  <2>5. FixRemove(FixAdd(d)) = {d}
    BY <2>2, FrameIsTaken
  <2>6. Len(d) + 4 - 1 = Len(d) + 3
    BY <1>1
  <2> QED
    BY <1>2, <1>3, <2>1, <2>3, <2>4, <2>5, <2>6 DEF CheckFrame, removeFrame
<1>4. CASE b # "fix"
  <2>1. PICK first \in {"POST", "HTTP"} :
          addFrame(d, b) = HttpAdd(first, d) /\ Len(addFrame(d, b)) = Len(d) + 13
    BY <1>4, FrameMade
  <2>2. \A r \in Seq(Token) : HttpCheck(HttpAdd(first, d) \o r) = Len(d) + 13
    BY HttpIsFound
  <2>3. \A k \in 0 .. Len(d) + 12 : HttpCheck(SubSeq(HttpAdd(first, d), 1, k)) = 0
    BY HttpIsAwaited
  <2>4. HttpRemove(HttpAdd(first, d)) = {d}
    BY HttpIsTaken
  <2>5. Len(d) + 13 - 1 = Len(d) + 12
    BY <1>1
  <2> QED
    BY <1>2, <1>4, <2>1, <2>2, <2>3, <2>4, <2>5 DEF CheckFrame, removeFrame
<1> QED
  BY <1>3, <1>4

-----------------------------------------------------------------------------
(* A list of frames.                                                       *)

(* Lists that fit name frames of the same kind at every place.             *)
LEMMA FitsIs ==
  ASSUME NEW l \in Seq(FrameNames), NEW t \in Seq(FrameNames), Fits(t, l)
  PROVE  Len(l) = Len(t) /\ \A i \in 1 .. Len(l) : Same(l[i], t[i])
BY DEF Fits, Same

(* The strings a message becomes, frame by frame.                          *)
LEMMA StringsMade ==
  ASSUME NEW t \in Seq(FrameNames), NEW m \in Seq(Token), NEW f,
         f[0] = m, \A i \in 0 .. Len(t) - 1 : f[i + 1] = addFrame(f[i], t[i + 1])
  PROVE  \A i \in 0 .. Len(t) :
           f[i] \in Seq(Token) /\ (i < Len(t) => Len(f[i]) + 4 <= Len(f[i + 1]))
<1>1. Len(t) \in Nat /\ \A i \in 1 .. Len(t) : t[i] \in FrameNames
  BY LenProperties, ElementOfSeq
<1> DEFINE T == { i \in Nat : i <= Len(t) => f[i] \in Seq(Token) }
<1>2. 0 \in T
  OBVIOUS
<1>3. ASSUME NEW i \in Nat, i \in T PROVE i + 1 \in T
  <2>1. CASE i + 1 <= Len(t)
    <3>1. i \in 0 .. Len(t) - 1 /\ i + 1 \in 1 .. Len(t) /\ i <= Len(t)
      BY <1>1, <2>1
    <3>2. f[i] \in Seq(Token) /\ t[i + 1] \in FrameNames
      BY <1>1, <1>3, <3>1
    <3>3. addFrame(f[i], t[i + 1]) \in Seq(Token)
      BY <3>2, FrameMade
    <3> QED
      BY <3>1, <3>3
  <2> QED
    BY <2>1
<1> HIDE DEF T
<1>4. \A i \in Nat : i \in T
  BY <1>2, <1>3, Induction
<1>5. \A i \in 0 .. Len(t) : f[i] \in Seq(Token)
  BY <1>1, <1>4 DEF T
<1>6. ASSUME NEW i \in 0 .. Len(t), i < Len(t) PROVE Len(f[i]) + 4 <= Len(f[i + 1])
  <2>1. i \in 0 .. Len(t) - 1 /\ i + 1 \in 1 .. Len(t)
    BY <1>1, <1>6
  <2>2. Len(addFrame(f[i], t[i + 1])) >= Len(f[i]) + 4
    BY <1>1, <1>5, <2>1, FrameMade
  <2>3. f[i + 1] = addFrame(f[i], t[i + 1])
    BY <2>1
  <2>4. Len(f[i]) \in Nat
    BY <1>5, LenProperties
  <2>5. f[i + 1] \in Seq(Token)
    BY <1>5, <2>1
  <2>6. Len(f[i + 1]) \in Nat
    BY <2>5, LenProperties
  <2> HIDE DEF T
  <2> QED
    BY <2>2, <2>3, <2>4, <2>6
<1> QED
  BY <1>5, <1>6

(* The string on the wire is a string, and the longest.                    *)
LEMMA LastIsLongest ==
  ASSUME NEW t \in Seq(FrameNames), NEW m \in Seq(Token), NEW f,
         f[0] = m, \A i \in 0 .. Len(t) - 1 : f[i + 1] = addFrame(f[i], t[i + 1])
  PROVE  \A i \in 0 .. Len(t) : Len(f[i]) <= Len(f[Len(t)])
<1>1. Len(t) \in Nat
  BY LenProperties
<1>2. \A i \in 0 .. Len(t) :
        f[i] \in Seq(Token) /\ (i < Len(t) => Len(f[i]) + 4 <= Len(f[i + 1]))
  BY StringsMade
<1>3. \A i \in 0 .. Len(t) : Len(f[i]) \in Nat
  BY <1>2, LenProperties
<1> DEFINE T == { k \in Nat : k <= Len(t) => Len(f[Len(t) - k]) <= Len(f[Len(t)]) }
<1>4. 0 \in T
  <2>1. Len(t) - 0 = Len(t) /\ Len(t) \in 0 .. Len(t)
    BY <1>1
  <2>2. Len(f[Len(t)]) \in Nat
    BY <1>3, <2>1
  <2> QED
    BY <2>1, <2>2
<1>5. ASSUME NEW k \in Nat, k \in T PROVE k + 1 \in T
  <2>1. CASE k + 1 <= Len(t)
    <3> DEFINE i == Len(t) - (k + 1)
    <3>1. i \in 0 .. Len(t) /\ i < Len(t) /\ i + 1 = Len(t) - k /\ i + 1 \in 0 .. Len(t)
          /\ k <= Len(t) /\ Len(t) \in 0 .. Len(t)
      BY <1>1, <2>1
    <3> HIDE DEF i
    <3>2. Len(f[i]) + 4 <= Len(f[i + 1]) /\ Len(f[i + 1]) <= Len(f[Len(t)])
      BY <1>2, <1>5, <3>1
    <3>3. Len(f[i]) \in Nat /\ Len(f[i + 1]) \in Nat /\ Len(f[Len(t)]) \in Nat
      BY <1>3, <3>1
    <3>4. Len(f[i]) <= Len(f[Len(t)])
      BY <3>2, <3>3
    <3> QED
      BY <3>4 DEF i
  <2> QED
    BY <2>1
<1> HIDE DEF T
<1>6. \A k \in Nat : k \in T
  BY <1>4, <1>5, Induction
<1>7. ASSUME NEW i \in 0 .. Len(t) PROVE Len(f[i]) <= Len(f[Len(t)])
  <2>1. Len(t) - i \in Nat /\ Len(t) - i <= Len(t) /\ Len(t) - (Len(t) - i) = i
    BY <1>1
  <2> QED
    BY <1>6, <2>1 DEF T
<1> QED
  BY <1>7

(* addFrames() makes a string that is not empty.                           *)
LEMMA FramesMade ==
  ASSUME NEW t \in Seq(FrameNames) \ {<< >>}, NEW m \in Seq(Token)
  PROVE  addFrames(t, m) \in Seq(Token) /\ Len(addFrames(t, m)) \in Nat \ {0}
<1>1. Len(t) \in Nat \ {0} /\ DOMAIN t = 1 .. Len(t)
  BY EmptySeq, LenProperties
<1>2. PICK f : /\ f[0] = m
               /\ \A i \in 0 .. Len(t) - 1 : f[i + 1] = addFrame(f[i], t[i + 1])
               /\ addFrames(t, m) = f[Len(t)]
  <2>1. \E f : AddsInTurn(f, t, m, Len(t))
    BY <1>1, AddedInTurn
  <2> QED
    BY <2>1 DEF AddsInTurn
<1>3. f[Len(t)] \in Seq(Token) /\ f[Len(t) - 1] \in Seq(Token)
      /\ Len(f[Len(t) - 1]) + 4 <= Len(f[Len(t) - 1 + 1])
  <2>1. \A i \in 0 .. Len(t) :
          f[i] \in Seq(Token) /\ (i < Len(t) => Len(f[i]) + 4 <= Len(f[i + 1]))
    BY <1>2, StringsMade
  <2>2. Len(t) \in 0 .. Len(t) /\ Len(t) - 1 \in 0 .. Len(t) /\ Len(t) - 1 < Len(t)
    BY <1>1
  <2> QED
    BY <2>1, <2>2
<1>4. Len(t) - 1 + 1 = Len(t)
  BY <1>1
<1>5. Len(f[Len(t)]) \in Nat /\ Len(f[Len(t) - 1]) \in Nat
  BY <1>3, LenProperties
<1> QED
  BY <1>2, <1>3, <1>4, <1>5

(* What addFrames() makes, check() finds the end of and remoteFrames()     *)
(* takes apart, for every list of frames.                                  *)
THEOREM FramesWork ==
  ASSUME NEW l \in Seq(FrameNames) \ {<< >>}, NEW t \in Seq(FrameNames) \ {<< >>},
         Fits(t, l), NEW m \in Seq(Token), Len(addFrames(t, m)) < Width
  PROVE  /\ \A r \in Seq(Token) : check(l, addFrames(t, m) \o r) = {Len(addFrames(t, m))}
         /\ \A k \in 0 .. Len(addFrames(t, m)) - 1 :
              check(l, SubSeq(addFrames(t, m), 1, k)) = {0}
         /\ remoteFrames(l, addFrames(t, m)) = {m}
<1> DEFINE n == Len(t)
<1>1. n \in Nat \ {0} /\ DOMAIN t = 1 .. n /\ Len(l) = n /\ DOMAIN l = 1 .. n
      /\ \A i \in 1 .. n : t[i] \in FrameNames /\ l[i] \in FrameNames /\ Same(l[i], t[i])
  <2>1. n \in Nat \ {0} /\ DOMAIN t = 1 .. n
    BY EmptySeq, LenProperties
  <2>2. Len(l) = n /\ \A i \in 1 .. Len(l) : Same(l[i], t[i])
    BY FitsIs
  <2>3. DOMAIN l = 1 .. n
    BY <2>2, LenProperties
  <2>4. \A i \in 1 .. n : t[i] \in FrameNames
    BY ElementOfSeq
  <2>5. \A i \in 1 .. n : l[i] \in FrameNames
    BY <2>2, ElementOfSeq
  <2> QED
    BY <2>1, <2>2, <2>3, <2>4, <2>5
<1>2. PICK f : /\ f[0] = m
               /\ \A i \in 0 .. n - 1 : f[i + 1] = addFrame(f[i], t[i + 1])
               /\ addFrames(t, m) = f[n]
  <2>1. \E f : AddsInTurn(f, t, m, n)
    BY <1>1, AddedInTurn
  <2> QED
    BY <2>1 DEF AddsInTurn
<1>3. \A i \in 0 .. n : f[i] \in Seq(Token) /\ Len(f[i]) <= Len(f[n])
  <2>1. \A i \in 0 .. Len(t) : f[i] \in Seq(Token)
    BY <1>2, StringsMade
  <2>2. \A i \in 0 .. Len(t) : Len(f[i]) <= Len(f[Len(t)])
    BY <1>2, LastIsLongest
  <2> QED
    BY <2>1, <2>2
<1>9. ASSUME NEW d
      PROVE  \E g : RemovesInTurn(g, l, d, n)
  BY <1>1, RemovedInTurn
<1> HIDE DEF n
<1>4. ASSUME NEW i \in 0 .. n PROVE Len(f[i]) < Width
  <2>1. Len(f[i]) \in Nat /\ Len(f[n]) \in Nat
    <3>1. n \in 0 .. n
      BY <1>1
    <3> QED
      BY <1>3, <3>1, LenProperties
  <2>2. Width \in Nat
    <3>1. \A b, c \in Nat : b * c \in Nat
      BY SMT
    <3> QED
      BY <3>1, FramesAssumption DEF Width
  <2> QED
    BY <1>2, <1>3, <2>1, <2>2
<1>5. ASSUME NEW i \in 0 .. n - 1
      PROVE  /\ \A r \in Seq(Token) : CheckFrame(l[i + 1], f[i + 1] \o r) = {Len(f[i + 1])}
             /\ \A k \in 0 .. Len(f[i + 1]) - 1 :
                  CheckFrame(l[i + 1], SubSeq(f[i + 1], 1, k)) = {0}
             /\ removeFrame(l[i + 1], f[i + 1]) = {f[i]}
  <2>1. i \in 0 .. n /\ i + 1 \in 1 .. n /\ i + 1 \in 0 .. n
    BY <1>1
  <2>2. /\ l[i + 1] \in FrameNames /\ t[i + 1] \in FrameNames
        /\ Same(l[i + 1], t[i + 1]) /\ f[i] \in Seq(Token)
        /\ f[i + 1] = addFrame(f[i], t[i + 1])
    BY <1>1, <1>2, <1>3, <2>1
  <2>3. Len(addFrame(f[i], t[i + 1])) < Width
    BY <1>4, <2>1, <2>2
  <2>4. /\ \A r \in Seq(Token) :
             CheckFrame(l[i + 1], addFrame(f[i], t[i + 1]) \o r)
               = {Len(addFrame(f[i], t[i + 1]))}
        /\ \A k \in 0 .. Len(addFrame(f[i], t[i + 1])) - 1 :
             CheckFrame(l[i + 1], SubSeq(addFrame(f[i], t[i + 1]), 1, k)) = {0}
        /\ removeFrame(l[i + 1], addFrame(f[i], t[i + 1])) = {f[i]}
    BY <2>2, <2>3, FrameWorks
  <2> QED
    BY <2>2, <2>4
<1>6. \A b : check(l, b) = CheckFrame(l[n], b)
  BY <1>1 DEF check, CheckFrame, Last
<1>7. /\ \A r \in Seq(Token) : CheckFrame(l[n], f[n] \o r) = {Len(f[n])}
      /\ \A k \in 0 .. Len(f[n]) - 1 : CheckFrame(l[n], SubSeq(f[n], 1, k)) = {0}
  <2>1. n - 1 \in 0 .. n - 1 /\ n - 1 + 1 = n
    BY <1>1
  <2>2. /\ \A r \in Seq(Token) :
             CheckFrame(l[n - 1 + 1], f[n - 1 + 1] \o r) = {Len(f[n - 1 + 1])}
        /\ \A k \in 0 .. Len(f[n - 1 + 1]) - 1 :
             CheckFrame(l[n - 1 + 1], SubSeq(f[n - 1 + 1], 1, k)) = {0}
    BY <1>5, <2>1
  <2> QED
    BY <2>1, <2>2
<1>8. remoteFrames(l, f[n]) = {m}
  <2>1. PICK g : /\ g[n] = {f[n]}
                 /\ \A i \in 0 .. n - 1 : g[i] = RemoveFrom(l[i + 1], g[i + 1])
                 /\ remoteFrames(l, f[n]) = g[0]
    BY <1>9 DEF RemovesInTurn
  <2> DEFINE T == { k \in Nat : k <= n => g[n - k] = {f[n - k]} }
  <2>2. 0 \in T
    <3>1. n - 0 = n
      BY <1>1
    <3> QED
      BY <2>1, <3>1
  <2>3. ASSUME NEW k \in Nat, k \in T PROVE k + 1 \in T
    <3>1. CASE k + 1 <= n
      <4> DEFINE i == n - (k + 1)
      <4>1. i \in 0 .. n - 1 /\ i + 1 = n - k /\ k <= n
        BY <1>1, <3>1
      <4> HIDE DEF i
      <4>2. g[i + 1] = {f[i + 1]}
        BY <2>3, <4>1
      <4>3. RemoveFrom(l[i + 1], {f[i + 1]}) = removeFrame(l[i + 1], f[i + 1])
        BY DEF RemoveFrom
      <4>4. g[i] = {f[i]}
        <5>1. g[i] = RemoveFrom(l[i + 1], g[i + 1])
          BY <2>1, <4>1
        <5>2. removeFrame(l[i + 1], f[i + 1]) = {f[i]}
          BY <1>5, <4>1
        <5> QED
          BY <4>2, <4>3, <5>1, <5>2
      <4> QED
        BY <4>4 DEF i
    <3> QED
      BY <3>1
  <2> HIDE DEF T
  <2>4. \A k \in Nat : k \in T
    BY <2>2, <2>3, Induction
  <2>5. g[0] = {f[0]}
    <3>1. n \in Nat /\ n <= n /\ n - n = 0
      BY <1>1
    <3>2. n \in T
      BY <2>4, <3>1
    <3> QED
      BY <3>1, <3>2 DEF T
  <2> QED
    BY <1>2, <2>1, <2>5
<1> QED
  BY <1>2, <1>6, <1>7, <1>8

-----------------------------------------------------------------------------
(* The strings in flight.                                                  *)

(* The frames of some messages, one behind the other.                      *)
FramesBy(t) == [m \in Payloads |-> addFrames(t, m)]
FramesOf(t, p) == FlatMap(FramesBy(t), p)

(* What the assumption on the constants says of messages and lists.        *)
LEMMA ListsType ==
  /\ Payloads \subseteq Seq(Token) /\ Lists \subseteq Seq(FrameNames) \ {<< >>}
  /\ \A m \in Payloads, l \in Lists :
       /\ addFrames(l, m) \in Seq(Token) /\ Len(addFrames(l, m)) \in Nat \ {0}
       /\ Len(addFrames(l, m)) < Width
<1>1. /\ Payloads \subseteq Seq(Token) /\ Lists \subseteq Seq(FrameNames) \ {<< >>}
      /\ \A m \in Payloads, l \in Lists : Len(addFrames(l, m)) < Width
  BY FramingAssumption
<1> QED
  BY <1>1, FramesMade

(* The frames of a message are a string.                                   *)
LEMMA FramesYield ==
  ASSUME NEW t \in Lists
  PROVE  Yields(FramesBy(t), Payloads, Token)
BY ListsType DEF Yields, FramesBy

(* No messages, no frames.                                                 *)
LEMMA FramesOfNothing == \A t : FramesOf(t, << >>) = << >>
<1> TAKE t
<1>1. [i \in DOMAIN << >> |-> FramesBy(t)[<< >>[i]]] = << >>
  OBVIOUS
<1> QED
  BY <1>1, FlattenEmpty DEF FramesOf, FlatMap, Mapped

(* The frames of one message more, behind the others or before them.       *)
LEMMA FramesOfOne ==
  ASSUME NEW t \in Lists, NEW p \in Seq(Payloads), NEW m \in Payloads
  PROVE  /\ FramesOf(t, p) \in Seq(Token)
         /\ FramesOf(t, p \o << m >>) = FramesOf(t, p) \o addFrames(t, m)
         /\ FramesOf(t, << m >> \o p) = addFrames(t, m) \o FramesOf(t, p)
<1> DEFINE g == FramesBy(t)
           x == << m >>
<1>1. x \in Seq(Payloads) /\ p \in Seq(Payloads)
  OBVIOUS
<1>2. Yields(g, Payloads, Token)
  BY FramesYield
<1>3. g[m] = addFrames(t, m)
  BY DEF FramesBy
<1> HIDE DEF g
<1>4. FlatMap(g, x) = g[m]
  BY <1>2, FlatMapShort
<1> HIDE DEF x
<1>5. FlatMap(g, p) \in Seq(Token) /\ FlatMap(g, p \o x) = FlatMap(g, p) \o FlatMap(g, x)
  BY ONLY <1>1, <1>2, FlatMapConcat
<1>6. FlatMap(g, x \o p) = FlatMap(g, x) \o FlatMap(g, p)
  BY ONLY <1>1, <1>2, FlatMapConcat
<1> QED
  BY <1>3, <1>4, <1>5, <1>6 DEF FramesOf, g, x

(* The frames of some messages begin with those of the first.              *)
LEMMA FramesOfFirst ==
  ASSUME NEW t \in Lists, NEW p \in Seq(Payloads), p # << >>
  PROVE  /\ p[1] \in Payloads /\ Tail(p) \in Seq(Payloads) /\ p = << p[1] >> \o Tail(p)
         /\ FramesOf(t, Tail(p)) \in Seq(Token)
         /\ FramesOf(t, p) = addFrames(t, p[1]) \o FramesOf(t, Tail(p))
<1>1. Len(p) \in Nat \ {0} /\ p[1] \in Payloads /\ Tail(p) \in Seq(Payloads)
  <2>1. Len(p) \in Nat \ {0}
    BY EmptySeq
  <2> QED
    BY <2>1, ElementOfSeq, HeadTailProperties
<1>2. p = << p[1] >> \o Tail(p)
  <2>1. 1 \in 1 .. Len(p) /\ Len(p) \in 1 .. Len(p) /\ 1 + 1 = 2
    BY <1>1
  <2>2. SubSeq(p, 1, Len(p)) = << p[1] >> \o SubSeq(p, 1 + 1, Len(p))
    BY <2>1, SubSeqRecursiveFirst
  <2>3. SubSeq(p, 1, Len(p)) = p /\ Tail(p) = SubSeq(p, 2, Len(p))
    BY SubSeqFull, TailIsSubSeq
  <2> QED
    BY <2>1, <2>2, <2>3
<1> QED
  BY <1>1, <1>2, FramesOfOne

(* Messages are the same however they are grouped.                         *)
LEMMA Regrouped ==
  ASSUME NEW a \in Seq(Payloads), NEW b \in Seq(Payloads), NEW c \in Seq(Payloads)
  PROVE  (a \o b) \o c = a \o (b \o c)
BY ConcatAssociative

(* Of two strings that go on to be the same, the shorter is a part of the  *)
(* longer.                                                                 *)
LEMMA ShorterIsPart ==
  ASSUME NEW x \in Seq(Token), NEW w \in Seq(Token), NEW f \in Seq(Token),
         NEW u \in Seq(Token), x \o w = f \o u, Len(x) <= Len(f)
  PROVE  x = SubSeq(f, 1, Len(x))
<1>1. Len(x) \in Nat /\ Len(f) \in Nat /\ Len(w) \in Nat /\ Len(u) \in Nat
  BY LenProperties
<1>2. Len(x) \in 0 .. Len(f)
  BY <1>1
<1>3. /\ SubSeq(f, 1, Len(x)) \in Seq(Token) /\ Len(SubSeq(f, 1, Len(x))) = Len(x)
      /\ \A i \in 1 .. Len(x) : SubSeq(f, 1, Len(x))[i] = f[i]
  BY <1>2, Splits
<1>4. ASSUME NEW i \in 1 .. Len(x) PROVE x[i] = f[i]
  <2>1. i \in 1 .. Len(x) + Len(w) /\ i \in 1 .. Len(f) + Len(u) /\ i <= Len(x) /\ i <= Len(f)
    BY <1>1
  <2>2. (x \o w)[i] = x[i]
    BY <2>1, ConcatProperties
  <2>3. (f \o u)[i] = f[i]
    BY <2>1, ConcatProperties
  <2> QED
    BY <2>2, <2>3
<1> QED
  BY <1>3, <1>4, SeqEqual

(* String x is f and what is left, which with w is u.                      *)
GoesOn(x, f, w, u) ==
  /\ SubSeq(x, 1, Len(f)) = f
  /\ SubSeq(x, Len(f) + 1, Len(x)) \in Seq(Token)
  /\ Len(SubSeq(x, Len(f) + 1, Len(x))) = Len(x) - Len(f)
  /\ x = f \o SubSeq(x, Len(f) + 1, Len(x))
  /\ SubSeq(x, Len(f) + 1, Len(x)) \o w = u

(* Of two strings that go on to be the same, the longer begins with the    *)
(* shorter.                                                                *)
LEMMA LongerGoesOn ==
  ASSUME NEW x \in Seq(Token), NEW w \in Seq(Token), NEW f \in Seq(Token),
         NEW u \in Seq(Token), x \o w = f \o u, Len(f) <= Len(x)
  PROVE  GoesOn(x, f, w, u)
<1> DEFINE v == SubSeq(x, Len(f) + 1, Len(x))
<1>1. Len(x) \in Nat /\ Len(f) \in Nat
  BY LenProperties
<1>2. SubSeq(x, 1, Len(f)) = f
  BY ShorterIsPart
<1>3. Len(f) \in 0 .. Len(x)
  BY <1>1
<1>4. v \in Seq(Token) /\ f \o v = x
  BY <1>2, <1>3, Splits
<1> HIDE DEF v
<1>5. Len(x) = Len(f) + Len(v) /\ Len(v) \in Nat
  BY <1>4, ConcatProperties, LenProperties
<1>6. (f \o v) \o w = f \o (v \o w)
  <2>1. f \in Seq(Token) /\ v \in Seq(Token) /\ w \in Seq(Token)
    BY <1>4
  <2> QED
    BY ONLY <2>1, ConcatAssociative
<1>7. v \o w \in Seq(Token)
  BY <1>4, ConcatProperties
<1>8. v \o w = u
  BY <1>4, <1>6, <1>7, ConcatSimplifications
<1>9. Len(v) = Len(x) - Len(f)
  BY <1>1, <1>5
<1> QED
  BY <1>2, <1>4, <1>8, <1>9, Zenon DEF GoesOn, v

-----------------------------------------------------------------------------
(* The drain loop, round by round.                                         *)

(* The function by which Drained is defined.                               *)
Rounds(f, b, n) ==
  f = [i \in 0 .. n |->
         IF i = 0 THEN { [msgs |-> << >>, rest |-> b, ended |-> "going"] }
         ELSE UNION { Round(o) : o \in f[i - 1] }]

(* There is such a function, for every buffer.                             *)
LEMMA RoundsExist ==
  ASSUME NEW b
  PROVE  \A n \in Nat : \E f : Rounds(f, b, n)
<1> DEFINE T == { n \in Nat : \E f : Rounds(f, b, n) }
           first == { [msgs |-> << >>, rest |-> b, ended |-> "going"] }
<1>1. 0 \in T
  <2> DEFINE f == [i \in 0 .. 0 |-> first]
  <2> HIDE DEF first
  <2>1. f = [i \in 0 .. 0 |-> IF i = 0 THEN first ELSE UNION { Round(o) : o \in f[i - 1] }]
    <3>1. \A i \in 0 .. 0 : i = 0
      OBVIOUS
    <3> QED
      BY <3>1
  <2> HIDE DEF f
  <2> QED
    BY <2>1 DEF Rounds, first
<1>2. ASSUME NEW n \in Nat, n \in T PROVE n + 1 \in T
  <2>1. PICK f : Rounds(f, b, n)
    BY <1>2
  <2> DEFINE new(i) == IF i = 0 THEN first ELSE UNION { Round(o) : o \in f[i - 1] }
             g == [i \in 0 .. n + 1 |-> new(i)]
  <2>2. \A i \in 0 .. n : f[i] = new(i)
    <3> HIDE DEF first
    <3>1. f = [i \in 0 .. n |-> IF i = 0 THEN first ELSE UNION { Round(o) : o \in f[i - 1] }]
      BY <2>1 DEF Rounds, first
    <3> QED
      BY <3>1
  <2> HIDE DEF new
  <2>3. \A i \in 0 .. n : g[i] = f[i]
    BY <2>2
  <2>4. ASSUME NEW i \in 0 .. n + 1
        PROVE  new(i) = IF i = 0 THEN first ELSE UNION { Round(o) : o \in g[i - 1] }
    <3>1. i # 0 => i - 1 \in 0 .. n
      OBVIOUS
    <3>2. i # 0 => g[i - 1] = f[i - 1]
      BY <2>3, <3>1
    <3> HIDE DEF g, first
    <3> QED
      BY <3>2 DEF new
  <2>5. Rounds(g, b, n + 1)
    <3> DEFINE old(i) == IF i = 0 THEN first ELSE UNION { Round(o) : o \in g[i - 1] }
    <3>1. \A i \in 0 .. n + 1 : new(i) = old(i)
      BY <2>4
    <3> HIDE DEF old
    <3>2. g = [i \in 0 .. n + 1 |-> old(i)]
      BY <3>1
    <3> HIDE DEF g
    <3> QED
      BY <3>2, Zenon DEF Rounds, old
  <2> HIDE DEF g
  <2> QED
    BY <2>5
<1> HIDE DEF T
<1>3. \A n \in Nat : n \in T
  BY <1>1, <1>2, Induction
<1> QED
  BY <1>3 DEF T

(* f are the outcomes after each round of the loop on b.                   *)
InRounds(f, b) ==
  /\ f[0] = { [msgs |-> << >>, rest |-> b, ended |-> "going"] }
  /\ \A i \in 0 .. Len(b) : f[i + 1] = UNION { Round(o) : o \in f[i] }
  /\ Drained(b) = f[Len(b) + 1]

(* What Drained returns are the outcomes of the last round.                *)
LEMMA DrainedInRounds ==
  ASSUME NEW b, Len(b) + 1 \in Nat
  PROVE  \E f : InRounds(f, b)
<1> DEFINE first == { [msgs |-> << >>, rest |-> b, ended |-> "going"] }
           f == CHOOSE f : Rounds(f, b, Len(b) + 1)
<1>1. Rounds(f, b, Len(b) + 1)
  BY RoundsExist
<1>2. Drained(b) = f[Len(b) + 1]
  BY Zenon DEF Drained, Rounds
<1> HIDE DEF f
<1>3. f = [i \in 0 .. Len(b) + 1 |->
             IF i = 0 THEN first ELSE UNION { Round(o) : o \in f[i - 1] }]
  BY <1>1, Zenon DEF Rounds
<1> HIDE DEF first
<1>4. f[0] = first
  <2>1. 0 \in 0 .. Len(b) + 1
    OBVIOUS
  <2> QED
    BY <1>3, <2>1
<1>5. \A i \in 0 .. Len(b) : f[i + 1] = UNION { Round(o) : o \in f[i] }
  <2> TAKE i \in 0 .. Len(b)
  <2>1. i + 1 \in 0 .. Len(b) + 1 /\ i + 1 # 0 /\ (i + 1) - 1 = i
    OBVIOUS
  <2>2. f[i + 1] = UNION { Round(o) : o \in f[(i + 1) - 1] }
    BY <1>3, <2>1
  <2> QED
    BY <2>1, <2>2
<1> QED
  BY <1>2, <1>4, <1>5, Zenon DEF InRounds, first

(* A round again, with a name for each of its outcomes.                    *)
Ending(o, rest, how) == [o EXCEPT !.rest = rest, !.ended = how]
Going(o, m, rest) == [o EXCEPT !.msgs = Append(@, m), !.rest = rest]
Taking(o, m, rest) == IF m \in Payloads THEN Going(o, m, rest) ELSE Ending(o, rest, "shutdown")
Rest(o, len) == SubSeq(o.rest, len + 1, Len(o.rest))
Message(o, len) == remoteFrames(list, SubSeq(o.rest, 1, len))
Outcomes(o, len) ==
  CASE len < 0 -> { Ending(o, o.rest, "thrown") }
    [] len = 0 -> { Ending(o, o.rest, "no") }
    [] len > 0 /\ Message(o, len) = {} -> { Ending(o, Rest(o, len), "thrown") }
    [] OTHER -> { Taking(o, m, Rest(o, len)) : m \in Message(o, len) }

(* That is what a round does.                                              *)
LEMMA RoundIs ==
  ASSUME NEW o
  PROVE  Round(o) = IF o.ended = "going"
                    THEN UNION { Outcomes(o, len) : len \in check(list, o.rest) }
                    ELSE {o}
BY Zenon DEF Round, Outcomes, Taking, Going, Ending, Rest, Message

(* What it does when the buffer holds no whole frame, when it begins with  *)
(* one, and when the loop is over.                                         *)
LEMMA RoundEnds ==
  ASSUME NEW o, o.ended = "going", check(list, o.rest) = {0}, NEW x \in Round(o)
  PROVE  x = Ending(o, o.rest, "no")
<1>1. x \in Outcomes(o, 0)
  BY RoundIs
<1> QED
  BY <1>1 DEF Outcomes

(* A round that finds a whole frame takes its message out and goes on      *)
(* behind it.                                                              *)
LEMMA RoundGoesOn ==
  ASSUME NEW o, o.ended = "going", NEW k \in Nat \ {0}, check(list, o.rest) = {k},
         NEW m \in Payloads, remoteFrames(list, SubSeq(o.rest, 1, k)) = {m},
         NEW x \in Round(o)
  PROVE  x = Going(o, m, SubSeq(o.rest, k + 1, Len(o.rest)))
<1>1. x \in Outcomes(o, k)
  BY RoundIs
<1>2. Message(o, k) = {m}
  BY DEF Message
<1>3. Outcomes(o, k) = { Taking(o, z, Rest(o, k)) : z \in Message(o, k) }
  <2>1. ~ k < 0 /\ k # 0 /\ Message(o, k) # {}
    BY <1>2
  <2> QED
    BY <2>1 DEF Outcomes
<1>4. x = Taking(o, m, Rest(o, k))
  BY <1>1, <1>2, <1>3
<1> QED
  BY <1>4 DEF Taking, Rest

(* A loop that has ended stays as it is.                                   *)
LEMMA RoundStays ==
  ASSUME NEW o, o.ended # "going"
  PROVE  Round(o) = {o}
BY RoundIs

(* Whatever the peer sends, what a round takes out are messages.           *)
Outcome(o) ==
  /\ DOMAIN o = {"msgs", "rest", "ended"}
  /\ o.msgs \in Seq(Payloads) /\ o.rest \in Seq(Token)

(* check() returns numbers, whatever the buffer holds.                     *)
LEMMA CheckType ==
  ASSUME list \in Lists, NEW b \in Seq(Token)
  PROVE  check(list, b) \subseteq Int
BY HttpCheckType, FixCheckType DEF check

(* What substr() leaves behind a position is a string.                     *)
LEMMA LeftType ==
  ASSUME NEW s \in Seq(Token), NEW k \in Int, 0 < k
  PROVE  SubSeq(s, k + 1, Len(s)) \in Seq(Token)
<1>1. Len(s) \in Nat
  BY LenProperties
<1>2. CASE Len(s) < k
  <2>1. SubSeq(s, k + 1, Len(s)) = << >>
    BY <1>1, <1>2, SubSeqEmpty
  <2>2. << >> \in Seq(Token)
    OBVIOUS
  <2> QED
    BY <2>1, <2>2
<1>3. CASE k \in 0 .. Len(s)
  BY <1>3, Splits
<1> QED
  BY <1>1, <1>2, <1>3

(* A round keeps what an outcome is.                                       *)
LEMMA RoundType ==
  ASSUME list \in Lists, NEW o, Outcome(o), NEW x \in Round(o)
  PROVE  Outcome(x)
<1>1. ASSUME NEW r \in Seq(Token), NEW h PROVE Outcome(Ending(o, r, h))
  BY DEF Outcome, Ending
<1>2. ASSUME NEW m \in Payloads, NEW r \in Seq(Token) PROVE Outcome(Going(o, m, r))
  BY AppendProperties DEF Outcome, Going
<1>4. ASSUME NEW m, NEW r \in Seq(Token) PROVE Outcome(Taking(o, m, r))
  BY <1>1, <1>2 DEF Taking
<1>5. ASSUME NEW len \in Int, NEW y \in Outcomes(o, len) PROVE Outcome(y)
  <2>1. \/ \E h : y = Ending(o, o.rest, h)
        \/ len > 0 /\ \E h : y = Ending(o, Rest(o, len), h)
        \/ len > 0 /\ \E m : y = Taking(o, m, Rest(o, len))
    BY <1>5 DEF Outcomes
  <2>2. o.rest \in Seq(Token)
    BY DEF Outcome
  <2>3. ASSUME len > 0 PROVE Rest(o, len) \in Seq(Token)
    BY <2>2, <2>3, LeftType DEF Rest
  <2> QED
    BY <1>1, <1>4, <2>1, <2>2, <2>3
<1>6. o.rest \in Seq(Token) => check(list, o.rest) \subseteq Int
  BY CheckType
<1> QED
  BY <1>5, <1>6, RoundIs DEF Outcome

-----------------------------------------------------------------------------
(* What the rounds have taken out of buffer b, where w is still in flight  *)
(* and p are the messages whose frames both are.                           *)
Taken(o, n, b, w, p) ==
  /\ Outcome(o) /\ o.rest \in Seq(Token)
  /\ \E r \in Seq(Payloads) :
       /\ o.msgs \o r = p /\ o.rest \o w = FramesOf(theirs, r)
       /\ \/ o.ended = "going" /\ Len(o.rest) + n <= Len(b)
          \/ /\ o.ended = "no"
             /\ r # << >> => Len(o.rest) < Len(addFrames(theirs, r[1]))

(* An empty buffer holds no frame.                                         *)
LEMMA NothingIsNoFrame ==
  ASSUME list \in Lists, theirs \in Lists, Fits(theirs, list), Payloads # {}
  PROVE  check(list, << >>) = {0}
<1>1. PICK m \in Payloads : TRUE
  OBVIOUS
<1>2. /\ list \in Seq(FrameNames) \ {<< >>} /\ theirs \in Seq(FrameNames) \ {<< >>}
      /\ m \in Seq(Token) /\ Len(addFrames(theirs, m)) < Width
      /\ Len(addFrames(theirs, m)) \in Nat \ {0}
  BY ListsType
<1>3. \A k \in 0 .. Len(addFrames(theirs, m)) - 1 :
        check(list, SubSeq(addFrames(theirs, m), 1, k)) = {0}
  BY <1>2, FramesWork
<1>4. 0 \in 0 .. Len(addFrames(theirs, m)) - 1
  BY <1>2
<1>5. SubSeq(addFrames(theirs, m), 1, 0) = << >>
  BY SubSeqEmpty
<1> QED
  BY <1>3, <1>4, <1>5

(* A round keeps what has been taken out: the next whole frame, or nothing *)
(* more.                                                                   *)
LEMMA RoundTakes ==
  ASSUME list \in Lists, theirs \in Lists, Fits(theirs, list), Payloads # {},
         NEW b \in Seq(Token), NEW w \in Seq(Token), NEW p \in Seq(Payloads),
         NEW n \in Nat, NEW o, Taken(o, n, b, w, p), NEW x \in Round(o)
  PROVE  Taken(x, n + 1, b, w, p)
<1>1. PICK r \in Seq(Payloads) :
        /\ o.msgs \o r = p /\ o.rest \o w = FramesOf(theirs, r)
        /\ \/ o.ended = "going" /\ Len(o.rest) + n <= Len(b)
           \/ /\ o.ended = "no"
              /\ r # << >> => Len(o.rest) < Len(addFrames(theirs, r[1]))
  BY DEF Taken
<1>2. /\ Outcome(o) /\ o.rest \in Seq(Token) /\ Len(o.rest) \in Nat /\ Len(b) \in Nat
      /\ DOMAIN o = {"msgs", "rest", "ended"} /\ o.msgs \in Seq(Payloads)
  <2>1. Outcome(o) /\ o.rest \in Seq(Token)
    BY DEF Taken
  <2> QED
    BY <2>1, LenProperties DEF Outcome
<1>3. CASE o.ended = "no"
  <2>1. x = o
    BY <1>3, RoundStays
  <2> QED
    BY <1>1, <1>2, <1>3, <2>1 DEF Taken
<1>4. ASSUME o.ended = "going", check(list, o.rest) = {0},
             r # << >> => Len(o.rest) < Len(addFrames(theirs, r[1]))
      PROVE  Taken(x, n + 1, b, w, p)
  <2>1. x = [o EXCEPT !.rest = o.rest, !.ended = "no"]
    BY <1>4, RoundEnds DEF Ending
  <2>2. x.msgs = o.msgs /\ x.rest = o.rest /\ x.ended = "no" /\ Outcome(x)
    BY <1>2, <2>1 DEF Outcome
  <2> QED
    BY <1>1, <1>2, <1>4, <2>2 DEF Taken
<1>5. CASE o.ended = "going" /\ r = << >>
  <2>1. o.rest = << >>
    <3>1. o.rest \o w = << >>
      BY <1>1, <1>5, FramesOfNothing
    <3> QED
      BY <1>2, <3>1, ConcatEqualIffEmpty
  <2> QED
    BY <1>4, <1>5, <2>1, NothingIsNoFrame
<1>6. CASE o.ended = "going" /\ r # << >>
  <2> DEFINE f == addFrames(theirs, r[1])
             u == FramesOf(theirs, Tail(r))
  <2>1. /\ r[1] \in Payloads /\ Tail(r) \in Seq(Payloads) /\ r = << r[1] >> \o Tail(r)
        /\ u \in Seq(Token) /\ o.rest \o w = f \o u
    BY <1>1, <1>6, FramesOfFirst
  <2>2. /\ list \in Seq(FrameNames) \ {<< >>} /\ theirs \in Seq(FrameNames) \ {<< >>}
        /\ r[1] \in Seq(Token) /\ Len(f) < Width
        /\ f \in Seq(Token) /\ Len(f) \in Nat \ {0}
    BY <2>1, ListsType
  <2>3. /\ \A v \in Seq(Token) : check(list, f \o v) = {Len(f)}
        /\ \A k \in 0 .. Len(f) - 1 : check(list, SubSeq(f, 1, k)) = {0}
        /\ remoteFrames(list, f) = {r[1]}
    BY <2>2, FramesWork
  <2> HIDE DEF f, u
  <2>4. CASE Len(o.rest) < Len(f)
    <3>1. Len(o.rest) \in 0 .. Len(f) - 1 /\ Len(o.rest) <= Len(f)
      BY <1>2, <2>2, <2>4
    <3>2. o.rest = SubSeq(f, 1, Len(o.rest))
      BY <1>2, <2>1, <2>2, <3>1, ShorterIsPart
    <3>3. check(list, o.rest) = {0}
      BY <2>3, <3>1, <3>2
    <3> QED
      BY <1>4, <1>6, <2>4, <3>3 DEF f
  <2>5. CASE ~ Len(o.rest) < Len(f)
    <3> DEFINE v == SubSeq(o.rest, Len(f) + 1, Len(o.rest))
    <3>1. Len(f) <= Len(o.rest)
      BY <1>2, <2>2, <2>5
    <3>2. /\ SubSeq(o.rest, 1, Len(f)) = f /\ v \in Seq(Token)
          /\ Len(v) = Len(o.rest) - Len(f) /\ o.rest = f \o v /\ v \o w = u
      <4>1. o.rest \in Seq(Token) /\ f \in Seq(Token) /\ u \in Seq(Token)
        BY <1>2, <2>1, <2>2
      <4> DEFINE y == o.rest
      <4>2. y \in Seq(Token) /\ y \o w = f \o u /\ Len(f) <= Len(y)
        BY <1>2, <2>1, <3>1
      <4> HIDE DEF y, v
      <4>3. /\ SubSeq(y, 1, Len(f)) = f
            /\ SubSeq(y, Len(f) + 1, Len(y)) \in Seq(Token)
            /\ Len(SubSeq(y, Len(f) + 1, Len(y))) = Len(y) - Len(f)
            /\ y = f \o SubSeq(y, Len(f) + 1, Len(y))
            /\ SubSeq(y, Len(f) + 1, Len(y)) \o w = u
        <5>1. f \in Seq(Token) /\ u \in Seq(Token)
          BY <4>1
        <5>2. GoesOn(y, f, w, u)
          BY ONLY <4>2, <5>1, w \in Seq(Token), LongerGoesOn
        <5> QED
          BY ONLY <5>2 DEF GoesOn
      <4> QED
        BY ONLY <4>3 DEF y, v
    <3>3. check(list, o.rest) = {Len(f)}
      BY <2>3, <3>2
    <3>4. remoteFrames(list, SubSeq(o.rest, 1, Len(f))) = {r[1]}
      BY <2>3, <3>2
    <3>5. x = Going(o, r[1], v)
      BY <1>6, <2>1, <2>2, <3>3, <3>4, RoundGoesOn
    <3> HIDE DEF v
    <3>13. x = [o EXCEPT !.msgs = Append(@, r[1]), !.rest = v]
      BY <3>5 DEF Going
    <3>6. x.msgs = Append(o.msgs, r[1]) /\ x.rest = v /\ x.ended = "going"
      BY <1>2, <1>6, <3>13
    <3>7. Outcome(x)
      BY <1>2, RoundType
    <3>8. x.msgs \o Tail(r) = p
      <4> DEFINE h == << r[1] >>
      <4>1. h \in Seq(Payloads) /\ Tail(r) \in Seq(Payloads) /\ o.msgs \in Seq(Payloads)
        BY <1>2, <2>1
      <4>2. Append(o.msgs, r[1]) = o.msgs \o h
        BY <1>2, <2>1, AppendIsConcat
      <4> HIDE DEF h
      <4>3. (o.msgs \o h) \o Tail(r) = o.msgs \o (h \o Tail(r))
        <5> DEFINE y == o.msgs
                   z == Tail(r)
        <5>1. y \in Seq(Payloads) /\ h \in Seq(Payloads) /\ z \in Seq(Payloads)
          BY <4>1
        <5> HIDE DEF y, z
        <5>2. (y \o h) \o z = y \o (h \o z)
          BY ONLY <5>1, Regrouped
        <5> QED
          BY ONLY <5>2 DEF y, z
      <4>4. h \o Tail(r) = r
        BY <2>1 DEF h
      <4> QED
        BY <1>1, <3>6, <4>2, <4>3, <4>4
    <3>9. Len(x.rest) + (n + 1) <= Len(b)
      <4>1. Len(o.rest) + n <= Len(b)
        BY <1>1, <1>6
      <4> QED
        <5>1. ASSUME NEW a \in Nat, NEW c \in Nat \ {0}, NEW e \in Nat, a + n <= e
              PROVE  (a - c) + (n + 1) <= e
          BY <5>1
        <5>2. Len(x.rest) = Len(o.rest) - Len(f)
          BY <3>2, <3>6
        <5> QED
          BY <1>2, <2>2, <4>1, <5>1, <5>2
    <3>10. x.rest \o w = FramesOf(theirs, Tail(r))
      BY <3>2, <3>6 DEF u
    <3> QED
      BY <2>1, <3>2, <3>6, <3>7, <3>8, <3>9, <3>10 DEF Taken
  <2> QED
    BY <2>4, <2>5
<1> QED
  BY <1>1, <1>3, <1>5, <1>6

-----------------------------------------------------------------------------
(* What the loop leaves.                                                   *)

(* Whatever the peer sends, what is taken out are messages and what is     *)
(* left is a string.                                                       *)
LEMMA DrainedType ==
  ASSUME list \in Lists, NEW b \in Seq(Token), NEW x \in Drained(b)
  PROVE  Outcome(x)
<1>1. Len(b) \in Nat
  BY LenProperties
<1> DEFINE first == [msgs |-> << >>, rest |-> b, ended |-> "going"]
<1>2. PICK f : /\ f[0] = {first}
               /\ \A i \in 0 .. Len(b) : f[i + 1] = UNION { Round(o) : o \in f[i] }
               /\ Drained(b) = f[Len(b) + 1]
  <2>1. Len(b) + 1 \in Nat
    BY <1>1
  <2>2. \E f : InRounds(f, b)
    BY <2>1, DrainedInRounds
  <2> QED
    BY <2>2, Zenon DEF InRounds
<1>12. first.msgs = << >> /\ first.rest = b /\ first.ended = "going" /\ Outcome(first)
  BY DEF Outcome
<1> HIDE DEF first
<1> DEFINE T == { n \in Nat : n <= Len(b) + 1 => \A o \in f[n] : Outcome(o) }
<1>3. 0 \in T
  <2>1. \A o \in f[0] : Outcome(o)
    BY <1>2, <1>12
  <2> QED
    BY <2>1
<1>4. ASSUME NEW n \in Nat, n \in T PROVE n + 1 \in T
  <2>1. ASSUME n + 1 <= Len(b) + 1, NEW y \in f[n + 1] PROVE Outcome(y)
    <3>1. n \in 0 .. Len(b) /\ n <= Len(b) + 1
      BY <1>1, <2>1
    <3>2. PICK o \in f[n] : y \in Round(o)
      <4>1. f[n + 1] = UNION { Round(o) : o \in f[n] }
        BY <1>2, <3>1
      <4>2. y \in UNION { Round(o) : o \in f[n] }
        BY <2>1, <4>1
      <4> QED
        BY ONLY <4>2
    <3>3. Outcome(o)
      BY <1>4, <3>1, <3>2
    <3> QED
      BY <3>2, <3>3, RoundType
  <2> QED
    BY <2>1
<1> HIDE DEF T
<1>5. \A n \in Nat : n \in T
  BY <1>3, <1>4, Induction
<1>6. Len(b) + 1 \in Nat /\ Len(b) + 1 <= Len(b) + 1
  BY <1>1
<1>7. Len(b) + 1 \in T
  BY <1>5, <1>6
<1> QED
  BY <1>2, <1>6, <1>7 DEF T

(* Of a buffer that goes on as the frames of p, the loop takes out every   *)
(* whole frame, and nothing else.                                          *)
Left(x, w, p) ==
  /\ x.ended = "no"
  /\ \E r \in Seq(Payloads) :
       /\ x.msgs \o r = p /\ x.rest \o w = FramesOf(theirs, r)
       /\ r # << >> => Len(x.rest) < Len(addFrames(theirs, r[1]))

(* The loop takes out every whole frame and nothing else.                  *)
LEMMA DrainedTakes ==
  ASSUME list \in Lists, theirs \in Lists, Fits(theirs, list), Payloads # {},
         NEW b \in Seq(Token), NEW w \in Seq(Token), NEW p \in Seq(Payloads),
         b \o w = FramesOf(theirs, p), NEW x \in Drained(b)
  PROVE  Left(x, w, p)
<1>1. Len(b) \in Nat
  BY LenProperties
<1> DEFINE first == [msgs |-> << >>, rest |-> b, ended |-> "going"]
<1>2. PICK f : /\ f[0] = {first}
               /\ \A i \in 0 .. Len(b) : f[i + 1] = UNION { Round(o) : o \in f[i] }
               /\ Drained(b) = f[Len(b) + 1]
  <2>1. Len(b) + 1 \in Nat
    BY <1>1
  <2>2. \E f : InRounds(f, b)
    BY <2>1, DrainedInRounds
  <2> QED
    BY <2>2, Zenon DEF InRounds
<1>12. first.msgs = << >> /\ first.rest = b /\ first.ended = "going" /\ Outcome(first)
  BY DEF Outcome
<1> HIDE DEF first
<1> DEFINE T == { n \in Nat : n <= Len(b) + 1 => \A o \in f[n] : Taken(o, n, b, w, p) }
<1>3. 0 \in T
  <2>1. ASSUME NEW o \in f[0] PROVE Taken(o, 0, b, w, p)
    <3>1. o.msgs = << >> /\ o.rest = b /\ o.ended = "going" /\ Outcome(o)
      BY <1>2, <1>12, <2>1
    <3>2. o.msgs \o p = p
      BY <3>1, ConcatEmptySeq
    <3>3. Len(o.rest) + 0 <= Len(b)
      BY <1>1, <3>1
    <3> QED
      BY <3>1, <3>2, <3>3 DEF Taken
  <2> QED
    BY <2>1
<1>4. ASSUME NEW n \in Nat, n \in T PROVE n + 1 \in T
  <2>1. ASSUME n + 1 <= Len(b) + 1, NEW y \in f[n + 1] PROVE Taken(y, n + 1, b, w, p)
    <3>1. n \in 0 .. Len(b) /\ n <= Len(b) + 1
      BY <1>1, <2>1
    <3>2. PICK o \in f[n] : y \in Round(o)
      <4>1. f[n + 1] = UNION { Round(o) : o \in f[n] }
        BY <1>2, <3>1
      <4>2. y \in UNION { Round(o) : o \in f[n] }
        BY <2>1, <4>1
      <4> QED
        BY ONLY <4>2
    <3>3. Taken(o, n, b, w, p)
      BY <1>4, <3>1, <3>2
    <3> QED
      BY <3>2, <3>3, RoundTakes
  <2> QED
    BY <2>1
<1> HIDE DEF T
<1>5. \A n \in Nat : n \in T
  BY <1>3, <1>4, Induction
<1>6. Len(b) + 1 \in Nat /\ Len(b) + 1 <= Len(b) + 1
  BY <1>1
<1>7. Len(b) + 1 \in T
  BY <1>5, <1>6
<1>8. Taken(x, Len(b) + 1, b, w, p)
  BY <1>2, <1>6, <1>7 DEF T
<1>9. PICK r \in Seq(Payloads) :
        /\ x.msgs \o r = p /\ x.rest \o w = FramesOf(theirs, r)
        /\ \/ x.ended = "going" /\ Len(x.rest) + (Len(b) + 1) <= Len(b)
           \/ /\ x.ended = "no"
              /\ r # << >> => Len(x.rest) < Len(addFrames(theirs, r[1]))
  BY <1>8 DEF Taken
<1>10. x.rest \in Seq(Token) /\ Len(x.rest) \in Nat
  BY <1>8, LenProperties DEF Taken
<1>11. ~ Len(x.rest) + (Len(b) + 1) <= Len(b)
  <2>1. \A a, c \in Nat : ~ a + (c + 1) <= c
    OBVIOUS
  <2> QED
    BY <1>1, <1>10, <2>1
<1> QED
  BY <1>9, <1>11 DEF Left

-----------------------------------------------------------------------------
(* Every string that can be in flight.                                     *)

(* Inductive: the messages not out yet are the frames of the buffer and    *)
(* the wire, and the buffer holds less than one of them.                   *)
Pending(p) ==
  /\ sent = got \o p /\ tmp \o wire = FramesOf(theirs, p)
  /\ p # << >> => Len(tmp) < Len(addFrames(theirs, p[1]))

(* The types of the variables: what the peer may send is a string, too.    *)
Types ==
  /\ list \in Lists /\ theirs \in Lists /\ Fits(theirs, list)
  /\ peer \in {"framed", "foreign"}
  /\ sent \in Seq(Payloads) /\ got \in Seq(Payloads)
  /\ wire \in Seq(Token) /\ tmp \in Seq(Token)

(* Receiver and sender are in step.                                        *)
InStep ==
  /\ Types
  /\ peer = "foreign" => sent = << >>
  /\ peer = "framed" => ended = "no" /\ \E p \in Seq(Payloads) : Pending(p)

(* They begin in step: nothing is sent yet.                                *)
LEMMA InStepInit ==
  Init => InStep
<1> SUFFICES ASSUME Init PROVE InStep
  OBVIOUS
<1>1. Types
  BY DEF Init, Types
<1>2. << >> \in Seq(Payloads)
  OBVIOUS
<1>3. FramesOf(theirs, << >>) = << >>
  BY FramesOfNothing
<1>4. sent = << >> /\ got = << >> /\ tmp = << >> /\ wire = << >> /\ ended = "no"
  BY DEF Init
<1>5. Pending(<< >>)
  BY <1>3, <1>4 DEF Pending
<1> QED
  BY <1>1, <1>2, <1>4, <1>5 DEF InStep

(* A message sent is one more that is pending, behind the others.          *)
LEMMA InStepSends ==
  ASSUME InStep, NEW m \in Payloads, Sends(m)
  PROVE  InStep'
<1>1. /\ peer = "framed" /\ sent' = Append(sent, m)
      /\ wire' = wire \o addFrames(theirs, m)
      /\ list' = list /\ theirs' = theirs /\ peer' = peer
      /\ tmp' = tmp /\ got' = got /\ ended' = ended
  BY DEF Sends
<1>2. /\ list \in Lists /\ theirs \in Lists /\ sent \in Seq(Payloads)
      /\ got \in Seq(Payloads) /\ wire \in Seq(Token) /\ tmp \in Seq(Token)
  BY DEF InStep, Types
<1>3. addFrames(theirs, m) \in Seq(Token)
  BY <1>2, ListsType
<1> DEFINE f == addFrames(theirs, m)
           one == << m >>
<1>4. one \in Seq(Payloads) /\ sent' = sent \o one
  BY <1>1, <1>2, AppendIsConcat
<1>5. PICK p \in Seq(Payloads) : Pending(p)
  BY <1>1 DEF InStep
<1>6. FramesOf(theirs, p \o one) = FramesOf(theirs, p) \o f
  BY <1>2, FramesOfOne
<1> HIDE DEF f
<1>7. p # << >> => (p \o one)[1] = p[1]
  <2>1. ASSUME p # << >> PROVE (p \o one)[1] = p[1]
    <3>1. Len(p) \in Nat \ {0} /\ Len(one) = 1
      BY <2>1, EmptySeq
    <3>2. 1 \in 1 .. Len(p) + Len(one) /\ 1 <= Len(p)
      BY <3>1
    <3> QED
      BY <1>4, <3>2, ConcatProperties
  <2> QED
    BY <2>1
<1> HIDE DEF one
<1>8. Types'
  <2>1. sent' \in Seq(Payloads)
    BY <1>2, <1>4, ConcatProperties
  <2>2. wire' \in Seq(Token)
    BY <1>1, <1>2, <1>3, ConcatProperties DEF f
  <2> QED
    BY <1>1, <2>1, <2>2 DEF InStep, Types, Fits
<1>9. sent' = got' \o (p \o one)
  <2>1. (got \o p) \o one = got \o (p \o one)
    BY <1>2, <1>4, Regrouped
  <2> QED
    BY <1>1, <1>4, <1>5, <2>1 DEF Pending
<1>10. tmp' \o wire' = FramesOf(theirs', p \o one)
  <2>1. (tmp \o wire) \o f = tmp \o (wire \o f)
    <3>1. tmp \in Seq(Token) /\ wire \in Seq(Token) /\ f \in Seq(Token)
      BY <1>2, <1>3 DEF f
    <3> QED
      BY ONLY <3>1, ConcatAssociative
  <2> QED
    BY <1>1, <1>5, <1>6, <2>1 DEF Pending, f
<1>11. Len(tmp') < Len(addFrames(theirs', (p \o one)[1]))
  <2>1. CASE p # << >>
    BY <1>1, <1>5, <1>7, <2>1 DEF Pending
  <2>2. CASE p = << >>
    <3>1. tmp \o wire = << >>
      BY <1>5, <2>2, FramesOfNothing DEF Pending
    <3>2. tmp = << >>
      BY <1>2, <3>1, ConcatEqualIffEmpty
    <3>3. (p \o one)[1] = m
      <4>1. p \o one = one
        BY <1>4, <2>2, ConcatEmptySeq
      <4> QED
        BY <4>1 DEF one
    <3>4. Len(tmp) = 0 /\ Len(addFrames(theirs, m)) \in Nat \ {0}
      BY <1>2, <3>2, ListsType
    <3> QED
      BY <1>1, <3>3, <3>4
  <2> QED
    BY <2>1, <2>2
<1>12. p \o one \in Seq(Payloads)
  BY <1>4, ConcatProperties
<1>13. Pending(p \o one)'
  BY <1>9, <1>10, <1>11 DEF Pending
<1>14. ended' = "no" /\ peer' = "framed"
  BY <1>1 DEF InStep
<1> QED
  BY <1>8, <1>12, <1>13, <1>14 DEF InStep

(* A foreign peer sends no messages, so there are none to be in step       *)
(* about.                                                                  *)
LEMMA InStepSendsForeign ==
  ASSUME InStep, NEW x \in Foreign, SendsForeign(x)
  PROVE  InStep'
<1>1. x.text \in Seq(Token)
  <2>1. Foreign \subseteq [to : Lists, text : Seq(Token)]
    BY FramingAssumption
  <2>2. \A S : \A y \in [to : Lists, text : S] : y.text \in S
    OBVIOUS
  <2>3. x \in [to : Lists, text : Seq(Token)]
    BY <2>1
  <2> QED
    BY ONLY <2>2, <2>3
<1> QED
  BY <1>1 DEF SendsForeign, InStep, Types, Fits

(* A read moves any part of the wire to the buffer; the loop then takes    *)
(* out every whole frame and leaves less than one.                         *)
LEMMA InStepReceives ==
  ASSUME InStep, Receives
  PROVE  InStep'
<1>1. PICK k \in 1 .. Len(wire) : \E o \in Drained(tmp \o SubSeq(wire, 1, k)) :
        /\ wire' = SubSeq(wire, k + 1, Len(wire))
        /\ tmp' = o.rest /\ ended' = o.ended
        /\ got' = IF o.ended = "no" THEN got \o o.msgs ELSE got
        /\ list' = list /\ theirs' = theirs /\ peer' = peer /\ sent' = sent
  BY Zenon DEF Receives
<1>2. /\ list \in Lists /\ theirs \in Lists /\ Fits(theirs, list) /\ sent \in Seq(Payloads)
      /\ got \in Seq(Payloads) /\ wire \in Seq(Token) /\ tmp \in Seq(Token)
  BY DEF InStep, Types
<1> DEFINE a == SubSeq(wire, 1, k)
           c == SubSeq(wire, k + 1, Len(wire))
           b == tmp \o a
<1>3. a \in Seq(Token) /\ c \in Seq(Token) /\ a \o c = wire
  <2>1. k \in 0 .. Len(wire)
    OBVIOUS
  <2> QED
    BY <1>2, <2>1, Splits
<1>4. PICK o \in Drained(b) :
        /\ wire' = c /\ tmp' = o.rest /\ ended' = o.ended
        /\ got' = IF o.ended = "no" THEN got \o o.msgs ELSE got
        /\ list' = list /\ theirs' = theirs /\ peer' = peer /\ sent' = sent
  BY <1>1
<1> HIDE DEF a, c
<1>5. b \in Seq(Token)
  BY <1>2, <1>3, ConcatProperties
<1>6. (tmp \o a) \o c = tmp \o (a \o c)
  <2>1. tmp \in Seq(Token) /\ a \in Seq(Token) /\ c \in Seq(Token)
    BY <1>2, <1>3
  <2> QED
    BY ONLY <2>1, ConcatAssociative
<1>7. b \o c = tmp \o wire
  BY <1>3, <1>6
<1> HIDE DEF b
<1>8. Outcome(o)
  BY <1>2, <1>5, DrainedType
<1>9. Types'
  <2>1. o.msgs \in Seq(Payloads) /\ o.rest \in Seq(Token)
    BY <1>8 DEF Outcome
  <2>2. got \o o.msgs \in Seq(Payloads)
    BY <1>2, <2>1, ConcatProperties
  <2> QED
    BY <1>3, <1>4, <2>1, <2>2 DEF InStep, Types, Fits
<1>10. ASSUME peer = "framed"
       PROVE  ended' = "no" /\ (\E p \in Seq(Payloads) : Pending(p))'
  <2>1. PICK p \in Seq(Payloads) : Pending(p)
    BY <1>10 DEF InStep
  <2>2. Payloads # {}
    <3>1. Len(wire) # 0
      BY <1>2
    <3>2. p # << >>
      <4>1. ASSUME p = << >> PROVE FALSE
        <5>1. tmp \o wire = << >>
          BY <2>1, <4>1, FramesOfNothing DEF Pending
        <5>2. wire = << >>
          BY <1>2, <5>1, ConcatEqualIffEmpty
        <5> QED
          BY <3>1, <5>2
      <4> QED
        BY <4>1
    <3>3. p[1] \in Payloads
      BY <1>2, <3>2, FramesOfFirst
    <3> QED
      BY <3>3
  <2>3. Left(o, c, p)
    BY <1>2, <1>3, <1>5, <1>7, <2>1, <2>2, DrainedTakes DEF Pending
  <2>4. PICK r \in Seq(Payloads) :
          /\ o.msgs \o r = p /\ o.rest \o c = FramesOf(theirs, r)
          /\ r # << >> => Len(o.rest) < Len(addFrames(theirs, r[1]))
    BY <2>3 DEF Left
  <2>5. o.ended = "no"
    BY <2>3 DEF Left
  <2>6. sent = (got \o o.msgs) \o r
    <3> DEFINE x == o.msgs
    <3>1. x \in Seq(Payloads)
      BY <1>8 DEF Outcome
    <3>2. sent = got \o (x \o r)
      BY <2>1, <2>4 DEF Pending
    <3> HIDE DEF x
    <3>3. (got \o x) \o r = got \o (x \o r)
      BY <1>2, <3>1, Regrouped
    <3> QED
      BY <3>2, <3>3 DEF x
  <2>7. Pending(r)'
    BY <1>4, <2>4, <2>5, <2>6 DEF Pending
  <2> QED
    BY <1>4, <2>5, <2>7
<1> QED
  BY <1>4, <1>9, <1>10 DEF InStep

(* So they stay in step.                                                   *)
LEMMA InStepHolds ==
  Spec => []InStep
<1>1. InStep /\ [Next]_vars => InStep'
  <2> SUFFICES ASSUME InStep, [Next]_vars PROVE InStep'
    OBVIOUS
  <2>1. ASSUME NEW m \in Payloads, Sends(m) PROVE InStep'
    BY <2>1, InStepSends
  <2>2. ASSUME NEW x \in Foreign, SendsForeign(x) PROVE InStep'
    BY <2>2, InStepSendsForeign
  <2>3. CASE Receives
    BY <2>3, InStepReceives
  <2>4. CASE UNCHANGED vars
    BY <2>4 DEF vars, InStep, Types, Pending, Fits
  <2> QED
    BY <2>1, <2>2, <2>3, <2>4 DEF Next
<1> QED
  BY <1>1, InStepInit, PTL DEF Spec

-----------------------------------------------------------------------------
(* The messages come out as they were sent, in order, each once, and what  *)
(* is not out yet is in the buffer and in flight: handleReadDataFromRemote *)
(* and handleWriteDataToTarget, however the string is cut.                 *)
THEOREM InOrderHolds == Spec => []InOrder
<1>1. InStep => InOrder
  <2> SUFFICES ASSUME InStep, peer = "framed"
               PROVE  /\ ended = "no" /\ IsPrefix(got, sent)
                      /\ tmp \o wire
                         = FlattenSeq([i \in 1 .. Len(sent) - Len(got) |->
                                         addFrames(theirs, sent[Len(got) + i])])
    BY DEF InOrder
  <2>1. sent \in Seq(Payloads) /\ got \in Seq(Payloads) /\ ended = "no"
    BY DEF InStep, Types
  <2>2. PICK p \in Seq(Payloads) : Pending(p)
    BY DEF InStep
  <2>3. /\ Len(got) \in Nat /\ Len(p) \in Nat /\ Len(sent) = Len(got) + Len(p)
        /\ DOMAIN p = 1 .. Len(p)
        /\ \A i \in 1 .. Len(got) : sent[i] = got[i]
        /\ \A i \in 1 .. Len(p) : sent[Len(got) + i] = p[i]
    <3>1. sent = got \o p
      BY <2>2 DEF Pending
    <3>2. Len(got) \in Nat /\ Len(p) \in Nat /\ DOMAIN p = 1 .. Len(p)
      BY <2>1, LenProperties
    <3>3. Len(got \o p) = Len(got) + Len(p)
      BY <2>1, ConcatProperties
    <3>4. \A i \in 1 .. Len(got) + Len(p) :
            (got \o p)[i] = IF i <= Len(got) THEN got[i] ELSE p[i - Len(got)]
      BY <2>1, ConcatProperties
    <3>5. ASSUME NEW i \in 1 .. Len(got) PROVE sent[i] = got[i]
      <4>1. i \in 1 .. Len(got) + Len(p) /\ i <= Len(got)
        BY <3>2
      <4> QED
        BY <3>1, <3>4, <4>1
    <3>6. ASSUME NEW i \in 1 .. Len(p) PROVE sent[Len(got) + i] = p[i]
      <4>1. Len(got) + i \in 1 .. Len(got) + Len(p) /\ ~ Len(got) + i <= Len(got)
            /\ (Len(got) + i) - Len(got) = i
        BY <3>2
      <4> QED
        BY <3>1, <3>4, <4>1
    <3> QED
      BY <3>1, <3>2, <3>3, <3>5, <3>6
  <2>4. IsPrefix(got, sent)
    <3>1. Len(got) \in 0 .. Len(got) /\ Len(got) \in 0 .. Len(sent) /\ Len(got) <= Len(sent)
      BY <2>3
    <3>2. /\ SubSeq(got, 1, Len(got)) \in Seq(Payloads)
          /\ Len(SubSeq(got, 1, Len(got))) = Len(got)
          /\ \A i \in 1 .. Len(got) : SubSeq(got, 1, Len(got))[i] = got[i]
      BY <2>1, <3>1, Splits
    <3>3. /\ SubSeq(sent, 1, Len(got)) \in Seq(Payloads)
          /\ Len(SubSeq(sent, 1, Len(got))) = Len(got)
          /\ \A i \in 1 .. Len(got) : SubSeq(sent, 1, Len(got))[i] = sent[i]
      BY <2>1, <3>1, Splits
    <3>4. SubSeq(got, 1, Len(got)) = SubSeq(sent, 1, Len(got))
      BY <2>3, <3>2, <3>3, SeqEqual
    <3> QED
      BY <3>1, <3>4 DEF IsPrefix
  <2>5. Mapped(FramesBy(theirs), p)
        = [i \in 1 .. Len(sent) - Len(got) |-> addFrames(theirs, sent[Len(got) + i])]
    <3> DEFINE old(i) == FramesBy(theirs)[p[i]]
               new(i) == addFrames(theirs, sent[Len(got) + i])
    <3>1. Len(sent) - Len(got) = Len(p)
      BY <2>3
    <3>2. ASSUME NEW i \in 1 .. Len(p) PROVE old(i) = new(i)
      <4>1. p[i] \in Payloads
        BY ElementOfSeq
      <4> QED
        BY <2>3, <4>1 DEF FramesBy
    <3>3. Mapped(FramesBy(theirs), p) = [i \in 1 .. Len(p) |-> old(i)]
      BY <2>3 DEF Mapped
    <3> HIDE DEF old
    <3>4. [i \in 1 .. Len(sent) - Len(got) |-> addFrames(theirs, sent[Len(got) + i])]
          = [i \in 1 .. Len(p) |-> new(i)]
      BY <3>1
    <3> HIDE DEF new
    <3> QED
      BY <3>2, <3>3, <3>4
  <2>6. tmp \o wire = FlattenSeq(Mapped(FramesBy(theirs), p))
    BY <2>2 DEF Pending, FramesOf, FlatMap
  <2> QED
    BY <2>1, <2>4, <2>5, <2>6
<1> QED
  BY <1>1, InStepHolds, PTL

(* A message is out as soon as its last byte has been read: what the drain *)
(* loop leaves in the buffer is never a whole frame.                       *)
THEOREM NothingWaitsHolds == Spec => []NothingWaits
<1>1. InStep => NothingWaits
  <2> SUFFICES ASSUME InStep, Len(got) < Len(sent)
               PROVE  Len(tmp) < Len(addFrames(theirs, sent[Len(got) + 1]))
    BY DEF NothingWaits
  <2>1. /\ sent \in Seq(Payloads) /\ got \in Seq(Payloads)
        /\ Len(got) \in Nat /\ Len(sent) \in Nat
    BY LenProperties DEF InStep, Types
  <2>2. peer = "framed"
    <3>1. peer \in {"framed", "foreign"} /\ (peer = "foreign" => sent = << >>)
      BY DEF InStep, Types
    <3>2. sent # << >>
      <4>1. ASSUME sent = << >> PROVE FALSE
        <5>1. Len(sent) = 0
          BY <4>1
        <5> QED
          BY <2>1, <5>1
      <4> QED
        BY <4>1
    <3> QED
      BY <3>1, <3>2
  <2>3. PICK p \in Seq(Payloads) : Pending(p)
    BY <2>2 DEF InStep
  <2>4. sent = got \o p /\ Len(p) \in Nat
    BY <2>3, LenProperties DEF Pending
  <2>5. Len(sent) = Len(got) + Len(p)
    BY <2>1, <2>4, ConcatProperties
  <2>6. Len(got) + 1 \in 1 .. Len(got) + Len(p) /\ ~ Len(got) + 1 <= Len(got)
        /\ (Len(got) + 1) - Len(got) = 1 /\ Len(p) # 0
    BY <2>1, <2>4, <2>5
  <2>7. sent[Len(got) + 1] = p[1]
    <3>1. \A i \in 1 .. Len(got) + Len(p) :
            (got \o p)[i] = IF i <= Len(got) THEN got[i] ELSE p[i - Len(got)]
      BY <2>1, ConcatProperties
    <3> QED
      BY <2>4, <2>6, <3>1
  <2>8. p # << >>
    BY <2>6
  <2> QED
    BY <2>3, <2>7, <2>8 DEF Pending
<1> QED
  BY <1>1, InStepHolds, PTL
=============================================================================
