-------------------------- MODULE DeploymentProofs --------------------------
(***************************************************************************)
(* What two programs started anywhere, with any settings, make of each     *)
(* other's messages, byte for byte.                                        *)
(*                                                                         *)
(* The lemmas go the way of a message: words and bytes, the codecs, which  *)
(* give back what they are given, varints, the messages of protobuf, which *)
(* are read as they were written, the start of the programs, the checksum, *)
(* the packages.  Then the invariant of a deployment, every step of it,    *)
(* and what follows from it.  Last, the checksum: it is the division by    *)
(* the polynomial, because exclusive or distributes over its steps.        *)
(***************************************************************************)
EXTENDS Deployment, WireLemmas

-----------------------------------------------------------------------------
(* Words.                                                                  *)


(* A digit is got back from its exclusive or with another.                 *)
LEMMA XorDigitBack ==
  ASSUME NEW a \in 0 .. 15, NEW b \in 0 .. 15
  PROVE  XorDigit(a, b) \in 0 .. 15 /\ XorDigit(XorDigit(a, b), b) = a
<1>1. XorDigit(a, b) \in 0 .. 15
  BY DEF XorDigit
<1>2. XorDigit(XorDigit(a, b), b) = a
  BY DEF XorDigit
<1> QED
  BY <1>1, <1>2

(* The digits of a byte, and the bytes of a half.                          *)
LEMMA DigitsOf ==
  ASSUME NEW a \in Byte
  PROVE  a \div 16 \in 0 .. 15 /\ a % 16 \in 0 .. 15 /\ a = 16 * (a \div 16) + (a % 16)
BY DEF Byte

(* Two digits make a byte, and are its digits.                             *)
LEMMA OfDigits ==
  ASSUME NEW h \in 0 .. 15, NEW l \in 0 .. 15
  PROVE  /\ h * 16 + l \in Byte
         /\ (h * 16 + l) \div 16 = h /\ (h * 16 + l) % 16 = l
BY DEF Byte

(* The table of digits holds their exclusive or.                           *)
LEMMA XorsAre ==
  ASSUME NEW a \in 0 .. 15, NEW b \in 0 .. 15
  PROVE  Xors[a][b] = XorDigit(a, b)
BY DEF Xors

(* The exclusive or of two bytes by their digits.                          *)
LEMMA XorByteIs ==
  ASSUME NEW a \in Byte, NEW b \in Byte
  PROVE  /\ XorByte(a, b) \in Byte
         /\ XorByte(a, b) \div 16 = XorDigit(a \div 16, b \div 16)
         /\ XorByte(a, b) % 16 = XorDigit(a % 16, b % 16)
<1> DEFINE h == XorDigit(a \div 16, b \div 16)
           l == XorDigit(a % 16, b % 16)
<1>1. a \div 16 \in 0 .. 15 /\ a % 16 \in 0 .. 15 /\ b \div 16 \in 0 .. 15 /\ b % 16 \in 0 .. 15
  BY DigitsOf
<1>2. h \in 0 .. 15 /\ l \in 0 .. 15
  BY <1>1, XorDigitBack
<1>3. XorByte(a, b) = h * 16 + l
  BY <1>1, XorsAre DEF XorByte
<1> QED
  BY <1>2, <1>3, OfDigits

(* A byte is got back from its exclusive or with another.                  *)
LEMMA XorByteBack ==
  ASSUME NEW a \in Byte, NEW b \in Byte
  PROVE  XorByte(a, b) \in Byte /\ XorByte(XorByte(a, b), b) = a
<1> DEFINE x == XorByte(a, b)
           y == XorByte(x, b)
<1>1. a \div 16 \in 0 .. 15 /\ a % 16 \in 0 .. 15 /\ b \div 16 \in 0 .. 15 /\ b % 16 \in 0 .. 15
      /\ a = 16 * (a \div 16) + (a % 16)
  BY DigitsOf
<1>2. x \in Byte /\ x \div 16 = XorDigit(a \div 16, b \div 16) /\ x % 16 = XorDigit(a % 16, b % 16)
  BY XorByteIs
<1> HIDE DEF x
<1>3. y \in Byte /\ y \div 16 = XorDigit(x \div 16, b \div 16) /\ y % 16 = XorDigit(x % 16, b % 16)
  BY <1>2, XorByteIs
<1>4. y = 16 * (y \div 16) + (y % 16)
  BY <1>3, DigitsOf
<1> HIDE DEF y
<1>5. y \div 16 = a \div 16 /\ y % 16 = a % 16
  BY <1>1, <1>2, <1>3, XorDigitBack
<1>6. y = a
  BY <1>1, <1>4, <1>5
<1> QED
  BY <1>2, <1>6 DEF x, y

(* A half of a word is a number below 65536.                               *)
LEMMA BelowHalf ==
  ASSUME NEW x
  PROVE  x \in 0 .. Half - 1 <=> x \in Nat /\ x < 65536
<1>1. Half \in Nat /\ \A y \in Nat : y < Half <=> y < 65536
  BY SMT DEF Half
<1>2. x \in 0 .. Half - 1 <=> x \in Nat /\ x < Half
  BY <1>1
<1> QED
  BY SMT, <1>1, <1>2

(* A byte is a number below 256.                                           *)
LEMMA BelowByte ==
  ASSUME NEW x
  PROVE  x \in Byte <=> x \in Nat /\ x < 256
BY DEF Byte

(* A word by its halves.                                                   *)
LEMMA WordIs ==
  /\ \A a \in Word : /\ a = << a[1], a[2] >>
                     /\ a[1] \in Nat /\ a[1] < 65536 /\ a[2] \in Nat /\ a[2] < 65536
  /\ \A x, y \in Nat : x < 65536 /\ y < 65536 => << x, y >> \in Word
BY SMT, BelowHalf DEF Word

(* The exclusive or of two halves is a half.                               *)
LEMMA XorHalfType ==
  ASSUME NEW a \in Nat, a < 65536, NEW b \in Nat, b < 65536
  PROVE  XorHalf(a, b) \in Nat /\ XorHalf(a, b) < 65536
<1>1. a \div 256 \in Byte /\ a % 256 \in Byte /\ b \div 256 \in Byte /\ b % 256 \in Byte
  BY SMT, BelowByte
<1>2. XorByte(a \div 256, b \div 256) \in Byte /\ XorByte(a % 256, b % 256) \in Byte
  BY <1>1, XorByteIs
<1>3. \A x, y \in Byte : x * 256 + y \in Nat /\ x * 256 + y < 65536
  BY SMT, BelowByte
<1> QED
  BY SMT, <1>2, <1>3 DEF XorHalf

(* What the operations on words yield are words.                           *)
LEMMA WType ==
  ASSUME NEW n \in Nat
  PROVE  W(n) \in Word
BY SMT, WordIs DEF W, Half

(* The exclusive or of two words is a word.                                *)
LEMMA XorWordType ==
  ASSUME NEW a \in Word, NEW b \in Word
  PROVE  XorWord(a, b) \in Word
BY SMT, WordIs, XorHalfType DEF XorWord

(* The sum of two words is a word.                                         *)
LEMMA PlusType ==
  ASSUME NEW a \in Word, NEW b \in Word
  PROVE  Plus(a, b) \in Word
<1>1. \A x, y \in Nat : (x + y) \div 65536 \in Nat /\ (x + y) % 65536 \in Nat /\ (x + y) % 65536 < 65536
  BY SMT
<1>2. a[1] \in Nat /\ a[2] \in Nat /\ b[1] \in Nat /\ b[2] \in Nat
  BY SMT, WordIs
<1>3. a[1] + b[1] \in Nat /\ (a[2] + b[2]) \div 65536 \in Nat
  BY SMT, <1>1, <1>2
<1>4. Plus(a, b) = << (a[1] + b[1] + (a[2] + b[2]) \div 65536) % 65536, (a[2] + b[2]) % 65536 >>
  BY SMT DEF Plus, Half
<1> QED
  BY SMT, <1>1, <1>2, <1>3, <1>4, WordIs

(* The complement of a word is a word.                                     *)
LEMMA ComplementType ==
  ASSUME NEW a \in Word
  PROVE  Complement(a) \in Word
BY SMT, WordIs DEF Complement, Half

(* A word shifted by a digit is a word.                                    *)
LEMMA ShiftedType ==
  ASSUME NEW a \in Word
  PROVE  Shifted(a) \in Word
BY SMT, WordIs DEF Shifted, Half

(* A word with its halves swapped is a word.                               *)
LEMMA SwappedType ==
  ASSUME NEW a \in Word
  PROVE  Swapped(a) \in Word
BY SMT, WordIs DEF Swapped

(* A word rotated is a word.                                               *)
LEMMA RotatedType ==
  ASSUME NEW a \in Word, NEW p \in {128, 256, 4096}
  PROVE  Rotated(a, p) \in Word
<1>1. a[1] \in Nat /\ a[1] < 65536 /\ a[2] \in Nat /\ a[2] < 65536
  BY SMT, WordIs
<1>2. CASE p = 128
  <2>1. \A x \in Nat : (x * 128) % 65536 = 128 * (x % 512)
    BY SMT
  <2>2. \A x, y \in Nat : y < 65536 => 128 * (x % 512) + (y \div 512) \in Nat /\ 128 * (x % 512) + (y \div 512) < 65536
    BY SMT
  <2>3. 65536 \div 128 = 512
    BY SMT
  <2>4. Rotated(a, p) = << ((a[1] * 128) % 65536) + (a[2] \div 512), ((a[2] * 128) % 65536) + (a[1] \div 512) >>
    BY SMT, <1>2, <2>3 DEF Rotated, Half
  <2> QED
    BY SMT, <1>1, <2>1, <2>2, <2>4, WordIs
<1>3. CASE p = 256
  <2>1. \A x \in Nat : (x * 256) % 65536 = 256 * (x % 256)
    BY SMT
  <2>2. \A x, y \in Nat : y < 65536 => 256 * (x % 256) + (y \div 256) \in Nat /\ 256 * (x % 256) + (y \div 256) < 65536
    BY SMT
  <2>3. 65536 \div 256 = 256
    BY SMT
  <2>4. Rotated(a, p) = << ((a[1] * 256) % 65536) + (a[2] \div 256), ((a[2] * 256) % 65536) + (a[1] \div 256) >>
    BY SMT, <1>3, <2>3 DEF Rotated, Half
  <2> QED
    BY SMT, <1>1, <2>1, <2>2, <2>4, WordIs
<1>4. CASE p = 4096
  <2>1. \A x \in Nat : (x * 4096) % 65536 = 4096 * (x % 16)
    BY SMT
  <2>2. \A x, y \in Nat : y < 65536 => 4096 * (x % 16) + (y \div 16) \in Nat /\ 4096 * (x % 16) + (y \div 16) < 65536
    BY SMT
  <2>3. 65536 \div 4096 = 16
    BY SMT
  <2>4. Rotated(a, p) = << ((a[1] * 4096) % 65536) + (a[2] \div 16), ((a[2] * 4096) % 65536) + (a[1] \div 16) >>
    BY SMT, <1>4, <2>3 DEF Rotated, Half
  <2> QED
    BY SMT, <1>1, <2>1, <2>2, <2>4, WordIs
<1> QED
  BY <1>2, <1>3, <1>4

-----------------------------------------------------------------------------
(* A function that is defined by recursion exists, and has the type its    *)
(* steps keep.                                                             *)
Recurs(f, N, V, b, g) ==
  f \in [0 .. N -> V] /\ f[0] = b /\ \A n \in 1 .. N : f[n] = g[n][f[n - 1]]

(***************************************************************************)
(* A function of steps that keep to a set of values exists: the steps of   *)
(* a loop may be told one by one.                                          *)
(***************************************************************************)
LEMMA Recursion ==
  ASSUME NEW N \in Nat, NEW V, NEW b \in V, NEW g \in [1 .. N -> [V -> V]]
  PROVE  \E f : Recurs(f, N, V, b, g)
<1> DEFINE Good(f, k) == f \in [0 .. k -> V] /\ f[0] = b
                           /\ \A n \in 1 .. k : n <= N => f[n] = g[n][f[n - 1]]
           T == { k \in Nat : \E f : Good(f, k) }
<1>1. 0 \in T
  <2>1. Good([n \in 0 .. 0 |-> b], 0)
    OBVIOUS
  <2> QED
    BY <2>1
<1>2. ASSUME NEW k \in Nat, k \in T PROVE k + 1 \in T
  <2>1. PICK f : Good(f, k)
    BY <1>2
  <2> DEFINE next_ == IF k + 1 <= N THEN g[k + 1][f[k]] ELSE b
             h == [n \in 0 .. k + 1 |-> IF n = k + 1 THEN next_ ELSE f[n]]
  <2>2. f[k] \in V /\ f \in [0 .. k -> V] /\ f[0] = b
    BY <2>1
  <2>3. next_ \in V
    BY <2>2
  <2>4. \A n \in 0 .. k : h[n] = f[n]
    OBVIOUS
  <2>5. h[k + 1] = next_
    OBVIOUS
  <2>6. h \in [0 .. k + 1 -> V]
    BY <2>2, <2>3
  <2> HIDE DEF h
  <2>7. ASSUME NEW n \in 1 .. k + 1, n <= N PROVE h[n] = g[n][h[n - 1]]
    <3>1. CASE n = k + 1
      <4>1. h[n - 1] = f[k]
        BY <2>4, <3>1
      <4> QED
        BY <2>5, <2>7, <3>1, <4>1
    <3>2. CASE n # k + 1
      <4>1. n \in 1 .. k /\ n \in 0 .. k /\ n - 1 \in 0 .. k
        BY <3>2
      <4> QED
        BY <2>1, <2>4, <2>7, <4>1
    <3> QED
      BY <3>1, <3>2
  <2>8. h[0] = b
    BY <2>2, <2>4
  <2>9. Good(h, k + 1)
    BY <2>6, <2>7, <2>8
  <2> QED
    BY <2>9
<1> HIDE DEF T
<1>3. N \in T
  BY <1>1, <1>2, Induction
<1>4. PICK f : Good(f, N)
  BY <1>3 DEF T
<1>5. \A n \in 1 .. N : n <= N
  OBVIOUS
<1> QED
  BY <1>4, <1>5 DEF Recurs

(* Every value of a recursive function is in a set that its steps keep.    *)
LEMMA Stays ==
  ASSUME NEW N \in Nat, NEW V, NEW h, h = [n \in 0 .. N |-> h[n]], h[0] \in V,
         \A n \in 1 .. N : h[n - 1] \in V => h[n] \in V
  PROVE  h \in [0 .. N -> V]
<1> DEFINE T == { n \in Nat : n <= N => h[n] \in V }
<1>1. 0 \in T
  OBVIOUS
<1>2. ASSUME NEW n \in Nat, n \in T PROVE n + 1 \in T
  <2>1. n + 1 <= N => n + 1 \in 1 .. N /\ (n + 1) - 1 = n /\ n <= N
    OBVIOUS
  <2>2. n + 1 <= N => h[n] \in V
    BY <1>2, <2>1
  <2>3. n + 1 <= N => h[n + 1] \in V
    BY <2>1, <2>2
  <2> QED
    BY <2>3
<1> HIDE DEF T
<1>3. \A n \in Nat : n \in T
  BY <1>1, <1>2, Induction
<1>4. \A n \in 0 .. N : h[n] \in V
  BY <1>3 DEF T
<1> QED
  BY <1>4

(* Induction up to a bound.                                                *)
LEMMA UpTo ==
  ASSUME NEW N \in Nat, NEW T, 0 \in T, \A n \in 0 .. N - 1 : n \in T => n + 1 \in T
  PROVE  \A n \in 0 .. N : n \in T
<1> DEFINE U == { n \in Nat : n <= N => n \in T }
<1>1. 0 \in U
  OBVIOUS
<1>2. ASSUME NEW n \in Nat, n \in U PROVE n + 1 \in U
  <2>1. n + 1 <= N => n \in 0 .. N - 1 /\ n <= N
    OBVIOUS
  <2> QED
    BY <1>2, <2>1
<1> HIDE DEF U
<1>3. \A n \in Nat : n \in U
  BY <1>1, <1>2, Induction
<1> QED
  BY <1>3 DEF U

-----------------------------------------------------------------------------
(* Xor and Reverse.                                                        *)

(* A sequence of bytes by its places.                                      *)
LEMMA BytesAre ==
  ASSUME NEW x
  PROVE  x \in Seq(Byte) <=> /\ Len(x) \in Nat /\ x = [i \in 1 .. Len(x) |-> x[i]]
                             /\ \A i \in 1 .. Len(x) : x[i] \in Byte
OBVIOUS

(* Xor is its own inverse.                                                 *)
LEMMA XorInverse ==
  ASSUME NEW raw \in Seq(Byte)
  PROVE  Xor(raw) \in Seq(Byte) /\ Len(Xor(raw)) = Len(raw) /\ Xor(Xor(raw)) = raw
<1>1. \A i \in 1 .. Len(raw) : raw[i] \in Nat /\ raw[i] < 256
  BY BelowByte, ElementOfSeq
<1>2. /\ Len(raw) \in Nat /\ DOMAIN raw = 1 .. Len(raw)
      /\ Xor(raw) = [i \in 1 .. Len(raw) |-> 255 - raw[i]]
  BY LenProperties DEF Xor
<1>3. \A i \in 1 .. Len(raw) : Xor(raw)[i] = 255 - raw[i] /\ Xor(raw)[i] \in Byte
  BY <1>1, <1>2, BelowByte
<1>4. Xor(raw) \in Seq(Byte) /\ Len(Xor(raw)) = Len(raw)
  BY <1>2, <1>3
<1>5. Xor(Xor(raw)) = [i \in 1 .. Len(raw) |-> 255 - Xor(raw)[i]]
  BY <1>2 DEF Xor
<1>6. \A i \in 1 .. Len(raw) : 255 - Xor(raw)[i] = raw[i]
  BY <1>1, <1>3
<1>7. Xor(Xor(raw)) = [i \in 1 .. Len(raw) |-> raw[i]]
  BY <1>5, <1>6
<1> QED
  BY <1>4, <1>7, BytesAre

(* The key yields segments of a size that is not zero, nor above 512.      *)
LEMMA SegmentSize ==
  ASSUME NEW key \in Seq(Byte)
  PROVE  getSegSize(key) \in 1 .. 512
<1> DEFINE N == Len(key)
           V == 0 .. 511
           Step(n, h) == IF \E i \in 1 .. n : key[i] = 0 THEN h ELSE (31 * h + key[n]) % 512
           g == [n \in 1 .. N |-> [h \in V |-> Step(n, h)]]
           hash == CHOOSE hash : hash = [n \in 0 .. N |-> IF n = 0 THEN 0 ELSE Step(n, hash[n - 1])]
<1>1. N \in Nat /\ \A n \in 1 .. N : key[n] \in Nat
  BY BelowByte, ElementOfSeq
<1>2. \A h, c \in Nat : (31 * h + c) % 512 \in 0 .. 511
  OBVIOUS
<1>3. ASSUME NEW n \in 1 .. N, NEW h \in V PROVE Step(n, h) \in V
  <2>1. h \in Nat /\ key[n] \in Nat
    BY <1>1
  <2>2. (31 * h + key[n]) % 512 \in V
    BY <1>2, <2>1
  <2> QED
    BY <2>2
<1> HIDE DEF Step
<1>4. g \in [1 .. N -> [V -> V]]
  BY <1>3
<1>5. PICK f : Recurs(f, N, V, 0, g)
  <2>1. 0 \in V
    OBVIOUS
  <2> HIDE DEF g, V, N
  <2> QED
    BY <1>1, <1>4, <2>1, Recursion
<1>6. f = [n \in 0 .. N |-> IF n = 0 THEN 0 ELSE Step(n, f[n - 1])]
  <2>1. f \in [0 .. N -> V] /\ f[0] = 0 /\ \A n \in 1 .. N : f[n] = g[n][f[n - 1]]
    BY <1>5 DEF Recurs
  <2>2. ASSUME NEW n \in 1 .. N PROVE f[n] = Step(n, f[n - 1])
    <3>1. n - 1 \in 0 .. N
      BY <1>1
    <3>2. f[n] = g[n][f[n - 1]] /\ f[n - 1] \in V
      BY <2>1, <3>1
    <3> QED
      BY <3>2
  <2>3. \A n \in 0 .. N : n # 0 => n \in 1 .. N
    BY <1>1
  <2> HIDE DEF g, N, V
  <2>4. \A n \in 0 .. N : f[n] = IF n = 0 THEN 0 ELSE Step(n, f[n - 1])
    BY <2>1, <2>2, <2>3
  <2>5. f = [n \in 0 .. N |-> f[n]]
    BY <2>1
  <2> QED
    BY <2>4, <2>5
<1>7. hash = [n \in 0 .. N |-> IF n = 0 THEN 0 ELSE Step(n, hash[n - 1])]
  BY <1>6
<1> HIDE DEF hash
<1>8. hash[N] \in V
  <2>1. hash = [n \in 0 .. N |-> hash[n]] /\ hash[0] \in V
    BY <1>1, <1>7
  <2>2. \A n \in 1 .. N : hash[n] = Step(n, hash[n - 1])
    BY <1>1, <1>7
  <2>3. \A n \in 1 .. N : hash[n - 1] \in V => hash[n] \in V
    BY <1>3, <2>2
  <2>4. N \in 0 .. N
    BY <1>1
  <2> HIDE DEF N, V
  <2> QED
    BY <1>1, <2>1, <2>3, <2>4, Stays
<1>9. getSegSize(key) = IF hash[N] = 0 THEN 512 ELSE hash[N]
  BY DEF getSegSize, hash, Step
<1> QED
  BY <1>8, <1>9

(* A quotient is known by the range its product is in.                     *)
LEMMA Quotient ==
  ASSUME NEW S \in Nat \ {0}, NEW x \in Nat
  PROVE  /\ x \div S \in Nat /\ (x \div S) * S \in Nat
         /\ (x \div S) * S <= x /\ x < (x \div S) * S + S
<1>1. x \div S \in Nat /\ x % S \in Nat /\ x % S < S
  BY SMT
<1>2. x = S * (x \div S) + (x % S)
  BY SMT
<1>3. S * (x \div S) = (x \div S) * S
  BY <1>1
<1> QED
  BY <1>1, <1>2, <1>3

(* Places of one group have one quotient.                                  *)
LEMMA SameQuotient ==
  ASSUME NEW S \in Nat \ {0}, NEW x \in Nat, NEW y \in Nat,
         (x \div S) * S <= y, y < (x \div S) * S + S
  PROVE  (y \div S) * S = (x \div S) * S
<1> DEFINE p == x \div S
           q == y \div S
<1>1. p \in Nat /\ q \in Nat /\ q * S <= y /\ y < q * S + S
  BY Quotient
<1> HIDE DEF p, q
<1>2. p * S <= y /\ y < p * S + S
  BY DEF p
<1>3. CASE p < q
  <2>1. p + 1 <= q
    BY <1>1, <1>3
  <2>2. (p + 1) * S <= q * S
    BY SMT, <1>1, <2>1
  <2>3. (p + 1) * S = p * S + S
    BY SMT, <1>1
  <2> QED
    BY <1>1, <1>2, <2>2, <2>3
<1>4. CASE q < p
  <2>1. q + 1 <= p
    BY <1>1, <1>4
  <2>2. (q + 1) * S <= p * S
    BY SMT, <1>1, <2>1
  <2>3. (q + 1) * S = q * S + S
    BY SMT, <1>1
  <2> QED
    BY <1>1, <1>2, <2>2, <2>3
<1>5. CASE p = q
  BY <1>5 DEF p, q
<1> QED
  BY <1>1, <1>3, <1>4, <1>5

(* Where a byte comes from when the segments are reversed.                 *)
Mirror(i, size, length) ==
  LET begin == ((i - 1) \div size) * size
      end == IF begin + size > length THEN length ELSE begin + size IN
  begin + end + 1 - i

(* A mirrored place is a place, and mirrored again it is the first.        *)
LEMMA MirrorBack ==
  ASSUME NEW S \in Nat \ {0}, NEW L \in Nat, NEW i \in 1 .. L
  PROVE  Mirror(i, S, L) \in 1 .. L /\ Mirror(Mirror(i, S, L), S, L) = i
<1> DEFINE b == ((i - 1) \div S) * S
           e == IF b + S > L THEN L ELSE b + S
           j == b + e + 1 - i
<1>1. i - 1 \in Nat
  OBVIOUS
<1>2. b \in Nat /\ b <= i - 1 /\ i - 1 < b + S
  BY <1>1, Quotient
<1>3. Mirror(i, S, L) = j
  BY DEF Mirror
<1> HIDE DEF b
<1>4. e \in Nat /\ i <= e /\ e <= L /\ e <= b + S
  BY <1>2
<1>5. j - 1 \in Nat /\ b <= j - 1 /\ j - 1 < b + S /\ j \in 1 .. L /\ b + e + 1 - j = i
  <2> HIDE DEF e
  <2> QED
    BY <1>2, <1>4
<1> HIDE DEF j
<1>6. ((j - 1) \div S) * S = b
  BY <1>1, <1>5, SameQuotient DEF b
<1>7. Mirror(j, S, L) = b + e + 1 - j
  BY <1>6 DEF Mirror
<1> QED
  BY <1>3, <1>5, <1>7

(* Reverse is its own inverse.                                             *)
LEMMA ReverseInverse ==
  ASSUME NEW raw \in Seq(Byte), NEW key \in Seq(Byte)
  PROVE  /\ ReverseSegments(raw, key) \in Seq(Byte)
         /\ Len(ReverseSegments(raw, key)) = Len(raw)
         /\ ReverseSegments(ReverseSegments(raw, key), key) = raw
<1> DEFINE L == Len(raw)
           S == getSegSize(key)
           r == ReverseSegments(raw, key)
<1>1. S \in Nat \ {0}
  <2>1. S \in 1 .. 512
    BY SegmentSize
  <2> HIDE DEF S
  <2> QED
    BY <2>1
<1>2. L \in Nat /\ DOMAIN raw = 1 .. L /\ \A i \in 1 .. L : raw[i] \in Byte
  BY LenProperties, ElementOfSeq
<1>3. r = [i \in 1 .. L |-> raw[Mirror(i, S, L)]]
  BY <1>2 DEF ReverseSegments, Mirror
<1>4. ASSUME NEW i \in 1 .. L
      PROVE  Mirror(i, S, L) \in 1 .. L /\ Mirror(Mirror(i, S, L), S, L) = i
  <2> HIDE DEF L, S
  <2> QED
    BY <1>1, <1>2, MirrorBack
<1> HIDE DEF L, S
<1>5. r \in Seq(Byte) /\ Len(r) = L /\ DOMAIN r = 1 .. L
  BY <1>2, <1>3, <1>4
<1> HIDE DEF r
<1>6. ReverseSegments(r, key) = [i \in 1 .. L |-> r[Mirror(i, S, L)]]
  BY <1>5 DEF ReverseSegments, Mirror, S
<1>7. \A i \in 1 .. L : r[Mirror(i, S, L)] = raw[i]
  BY <1>3, <1>4
<1>8. ReverseSegments(r, key) = [i \in 1 .. L |-> raw[i]]
  BY <1>6, <1>7
<1>9. raw = [i \in 1 .. L |-> raw[i]]
  BY <1>2, BytesAre
<1> QED
  BY <1>5, <1>8, <1>9 DEF L, r

-----------------------------------------------------------------------------
(* Rc4.                                                                    *)
Shuffles == [Byte -> Byte]

(* A state of RC4 with two entries swapped is a state of RC4.              *)
LEMMA SwapType ==
  ASSUME NEW m \in Shuffles, NEW i \in Byte, NEW j \in Byte
  PROVE  Swap(m, i, j) \in Shuffles
BY DEF Swap, Shuffles

(* A sum of bytes, cut down to one.                                        *)
LEMMA SumOfBytes ==
  ASSUME NEW x \in Byte, NEW y \in Byte, NEW z \in Byte
  PROVE  (x + y + z) % 256 \in Byte /\ (x + y) % 256 \in Byte
BY BelowByte

(* A key over and over is bytes.                                           *)
LEMMA CycledType ==
  ASSUME NEW key \in Seq(Byte)
  PROVE  cycled(key) \in Shuffles
<1> SUFFICES ASSUME NEW i \in Byte
             PROVE  (IF key = << >> THEN 0 ELSE key[(i % Len(key)) + 1]) \in Byte
  BY DEF cycled, Shuffles
<1>1. i \in Nat
  BY BelowByte
<1>2. CASE key = << >>
  BY <1>2, BelowByte
<1>3. CASE key # << >>
  <2>1. Len(key) \in Nat \ {0}
    BY <1>3, EmptySeq, LenProperties
  <2>2. i % Len(key) \in Nat /\ i % Len(key) < Len(key)
    BY <1>1, <2>1
  <2>3. (i % Len(key)) + 1 \in 1 .. Len(key)
    BY <2>1, <2>2
  <2> QED
    BY <1>3, <2>3, ElementOfSeq
<1> QED
  BY <1>2, <1>3

(* A step of the key schedule leaves a state of RC4.                       *)
LEMMA MixedAtType ==
  ASSUME NEW s \in Mixing, NEW bytes \in Shuffles
  PROVE  MixedAt(s, bytes) \in Mixing
<1> DEFINE k == bytes[s.i]
           j == (s.j + s.m[s.i] + k) % 256
<1>1. s.i \in Byte /\ s.j \in Byte /\ s.m \in Shuffles /\ s.i \in Nat
  BY BelowByte DEF Mixing, Shuffles
<1>2. k \in Byte
  BY <1>1 DEF Shuffles
<1>3. s.m[s.i] \in Byte
  BY <1>1 DEF Shuffles
<1> HIDE DEF k
<1>4. j \in Byte
  <2>1. \A x, y, z \in Byte : (x + y + z) % 256 \in Byte
    BY SumOfBytes
  <2> QED
    BY ONLY <1>1, <1>2, <1>3, <2>1
<1>5. (s.i + 1) % 256 \in Byte
  BY <1>1, BelowByte
<1>6. MixedAt(s, bytes) = [i |-> (s.i + 1) % 256, j |-> j, m |-> Swap(s.m, s.i, j)]
  BY DEF MixedAt, k
<1> HIDE DEF j
<1>7. Swap(s.m, s.i, j) \in Shuffles
  BY <1>1, <1>4, SwapType
<1> QED
  BY <1>4, <1>5, <1>6, <1>7 DEF Mixing, Shuffles

(* The key is mixed into a table of bytes.                                 *)
LEMMA SetupType ==
  ASSUME NEW key \in Seq(Byte)
  PROVE  rc4_setup(key) \in Shuffles
<1> DEFINE V == [Mixing -> Mixing]
           bytes == cycled(key)
           b == [s \in Mixing |-> MixedAt(s, bytes)]
           g == [n \in 1 .. 8 |-> [h \in V |-> [s \in Mixing |-> h[h[s]]]]]
           Row(f, n) == [s \in Mixing |-> IF n = 0 THEN MixedAt(s, bytes) ELSE f[n - 1][f[n - 1][s]]]
           Is(f) == f = [n \in 0 .. 8 |-> Row(f, n)]
           mixed == CHOOSE f : Is(f)
           start == [i |-> 0, j |-> 0, m |-> [i \in Byte |-> i]]
<1>0. bytes \in Shuffles
  BY CycledType
<1> HIDE DEF bytes
<1>1. b \in V
  BY <1>0, MixedAtType
<1>2. g \in [1 .. 8 -> [V -> V]]
  OBVIOUS
<1>3. PICK f : Recurs(f, 8, V, b, g)
  <2> HIDE DEF g, V, b
  <2> QED
    BY <1>1, <1>2, Recursion
<1>4. f \in [0 .. 8 -> V] /\ f[0] = b /\ \A n \in 1 .. 8 : f[n] = g[n][f[n - 1]]
  <2> HIDE DEF V, b, g
  <2> QED
    BY <1>3 DEF Recurs
<1>5. ASSUME NEW n \in 0 .. 8
      PROVE  f[n] = Row(f, n)
  <2>1. CASE n = 0
    BY <1>4, <2>1
  <2>2. CASE n # 0
    <3>1. n \in 1 .. 8 /\ n - 1 \in 0 .. 8
      BY <2>2
    <3>2. f[n] = g[n][f[n - 1]] /\ f[n - 1] \in V
      BY <1>4, <3>1
    <3>3. f[n] = [s \in Mixing |-> f[n - 1][f[n - 1][s]]]
      <4> HIDE DEF V
      <4> QED
        BY <3>1, <3>2
    <3> QED
      BY <2>2, <3>3
  <2> QED
    BY <2>1, <2>2
<1>6. Is(f)
  <2>1. f = [n \in 0 .. 8 |-> f[n]]
    BY <1>4
  <2> HIDE DEF Row
  <2> QED
    BY <1>5, <2>1
<1>7. Is(mixed)
  <2> HIDE DEF Is
  <2> QED
    BY <1>6
<1> HIDE DEF mixed
<1>8. mixed \in [0 .. 8 -> V]
  <2>1. mixed = [n \in 0 .. 8 |-> mixed[n]] /\ mixed[0] = Row(mixed, 0)
    <3> HIDE DEF Row
    <3> QED
      BY <1>7
  <2>2. mixed[0] \in V
    BY <1>0, <2>1, MixedAtType
  <2>3. ASSUME NEW n \in 1 .. 8, mixed[n - 1] \in V PROVE mixed[n] \in V
    <3>1. n \in 0 .. 8 /\ n # 0
      OBVIOUS
    <3>2. mixed[n] = Row(mixed, n)
      <4> HIDE DEF Row
      <4> QED
        BY <1>7, <3>1
    <3>3. mixed[n] = [s \in Mixing |-> mixed[n - 1][mixed[n - 1][s]]]
      BY ONLY <3>1, <3>2
    <3> QED
      BY <2>3, <3>3
  <2> HIDE DEF V
  <2>4. \A n \in 1 .. 8 : mixed[n - 1] \in V => mixed[n] \in V
    BY <2>3
  <2> QED
    BY <2>1, <2>2, <2>4, Stays
<1>9. start \in Mixing
  BY BelowByte DEF Mixing
<1>10. Mixed(bytes) = mixed[8][start].m
  BY DEF Mixed, mixed
<1>11. mixed[8][start] \in Mixing
  BY <1>8, <1>9
<1> QED
  BY <1>10, <1>11 DEF rc4_setup, bytes, Mixing, Shuffles

RcStates == [y : Byte, m : Shuffles, out : Seq(Byte)]
RcStart(m) == [y |-> 0, m |-> m, out |-> << >>]
RcY(s, n) == (s.y + s.m[n % 256]) % 256
RcM(s, n) == Swap(s.m, n % 256, RcY(s, n))
RcKey(s, n) == RcM(s, n)[(RcM(s, n)[n % 256] + RcM(s, n)[RcY(s, n)]) % 256]

(* One step: the state goes on whatever the byte is.                       *)
LEMMA MixesIs ==
  ASSUME NEW s \in RcStates, NEW n \in Nat, NEW c \in Byte
  PROVE  /\ Mixes(s, n, c) \in RcStates
         /\ Mixes(s, n, c).y = RcY(s, n) /\ Mixes(s, n, c).m = RcM(s, n)
         /\ Mixes(s, n, c).out = Append(s.out, XorByte(c, RcKey(s, n)))
         /\ RcKey(s, n) \in Byte
<1>1. s.y \in Byte /\ s.m \in Shuffles /\ s.out \in Seq(Byte)
  BY DEF RcStates
<1>2. n % 256 \in Byte
  BY BelowByte
<1>3. \A m \in Shuffles, x \in Byte : m[x] \in Byte
  BY DEF Shuffles
<1>s. \A x, y \in Byte : (x + y) % 256 \in Byte
  BY SumOfBytes
<1>4. RcY(s, n) \in Byte
  <2>1. s.m[n % 256] \in Byte
    BY <1>1, <1>2, <1>3
  <2> QED
    BY ONLY <1>1, <1>s, <2>1 DEF RcY
<1>5. RcM(s, n) \in Shuffles
  BY <1>1, <1>2, <1>4, SwapType DEF RcM
<1>6. RcKey(s, n) \in Byte
  <2>1. RcM(s, n)[n % 256] \in Byte /\ RcM(s, n)[RcY(s, n)] \in Byte
    BY <1>2, <1>3, <1>4, <1>5
  <2>2. (RcM(s, n)[n % 256] + RcM(s, n)[RcY(s, n)]) % 256 \in Byte
    BY ONLY <1>s, <2>1
  <2> QED
    BY <1>3, <1>5, <2>2 DEF RcKey
<1>7. XorByte(c, RcKey(s, n)) \in Byte
  BY <1>6, XorByteBack
<1>8. Mixes(s, n, c) =
        [s EXCEPT !.y = RcY(s, n), !.m = RcM(s, n), !.out = Append(@, XorByte(c, RcKey(s, n)))]
  BY DEF Mixes, RcKey, RcM, RcY
<1>9. Append(s.out, XorByte(c, RcKey(s, n))) \in Seq(Byte)
  BY <1>1, <1>7, AppendProperties
<1> HIDE DEF RcY, RcM, RcKey
<1>10. Mixes(s, n, c) = [y |-> RcY(s, n), m |-> RcM(s, n), out |-> Append(s.out, XorByte(c, RcKey(s, n)))]
  BY <1>8 DEF RcStates
<1> QED
  BY <1>4, <1>5, <1>6, <1>9, <1>10 DEF RcStates

(* The states that a string takes the table through.                       *)
RcRun(f, m, data) ==
  /\ f \in [0 .. Len(data) -> RcStates]
  /\ f[0] = RcStart(m)
  /\ \A n \in 1 .. Len(data) : f[n] = Mixes(f[n - 1], n, data[n])

(* rc4_crypt runs through its steps, one for each byte of the data.        *)
LEMMA RcRuns ==
  ASSUME NEW m \in Shuffles, NEW data \in Seq(Byte)
  PROVE  \E f : RcRun(f, m, data) /\ rc4_crypt(m, data) = f[Len(data)].out
<1> DEFINE N == Len(data)
           V == RcStates
           b == RcStart(m)
           g == [n \in 1 .. N |-> [s \in V |-> Mixes(s, n, data[n])]]
           Is(f) == f = [n \in 0 .. N |-> IF n = 0 THEN b ELSE Mixes(f[n - 1], n, data[n])]
           after == CHOOSE f : Is(f)
<1>1. N \in Nat /\ \A n \in 1 .. N : data[n] \in Byte
  BY ElementOfSeq, LenProperties
<1>2. b \in V
  BY BelowByte DEF RcStart, RcStates
<1>3. ASSUME NEW n \in 1 .. N, NEW s \in V PROVE Mixes(s, n, data[n]) \in V
  <2>1. n \in Nat /\ data[n] \in Byte
    BY <1>1
  <2> QED
    BY <2>1, MixesIs
<1>4. g \in [1 .. N -> [V -> V]]
  <2> HIDE DEF V, N
  <2> QED
    BY <1>3
<1>5. PICK f : Recurs(f, N, V, b, g)
  <2> HIDE DEF g, V, b, N
  <2> QED
    BY <1>1, <1>2, <1>4, Recursion
<1>6. f \in [0 .. N -> V] /\ f[0] = b /\ \A n \in 1 .. N : f[n] = g[n][f[n - 1]]
  <2> HIDE DEF V, b, g, N
  <2> QED
    BY <1>5 DEF Recurs
<1> HIDE DEF N, b, V
<1>7. ASSUME NEW n \in 0 .. N
      PROVE  f[n] = IF n = 0 THEN b ELSE Mixes(f[n - 1], n, data[n])
  <2>1. CASE n = 0
    BY <1>6, <2>1
  <2>2. CASE n # 0
    <3>1. n \in 1 .. N /\ n - 1 \in 0 .. N
      BY <1>1, <2>2
    <3>2. f[n] = g[n][f[n - 1]] /\ f[n - 1] \in V
      BY <1>6, <3>1
    <3> QED
      BY <2>2, <3>1, <3>2
  <2> QED
    BY <2>1, <2>2
<1>8. Is(f)
  <2>1. f = [n \in 0 .. N |-> f[n]]
    BY <1>6
  <2> QED
    BY <1>7, <2>1
<1>9. Is(after)
  <2> HIDE DEF Is
  <2> QED
    BY <1>8
<1> HIDE DEF after
<1>10. after = [n \in 0 .. N |-> after[n]] /\ after[0] = b
  BY <1>1, <1>9
<1>11. ASSUME NEW n \in 1 .. N PROVE after[n] = Mixes(after[n - 1], n, data[n])
  BY <1>1, <1>9
<1>12. after \in [0 .. N -> V]
  <2>1. \A n \in 1 .. N : after[n - 1] \in V => after[n] \in V
    BY <1>3, <1>11
  <2> QED
    BY <1>1, <1>2, <1>10, <2>1, Stays
<1>13. RcRun(after, m, data)
  BY <1>10, <1>11, <1>12 DEF RcRun, N, b, V
<1>14. rc4_crypt(m, data) = after[Len(data)].out
  BY DEF rc4_crypt, after, b, RcStart, N
<1> QED
  BY <1>13, <1>14

(* What comes out of a run, byte by byte.                                  *)
LEMMA RcOut ==
  ASSUME NEW m \in Shuffles, NEW data \in Seq(Byte), NEW f, RcRun(f, m, data)
  PROVE  \A n \in 0 .. Len(data) :
           /\ f[n] \in RcStates /\ Len(f[n].out) = n
           /\ \A i \in 1 .. n : f[n].out[i] = XorByte(data[i], RcKey(f[i - 1], i))
<1> DEFINE N == Len(data)
           Out(n) == /\ Len(f[n].out) = n
                     /\ \A i \in 1 .. n : f[n].out[i] = XorByte(data[i], RcKey(f[i - 1], i))
           T == { n \in Nat : Out(n) }
<1>1. N \in Nat /\ \A n \in 1 .. N : data[n] \in Byte
  BY ElementOfSeq, LenProperties
<1>2. f \in [0 .. N -> RcStates] /\ f[0] = RcStart(m)
      /\ \A n \in 1 .. N : f[n] = Mixes(f[n - 1], n, data[n])
  BY DEF RcRun
<1> HIDE DEF N
<1>3. 0 \in T
  BY <1>2 DEF RcStart
<1>4. ASSUME NEW n \in 0 .. N - 1, n \in T PROVE n + 1 \in T
  <2>1. n \in Nat /\ n + 1 \in 1 .. N /\ (n + 1) - 1 = n /\ n \in 0 .. N /\ n + 1 \in Nat
    BY <1>1
  <2>2. f[n] \in RcStates /\ data[n + 1] \in Byte /\ f[n + 1] = Mixes(f[n], n + 1, data[n + 1])
    BY <1>1, <1>2, <2>1
  <2> DEFINE s == f[n]
             c == data[n + 1]
  <2>a. s \in RcStates /\ c \in Byte /\ n + 1 \in Nat
    BY <2>1, <2>2
  <2> HIDE DEF s, c
  <2>b. Mixes(s, n + 1, c).out = Append(s.out, XorByte(c, RcKey(s, n + 1))) /\ RcKey(s, n + 1) \in Byte
    BY <2>a, MixesIs
  <2>3. f[n + 1].out = Append(f[n].out, XorByte(data[n + 1], RcKey(f[n], n + 1)))
        /\ RcKey(f[n], n + 1) \in Byte
    BY <2>2, <2>b DEF s, c
  <2>4. f[n].out \in Seq(Byte) /\ Out(n)
    BY <1>4, <2>2 DEF RcStates
  <2>5. XorByte(data[n + 1], RcKey(f[n], n + 1)) \in Byte
    BY <2>2, <2>3, XorByteBack
  <2>6. Len(f[n + 1].out) = n + 1 /\ \A i \in 1 .. n : f[n + 1].out[i] = f[n].out[i]
    BY <2>1, <2>3, <2>4, <2>5, AppendProperties
  <2>7. f[n + 1].out[n + 1] = XorByte(data[n + 1], RcKey(f[n], n + 1))
    BY <2>1, <2>3, <2>4, <2>5, AppendProperties
  <2>8. ASSUME NEW i \in 1 .. n + 1 PROVE f[n + 1].out[i] = XorByte(data[i], RcKey(f[i - 1], i))
    <3>1. CASE i = n + 1
      BY <2>1, <2>7, <3>1
    <3>2. CASE i # n + 1
      <4>1. i \in 1 .. n
        BY <2>1, <3>2
      <4> QED
        BY <2>4, <2>6, <4>1
    <3> QED
      BY <3>1, <3>2
  <2> QED
    BY <2>1, <2>6, <2>8
<1> HIDE DEF T
<1>5. \A n \in 0 .. N : n \in T
  BY <1>1, <1>3, <1>4, UpTo
<1> QED
  BY <1>2, <1>5 DEF T, N

(* The table goes through the same states whatever the bytes are.          *)
LEMMA RcSame ==
  ASSUME NEW m \in Shuffles, NEW d \in Seq(Byte), NEW e \in Seq(Byte), Len(d) = Len(e),
         NEW f, RcRun(f, m, d), NEW h, RcRun(h, m, e)
  PROVE  \A n \in 1 .. Len(d) : RcKey(f[n - 1], n) = RcKey(h[n - 1], n) /\ RcKey(f[n - 1], n) \in Byte
<1> DEFINE N == Len(d)
           T == { n \in Nat : f[n].y = h[n].y /\ f[n].m = h[n].m }
<1>1. N \in Nat /\ \A n \in 1 .. N : d[n] \in Byte /\ e[n] \in Byte
  BY ElementOfSeq, LenProperties
<1>2. /\ f \in [0 .. N -> RcStates] /\ f[0] = RcStart(m)
      /\ \A n \in 1 .. N : f[n] = Mixes(f[n - 1], n, d[n])
      /\ h \in [0 .. N -> RcStates] /\ h[0] = RcStart(m)
      /\ \A n \in 1 .. N : h[n] = Mixes(h[n - 1], n, e[n])
  BY DEF RcRun
<1> HIDE DEF N
<1>3. 0 \in T
  BY <1>2 DEF RcStart
<1>4. ASSUME NEW n \in 0 .. N - 1, n \in T PROVE n + 1 \in T
  <2>1. n \in Nat /\ n + 1 \in 1 .. N /\ (n + 1) - 1 = n /\ n \in 0 .. N /\ n + 1 \in Nat
    BY <1>1
  <2>2. f[n] \in RcStates /\ h[n] \in RcStates /\ f[n].y = h[n].y /\ f[n].m = h[n].m
    BY <1>2, <1>4, <2>1
  <2>a. \A s \in RcStates, c \in Byte :
          Mixes(s, n + 1, c).y = RcY(s, n + 1) /\ Mixes(s, n + 1, c).m = RcM(s, n + 1)
    BY <2>1, MixesIs
  <2>b. d[n + 1] \in Byte /\ e[n + 1] \in Byte /\ f[n + 1] = Mixes(f[n], n + 1, d[n + 1])
        /\ h[n + 1] = Mixes(h[n], n + 1, e[n + 1])
    BY <1>1, <1>2, <2>1
  <2>3. f[n + 1].y = RcY(f[n], n + 1) /\ f[n + 1].m = RcM(f[n], n + 1)
    BY <2>2, <2>a, <2>b
  <2>4. h[n + 1].y = RcY(h[n], n + 1) /\ h[n + 1].m = RcM(h[n], n + 1)
    BY <2>2, <2>a, <2>b
  <2>5. RcY(f[n], n + 1) = RcY(h[n], n + 1)
    BY <2>2 DEF RcY
  <2>6. RcM(f[n], n + 1) = RcM(h[n], n + 1)
    BY <2>2, <2>5 DEF RcM
  <2> QED
    BY <2>1, <2>3, <2>4, <2>5, <2>6
<1> HIDE DEF T
<1>5. \A n \in 0 .. N : n \in T
  BY <1>1, <1>3, <1>4, UpTo
<1>6. ASSUME NEW n \in 1 .. N
      PROVE  RcKey(f[n - 1], n) = RcKey(h[n - 1], n) /\ RcKey(f[n - 1], n) \in Byte
  <2>1. n - 1 \in 0 .. N /\ n \in Nat
    BY <1>1
  <2>2. f[n - 1].y = h[n - 1].y /\ f[n - 1].m = h[n - 1].m
    BY <1>5, <2>1 DEF T
  <2>3. RcY(f[n - 1], n) = RcY(h[n - 1], n)
    BY <2>2 DEF RcY
  <2>4. RcM(f[n - 1], n) = RcM(h[n - 1], n)
    BY <2>2, <2>3 DEF RcM
  <2>5. RcKey(f[n - 1], n) = RcKey(h[n - 1], n)
    BY <2>3, <2>4 DEF RcKey
  <2>6. f[n - 1] \in RcStates
    BY <1>2, <2>1
  <2> QED
    BY <1>1, <2>1, <2>5, <2>6, MixesIs
<1> QED
  BY <1>6 DEF N

(* Rc4 is its own inverse.                                                 *)
LEMMA Rc4Inverse ==
  ASSUME NEW raw \in Seq(Byte), NEW key \in Seq(Byte)
  PROVE  /\ Rc4(raw, key) \in Seq(Byte) /\ Len(Rc4(raw, key)) = Len(raw)
         /\ Rc4(Rc4(raw, key), key) = raw
<1> DEFINE m == rc4_setup(key)
           N == Len(raw)
           e == rc4_crypt(m, raw)
<1>1. m \in Shuffles
  BY SetupType
<1> HIDE DEF m
<1>2. PICK f : RcRun(f, m, raw) /\ e = f[N].out
  BY <1>1, RcRuns
<1>3. N \in Nat /\ N \in 0 .. N
  BY LenProperties
<1>4. f[N] \in RcStates /\ Len(f[N].out) = N
      /\ \A i \in 1 .. N : f[N].out[i] = XorByte(raw[i], RcKey(f[i - 1], i))
  BY <1>1, <1>2, <1>3, RcOut
<1> HIDE DEF e
<1>5. e \in Seq(Byte) /\ Len(e) = N
  BY <1>2, <1>4 DEF RcStates
<1>6. PICK h : RcRun(h, m, e) /\ rc4_crypt(m, e) = h[Len(e)].out
  BY <1>1, <1>5, RcRuns
<1>7. h[N] \in RcStates /\ Len(h[N].out) = N
      /\ \A i \in 1 .. N : h[N].out[i] = XorByte(e[i], RcKey(h[i - 1], i))
  BY <1>1, <1>3, <1>5, <1>6, RcOut
<1>8. \A i \in 1 .. N : RcKey(f[i - 1], i) = RcKey(h[i - 1], i) /\ RcKey(f[i - 1], i) \in Byte
  BY <1>1, <1>2, <1>5, <1>6, RcSame
<1>9. ASSUME NEW i \in 1 .. N PROVE h[N].out[i] = raw[i]
  <2>1. raw[i] \in Byte /\ e[i] = XorByte(raw[i], RcKey(f[i - 1], i))
    BY <1>2, <1>4, ElementOfSeq
  <2> QED
    BY <1>7, <1>8, <2>1, XorByteBack
<1>10. h[N].out \in Seq(Byte)
  BY <1>7 DEF RcStates
<1> DEFINE o == h[N].out
<1>11. o = raw
  <2>1. o \in Seq(Byte) /\ Len(o) = N /\ \A i \in 1 .. N : o[i] = raw[i]
    BY <1>7, <1>9, <1>10
  <2> HIDE DEF o
  <2> QED
    BY <2>1, SeqEqual
<1> QED
  BY <1>5, <1>6, <1>11 DEF Rc4, e, m

-----------------------------------------------------------------------------
(* Chacha20.                                                               *)
ChachaStates == [0 .. 15 -> Word]

(* The quarter rounds name words of the state.                             *)
LEMMA RoundsType ==
  \A i \in 1 .. 8 : \A k \in 1 .. 4 : Rounds[i][k] \in 0 .. 15
BY DEF Rounds

(* A quarter round leaves sixteen words.                                   *)
LEMMA QuarterType ==
  ASSUME NEW x \in ChachaStates, NEW q, \A k \in 1 .. 4 : q[k] \in 0 .. 15
  PROVE  QuarterRound(x, q) \in ChachaStates
<1> DEFINE a1 == Plus(x[q[1]], x[q[2]])
           d1 == Swapped(XorWord(x[q[4]], a1))
           c1 == Plus(x[q[3]], d1)
           b1 == Rotated(XorWord(x[q[2]], c1), 4096)
           a2 == Plus(a1, b1)
           d2 == Rotated(XorWord(d1, a2), 256)
           c2 == Plus(c1, d2)
           b2 == Rotated(XorWord(b1, c2), 128)
<1>1. q[1] \in 0 .. 15 /\ q[2] \in 0 .. 15 /\ q[3] \in 0 .. 15 /\ q[4] \in 0 .. 15
  OBVIOUS
<1>2. x[q[1]] \in Word /\ x[q[2]] \in Word /\ x[q[3]] \in Word /\ x[q[4]] \in Word
  BY <1>1 DEF ChachaStates
<1>3. a1 \in Word
  BY <1>2, PlusType
<1> HIDE DEF a1
<1>4. d1 \in Word
  BY <1>2, <1>3, XorWordType, SwappedType
<1> HIDE DEF d1
<1>5. c1 \in Word
  BY <1>2, <1>4, PlusType
<1> HIDE DEF c1
<1>6. b1 \in Word
  BY <1>2, <1>5, XorWordType, RotatedType
<1> HIDE DEF b1
<1>7. a2 \in Word
  BY <1>3, <1>6, PlusType
<1> HIDE DEF a2
<1>8. d2 \in Word
  BY <1>4, <1>7, XorWordType, RotatedType
<1> HIDE DEF d2
<1>9. c2 \in Word
  BY <1>5, <1>8, PlusType
<1> HIDE DEF c2
<1>10. b2 \in Word
  BY <1>6, <1>9, XorWordType, RotatedType
<1> HIDE DEF b2
<1>11. QuarterRound(x, q) = [x EXCEPT ![q[1]] = a2, ![q[2]] = b2, ![q[3]] = c2, ![q[4]] = d2]
  BY DEF QuarterRound, a1, a2, b1, b2, c1, c2, d1, d2
<1> QED
  BY <1>1, <1>7, <1>8, <1>9, <1>10, <1>11 DEF ChachaStates

(* The double rounds leave sixteen words.                                  *)
LEMMA DoubleRoundsType ==
  ASSUME NEW state \in ChachaStates
  PROVE  DoubleRounds(state) \in ChachaStates
<1> DEFINE V == ChachaStates
           N == 80
           Step(n, s) == QuarterRound(s, Rounds[((n - 1) % 8) + 1])
           g == [n \in 1 .. N |-> [s \in V |-> Step(n, s)]]
           Is(f) == f = [n \in 0 .. N |-> IF n = 0 THEN state ELSE Step(n, f[n - 1])]
           after == CHOOSE f : Is(f)
<1>1. ASSUME NEW n \in 1 .. N, NEW s \in V PROVE Step(n, s) \in V
  <2>1. ((n - 1) % 8) + 1 \in 1 .. 8
    <3>1. n - 1 \in Nat /\ \A k \in Nat : (k % 8) + 1 \in 1 .. 8
      OBVIOUS
    <3> QED
      BY <3>1
  <2> QED
    BY <2>1, RoundsType, QuarterType
<1>2. N \in Nat
  OBVIOUS
<1> HIDE DEF Step, N, V
<1>3. g \in [1 .. N -> [V -> V]]
  BY <1>1
<1>4. state \in V
  BY DEF V
<1>5. PICK f : Recurs(f, N, V, state, g)
  <2> HIDE DEF g
  <2> QED
    BY <1>2, <1>3, <1>4, Recursion
<1>6. f \in [0 .. N -> V] /\ f[0] = state /\ \A n \in 1 .. N : f[n] = g[n][f[n - 1]]
  <2> HIDE DEF g
  <2> QED
    BY <1>5 DEF Recurs
<1>7. ASSUME NEW n \in 0 .. N
      PROVE  f[n] = IF n = 0 THEN state ELSE Step(n, f[n - 1])
  <2>1. CASE n = 0
    BY <1>6, <2>1
  <2>2. CASE n # 0
    <3>1. n \in 1 .. N /\ n - 1 \in 0 .. N
      BY <1>2, <2>2
    <3>2. f[n] = g[n][f[n - 1]] /\ f[n - 1] \in V
      BY <1>6, <3>1
    <3> QED
      BY <2>2, <3>1, <3>2
  <2> QED
    BY <2>1, <2>2
<1>8. Is(f)
  <2>1. f = [n \in 0 .. N |-> f[n]]
    BY <1>6
  <2> QED
    BY <1>7, <2>1
<1>9. Is(after)
  <2> HIDE DEF Is
  <2> QED
    BY <1>8
<1> HIDE DEF after
<1>10. after = [n \in 0 .. N |-> after[n]] /\ after[0] = state
  BY <1>2, <1>9
<1>11. \A n \in 1 .. N : after[n] = Step(n, after[n - 1])
  BY <1>2, <1>9
<1>12. after \in [0 .. N -> V]
  <2>1. \A n \in 1 .. N : after[n - 1] \in V => after[n] \in V
    BY <1>1, <1>11
  <2> QED
    BY <1>2, <1>4, <1>10, <2>1, Stays
<1>13. DoubleRounds(state) = after[N]
  BY DEF DoubleRounds, after, N, Step
<1>14. after[N] \in V
  BY <1>2, <1>12
<1> QED
  BY <1>13, <1>14 DEF V

(* A word is unpacked into bytes.                                          *)
LEMMA UnpackType ==
  ASSUME NEW w \in Word, NEW k \in 1 .. 4
  PROVE  unpack4(w)[k] \in Byte
<1>1. w[1] \in Nat /\ w[1] < 65536 /\ w[2] \in Nat /\ w[2] < 65536
  BY SMT, WordIs
<1>2. \A x \in Nat : x < 65536 => x % 256 \in Nat /\ x % 256 < 256 /\ x \div 256 \in Nat /\ x \div 256 < 256
  BY SMT
<1>3. w[2] % 256 \in Byte /\ w[2] \div 256 \in Byte /\ w[1] % 256 \in Byte /\ w[1] \div 256 \in Byte
  BY SMT, <1>1, <1>2, BelowByte
<1> DEFINE a == w[2] % 256  b == w[2] \div 256  c == w[1] % 256  d == w[1] \div 256
<1>4. unpack4(w) = << a, b, c, d >>
  BY DEF unpack4
<1> HIDE DEF a, b, c, d
<1>5. << a, b, c, d >>[k] \in {a, b, c, d}
  OBVIOUS
<1> QED
  BY <1>3, <1>4, <1>5 DEF a, b, c, d

(* A block of key stream is 64 bytes.                                      *)
LEMMA NextType ==
  ASSUME NEW state \in ChachaStates
  PROVE  next(state) \in Seq(Byte) /\ Len(next(state)) = 64
<1> DEFINE mixed == DoubleRounds(state)
           word == [i \in 0 .. 15 |-> Plus(mixed[i], state[i])]
           Out(j) == unpack4(word[(j - 1) \div 4])[((j - 1) % 4) + 1]
<1>1. mixed \in ChachaStates
  BY DoubleRoundsType
<1> HIDE DEF mixed
<1>2. \A i \in 0 .. 15 : word[i] \in Word
  BY <1>1, PlusType DEF ChachaStates
<1> HIDE DEF word
<1>3. ASSUME NEW j \in 1 .. 64 PROVE Out(j) \in Byte
  <2>1. j - 1 \in Nat /\ j - 1 < 64
    OBVIOUS
  <2>2. \A k \in Nat : k < 64 => k \div 4 \in 0 .. 15 /\ (k % 4) + 1 \in 1 .. 4
    OBVIOUS
  <2> QED
    BY <1>2, <2>1, <2>2, UnpackType
<1>4. next(state) = [j \in 1 .. 64 |-> Out(j)]
  BY DEF next, Sums, Unpacked, mixed, word
<1> HIDE DEF Out
<1> QED
  BY <1>3, <1>4

(* Counting the block leaves sixteen words.                                *)
LEMMA CountedType ==
  ASSUME NEW state \in ChachaStates
  PROVE  Counted(state) \in ChachaStates
<1>1. W(1) \in Word
  BY WType
<1>2. state[12] \in Word /\ state[13] \in Word
  BY DEF ChachaStates
<1>3. Plus(state[12], W(1)) \in Word /\ Plus(state[13], W(1)) \in Word
  BY <1>1, <1>2, PlusType
<1> DEFINE low == Plus(state[12], W(1))
           high == IF low = W(0) THEN Plus(state[13], W(1)) ELSE state[13]
<1>4. high \in Word
  BY <1>2, <1>3
<1>5. Counted(state) = [state EXCEPT ![12] = low, ![13] = high]
  BY DEF Counted, ChachaStates
<1> HIDE DEF high
<1> QED
  BY <1>3, <1>4, <1>5 DEF ChachaStates

(* The keystream is as long as its blocks.                                 *)
LEMMA KeystreamType ==
  ASSUME NEW state \in ChachaStates, NEW N \in Nat
  PROVE  Keystream(state, N) \in Seq(Byte) /\ Len(Keystream(state, N)) = 64 * N
<1> DEFINE V == [state : ChachaStates, keystream : Seq(Byte)]
           b == [state |-> state, keystream |-> << >>]
           g == [n \in 1 .. N |-> [s \in V |-> NextBlock(s)]]
           Is(f) == f = [n \in 0 .. N |-> IF n = 0 THEN b ELSE NextBlock(f[n - 1])]
           after == CHOOSE f : Is(f)
<1>1. ASSUME NEW s \in V
      PROVE  NextBlock(s) \in V /\ Len(NextBlock(s).keystream) = Len(s.keystream) + 64
  <2>1. s.state \in ChachaStates /\ s.keystream \in Seq(Byte)
    OBVIOUS
  <2>2. Counted(s.state) \in ChachaStates
    BY <2>1, CountedType
  <2>3. next(s.state) \in Seq(Byte) /\ Len(next(s.state)) = 64
    BY <2>1, NextType
  <2>4. s.keystream \o next(s.state) \in Seq(Byte)
        /\ Len(s.keystream \o next(s.state)) = Len(s.keystream) + 64
    <3>1. \A x, y \in Seq(Byte) : x \o y \in Seq(Byte) /\ Len(x \o y) = Len(x) + Len(y)
      BY ConcatProperties
    <3> QED
      BY ONLY <2>1, <2>3, <3>1
  <2> DEFINE c == Counted(s.state)
             k == s.keystream \o next(s.state)
  <2>5. NextBlock(s) = [state |-> c, keystream |-> k]
    BY DEF NextBlock
  <2> HIDE DEF c, k
  <2>6. NextBlock(s).keystream = k /\ (c \in ChachaStates /\ k \in Seq(Byte) => NextBlock(s) \in V)
    BY <2>5
  <2> QED
    BY <2>2, <2>4, <2>6 DEF c, k
<1>2. b \in V /\ Len(b.keystream) = 0
  OBVIOUS
<1> HIDE DEF V, b
<1>3. g \in [1 .. N -> [V -> V]]
  BY <1>1
<1>5. PICK f : Recurs(f, N, V, b, g)
  <2> HIDE DEF g
  <2> QED
    BY <1>2, <1>3, Recursion
<1>6. f \in [0 .. N -> V] /\ f[0] = b /\ \A n \in 1 .. N : f[n] = g[n][f[n - 1]]
  <2> HIDE DEF g
  <2> QED
    BY <1>5 DEF Recurs
<1>7. ASSUME NEW n \in 0 .. N
      PROVE  f[n] = IF n = 0 THEN b ELSE NextBlock(f[n - 1])
  <2>1. CASE n = 0
    BY <1>6, <2>1
  <2>2. CASE n # 0
    <3>1. n \in 1 .. N /\ n - 1 \in 0 .. N
      BY <1>2, <2>2
    <3>2. f[n] = g[n][f[n - 1]] /\ f[n - 1] \in V
      BY <1>6, <3>1
    <3> QED
      BY <2>2, <3>1, <3>2
  <2> QED
    BY <2>1, <2>2
<1>8. Is(f)
  <2>1. f = [n \in 0 .. N |-> f[n]]
    BY <1>6
  <2> QED
    BY <1>7, <2>1
<1>9. Is(after)
  <2> HIDE DEF Is
  <2> QED
    BY <1>8
<1> HIDE DEF after
<1>10. after = [n \in 0 .. N |-> after[n]] /\ after[0] = b
  BY <1>9
<1>11. \A n \in 1 .. N : after[n] = NextBlock(after[n - 1])
  BY <1>9
<1>12. after \in [0 .. N -> V]
  <2>1. \A n \in 1 .. N : after[n - 1] \in V => after[n] \in V
    <3>1. \A s \in V : NextBlock(s) \in V
      BY <1>1
    <3> QED
      BY <1>11, <3>1
  <2>2. after[0] \in V
    BY <1>2, <1>10
  <2> QED
    BY ONLY N \in Nat, <1>10, <2>1, <2>2, Stays
<1> DEFINE T == { n \in Nat : Len(after[n].keystream) = 64 * n }
<1>13. N \in T
  <2>1. 0 \in T
    BY <1>2, <1>10
  <2>2. ASSUME NEW n \in 0 .. N - 1, n \in T PROVE n + 1 \in T
    <3>1. n \in Nat /\ n + 1 \in 1 .. N /\ (n + 1) - 1 = n /\ n \in 0 .. N /\ n + 1 \in Nat
      OBVIOUS
    <3>2. after[n] \in V /\ after[n + 1] = NextBlock(after[n])
      BY <1>11, <1>12, <3>1
    <3>3. Len(after[n + 1].keystream) = Len(after[n].keystream) + 64
      BY <1>1, <3>2
    <3>4. 64 * n + 64 = 64 * (n + 1)
      BY <3>1
    <3> QED
      BY <2>2, <3>1, <3>3, <3>4
  <2> HIDE DEF T
  <2>3. \A n \in 0 .. N : n \in T
    BY <2>1, <2>2, UpTo
  <2> QED
    BY <2>3
<1>14. Keystream(state, N) = after[N].keystream
  BY DEF Keystream, after, b
<1>15. after[N] \in V
  BY <1>12
<1> QED
  BY <1>13, <1>14, <1>15 DEF T, V

(* Whatever the state, twice the same is nothing.                          *)
LEMMA CryptInverse ==
  ASSUME NEW state \in ChachaStates, NEW raw \in Seq(Byte)
  PROVE  /\ crypt(state, raw) \in Seq(Byte) /\ Len(crypt(state, raw)) = Len(raw)
         /\ crypt(state, crypt(state, raw)) = raw
<1> DEFINE N == Len(raw)
           k == Keystream(state, (N + 63) \div 64)
           e == crypt(state, raw)
<1>1. N \in Nat /\ DOMAIN raw = 1 .. N /\ \A i \in 1 .. N : raw[i] \in Byte
  BY ElementOfSeq, LenProperties
<1> HIDE DEF N
<1>2. (N + 63) \div 64 \in Nat /\ N <= 64 * ((N + 63) \div 64)
  BY <1>1
<1>3. k \in Seq(Byte) /\ Len(k) = 64 * ((N + 63) \div 64)
  BY <1>2, KeystreamType
<1> HIDE DEF k
<1>4. ASSUME NEW i \in 1 .. N PROVE k[i] \in Byte
  <2>1. i \in 1 .. Len(k)
    BY <1>1, <1>2, <1>3
  <2> QED
    BY <1>3, <2>1, ElementOfSeq
<1>5. e = [i \in 1 .. N |-> XorByte(raw[i], k[i])]
  BY <1>1 DEF crypt, XorBytes, k, N
<1>6. \A i \in 1 .. N : e[i] = XorByte(raw[i], k[i]) /\ e[i] \in Byte
  BY <1>1, <1>4, <1>5, XorByteBack
<1>7. e \in Seq(Byte) /\ Len(e) = N /\ DOMAIN e = 1 .. N
  BY <1>1, <1>5, <1>6
<1> HIDE DEF e
<1>8. crypt(state, e) = [i \in 1 .. N |-> XorByte(e[i], k[i])]
  BY <1>7 DEF crypt, XorBytes, k
<1>9. \A i \in 1 .. N : XorByte(e[i], k[i]) = raw[i]
  BY <1>1, <1>4, <1>6, XorByteBack
<1>10. crypt(state, e) = [i \in 1 .. N |-> raw[i]]
  BY <1>8, <1>9
<1>11. raw = [i \in 1 .. N |-> raw[i]]
  BY BytesAre DEF N
<1> QED
  BY <1>7, <1>10, <1>11 DEF e, N

(* Four bytes are packed into a word.                                      *)
LEMMA PackType ==
  ASSUME NEW a \in Seq(Byte), NEW i \in Nat, i + 4 <= Len(a)
  PROVE  pack4(a, i) \in Word
<1>1. Len(a) \in Nat /\ i + 1 \in 1 .. Len(a) /\ i + 2 \in 1 .. Len(a) /\ i + 3 \in 1 .. Len(a) /\ i + 4 \in 1 .. Len(a)
  BY LenProperties
<1>2. a[i + 1] \in Byte /\ a[i + 2] \in Byte /\ a[i + 3] \in Byte /\ a[i + 4] \in Byte
  BY <1>1, ElementOfSeq
<1>3. \A x, y \in Byte : x * 256 + y \in Nat /\ x * 256 + y < 65536
  BY SMT, BelowByte
<1> DEFINE p == a[i + 1]  q == a[i + 2]  r == a[i + 3]  s == a[i + 4]
           h == s * 256 + r
           l == q * 256 + p
<1>5. pack4(a, i) = << h, l >>
  BY DEF pack4
<1> HIDE DEF p, q, r, s
<1>4. h \in Nat /\ h < 65536 /\ l \in Nat /\ l < 65536
  <2>1. p \in Byte /\ q \in Byte /\ r \in Byte /\ s \in Byte
    BY <1>2 DEF p, q, r, s
  <2> QED
    BY ONLY SMT, <1>3, <2>1
<1> HIDE DEF h, l
<1> QED
  BY SMT, <1>4, <1>5, WordIs

(***************************************************************************)
(* The first state is sixteen words, whatever the key, the nonce and the   *)
(* counter.                                                                *)
(***************************************************************************)
LEMMA BlockType ==
  ASSUME NEW key \in Seq(Byte), Len(key) = 32, NEW nonce \in Seq(Byte), Len(nonce) = 8, NEW counter \in Word
  PROVE  Chacha20Block(key, nonce, counter) \in ChachaStates
<1> DEFINE b == Chacha20Block(key, nonce, counter)
<1>1. ASSUME NEW i \in 0 .. 15 PROVE b[i] \in Word
  <2>i. i \in Nat
    OBVIOUS
  <2>b. b[i] = CASE i <= 3 -> Magic[i + 1]
                 [] i \in 4 .. 11 -> pack4(key, 4 * (i - 4))
                 [] i = 12 -> counter
                 [] i = 13 -> W(0)
                 [] i >= 14 -> pack4(nonce, 4 * (i - 14))
    BY DEF Chacha20Block
  <2> HIDE DEF b
  <2>1. CASE i <= 3
    <3>1. b[i] = Magic[i + 1]
      <4>1. ~ i \in 4 .. 11 /\ i # 12 /\ i # 13 /\ ~ i >= 14
        BY ONLY <2>1, <2>i
      <4> QED
        BY ONLY <2>1, <2>b, <4>1
    <3>2. Magic[1] \in Word /\ Magic[2] \in Word /\ Magic[3] \in Word /\ Magic[4] \in Word
      <4>1. /\ << 24944, 30821 >> \in Word /\ << 13088, 25710 >> \in Word
            /\ << 31074, 11570 >> \in Word /\ << 27424, 25972 >> \in Word
        <5>1. \A x, y \in Nat : x < 65536 /\ y < 65536 => << x, y >> \in Word
          BY SMT, WordIs
        <5>2. << 24944, 30821 >> \in Word
          BY ONLY SMT, <5>1
        <5>3. << 13088, 25710 >> \in Word
          BY ONLY SMT, <5>1
        <5>4. << 31074, 11570 >> \in Word
          BY ONLY SMT, <5>1
        <5>5. << 27424, 25972 >> \in Word
          BY ONLY SMT, <5>1
        <5> QED
          BY SMT, <5>2, <5>3, <5>4, <5>5
      <4>2. /\ Magic[1] = << 24944, 30821 >> /\ Magic[2] = << 13088, 25710 >>
            /\ Magic[3] = << 31074, 11570 >> /\ Magic[4] = << 27424, 25972 >>
        BY SMT DEF Magic
      <4> QED
        BY SMT, <4>1, <4>2
    <3>3. i + 1 \in {1, 2, 3, 4}
      BY <2>1
    <3> QED
      BY <3>1, <3>2, <3>3
  <2>2. CASE i \in 4 .. 11
    <3>1. b[i] = pack4(key, 4 * (i - 4))
      <4>1. ~ i <= 3 /\ i # 12 /\ i # 13 /\ ~ i >= 14
        BY ONLY <2>2, <2>i
      <4> QED
        BY ONLY <2>2, <2>b, <4>1
    <3>2. 4 * (i - 4) \in Nat /\ 4 * (i - 4) + 4 <= 32
      BY <2>2
    <3> QED
      BY <3>1, <3>2, PackType
  <2>3. CASE i = 12
    BY ONLY <2>3, <2>b, counter \in Word
  <2>4. CASE i = 13
    <3>1. b[i] = W(0)
      BY ONLY <2>4, <2>b
    <3> QED
      BY <3>1, WType
  <2>5. CASE i >= 14
    <3>1. b[i] = pack4(nonce, 4 * (i - 14))
      BY ONLY <2>5, <2>i, <2>b
    <3>2. 4 * (i - 14) \in Nat /\ 4 * (i - 14) + 4 <= 8
      BY <2>5
    <3> QED
      BY <3>1, <3>2, PackType
  <2> QED
    BY <2>1, <2>2, <2>3, <2>4, <2>5
<1>2. b = [i \in 0 .. 15 |-> b[i]]
  BY DEF Chacha20Block
<1> QED
  BY <1>1, <1>2 DEF ChachaStates

(* Chacha20 is its own inverse, if there are 32 bytes to be copied.        *)
LEMMA Chacha20Inverse ==
  ASSUME NEW raw \in Seq(Byte), NEW key \in Seq(Byte), NEW behind \in Seq(Byte),
         Len(key) + Len(behind) >= 31
  PROVE  /\ Chacha20(raw, key, behind) \in Seq(Byte) /\ Len(Chacha20(raw, key, behind)) = Len(raw)
         /\ Chacha20(Chacha20(raw, key, behind), key, behind) = raw
<1> DEFINE from == Append(key, 0) \o behind
           k == SubSeq(from, 1, 32)
           n == SubSeq(k, 1, 8)
           state == Chacha20Block(k, n, W(Len(key)))
<1>0. Len(key) \in Nat /\ Len(behind) \in Nat
  BY LenProperties
<1>1. 0 \in Byte /\ Len(key) \in Nat /\ Len(behind) \in Nat
  <2>1. 0 \in Byte
    BY ONLY BelowByte
  <2> QED
    BY <1>0, <2>1
<1>2. Append(key, 0) \in Seq(Byte) /\ Len(Append(key, 0)) = Len(key) + 1
  BY <1>1, AppendProperties
<1>3. from \in Seq(Byte) /\ Len(from) = Len(key) + 1 + Len(behind)
  BY <1>1, <1>2, ConcatProperties
<1> HIDE DEF from
<1>4. Len(from) \in Nat /\ 32 <= Len(from) /\ \A i \in 1 .. Len(from) : from[i] \in Byte
  BY <1>1, <1>3, ElementOfSeq
<1>5. k \in Seq(Byte) /\ Len(k) = 32
  <2>1. \A i \in 1 .. 32 : from[i] \in Byte
    BY <1>4
  <2> QED
    BY <1>3, <1>4, <2>1, SubSeqProperties
<1> HIDE DEF k
<1>6. n \in Seq(Byte) /\ Len(n) = 8
  <2>1. \A i \in 1 .. 32 : k[i] \in Byte
    BY <1>5, ElementOfSeq
  <2>2. ASSUME NEW i \in 1 .. 8 PROVE k[i] \in Byte
    <3>1. i \in 1 .. 32
      OBVIOUS
    <3> QED
      BY <2>1, <3>1
  <2> QED
    BY <1>5, <2>2, SubSeqProperties
<1> HIDE DEF n
<1>7. state \in ChachaStates
  BY <1>1, <1>5, <1>6, BlockType, WType
<1> HIDE DEF state
<1>8. \A x : Chacha20(x, key, behind) = crypt(state, x)
  BY DEF Chacha20, realKey, state, k, n, from
<1> QED
  BY <1>7, <1>8, CryptInverse

-----------------------------------------------------------------------------
(* CodecFacade.                                                            *)
CodecNames == {"xor", "chacha20", "reverse", "none", "rc4"}

FacadeOK(facade) ==
  /\ facade.key \in Seq(Byte) /\ facade.behind \in Seq(Byte)
  /\ facade.list \in Seq(CodecNames)
  /\ \A n \in 1 .. Len(facade.list) :
       facade.list[n] = "chacha20" => Len(facade.key) + Len(facade.behind) >= 31

(***************************************************************************)
(* Each codec of a facade keeps the length of the data, and run twice      *)
(* gives the data back.                                                    *)
(***************************************************************************)
LEMMA CryptedInverse ==
  ASSUME NEW facade, FacadeOK(facade), NEW n \in 1 .. Len(facade.list), NEW raw \in Seq(Byte)
  PROVE  LET name == facade.list[n] IN
         /\ Crypted(facade, name, raw) \in Seq(Byte)
         /\ Len(Crypted(facade, name, raw)) = Len(raw)
         /\ Crypted(facade, name, Crypted(facade, name, raw)) = raw
<1> DEFINE name == facade.list[n]
           Back(e(_)) == e(raw) \in Seq(Byte) /\ Len(e(raw)) = Len(raw) /\ e(e(raw)) = raw
<1>1. name \in CodecNames /\ facade.key \in Seq(Byte) /\ facade.behind \in Seq(Byte)
  BY ElementOfSeq DEF FacadeOK
<1>2. name = "chacha20" => Len(facade.key) + Len(facade.behind) >= 31
  BY DEF FacadeOK
<1> HIDE DEF name
<1>3. CASE name = "none"
  <2>1. \A x : Crypted(facade, name, x) = x
    BY <1>3 DEF Crypted, None
  <2> QED
    BY <2>1 DEF name
<1>4. CASE name = "xor"
  <2>1. \A x : Crypted(facade, name, x) = Xor(x)
    BY <1>4 DEF Crypted
  <2> QED
    BY <2>1, XorInverse DEF name
<1>5. CASE name = "reverse"
  <2>1. \A x : Crypted(facade, name, x) = ReverseSegments(x, facade.key)
    BY <1>5 DEF Crypted
  <2> QED
    BY <1>1, <2>1, ReverseInverse DEF name
<1>6. CASE name = "rc4"
  <2>1. \A x : Crypted(facade, name, x) = Rc4(x, facade.key)
    BY <1>6 DEF Crypted
  <2> QED
    BY <1>1, <2>1, Rc4Inverse DEF name
<1>7. CASE name = "chacha20"
  <2>1. \A x : Crypted(facade, name, x) = Chacha20(x, facade.key, facade.behind)
    BY <1>7 DEF Crypted
  <2>2. Len(facade.key) + Len(facade.behind) >= 31
    BY <1>2, <1>7
  <2> DEFINE key == facade.key  behind == facade.behind
  <2>3. \A x : Crypted(facade, name, x) = Chacha20(x, key, behind)
    BY <2>1
  <2>4. key \in Seq(Byte) /\ behind \in Seq(Byte) /\ Len(key) + Len(behind) >= 31
    BY <1>1, <2>2
  <2> HIDE DEF key, behind
  <2>5. /\ Chacha20(raw, key, behind) \in Seq(Byte) /\ Len(Chacha20(raw, key, behind)) = Len(raw)
        /\ Chacha20(Chacha20(raw, key, behind), key, behind) = raw
    BY <2>4, Chacha20Inverse
  <2> QED
    BY ONLY <2>3, <2>5 DEF name
<1> QED
  BY <1>1, <1>3, <1>4, <1>5, <1>6, <1>7 DEF CodecNames

(* Crypting goes from bytes to as many bytes.                              *)
Sized(n) == { x \in Seq(Byte) : Len(x) = n }

(***************************************************************************)
(* The same, told of data of a given length: a step of encode or decode    *)
(* stays in its set.                                                       *)
(***************************************************************************)
LEMMA CryptedSized ==
  ASSUME NEW facade, FacadeOK(facade), NEW n \in 1 .. Len(facade.list), NEW size, NEW raw \in Sized(size)
  PROVE  /\ Crypted(facade, facade.list[n], raw) \in Sized(size)
         /\ Crypted(facade, facade.list[n], Crypted(facade, facade.list[n], raw)) = raw
<1>1. raw \in Seq(Byte) /\ Len(raw) = size
  BY DEF Sized
<1>2. /\ Crypted(facade, facade.list[n], raw) \in Seq(Byte)
      /\ Len(Crypted(facade, facade.list[n], raw)) = Len(raw)
      /\ Crypted(facade, facade.list[n], Crypted(facade, facade.list[n], raw)) = raw
  BY <1>1, CryptedInverse
<1> QED
  BY <1>1, <1>2 DEF Sized

(* The n-th step of a run of codecs, whose k-th is that of place at[k].    *)
CryptedStep(facade, at, size) ==
  [n \in 1 .. Len(facade.list) |-> [x \in Sized(size) |-> Crypted(facade, facade.list[at[n]], x)]]

(***************************************************************************)
(* The codecs of a facade run one after another, in any order, are a run   *)
(* of such steps.                                                          *)
(***************************************************************************)
LEMMA CryptedSteps ==
  ASSUME NEW facade, FacadeOK(facade), NEW raw \in Seq(Byte),
         NEW at \in [1 .. Len(facade.list) -> 1 .. Len(facade.list)]
  PROVE  LET last == Len(facade.list)
             after[n \in 0 .. last] ==
               IF n = 0 THEN raw ELSE Crypted(facade, facade.list[at[n]], after[n - 1])
         IN  Recurs(after, last, Sized(Len(raw)), raw, CryptedStep(facade, at, Len(raw)))
<1> DEFINE last == Len(facade.list)
           V == Sized(Len(raw))
           Step(n, x) == Crypted(facade, facade.list[at[n]], x)
           g == CryptedStep(facade, at, Len(raw))
           Is(f) == f = [n \in 0 .. last |-> IF n = 0 THEN raw ELSE Step(n, f[n - 1])]
           after == CHOOSE f : Is(f)
<1>1. last \in Nat
  BY LenProperties DEF FacadeOK
<1>2. raw \in V
  BY DEF Sized
<1>3. \A n \in 1 .. last : \A x \in V : Step(n, x) \in V
  BY CryptedSized
<1>4. g = [n \in 1 .. last |-> [x \in V |-> Step(n, x)]]
  BY DEF CryptedStep
<1>a. after = CHOOSE f : Is(f)
  OBVIOUS
<1> HIDE DEF V, Step, g
<1>5. g \in [1 .. last -> [V -> V]]
  BY <1>3, <1>4
<1>6. PICK f : Recurs(f, last, V, raw, g)
  <2> HIDE DEF last
  <2> QED
    BY <1>1, <1>2, <1>5, Recursion
<1>7. Is(f)
  <2> HIDE DEF last
  <2>1. f \in [0 .. last -> V] /\ f[0] = raw /\ \A n \in 1 .. last : f[n] = g[n][f[n - 1]]
    BY <1>6 DEF Recurs
  <2>2. ASSUME NEW n \in 1 .. last PROVE f[n] = Step(n, f[n - 1])
    <3>1. n - 1 \in 0 .. last
      BY <1>1
    <3>2. f[n] = g[n][f[n - 1]] /\ f[n - 1] \in V
      BY <2>1, <3>1
    <3> QED
      BY <1>4, <3>2
  <2>3. \A n \in 0 .. last : n # 0 => n \in 1 .. last
    BY <1>1
  <2>4. \A n \in 0 .. last : f[n] = IF n = 0 THEN raw ELSE Step(n, f[n - 1])
    BY <2>1, <2>2, <2>3
  <2>5. f = [n \in 0 .. last |-> f[n]]
    BY <2>1
  <2> QED
    BY <2>4, <2>5
<1> HIDE DEF Is, after
<1>8. Is(after)
  BY <1>7, <1>a
<1>9. Recurs(after, last, V, raw, g)
  <2> HIDE DEF last
  <2>1. after = [n \in 0 .. last |-> IF n = 0 THEN raw ELSE Step(n, after[n - 1])]
    BY <1>8 DEF Is
  <2>a. \A n \in 1 .. last : n \in 0 .. last /\ n # 0
    BY <1>1
  <2>b. 0 \in 0 .. last
    BY <1>1
  <2>c. \A n \in 0 .. last : after[n] = IF n = 0 THEN raw ELSE Step(n, after[n - 1])
    BY ONLY <2>1
  <2>d. after = [n \in 0 .. last |-> after[n]]
    BY ONLY <2>1
  <2>2. after = [n \in 0 .. last |-> after[n]] /\ after[0] = raw
        /\ \A n \in 1 .. last : after[n] = Step(n, after[n - 1])
    BY ONLY <2>a, <2>b, <2>c, <2>d
  <2>3. \A n \in 1 .. last : after[n - 1] \in V => after[n] \in V
    BY <1>3, <2>2
  <2>4. after \in [0 .. last -> V]
    BY <1>1, <1>2, <2>2, <2>3, Stays
  <2>5. ASSUME NEW n \in 1 .. last PROVE after[n] = g[n][after[n - 1]]
    <3>1. n - 1 \in 0 .. last
      BY <1>1
    <3>2. after[n - 1] \in V
      BY <2>4, <3>1
    <3> QED
      BY <1>4, <2>2, <3>2
  <2> QED
    BY <2>2, <2>4, <2>5 DEF Recurs
<1> QED
  BY <1>9 DEF after, Is, Step, V, g

(***************************************************************************)
(* Both are a run of such steps, up the list and down it.                  *)
(***************************************************************************)
LEMMA CodecRuns ==
  ASSUME NEW facade, FacadeOK(facade), NEW r \in Seq(Byte)
  PROVE  LET last == Len(facade.list)
             up == [n \in 1 .. last |-> n]
             down == [n \in 1 .. last |-> last + 1 - n] IN
         /\ \E e : Recurs(e, last, Sized(Len(r)), r, CryptedStep(facade, up, Len(r))) /\ encode(facade, r) = e[last]
         /\ \E d : Recurs(d, last, Sized(Len(r)), r, CryptedStep(facade, down, Len(r))) /\ decode(facade, r) = d[last]
<1> DEFINE last == Len(facade.list)
           up == [n \in 1 .. last |-> n]
           down == [n \in 1 .. last |-> last + 1 - n]
<1>1. last \in Nat
  BY LenProperties DEF FacadeOK
<1>2. up \in [1 .. last -> 1 .. last] /\ down \in [1 .. last -> 1 .. last]
  BY <1>1
<1>3. /\ \E e : Recurs(e, last, Sized(Len(r)), r, CryptedStep(facade, up, Len(r))) /\ encode(facade, r) = e[last]
      /\ \E d : Recurs(d, last, Sized(Len(r)), r, CryptedStep(facade, down, Len(r))) /\ decode(facade, r) = d[last]
  <2> DEFINE StepUp(n, x) == Crypted(facade, facade.list[up[n]], x)
             e == CHOOSE f : f = [n \in 0 .. last |-> IF n = 0 THEN r ELSE Crypted(facade, facade.list[up[n]], f[n - 1])]
             d == CHOOSE f : f = [n \in 0 .. last |-> IF n = 0 THEN r ELSE Crypted(facade, facade.list[down[n]], f[n - 1])]
             e0 == CHOOSE f : f = [n \in 0 .. last |-> IF n = 0 THEN r ELSE Crypted(facade, facade.list[n], f[n - 1])]
             d0 == CHOOSE f : f = [n \in 0 .. last |-> IF n = 0 THEN r ELSE Crypted(facade, facade.list[last + 1 - n], f[n - 1])]
  <2>0. ASSUME NEW at \in [1 .. last -> 1 .. last]
        PROVE  LET after[n \in 0 .. last] ==
                     IF n = 0 THEN r ELSE Crypted(facade, facade.list[at[n]], after[n - 1])
               IN  Recurs(after, last, Sized(Len(r)), r, CryptedStep(facade, at, Len(r)))
    BY CryptedSteps
  <2>1. Recurs(e, last, Sized(Len(r)), r, CryptedStep(facade, up, Len(r)))
    <3> HIDE DEF up
    <3> QED
      BY <1>2, <2>0
  <2>2. Recurs(d, last, Sized(Len(r)), r, CryptedStep(facade, down, Len(r)))
    <3> HIDE DEF down
    <3> QED
      BY <1>2, <2>0
  <2>3. e = e0
    <3>1. \A n \in 0 .. last : n # 0 => n \in 1 .. last
      BY <1>1
    <3>2. \A n \in 0 .. last : n # 0 => up[n] = n
      BY <3>1
    <3> HIDE DEF up, last
    <3>3. ASSUME NEW f
          PROVE  [n \in 0 .. last |-> IF n = 0 THEN r ELSE Crypted(facade, facade.list[up[n]], f[n - 1])]
                 = [n \in 0 .. last |-> IF n = 0 THEN r ELSE Crypted(facade, facade.list[n], f[n - 1])]
      BY <3>2
    <3> QED
      BY <3>3
  <2>4. d = d0
    <3>1. \A n \in 0 .. last : n # 0 => n \in 1 .. last
      BY <1>1
    <3>2. \A n \in 0 .. last : n # 0 => down[n] = last + 1 - n
      BY <3>1
    <3> HIDE DEF down, last
    <3>3. ASSUME NEW f
          PROVE  [n \in 0 .. last |-> IF n = 0 THEN r ELSE Crypted(facade, facade.list[down[n]], f[n - 1])]
                 = [n \in 0 .. last |-> IF n = 0 THEN r ELSE Crypted(facade, facade.list[last + 1 - n], f[n - 1])]
      BY <3>2
    <3> QED
      BY <3>3
  <2>5. encode(facade, r) = e0[last] /\ decode(facade, r) = d0[last]
    BY DEF encode, decode
  <2> HIDE DEF e, d, e0, d0, up, down
  <2> QED
    BY <2>1, <2>2, <2>3, <2>4, <2>5
<1> QED
  BY <1>3

(* A list of one codec is that codec.                                      *)
LEMMA EncodeOne ==
  ASSUME NEW facade, FacadeOK(facade), Len(facade.list) = 1, NEW raw \in Seq(Byte)
  PROVE  encode(facade, raw) = Crypted(facade, facade.list[1], raw)
<1> DEFINE up == [n \in 1 .. 1 |-> n]
           V == Sized(Len(raw))
           g == CryptedStep(facade, up, Len(raw))
<1>1. PICK e : Recurs(e, 1, V, raw, g) /\ encode(facade, raw) = e[1]
  BY CodecRuns
<1>2. e[0] = raw /\ e[1] = g[1][e[0]]
  <2>1. 1 \in 1 .. 1 /\ 1 - 1 = 0
    OBVIOUS
  <2> HIDE DEF g, V
  <2> QED
    BY <1>1, <2>1 DEF Recurs
<1>3. g = [n \in 1 .. 1 |-> [x \in V |-> Crypted(facade, facade.list[up[n]], x)]]
  BY DEF CryptedStep
<1>4. up[1] = 1 /\ 1 \in 1 .. 1
  OBVIOUS
<1>5. raw \in V
  BY DEF Sized
<1> HIDE DEF g, up, V
<1> QED
  BY <1>1, <1>2, <1>3, <1>4, <1>5

(* CodecFacade::decode() of what encode() made is what encode() was given, *)
(* whatever it was, for every list of codecs (CodecFacade.cpp:19), if the  *)
(* key is the same, and what chacha20 reads behind a short key.            *)
THEOREM DecodeEncode ==
  ASSUME NEW facade, FacadeOK(facade), NEW raw \in Seq(Byte)
  PROVE  /\ encode(facade, raw) \in Seq(Byte) /\ Len(encode(facade, raw)) = Len(raw)
         /\ decode(facade, raw) \in Seq(Byte) /\ Len(decode(facade, raw)) = Len(raw)
         /\ decode(facade, encode(facade, raw)) = raw
<1> DEFINE last == Len(facade.list)
           V == Sized(Len(raw))
           up == [n \in 1 .. last |-> n]
           down == [n \in 1 .. last |-> last + 1 - n]
<1>1. last \in Nat
  BY LenProperties DEF FacadeOK
<1>2. up \in [1 .. last -> 1 .. last] /\ down \in [1 .. last -> 1 .. last]
  BY <1>1
<1>3. ASSUME NEW r \in Seq(Byte)
      PROVE  /\ \E e : Recurs(e, last, Sized(Len(r)), r, CryptedStep(facade, up, Len(r))) /\ encode(facade, r) = e[last]
             /\ \E d : Recurs(d, last, Sized(Len(r)), r, CryptedStep(facade, down, Len(r))) /\ decode(facade, r) = d[last]
  BY CodecRuns
<1>4. PICK e : Recurs(e, last, V, raw, CryptedStep(facade, up, Len(raw))) /\ encode(facade, raw) = e[last]
  BY <1>3
<1>5. PICK w : Recurs(w, last, V, raw, CryptedStep(facade, down, Len(raw))) /\ decode(facade, raw) = w[last]
  BY <1>3
<1>6. e[last] \in V /\ w[last] \in V
  <2>1. last \in 0 .. last
    BY <1>1
  <2> HIDE DEF last, V
  <2> QED
    BY <1>4, <1>5, <2>1 DEF Recurs
<1>7. encode(facade, raw) \in Seq(Byte) /\ Len(encode(facade, raw)) = Len(raw)
      /\ decode(facade, raw) \in Seq(Byte) /\ Len(decode(facade, raw)) = Len(raw)
  BY <1>4, <1>5, <1>6 DEF Sized
<1>8. PICK d : Recurs(d, last, V, e[last], CryptedStep(facade, down, Len(raw))) /\ decode(facade, e[last]) = d[last]
  BY <1>3, <1>4, <1>7
<1>9. \A k \in 0 .. last : k \in { m \in 0 .. last : d[m] = e[last - m] }
  <2> DEFINE T == { m \in 0 .. last : d[m] = e[last - m] }
  <2>1. 0 \in T
    BY <1>1, <1>8 DEF Recurs
  <2>2. ASSUME NEW k \in 0 .. last - 1, k \in T PROVE k + 1 \in T
    <3>0. d[k] = e[last - k]
      BY <2>2
    <3> HIDE DEF last, T
    <3> DEFINE p == last - k
    <3>1. /\ k \in Nat /\ k + 1 \in 1 .. last /\ (k + 1) - 1 = k /\ k \in 0 .. last
          /\ p \in 1 .. last /\ p - 1 \in 0 .. last /\ last - (k + 1) = p - 1 /\ last + 1 - (k + 1) = p
      BY <1>1
    <3> DEFINE name == facade.list[p]
    <3>2. down[k + 1] = p /\ up[p] = p
      BY <3>1
    <3>3. d[k] = e[p]
      BY <3>0
    <3>4. e[p - 1] \in V /\ d[k] \in V
      BY <1>4, <1>8, <3>1 DEF Recurs
    <3> HIDE DEF V, up, down, p
    <3>5. d[k + 1] = CryptedStep(facade, down, Len(raw))[k + 1][d[k]]
      BY <1>8, <3>1 DEF Recurs
    <3>6. e[p] = CryptedStep(facade, up, Len(raw))[p][e[p - 1]]
      BY <1>4, <3>1 DEF Recurs
    <3>7. d[k + 1] = Crypted(facade, name, d[k]) /\ e[p] = Crypted(facade, name, e[p - 1])
      BY <3>1, <3>2, <3>4, <3>5, <3>6 DEF CryptedStep, V, last
    <3>8. Crypted(facade, name, Crypted(facade, name, e[p - 1])) = e[p - 1]
      BY <3>1, <3>4, CryptedSized DEF V, last
    <3>9. d[k + 1] = e[last - (k + 1)]
      BY <3>1, <3>3, <3>7, <3>8
    <3>10. k + 1 \in 0 .. last
      BY <3>1
    <3> QED
      BY <3>9, <3>10 DEF T
  <2> HIDE DEF T, last
  <2>3. \A n \in 0 .. last : n \in T
    BY <1>1, <2>1, <2>2, UpTo
  <2> QED
    BY <2>3 DEF T
<1>10. decode(facade, e[last]) = raw
  <2>1. last \in 0 .. last /\ last - last = 0
    BY <1>1
  <2>2. d[last] = e[0]
    BY <1>9, <2>1
  <2> QED
    BY <1>4, <1>8, <2>2 DEF Recurs
<1> QED
  BY <1>4, <1>7, <1>10

-----------------------------------------------------------------------------
(* Varints.                                                                *)

(* The groups of a word have seven bits each, the last of them four, and   *)
(* make up the word.                                                       *)
LEMMA GroupsAre ==
  ASSUME NEW w \in Word
  PROVE  LET g == Groups(w) IN
         /\ \A k \in 1 .. 5 : g[k] \in Nat /\ g[k] < 128
         /\ g[5] < 16
         /\ w = << (g[3] \div 4) + 32 * g[4] + 4096 * g[5], g[1] + 128 * g[2] + 16384 * (g[3] % 4) >>
<1> DEFINE h == w[1]  l == w[2]
           g1 == l % 128
           g2 == (l \div 128) % 128
           g3 == (l \div 16384) + 4 * (h % 32)
           g4 == (h \div 32) % 128
           g5 == h \div 4096
<1>1. w = << h, l >> /\ h \in Nat /\ h < 65536 /\ l \in Nat /\ l < 65536
  BY SMT, WordIs
<1>2. Groups(w) = << g1, g2, g3, g4, g5 >>
  BY DEF Groups
<1> HIDE DEF h, l
<1>3. g1 \in Nat /\ g1 < 128 /\ g2 \in Nat /\ g2 < 128
  BY SMT, <1>1
<1>4. l \div 16384 \in Nat /\ l \div 16384 < 4 /\ h % 32 \in Nat /\ h % 32 < 32
  BY SMT, <1>1
<1>5. g3 \in Nat /\ g3 < 128 /\ g3 \div 4 = h % 32 /\ g3 % 4 = l \div 16384
  <2> DEFINE a == l \div 16384  c == h % 32
  <2>1. a \in Nat /\ a < 4 /\ c \in Nat /\ c < 32
    BY <1>4
  <2> HIDE DEF a, c
  <2>2. a + 4 * c \in Nat /\ a + 4 * c < 128 /\ (a + 4 * c) \div 4 = c /\ (a + 4 * c) % 4 = a
    BY SMT, <2>1
  <2> QED
    BY <2>2 DEF a, c
<1>6. g4 \in Nat /\ g4 < 128
  BY SMT, <1>1
<1>7. g5 \in Nat /\ g5 < 16
  BY SMT, <1>1
<1>8. h = (h % 32) + 32 * ((h \div 32) % 128) + 4096 * (h \div 4096)
  BY SMT, <1>1
<1>9. l = (l % 128) + 128 * ((l \div 128) % 128) + 16384 * (l \div 16384)
  BY SMT, <1>1
<1>10. w = << (g3 \div 4) + 32 * g4 + 4096 * g5, g1 + 128 * g2 + 16384 * (g3 % 4) >>
  BY SMT, <1>1, <1>5, <1>8, <1>9
<1> HIDE DEF g1, g2, g3, g4, g5
<1> DEFINE g == Groups(w)
<1>11. g[1] = g1 /\ g[2] = g2 /\ g[3] = g3 /\ g[4] = g4 /\ g[5] = g5
  BY <1>2
<1> HIDE DEF g
<1>12. \A k \in 1 .. 5 : g[k] \in Nat /\ g[k] < 128
  BY SMT, <1>3, <1>5, <1>6, <1>7, <1>11
<1>13. g[5] < 16
  BY SMT, <1>7, <1>11
<1>14. w = << (g[3] \div 4) + 32 * g[4] + 4096 * g[5], g[1] + 128 * g[2] + 16384 * (g[3] % 4) >>
  BY SMT, <1>10, <1>11
<1> QED
  BY <1>12, <1>13, <1>14 DEF g

(* How many of them are written.                                           *)
Last7(g, n) == (n = 1 \/ g[n] # 0) /\ \A j \in n + 1 .. 5 : g[j] = 0

(* A number of five groups has one last group.                             *)
LEMMA LastGroup ==
  ASSUME NEW g, \A k \in 1 .. 5 : g[k] \in Nat
  PROVE  /\ \E n \in 1 .. 5 : Last7(g, n)
         /\ \A n, m \in 1 .. 5 : Last7(g, n) /\ Last7(g, m) => n = m
<1>1. \E n \in 1 .. 5 : Last7(g, n)
  BY SMT DEF Last7
<1>2. \A n, m \in 1 .. 5 : Last7(g, n) /\ Last7(g, m) => ~ n < m
  BY SMT DEF Last7
<1> QED
  BY SMT, <1>1, <1>2

(* A varint by its groups.                                                 *)
LEMMA VarintIs ==
  ASSUME NEW w \in Word
  PROVE  LET g == Groups(w) IN
         \E n \in 1 .. 5 : /\ Last7(g, n)
                           /\ Varint(w) = [i \in 1 .. n |-> IF i < n THEN g[i] + 128 ELSE g[i]]
<1> DEFINE g == Groups(w)
           n == CHOOSE i \in 1 .. 5 : (i = 1 \/ g[i] # 0) /\ \A j \in i + 1 .. 5 : g[j] = 0
<1>1. \A k \in 1 .. 5 : g[k] \in Nat
  BY GroupsAre
<1>2. Varint(w) = [i \in 1 .. n |-> IF i < n THEN g[i] + 128 ELSE g[i]]
  BY DEF Varint
<1> HIDE DEF g
<1>3. \E i \in 1 .. 5 : Last7(g, i)
  BY <1>1, LastGroup
<1>4. n \in 1 .. 5 /\ Last7(g, n)
  BY <1>3 DEF Last7
<1> HIDE DEF n
<1> QED
  BY <1>2, <1>4 DEF g

(* A varint is one to five bytes, as many as UInt32Size says.              *)
LEMMA VarintType ==
  ASSUME NEW w \in Word
  PROVE  Varint(w) \in Seq(Byte) /\ Len(Varint(w)) \in 1 .. 5 /\ Len(Varint(w)) = UInt32Size(w)
<1> DEFINE g == Groups(w)  h == w[1]  l == w[2]
<1>1. PICK n \in 1 .. 5 : /\ Last7(g, n)
                          /\ Varint(w) = [i \in 1 .. n |-> IF i < n THEN g[i] + 128 ELSE g[i]]
  BY VarintIs
<1>2. (\A k \in 1 .. 5 : g[k] \in Nat /\ g[k] < 128) /\ g[5] < 16
  BY GroupsAre
<1>3. h \in Nat /\ h < 65536 /\ l \in Nat /\ l < 65536
  BY SMT, WordIs
<1>4. /\ g[1] = l % 128 /\ g[2] = (l \div 128) % 128
      /\ g[3] = (l \div 16384) + 4 * (h % 32) /\ g[4] = (h \div 32) % 128 /\ g[5] = h \div 4096
  BY DEF Groups
<1>a. UInt32Size(w) = CASE h = 0 /\ l < 128 -> 1
                        [] h = 0 /\ l >= 128 /\ l < 16384 -> 2
                        [] h < 32 /\ (h > 0 \/ l >= 16384) -> 3
                        [] h >= 32 /\ h < 4096 -> 4
                        [] h >= 4096 -> 5
  BY DEF UInt32Size
<1> HIDE DEF g, h, l
<1>5. \A i \in 1 .. n : i \in 1 .. 5
  BY <1>1
<1>6. \A i \in 1 .. n : (IF i < n THEN g[i] + 128 ELSE g[i]) \in Byte
  <2>1. \A x \in Nat : x < 128 => x \in Byte /\ x + 128 \in Byte
    BY SMT, BelowByte
  <2> QED
    BY <1>2, <1>5, <2>1
<1>7. Varint(w) \in Seq(Byte) /\ Len(Varint(w)) = n
  BY <1>1, <1>6
<1>8. /\ g[5] # 0 <=> h >= 4096
      /\ g[5] = 0 => (g[4] # 0 <=> h >= 32)
      /\ g[5] = 0 /\ g[4] = 0 => (g[3] # 0 <=> h > 0 \/ l >= 16384)
      /\ g[5] = 0 /\ g[4] = 0 /\ g[3] = 0 => (g[2] # 0 <=> l >= 128)
  <2>1. h \div 4096 # 0 <=> h >= 4096
    BY SMT, <1>3
  <2>2. h < 4096 => ((h \div 32) % 128 # 0 <=> h >= 32)
    BY SMT, <1>3
  <2>3. h < 32 => ((l \div 16384) + 4 * (h % 32) # 0 <=> h > 0 \/ l >= 16384)
    BY SMT, <1>3
  <2>4. l < 16384 => ((l \div 128) % 128 # 0 <=> l >= 128)
    BY SMT, <1>3
  <2> QED
    BY SMT, <1>3, <1>4, <2>1, <2>2, <2>3, <2>4
<1>9. UInt32Size(w) = n
  <2>1. /\ n = 5 => g[5] # 0
        /\ n = 4 => g[5] = 0 /\ g[4] # 0
        /\ n = 3 => g[5] = 0 /\ g[4] = 0 /\ g[3] # 0
        /\ n = 2 => g[5] = 0 /\ g[4] = 0 /\ g[3] = 0 /\ g[2] # 0
        /\ n = 1 => g[5] = 0 /\ g[4] = 0 /\ g[3] = 0 /\ g[2] = 0
    BY SMT, <1>1 DEF Last7
  <2>2. CASE n = 1
    <3>1. h = 0 /\ l < 128
      BY SMT, <2>1, <2>2, <1>3, <1>8
    <3> QED
      BY SMT, <3>1, <2>2, <1>3, <1>a
  <2>3. CASE n = 2
    <3>1. h = 0 /\ l >= 128 /\ l < 16384
      BY SMT, <2>1, <2>3, <1>3, <1>8
    <3> QED
      BY SMT, <3>1, <2>3, <1>3, <1>a
  <2>4. CASE n = 3
    <3>1. h < 32 /\ (h > 0 \/ l >= 16384)
      BY SMT, <2>1, <2>4, <1>3, <1>8
    <3> QED
      BY SMT, <3>1, <2>4, <1>a, <1>3
  <2>5. CASE n = 4
    <3>1. h >= 32 /\ h < 4096
      BY SMT, <2>1, <2>5, <1>3, <1>8
    <3> QED
      BY SMT, <3>1, <2>5, <1>a, <1>3
  <2>6. CASE n = 5
    <3>1. h >= 4096
      BY SMT, <2>1, <2>6, <1>3, <1>8
    <3> QED
      BY SMT, <3>1, <2>6, <1>a, <1>3
  <2> QED
    BY SMT, <1>1, <2>2, <2>3, <2>4, <2>5, <2>6
<1> QED
  BY <1>7, <1>9

(* c stands in b from place i on.                                          *)
StandsAt(c, b, i) ==
  /\ i \in Nat \ {0} /\ i + Len(c) <= Len(b) + 1
  /\ \A k \in 1 .. Len(c) : b[i + k - 1] = c[k]

(* A varint is read as it was written, wherever it stands.                 *)
LEMMA VarintRead ==
  ASSUME NEW w \in Word, NEW b, Len(b) \in Nat, NEW i, StandsAt(Varint(w), b, i)
  PROVE  ReadVarint(b, i) = [val |-> w, behind |-> i + Len(Varint(w))]
<1> DEFINE g == Groups(w)
           Stops == { j \in i .. i + 9 : j <= Len(b) /\ b[j] < 128 }
           end == CHOOSE j \in Stops : \A k \in Stops : j <= k
           r == [k \in 1 .. 5 |-> IF i + k - 1 <= end THEN b[i + k - 1] % 128 ELSE 0]
<1>1. PICK n \in 1 .. 5 : /\ Last7(g, n)
                          /\ Varint(w) = [k \in 1 .. n |-> IF k < n THEN g[k] + 128 ELSE g[k]]
  BY VarintIs
<1>2. (\A k \in 1 .. 5 : g[k] \in Nat /\ g[k] < 128) /\ g[5] < 16
      /\ w = << (g[3] \div 4) + 32 * g[4] + 4096 * g[5], g[1] + 128 * g[2] + 16384 * (g[3] % 4) >>
  BY GroupsAre
<1>b. \A k \in 1 .. 5 : g[k] \in Nat /\ g[k] < 128
  BY GroupsAre
<1>a. ReadVarint(b, i) =
        IF Stops = {} THEN [val |-> W(0), behind |-> 0]
        ELSE [val |-> << (r[3] \div 4) + 32 * r[4] + 4096 * (r[5] % 16),
                         r[1] + 128 * r[2] + 16384 * (r[3] % 4) >>,
              behind |-> end + 1]
  BY DEF ReadVarint
<1>3. Len(Varint(w)) = n
  BY <1>1
<1>4. i \in Nat \ {0} /\ i + n <= Len(b) + 1
      /\ \A k \in 1 .. n : b[i + k - 1] = IF k < n THEN g[k] + 128 ELSE g[k]
  BY <1>1, <1>3 DEF StandsAt
<1> HIDE DEF g
<1>5. i + n - 1 \in Stops
  <2>1. n \in 1 .. n /\ i + n - 1 \in i .. i + 9 /\ i + n - 1 <= Len(b)
    BY <1>1, <1>4
  <2>2. b[i + n - 1] = g[n]
    BY <1>4, <2>1
  <2>3. g[n] < 128
    BY ONLY <1>b, n \in 1 .. 5
  <2>4. b[i + n - 1] < 128
    BY ONLY <2>2, <2>3
  <2> QED
    BY ONLY <2>1, <2>4
<1>6. \A j \in Stops : i + n - 1 <= j
  <2> SUFFICES ASSUME NEW j \in Stops, j < i + n - 1 PROVE FALSE
    BY <1>4
  <2>1. j \in Int /\ i <= j /\ b[j] < 128
    OBVIOUS
  <2> DEFINE k == j - i + 1
  <2>2. k \in 1 .. n /\ k < n /\ k \in 1 .. 5 /\ i + k - 1 = j
    BY <1>1, <1>4, <2>1
  <2> HIDE DEF k
  <2>3. b[j] = g[k] + 128
    BY <1>4, <2>2
  <2>4. g[k] \in Nat
    BY ONLY <1>b, <2>2
  <2> QED
    BY ONLY <2>1, <2>3, <2>4
<1>7. end = i + n - 1
  <2>1. end \in Stops /\ \A k \in Stops : end <= k
    BY <1>5, <1>6
  <2>2. end \in Int
    BY <1>4, <2>1
  <2> HIDE DEF end, Stops
  <2> QED
    BY <1>4, <1>5, <1>6, <2>1, <2>2
<1>8. \A k \in 1 .. 5 : r[k] = g[k]
  <2> TAKE k \in 1 .. 5
  <2>1. \A x \in Nat : x < 128 => x % 128 = x /\ (x + 128) % 128 = x
    BY SMT
  <2>2. r[k] = IF i + k - 1 <= i + n - 1 THEN b[i + k - 1] % 128 ELSE 0
    BY <1>7
  <2> HIDE DEF r
  <2>3. CASE k <= n
    <3>1. k \in 1 .. n /\ i + k - 1 <= i + n - 1
      BY <1>1, <1>4, <2>3
    <3>2. r[k] = b[i + k - 1] % 128
      BY <2>2, <3>1
    <3>3. b[i + k - 1] = g[k] + 128 \/ b[i + k - 1] = g[k]
      BY <1>4, <3>1
    <3>4. g[k] \in Nat /\ g[k] < 128
      BY ONLY <1>b, k \in 1 .. 5
    <3>5. g[k] % 128 = g[k] /\ (g[k] + 128) % 128 = g[k]
      BY <2>1, <3>4
    <3> QED
      BY ONLY <3>2, <3>3, <3>5
  <2>4. CASE k > n
    <3>1. k \in n + 1 .. 5 /\ ~ i + k - 1 <= i + n - 1
      BY <1>1, <1>4, <2>4
    <3>2. g[k] = 0
      BY <1>1, <3>1 DEF Last7
    <3> QED
      BY <2>2, <3>1, <3>2
  <2> QED
    BY <1>1, <2>3, <2>4
<1>9. r[1] = g[1] /\ r[2] = g[2] /\ r[3] = g[3] /\ r[4] = g[4] /\ r[5] = g[5]
  BY <1>8
<1>10. g[5] % 16 = g[5]
  <2>1. \A x \in Nat : x < 16 => x % 16 = x
    BY SMT
  <2>2. g[5] \in Nat /\ g[5] < 16
    BY <1>2, <1>b
  <2> QED
    BY <2>1, <2>2
<1>11. end + 1 = i + n
  <2>1. i + n - 1 + 1 = i + n
    BY <1>4
  <2> QED
    BY ONLY <1>7, <2>1
<1>12. Stops # {}
  BY <1>5
<1> HIDE DEF r, Stops, end
<1>13. ReadVarint(b, i) =
         [val |-> << (g[3] \div 4) + 32 * g[4] + 4096 * g[5], g[1] + 128 * g[2] + 16384 * (g[3] % 4) >>,
          behind |-> i + n]
  BY <1>a, <1>9, <1>10, <1>11, <1>12
<1>14. w = << (g[3] \div 4) + 32 * g[4] + 4096 * g[5], g[1] + 128 * g[2] + 16384 * (g[3] % 4) >>
  BY <1>2
<1> QED
  BY ONLY <1>3, <1>13, <1>14

(* A length below 2^28 is an int of its own.                               *)
Lengths == { n \in Nat : n < 268435456 }

(* A length a message may have, as the word the code holds it in.          *)
LEMMA LengthIs ==
  ASSUME NEW n \in Lengths
  PROVE  /\ W(n) \in Word /\ W(n)[1] < 4096 /\ 65536 * W(n)[1] + W(n)[2] = n
<1>1. n \in Nat /\ n < 268435456
  BY DEF Lengths
<1>2. n \div 65536 \in Nat /\ n \div 65536 < 4096 /\ n = 65536 * (n \div 65536) + (n % 65536)
  BY SMT, <1>1
<1>3. (n \div 65536) % 65536 = n \div 65536
  <2>1. \A x \in Nat : x < 4096 => x % 65536 = x
    BY SMT
  <2> QED
    BY SMT, <1>2, <2>1
<1>4. W(n) = << n \div 65536, n % 65536 >>
  BY SMT, <1>3 DEF W, Half
<1> QED
  BY SMT, <1>1, <1>2, <1>4, WType

(* Bytes are read as they were written, with their length before them.     *)
LEMMA BytesRead ==
  ASSUME NEW s \in Seq(Byte), Len(s) \in Lengths, NEW b \in Seq(Byte), NEW i,
         StandsAt(Varint(W(Len(s))) \o s, b, i)
  PROVE  ReadBytes(b, i) = [val |-> s, behind |-> i + Len(Varint(W(Len(s)))) + Len(s)]
<1> DEFINE w == W(Len(s))
           v == Varint(w)
           size == ReadVarint(b, i)
           first == size.behind
           length == Half * size.val[1] + size.val[2]
<1>1. w \in Word /\ w[1] < 4096 /\ 65536 * w[1] + w[2] = Len(s)
  BY LengthIs
<1>a. ReadBytes(b, i) =
        IF first = 0 \/ size.val[1] >= Half \div 2 \/ length > Len(b) + 1 - first
        THEN [val |-> << >>, behind |-> 0]
        ELSE [val |-> SubSeq(b, first, first + length - 1), behind |-> first + length]
  BY DEF ReadBytes
<1>b. w = W(Len(s))
  OBVIOUS
<1> HIDE DEF w
<1>2. v \in Seq(Byte) /\ Len(v) \in 1 .. 5
  BY <1>1, VarintType
<1>3. StandsAt(v \o s, b, i)
  BY <1>b
<1>c. Len(s) \in Nat /\ Len(b) \in Nat /\ Len(v) \in Nat /\ Len(v) >= 1
  <2>1. Len(s) \in Nat /\ Len(b) \in Nat
    BY LenProperties
  <2>2. \A x \in 1 .. 5 : x \in Nat /\ x >= 1
    OBVIOUS
  <2> QED
    BY ONLY <1>2, <2>1, <2>2
<1>d. v = Varint(w)
  OBVIOUS
<1> HIDE DEF v
<1>4. Len(v \o s) = Len(v) + Len(s) /\ \A k \in 1 .. Len(v) + Len(s) : (v \o s)[k] = IF k <= Len(v) THEN v[k] ELSE s[k - Len(v)]
  BY <1>2, ConcatProperties
<1>5. i \in Nat \ {0} /\ i + (Len(v) + Len(s)) <= Len(b) + 1
      /\ \A k \in 1 .. Len(v) + Len(s) : b[i + k - 1] = (v \o s)[k]
  BY <1>3, <1>4 DEF StandsAt
<1>6. StandsAt(v, b, i)
  <2>1. i + Len(v) <= Len(b) + 1
    BY <1>c, <1>5
  <2>2. \A k \in 1 .. Len(v) : k \in 1 .. Len(v) + Len(s) /\ k <= Len(v)
    BY <1>c
  <2>3. \A k \in 1 .. Len(v) : b[i + k - 1] = v[k]
    BY <1>4, <1>5, <2>2
  <2> QED
    BY <1>5, <2>1, <2>3 DEF StandsAt
<1>7. size = [val |-> w, behind |-> i + Len(v)]
  BY <1>1, <1>6, <1>c, <1>d, VarintRead
<1>8. size.val = w /\ first = i + Len(v)
  BY <1>7
<1> HIDE DEF size
<1>9. length = Len(s)
  BY SMT, <1>1, <1>8 DEF Half
<1>10. ~ w[1] >= Half \div 2
  <2>1. w[1] \in Nat
    BY <1>1, WordIs
  <2> QED
    BY SMT, <1>1, <2>1 DEF Half
<1> DEFINE n == Len(s)  p == i + Len(v)
<1>11. p \in Nat \ {0} /\ n \in Nat /\ p + n <= Len(b) + 1
  BY <1>c, <1>5
<1>12. \A k \in 1 .. n : b[p + k - 1] = s[k]
  <2> TAKE k \in 1 .. n
  <2>1. Len(v) + k \in 1 .. Len(v) + Len(s) /\ ~ Len(v) + k <= Len(v) /\ (Len(v) + k) - Len(v) = k
        /\ i + (Len(v) + k) - 1 = p + k - 1
    BY <1>c, <1>5
  <2> QED
    BY <1>4, <1>5, <2>1
<1>13. SubSeq(b, p, p + n - 1) = s
  <2>e. s \in Seq(Byte) /\ n = Len(s)
    OBVIOUS
  <2> HIDE DEF p, n
  <2>1. SubSeq(b, p, p + n - 1) = [k \in 1 .. n |-> b[p + k - 1]]
    <3>1. p + n - 1 - p + 1 = n
      BY <1>11
    <3> QED
      BY <1>11, <3>1
  <2>2. s = [k \in 1 .. n |-> s[k]]
    BY <2>e
  <2> QED
    BY <1>12, <2>1, <2>2
<1>14. ~ p = 0 /\ ~ n > Len(b) + 1 - p
  BY <1>c, <1>11
<1> HIDE DEF length
<1>15. ReadBytes(b, i) = [val |-> SubSeq(b, p, p + n - 1), behind |-> p + n]
  BY <1>a, <1>8, <1>9, <1>10, <1>14
<1> QED
  BY <1>13, <1>15, <1>b, <1>d

(* Whatever the bytes, a varint that is read is a word, and what stands    *)
(* behind it is in the bytes or at their end.                              *)
Behind(r, b, i) == r.behind = 0 \/ (r.behind \in i + 1 .. Len(b) + 1)

(***************************************************************************)
(* A varint read is a word, and the place behind it lies behind where the  *)
(* reading began.                                                          *)
(***************************************************************************)
LEMMA ReadVarintType ==
  ASSUME NEW b \in Seq(Byte), NEW i \in Nat \ {0}
  PROVE  ReadVarint(b, i).val \in Word /\ Behind(ReadVarint(b, i), b, i)
<1> DEFINE Stops == { j \in i .. i + 9 : j <= Len(b) /\ b[j] < 128 }
           end == CHOOSE j \in Stops : \A k \in Stops : j <= k
           g == [k \in 1 .. 5 |-> IF i + k - 1 <= end THEN b[i + k - 1] % 128 ELSE 0]
           r == ReadVarint(b, i)
<1>a. r = IF Stops = {} THEN [val |-> W(0), behind |-> 0]
          ELSE [val |-> << (g[3] \div 4) + 32 * g[4] + 4096 * (g[5] % 16),
                           g[1] + 128 * g[2] + 16384 * (g[3] % 4) >>,
                behind |-> end + 1]
  BY DEF ReadVarint
<1>0. Len(b) \in Nat
  BY LenProperties
<1>1. CASE Stops = {}
  <2>1. r.val = W(0) /\ r.behind = 0
    BY <1>1, <1>a
  <2>2. 0 \in Nat
    OBVIOUS
  <2> QED
    BY <2>1, <2>2, WType DEF Behind
<1>2. CASE Stops # {}
  <2>1. \E j \in Stops : \A k \in Stops : j <= k
    <3> DEFINE T == { d \in Nat : \A j \in Stops : j - i = d => \E m \in Stops : \A k \in Stops : m <= k }
               U == { d \in Nat : \A j \in Stops : j - i < d => \E m \in Stops : \A k \in Stops : m <= k }
    <3>1. 0 \in U
      BY <1>0
    <3>2. ASSUME NEW d \in Nat, d \in U PROVE d + 1 \in U
      <4> SUFFICES ASSUME NEW j \in Stops, j - i < d + 1 PROVE \E m \in Stops : \A k \in Stops : m <= k
        OBVIOUS
      <4>1. CASE \A k \in Stops : j <= k
        BY <4>1
      <4>2. CASE \E k \in Stops : ~ j <= k
        <5>1. PICK k \in Stops : ~ j <= k
          BY <4>2
        <5>2. k - i < d
          <6>1. j \in Int /\ k \in Int
            OBVIOUS
          <6> QED
            BY <5>1, <6>1
        <5> QED
          BY <3>2, <5>2
      <4> QED
        BY <4>1, <4>2
    <3> HIDE DEF U
    <3>3. \A d \in Nat : d \in U
      BY <3>1, <3>2, Induction
    <3>4. PICK j \in Stops : TRUE
      BY <1>2
    <3>5. j - i + 1 \in Nat /\ j - i < j - i + 1
      BY <3>4
    <3>6. j - i + 1 \in U
      BY <3>3, <3>5
    <3> QED
      BY <3>4, <3>5, <3>6 DEF U
  <2>2. end \in Stops
    BY <2>1
  <2>3. end \in i .. i + 9 /\ end <= Len(b)
    BY <2>2
  <2>b. \A k \in 1 .. 5 : g[k] = IF i + k - 1 <= end THEN b[i + k - 1] % 128 ELSE 0
    OBVIOUS
  <2> HIDE DEF Stops, end, g
  <2>4. \A k \in 1 .. 5 : g[k] \in Nat /\ g[k] < 128
    <3> TAKE k \in 1 .. 5
    <3>1. CASE i + k - 1 <= end
      <4>1. i + k - 1 \in 1 .. Len(b)
        BY <1>0, <2>3, <3>1
      <4>2. b[i + k - 1] \in Nat
        BY <4>1, BelowByte, ElementOfSeq
      <4>3. \A x \in Nat : x % 128 \in Nat /\ x % 128 < 128
        BY SMT
      <4> QED
        BY <2>b, <3>1, <4>2, <4>3
    <3>2. CASE ~ i + k - 1 <= end
      <4>1. g[k] = 0
        BY ONLY <2>b, <3>2, k \in 1 .. 5
      <4> QED
        BY SMT, <4>1
    <3> QED
      BY <3>1, <3>2
  <2>5. /\ g[1] \in Nat /\ g[1] < 128 /\ g[2] \in Nat /\ g[2] < 128 /\ g[3] \in Nat /\ g[3] < 128
        /\ g[4] \in Nat /\ g[4] < 128 /\ g[5] \in Nat /\ g[5] < 128
    BY <2>4
  <2>6. \A x, y, z \in Nat : x < 128 /\ y < 128 /\ z < 128 =>
           /\ (x \div 4) + 32 * y + 4096 * (z % 16) \in Nat /\ (x \div 4) + 32 * y + 4096 * (z % 16) < 65536
           /\ z + 128 * y + 16384 * (x % 4) \in Nat /\ z + 128 * y + 16384 * (x % 4) < 65536
    <3> TAKE x, y, z \in Nat
    <3> HAVE x < 128 /\ y < 128 /\ z < 128
    <3>1. x \div 4 \in Nat /\ x \div 4 < 32 /\ x % 4 \in Nat /\ x % 4 < 4 /\ z % 16 \in Nat /\ z % 16 < 16
      BY SMT
    <3> QED
      BY SMT, <3>1
  <2>7. << (g[3] \div 4) + 32 * g[4] + 4096 * (g[5] % 16), g[1] + 128 * g[2] + 16384 * (g[3] % 4) >> \in Word
    <3> DEFINE g1 == g[1]  g2 == g[2]  g3 == g[3]  g4 == g[4]  g5 == g[5]
    <3>0. /\ g1 \in Nat /\ g1 < 128 /\ g2 \in Nat /\ g2 < 128 /\ g3 \in Nat /\ g3 < 128
          /\ g4 \in Nat /\ g4 < 128 /\ g5 \in Nat /\ g5 < 128
      BY <2>5
    <3> HIDE DEF g1, g2, g3, g4, g5
    <3>1. /\ (g3 \div 4) + 32 * g4 + 4096 * (g5 % 16) \in Nat
          /\ (g3 \div 4) + 32 * g4 + 4096 * (g5 % 16) < 65536
      BY ONLY SMT, <3>0, <2>6
    <3>2. /\ g1 + 128 * g2 + 16384 * (g3 % 4) \in Nat
          /\ g1 + 128 * g2 + 16384 * (g3 % 4) < 65536
      BY ONLY SMT, <3>0, <2>6
    <3>3. << (g3 \div 4) + 32 * g4 + 4096 * (g5 % 16), g1 + 128 * g2 + 16384 * (g3 % 4) >> \in Word
      BY ONLY SMT, <3>1, <3>2, WordIs
    <3> QED
      BY <3>3 DEF g1, g2, g3, g4, g5
  <2>8. r.val = << (g[3] \div 4) + 32 * g[4] + 4096 * (g[5] % 16), g[1] + 128 * g[2] + 16384 * (g[3] % 4) >>
        /\ r.behind = end + 1
    BY <1>2, <1>a
  <2>9. end + 1 \in i + 1 .. Len(b) + 1
    BY <1>0, <2>3
  <2> QED
    BY <2>7, <2>8, <2>9 DEF Behind
<1> QED
  BY <1>1, <1>2

(* So are the bytes that are read.                                         *)
LEMMA ReadBytesType ==
  ASSUME NEW b \in Seq(Byte), NEW i \in Nat \ {0}
  PROVE  ReadBytes(b, i).val \in Seq(Byte) /\ Behind(ReadBytes(b, i), b, i)
<1> DEFINE size == ReadVarint(b, i)
           first == size.behind
           length == Half * size.val[1] + size.val[2]
           Failing == first = 0 \/ size.val[1] >= Half \div 2 \/ length > Len(b) + 1 - first
           r == ReadBytes(b, i)
<1>a. r = IF Failing THEN [val |-> << >>, behind |-> 0]
          ELSE [val |-> SubSeq(b, first, first + length - 1), behind |-> first + length]
  BY DEF ReadBytes
<1> HIDE DEF r
<1>0. Len(b) \in Nat
  BY LenProperties
<1>1. CASE Failing
  <2>1. r.val = << >> /\ r.behind = 0
    <3> HIDE DEF Failing
    <3>1. r = [val |-> << >>, behind |-> 0]
      BY ONLY <1>1, <1>a
    <3> QED
      BY ONLY <3>1
  <2> QED
    BY <2>1 DEF Behind, r
<1>2. CASE ~ Failing
  <2>1. size.val \in Word /\ Behind(size, b, i)
    BY ReadVarintType
  <2>2. first \in i + 1 .. Len(b) + 1
    BY <1>2, <2>1 DEF Behind
  <2>c. r.val = SubSeq(b, first, first + length - 1) /\ r.behind = first + length
    <3> HIDE DEF Failing, first, length
    <3>1. r = [val |-> SubSeq(b, first, first + length - 1), behind |-> first + length]
      BY ONLY <1>2, <1>a
    <3> QED
      BY ONLY <3>1
  <2>d. ~ length > Len(b) + 1 - first
    BY <1>2
  <2>e. length = Half * size.val[1] + size.val[2]
    OBVIOUS
  <2> HIDE DEF length, size, Failing
  <2>3. length \in Nat
    <3>1. size.val[1] \in Nat /\ size.val[2] \in Nat
      BY <2>1, WordIs
    <3> QED
      BY SMT, <3>1, <2>e DEF Half
  <2> HIDE DEF first
  <2>4. first + length - 1 <= Len(b) /\ first + length - 1 >= first - 1 /\ first >= 1 /\ first \in Int /\ first + length - 1 \in Int
    BY <1>0, <2>2, <2>3, <2>d
  <2>5. SubSeq(b, first, first + length - 1) \in Seq(Byte)
    <3>1. \A k \in first .. first + length - 1 : k \in 1 .. Len(b)
      BY <1>0, <2>4
    <3>2. \A k \in first .. first + length - 1 : b[k] \in Byte
      BY <3>1, ElementOfSeq
    <3> HIDE DEF r
    <3> QED
      BY <2>4, <3>2, SubSeqProperties
  <2>6. first + length \in i + 1 .. Len(b) + 1
    BY <1>0, <2>2, <2>3, <2>4
  <2> QED
    BY <2>c, <2>5, <2>6 DEF Behind, r
<1> QED
  BY <1>1, <1>2 DEF r

-----------------------------------------------------------------------------
(* Messages of a table of fields: no name and no number comes twice, and a *)
(* tag takes one byte.                                                     *)
FieldsOK(fields) ==
  /\ Len(fields) \in Nat \ {0} /\ DOMAIN fields = 1 .. Len(fields)
  /\ \A i \in DOMAIN fields :
       /\ fields[i].tag \in 1 .. 127 /\ fields[i].bytes \in BOOLEAN
       /\ fields[i].tag % 8 = IF fields[i].bytes THEN 2 ELSE 0
  /\ \A i, j \in DOMAIN fields :
       fields[i].name = fields[j].name \/ fields[i].tag = fields[j].tag => i = j

Holds(field) == IF field.bytes THEN Seq(Byte) ELSE Word
Names(fields) == { fields[i].name : i \in DOMAIN fields }

MessagesOf(fields) ==
  { m \in UNION { [D -> Seq(Byte) \cup Word] : D \in SUBSET Names(fields) } :
      \A i \in DOMAIN fields : Has(m, fields[i].name) => m[fields[i].name] \in Holds(fields[i]) }

(***************************************************************************)
(* A message holds some of its fields, each with a value that the field    *)
(* may hold.                                                               *)
(***************************************************************************)
LEMMA MessagesAre ==
  ASSUME NEW fields, NEW m
  PROVE  m \in MessagesOf(fields) <=>
           /\ DOMAIN m \subseteq Names(fields) /\ m = [x \in DOMAIN m |-> m[x]]
           /\ \A i \in DOMAIN fields : Has(m, fields[i].name) => m[fields[i].name] \in Holds(fields[i])
<1> DEFINE Typed == \A i \in DOMAIN fields : Has(m, fields[i].name) => m[fields[i].name] \in Holds(fields[i])
           V == Seq(Byte) \cup Word
           N == Names(fields)
<1>1. m \in MessagesOf(fields) <=> (\E D \in SUBSET N : m \in [D -> V]) /\ Typed
  BY DEF MessagesOf
<1>2. ASSUME NEW D \in SUBSET N, m \in [D -> V]
      PROVE  DOMAIN m \subseteq N /\ m = [x \in DOMAIN m |-> m[x]]
  <2> HIDE DEF V, N
  <2> QED
    BY <1>2
<1>3. ASSUME DOMAIN m \subseteq N, m = [x \in DOMAIN m |-> m[x]], Typed
      PROVE  \E D \in SUBSET N : m \in [D -> V]
  <2>1. ASSUME NEW x \in DOMAIN m PROVE m[x] \in V
    <3>1. PICK i \in DOMAIN fields : x = fields[i].name
      BY <1>3 DEF Names
    <3>2. m[x] \in Holds(fields[i])
      BY <1>3, <3>1 DEF Has
    <3> QED
      BY <3>2 DEF Holds
  <2> HIDE DEF V, N
  <2>2. m \in [DOMAIN m -> V]
    BY <1>3, <2>1
  <2> QED
    BY <1>3, <2>2
<1> QED
  BY <1>1, <1>2, <1>3

(* The empty message is a message of every table.                          *)
LEMMA ClearType ==
  ASSUME NEW fields
  PROVE  Clear \in MessagesOf(fields) /\ DOMAIN Clear = {}
<1>1. DOMAIN Clear = {} /\ Clear = [x \in DOMAIN Clear |-> Clear[x]]
  BY DEF Clear
<1> QED
  BY <1>1, MessagesAre DEF Has

(* Setting a field sets that field, and leaves the others.                 *)
LEMMA SetIs ==
  ASSUME NEW m, NEW name, NEW val
  PROVE  /\ DOMAIN Set(m, name, val) = DOMAIN m \cup {name}
         /\ Set(m, name, val) = [x \in DOMAIN Set(m, name, val) |-> Set(m, name, val)[x]]
         /\ Set(m, name, val)[name] = val
         /\ \A x \in DOMAIN m : x # name => Set(m, name, val)[x] = m[x]
BY DEF Set

(* A message with a field set is a message.                                *)
LEMMA SetType ==
  ASSUME NEW fields, FieldsOK(fields), NEW m \in MessagesOf(fields), NEW i \in DOMAIN fields,
         NEW val \in Holds(fields[i])
  PROVE  Set(m, fields[i].name, val) \in MessagesOf(fields)
<1> DEFINE name == fields[i].name
           n == Set(m, name, val)
<1>2. name \in Names(fields)
  BY DEF Names
<1>a. name = fields[i].name
  OBVIOUS
<1> HIDE DEF name
<1>1. DOMAIN n = DOMAIN m \cup {name} /\ n = [x \in DOMAIN n |-> n[x]] /\ n[name] = val
      /\ \A x \in DOMAIN m : x # name => n[x] = m[x]
  <2>1. n = [x \in DOMAIN m \cup {name} |-> IF x = name THEN val ELSE m[x]]
    BY DEF Set
  <2> HIDE DEF n
  <2> QED
    BY ONLY <2>1
<1> HIDE DEF n
<1>3. /\ DOMAIN m \subseteq Names(fields)
      /\ \A j \in DOMAIN fields : Has(m, fields[j].name) => m[fields[j].name] \in Holds(fields[j])
  BY MessagesAre
<1>4. ASSUME NEW j \in DOMAIN fields, Has(n, fields[j].name) PROVE n[fields[j].name] \in Holds(fields[j])
  <2>1. CASE j = i
    BY <1>1, <1>a, <2>1
  <2>2. CASE j # i
    <3>1. fields[j].name # name
      BY <1>a, <2>2 DEF FieldsOK
    <3>2. fields[j].name \in DOMAIN m
      BY <1>1, <1>4, <3>1 DEF Has
    <3> QED
      BY <1>1, <1>3, <3>1, <3>2 DEF Has
  <2> QED
    BY <2>1, <2>2
<1>5. n \in MessagesOf(fields)
  BY <1>1, <1>2, <1>3, <1>4, MessagesAre
<1> QED
  BY <1>5 DEF n, name

-----------------------------------------------------------------------------
(* Whatever the bytes, the parser stays at its places and reads values of  *)
(* the fields' types.                                                      *)
MergeStates(fields) ==
  { s \in [how : {"reading", "failed", "stopped", "ended"}, msg : MessagesOf(fields),
           at : Nat, groups : Seq(Word)] : s.how = "reading" => s.at # 0 }

(* A reading that has come to its end is a state of the reading.           *)
LEMMA ResultType ==
  ASSUME NEW fields, NEW m \in MessagesOf(fields), NEW how \in {"failed", "stopped", "ended"}
  PROVE  Result(how, m) \in MergeStates(fields)
BY DEF Result, MergeStates

(* A reading that goes on is a state of the reading.                       *)
LEMMA ReadingType ==
  ASSUME NEW fields, NEW m \in MessagesOf(fields), NEW at \in Nat \ {0}, NEW groups \in Seq(Word)
  PROVE  Reading(m, at, groups) \in MergeStates(fields)
BY DEF Reading, MergeStates

(* A reading that goes on behind a field is a state of the reading.        *)
LEMMA MergedOnType ==
  ASSUME NEW fields, NEW m \in MessagesOf(fields), NEW at \in Nat, NEW groups \in Seq(Word)
  PROVE  MergedOn(m, at, groups) \in MergeStates(fields)
BY ResultType, ReadingType DEF MergedOn

(* The place behind what was read is a place.                              *)
LEMMA BehindType ==
  ASSUME NEW b \in Seq(Byte), NEW i \in Nat, NEW r, Behind(r, b, i)
  PROVE  r.behind \in Nat
<1>1. Len(b) \in Nat
  BY LenProperties
<1> QED
  BY <1>1 DEF Behind

(* The place behind an unknown field is a place.                           *)
LEMMA SkippedType ==
  ASSUME NEW b \in Seq(Byte), NEW tag \in Word, NEW i \in Nat \ {0}
  PROVE  Skipped(b, tag, i) \in Nat
<1>1. ReadVarint(b, i).behind \in Nat /\ ReadBytes(b, i).behind \in Nat
  <2>1. Behind(ReadVarint(b, i), b, i) /\ Behind(ReadBytes(b, i), b, i)
    BY ReadVarintType, ReadBytesType
  <2> QED
    BY <2>1, BehindType
<1>2. i + 8 \in Nat /\ i + 4 \in Nat /\ 0 \in Nat
  OBVIOUS
<1> DEFINE t == tag[2] % 8
<1>3. Skipped(b, tag, i) =
        CASE t = 0 -> ReadVarint(b, i).behind
          [] t = 1 /\ i + 8 <= Len(b) + 1 -> i + 8
          [] t = 2 -> ReadBytes(b, i).behind
          [] t = 5 /\ i + 4 <= Len(b) + 1 -> i + 4
          [] OTHER -> 0
  BY DEF Skipped
<1> HIDE DEF t
<1> QED
  BY <1>1, <1>2, <1>3

(* A reading that ends leaves what it has read.                            *)
LEMMA EndOfType ==
  ASSUME NEW fields, NEW s \in MergeStates(fields), NEW how \in {"stopped", "ended"}
  PROVE  EndOf(how, s) \in MergeStates(fields)
<1>1. s.msg \in MessagesOf(fields)
  BY DEF MergeStates
<1> QED
  BY <1>1, ResultType DEF EndOf

(* Reading the field of a tag leaves a state of the reading.               *)
LEMMA MergedTagType ==
  ASSUME NEW fields, FieldsOK(fields), NEW s \in MergeStates(fields), NEW b \in Seq(Byte),
         NEW tag, tag.val \in Word, tag.behind \in Nat, NEW known \in SUBSET Range(fields)
  PROVE  MergedTag(s, b, tag, known) \in MergeStates(fields)
<1> DEFINE field == CHOOSE f \in known : TRUE
           t == tag.val
           at == tag.behind
           result == MergedTag(s, b, tag, known)
<1>1. s.msg \in MessagesOf(fields) /\ s.groups \in Seq(Word)
  BY DEF MergeStates
<1>2. result =
        IF at = 0 \/ t = W(0) THEN EndOf("stopped", s)
        ELSE IF EndsGroup(s.groups, t) THEN Reading(s.msg, at, Front(s.groups))
        ELSE IF t[2] % 8 = 4 THEN EndOf("stopped", s)
        ELSE IF known = {} \/ s.groups # << >> THEN MergedUnknown(s, b, tag)
        ELSE MergedField(s.msg, field.name, IF field.bytes THEN ReadBytes(b, at) ELSE ReadVarint(b, at))
  BY DEF MergedTag
<1> HIDE DEF field, t, at, result
<1>3. t \in Word /\ at \in Nat
  BY DEF t, at
<1>4. EndOf("stopped", s) \in MergeStates(fields)
  BY EndOfType
<1>5. ASSUME at # 0, EndsGroup(s.groups, t)
      PROVE  Reading(s.msg, at, Front(s.groups)) \in MergeStates(fields)
  <2>1. s.groups # << >>
    BY <1>5 DEF EndsGroup
  <2>2. Front(s.groups) \in Seq(Word)
    <3>1. Len(s.groups) \in Nat \ {0} /\ Len(s.groups) - 1 \in 0 .. Len(s.groups)
      BY <1>1, <2>1, EmptySeq
    <3>2. Front(s.groups) = SubSeq(s.groups, 1, Len(s.groups) - 1)
      BY DEF Front
    <3>3. \A k \in 1 .. Len(s.groups) - 1 : s.groups[k] \in Word
      BY <1>1, <3>1, ElementOfSeq
    <3> QED
      BY <1>1, <3>1, <3>2, <3>3, SubSeqProperties
  <2> QED
    BY <1>1, <1>3, <1>5, <2>2, ReadingType
<1>6. ASSUME at # 0 PROVE MergedUnknown(s, b, tag) \in MergeStates(fields)
  <2>1. Append(s.groups, t) \in Seq(Word)
    BY <1>1, <1>3, AppendProperties
  <2>2. Skipped(b, t, at) \in Nat
    BY <1>3, <1>6, SkippedType
  <2>3. Reading(s.msg, at, Append(s.groups, t)) \in MergeStates(fields)
    BY <1>1, <1>3, <1>6, <2>1, ReadingType
  <2>4. MergedOn(s.msg, Skipped(b, t, at), s.groups) \in MergeStates(fields)
    BY <1>1, <2>2, MergedOnType
  <2> QED
    BY <2>3, <2>4 DEF MergedUnknown, t, at
<1>7. ASSUME at # 0, known # {}
      PROVE  MergedField(s.msg, field.name, IF field.bytes THEN ReadBytes(b, at) ELSE ReadVarint(b, at))
               \in MergeStates(fields)
  <2> DEFINE read == IF field.bytes THEN ReadBytes(b, at) ELSE ReadVarint(b, at)
  <2>1. field \in known
    BY <1>7 DEF field
  <2>2. PICK i \in DOMAIN fields : field = fields[i]
    BY <2>1 DEF Range
  <2>3. read.val \in Holds(fields[i]) /\ Behind(read, b, at)
    <3>1. CASE field.bytes
      BY <1>3, <1>7, <2>2, <3>1, ReadBytesType DEF Holds
    <3>2. CASE ~ field.bytes
      BY <1>3, <1>7, <2>2, <3>2, ReadVarintType DEF Holds
    <3> QED
      BY <3>1, <3>2
  <2> HIDE DEF read
  <2>4. read.behind \in Nat
    BY <1>3, <2>3, BehindType
  <2>5. Set(s.msg, fields[i].name, read.val) \in MessagesOf(fields)
    BY <1>1, <2>3, SetType
  <2>6. << >> \in Seq(Word)
    OBVIOUS
  <2>7. MergedOn(Set(s.msg, fields[i].name, read.val), read.behind, << >>) \in MergeStates(fields)
    BY <2>4, <2>5, <2>6, MergedOnType
  <2> QED
    BY <2>2, <2>7 DEF MergedField, read
<1>8. result \in MergeStates(fields)
  BY <1>2, <1>4, <1>5, <1>6, <1>7
<1> QED
  BY <1>8 DEF result

(***************************************************************************)
(* A turn of the loop of MergePartialFromCodedStream leaves a state of     *)
(* the reading.                                                            *)
(***************************************************************************)
LEMMA MergedAtType ==
  ASSUME NEW fields, FieldsOK(fields), NEW s \in MergeStates(fields), NEW b \in Seq(Byte)
  PROVE  MergedAt(fields, s, b) \in MergeStates(fields)
<1> DEFINE tag == ReadVarint(b, s.at)
           known == { f \in Range(fields) : tag.val = W(f.tag) }
<1>1. CASE s.how # "reading"
  BY <1>1 DEF MergedAt
<1>2. CASE s.how = "reading"
  <2>1. s.at \in Nat \ {0}
    BY <1>2 DEF MergeStates
  <2>2. tag.val \in Word /\ tag.behind \in Nat
    BY <2>1, ReadVarintType, BehindType
  <2>3. known \in SUBSET Range(fields)
    OBVIOUS
  <2>4. MergedAt(fields, s, b) = IF s.at > Len(b) THEN EndOf("ended", s) ELSE MergedTag(s, b, tag, known)
    BY <1>2 DEF MergedAt
  <2> HIDE DEF tag, known
  <2>5. MergedTag(s, b, tag, known) \in MergeStates(fields)
    BY <2>2, <2>3, MergedTagType
  <2> QED
    BY <2>4, <2>5, EndOfType
<1> QED
  BY <1>1, <1>2

(* The run of the parser.                                                  *)
MergedStep(fields, b) ==
  [n \in 1 .. Len(b) + 1 |-> [s \in MergeStates(fields) |-> MergedAt(fields, s, b)]]

MergedRun(after, fields, m, b) ==
  Recurs(after, Len(b) + 1, MergeStates(fields), Reading(m, 1, << >>), MergedStep(fields, b))

(***************************************************************************)
(* Merged runs through such turns, and its result is the state after the   *)
(* last.                                                                   *)
(***************************************************************************)
LEMMA MergedRuns ==
  ASSUME NEW fields, FieldsOK(fields), NEW m \in MessagesOf(fields), NEW b \in Seq(Byte)
  PROVE  \E after : MergedRun(after, fields, m, b) /\ Merged(fields, m, b) = after[Len(b) + 1]
<1> DEFINE N == Len(b) + 1
           V == MergeStates(fields)
           start == Reading(m, 1, << >>)
           g == MergedStep(fields, b)
           Is(f) == f = [n \in 0 .. N |-> IF n = 0 THEN start ELSE MergedAt(fields, f[n - 1], b)]
           after == CHOOSE f : Is(f)
<1>a. Merged(fields, m, b) = after[N]
  BY DEF Merged
<1>1. N \in Nat
  BY LenProperties
<1>2. start \in V
  <2>1. << >> \in Seq(Word) /\ 1 \in Nat \ {0}
    OBVIOUS
  <2> QED
    BY <2>1, ReadingType
<1>3. \A s \in V : MergedAt(fields, s, b) \in V
  BY MergedAtType
<1>4. g = [n \in 1 .. N |-> [s \in V |-> MergedAt(fields, s, b)]]
  BY DEF MergedStep
<1>b. after = CHOOSE f : Is(f)
  OBVIOUS
<1> HIDE DEF V, start, g, N
<1>5. g \in [1 .. N -> [V -> V]]
  BY <1>3, <1>4
<1>6. PICK f : Recurs(f, N, V, start, g)
  BY <1>1, <1>2, <1>5, Recursion
<1>7. Is(f)
  <2>1. f \in [0 .. N -> V] /\ f[0] = start /\ \A n \in 1 .. N : f[n] = g[n][f[n - 1]]
    BY <1>6 DEF Recurs
  <2>2. ASSUME NEW n \in 1 .. N PROVE f[n] = MergedAt(fields, f[n - 1], b)
    <3>1. n - 1 \in 0 .. N
      BY <1>1
    <3>2. f[n] = g[n][f[n - 1]] /\ f[n - 1] \in V
      BY <2>1, <3>1
    <3> QED
      BY <1>4, <3>2
  <2>3. \A n \in 0 .. N : n # 0 => n \in 1 .. N
    BY <1>1
  <2>4. \A n \in 0 .. N : f[n] = IF n = 0 THEN start ELSE MergedAt(fields, f[n - 1], b)
    BY <2>1, <2>2, <2>3
  <2>5. f = [n \in 0 .. N |-> f[n]]
    BY <2>1
  <2> QED
    BY <2>4, <2>5
<1> HIDE DEF Is, after
<1>8. Is(after)
  BY <1>7, <1>b
<1>9. Recurs(after, N, V, start, g)
  <2>1. after = [n \in 0 .. N |-> IF n = 0 THEN start ELSE MergedAt(fields, after[n - 1], b)]
    BY <1>8 DEF Is
  <2>2. 0 \in 0 .. N /\ \A n \in 1 .. N : n \in 0 .. N /\ n # 0 /\ n - 1 \in 0 .. N
    BY <1>1
  <2>3. \A n \in 0 .. N : after[n] = IF n = 0 THEN start ELSE MergedAt(fields, after[n - 1], b)
    BY ONLY <2>1
  <2>4. after = [n \in 0 .. N |-> after[n]]
    BY ONLY <2>1
  <2>5. after[0] = start /\ \A n \in 1 .. N : after[n] = MergedAt(fields, after[n - 1], b)
    BY ONLY <2>2, <2>3
  <2>6. \A n \in 1 .. N : after[n - 1] \in V => after[n] \in V
    BY <1>3, <2>5
  <2>7. after \in [0 .. N -> V]
    BY <1>1, <1>2, <2>4, <2>5, <2>6, Stays
  <2>8. ASSUME NEW n \in 1 .. N PROVE after[n] = g[n][after[n - 1]]
    <3>1. after[n - 1] \in V
      BY <2>2, <2>7
    <3> QED
      BY <1>4, <2>5, <3>1
  <2> QED
    BY <2>5, <2>7, <2>8 DEF Recurs
<1> QED
  BY <1>9, <1>a DEF MergedRun, V, start, g, N

(* Whatever the bytes, what is parsed is a message of the table.           *)
LEMMA MergedType ==
  ASSUME NEW fields, FieldsOK(fields), NEW m \in MessagesOf(fields), NEW b \in Seq(Byte)
  PROVE  Merged(fields, m, b).msg \in MessagesOf(fields)
<1>1. PICK after : MergedRun(after, fields, m, b) /\ Merged(fields, m, b) = after[Len(b) + 1]
  BY MergedRuns
<1>2. Len(b) + 1 \in 0 .. Len(b) + 1
  BY LenProperties
<1>3. after[Len(b) + 1] \in MergeStates(fields)
  BY <1>1, <1>2 DEF MergedRun, Recurs
<1> QED
  BY <1>1, <1>3 DEF MergeStates

-----------------------------------------------------------------------------
(* What is serialized, field by field.                                     *)
ValueOf(f, val) == IF f.bytes THEN Varint(W(Len(val))) \o val ELSE Varint(val)
WrittenField(f, m) == IF ~ Has(m, f.name) THEN << >> ELSE << f.tag >> \o ValueOf(f, m[f.name])

FieldSize(f, m) ==
  IF ~ Has(m, f.name) THEN 0
  ELSE 1 + (IF f.bytes THEN UInt32Size(W(Len(m[f.name]))) + Len(m[f.name])
                       ELSE UInt32Size(m[f.name]))

(* No string or bytes of a message have 2^28 bytes.                        *)
Short(fields, m) ==
  \A i \in DOMAIN fields : Has(m, fields[i].name) /\ fields[i].bytes => Len(m[fields[i].name]) \in Lengths

(* A value is written as bytes, as many as its size says.                  *)
LEMMA ValueType ==
  ASSUME NEW f, f.bytes \in BOOLEAN, NEW val \in Holds(f), f.bytes => Len(val) \in Lengths
  PROVE  /\ ValueOf(f, val) \in Seq(Byte)
         /\ Len(ValueOf(f, val)) = IF f.bytes THEN UInt32Size(W(Len(val))) + Len(val) ELSE UInt32Size(val)
<1>1. CASE f.bytes
  <2>1. val \in Seq(Byte) /\ Len(val) \in Lengths
    BY <1>1 DEF Holds
  <2> DEFINE v == Varint(W(Len(val)))
  <2>2. v \in Seq(Byte) /\ Len(v) = UInt32Size(W(Len(val)))
    BY <2>1, LengthIs, VarintType
  <2>3. ValueOf(f, val) = v \o val
    BY <1>1 DEF ValueOf
  <2> HIDE DEF v
  <2>4. v \o val \in Seq(Byte) /\ Len(v \o val) = Len(v) + Len(val)
    BY <2>1, <2>2, ConcatProperties
  <2> QED
    BY <1>1, <2>2, <2>3, <2>4
<1>2. CASE ~ f.bytes
  <2>1. val \in Word
    BY <1>2 DEF Holds
  <2>2. ValueOf(f, val) = Varint(val)
    BY <1>2 DEF ValueOf
  <2> QED
    BY <1>2, <2>1, <2>2, VarintType
<1> QED
  BY <1>1, <1>2

(***************************************************************************)
(* A field is written as bytes, as many as its size says, and at least     *)
(* one when the message holds it.                                          *)
(***************************************************************************)
LEMMA WrittenType ==
  ASSUME NEW fields, FieldsOK(fields), NEW m \in MessagesOf(fields), Short(fields, m), NEW i \in DOMAIN fields
  PROVE  /\ WrittenField(fields[i], m) \in Seq(Byte)
         /\ Len(WrittenField(fields[i], m)) = FieldSize(fields[i], m)
         /\ Has(m, fields[i].name) => Len(WrittenField(fields[i], m)) >= 1
<1> DEFINE f == fields[i]  val == m[f.name]
<1>1. f.tag \in 1 .. 127 /\ f.bytes \in BOOLEAN
  BY DEF FieldsOK
<1>2. f.tag \in Byte
  <2>1. \A t \in 1 .. 127 : t \in Byte
    BY BelowByte
  <2> QED
    BY <1>1, <2>1
<1>3. Has(m, f.name) => val \in Holds(f) /\ (f.bytes => Len(val) \in Lengths)
  BY MessagesAre DEF Short
<1>a. /\ WrittenField(f, m) = IF ~ Has(m, f.name) THEN << >> ELSE << f.tag >> \o ValueOf(f, val)
      /\ FieldSize(f, m) = IF ~ Has(m, f.name) THEN 0
                           ELSE 1 + (IF f.bytes THEN UInt32Size(W(Len(val))) + Len(val) ELSE UInt32Size(val))
  BY DEF WrittenField, FieldSize
<1>b. f = fields[i]
  OBVIOUS
<1> HIDE DEF f, val
<1>4. CASE ~ Has(m, f.name)
  BY <1>4, <1>a, <1>b
<1>5. CASE Has(m, f.name)
  <2>1. /\ ValueOf(f, val) \in Seq(Byte)
        /\ Len(ValueOf(f, val)) = IF f.bytes THEN UInt32Size(W(Len(val))) + Len(val) ELSE UInt32Size(val)
    BY <1>1, <1>3, <1>5, ValueType
  <2>2. << f.tag >> \in Seq(Byte) /\ Len(<< f.tag >>) = 1
    BY <1>2
  <2>3. /\ << f.tag >> \o ValueOf(f, val) \in Seq(Byte)
        /\ Len(<< f.tag >> \o ValueOf(f, val)) = 1 + Len(ValueOf(f, val))
    BY <2>1, <2>2, ConcatProperties
  <2>4. Len(ValueOf(f, val)) \in Nat
    BY <2>1, LenProperties
  <2> HIDE DEF f
  <2>5. /\ WrittenField(f, m) \in Seq(Byte) /\ Len(WrittenField(f, m)) = 1 + Len(ValueOf(f, val))
        /\ Len(WrittenField(f, m)) = FieldSize(f, m)
    BY <1>5, <1>a, <2>1, <2>3
  <2>6. Len(WrittenField(f, m)) >= 1
    BY <2>4, <2>5
  <2> QED
    BY <1>b, <2>5, <2>6
<1> QED
  BY <1>4, <1>5

(* The bytes behind the first k fields.                                    *)
WrittenRun(w, fields, m) ==
  /\ w \in [0 .. Len(fields) -> Seq(Byte)] /\ w[0] = << >>
  /\ \A k \in 1 .. Len(fields) : w[k] = w[k - 1] \o WrittenField(fields[k], m)

(***************************************************************************)
(* Serialized writes field after field, and its result is what stands      *)
(* after the last.                                                         *)
(***************************************************************************)
LEMMA SerializedRuns ==
  ASSUME NEW fields, FieldsOK(fields), NEW m \in MessagesOf(fields), Short(fields, m)
  PROVE  \E w : WrittenRun(w, fields, m) /\ Serialized(fields, m) = w[Len(fields)]
<1> DEFINE n == Len(fields)
           parts == [i \in 1 .. n |-> WrittenField(fields[i], m)]
<1>1. n \in Nat \ {0} /\ DOMAIN fields = 1 .. n
  BY DEF FieldsOK
<1>2. Serialized(fields, m) = FlattenSeq(parts)
  <2>1. Serialized(fields, m) = FlattenSeq([i \in DOMAIN fields |-> WrittenField(fields[i], m)])
    BY DEF Serialized, WrittenField, ValueOf
  <2> QED
    BY <1>1, <2>1
<1>3. \A i \in 1 .. n : WrittenField(fields[i], m) \in Seq(Byte)
  BY <1>1, WrittenType
<1> HIDE DEF n
<1>4. parts \in Seq(Seq(Byte)) /\ Len(parts) = n
  BY <1>1, <1>3
<1>5. \A i \in 1 .. n : parts[i] = WrittenField(fields[i], m)
  OBVIOUS
<1> HIDE DEF parts
<1>6. PICK f : IsFlat(f, parts, n) /\ FlattenSeq(parts) = f[n]
  <2>1. Len(parts) \in Nat \ {0}
    BY <1>1, <1>4
  <2>2. \E f : IsFlat(f, parts, Len(parts)) /\ FlattenSeq(parts) = f[Len(parts)]
    BY <2>1, FlattenRecursion
  <2> QED
    BY ONLY <1>4, <2>2
<1> DEFINE w == [k \in 0 .. n |-> IF k = 0 THEN << >> ELSE f[k]]
<1>7. \A k \in 1 .. n : f[k] \in Seq(Byte)
  BY <1>1, <1>4, <1>6, FlatType
<1>8. w \in [0 .. n -> Seq(Byte)]
  <2>1. \A k \in 0 .. n : k # 0 => k \in 1 .. n
    BY <1>1
  <2>2. << >> \in Seq(Byte)
    OBVIOUS
  <2> QED
    BY <1>7, <2>1, <2>2
<1>9. ASSUME NEW k \in 1 .. n PROVE w[k] = w[k - 1] \o WrittenField(fields[k], m)
  <2>1. k \in 0 .. n /\ k # 0 /\ k - 1 \in 0 .. n /\ k - 1 \in Nat /\ k - 1 < n /\ (k - 1) + 1 = k /\ n \in Nat
    BY <1>1
  <2>2. w[k] = f[k] /\ w[k - 1] = IF k - 1 = 0 THEN << >> ELSE f[k - 1]
    BY <2>1
  <2> HIDE DEF w
  <2>3. /\ k - 1 = 0 => f[k] = parts[k]
        /\ k - 1 # 0 => f[k] = f[k - 1] \o parts[k]
    <3>1. f[k] = IF k = 1 THEN parts[k] ELSE f[k - 1] \o parts[k]
      BY ONLY <1>6, k \in 1 .. n DEF IsFlat
    <3>2. k = 1 <=> k - 1 = 0
      BY <2>1
    <3> QED
      BY ONLY <3>1, <3>2
  <2>4. parts[k] \in Seq(Byte)
    BY <1>3, <1>5
  <2>5. << >> \o parts[k] = parts[k]
    BY <2>4
  <2> QED
    BY <1>5, <2>2, <2>3, <2>5
<1>10. w[0] = << >> /\ w[n] = f[n]
  BY <1>1
<1> HIDE DEF w
<1>11. WrittenRun(w, fields, m)
  BY <1>8, <1>9, <1>10 DEF WrittenRun, n
<1> QED
  BY <1>2, <1>6, <1>10, <1>11 DEF n

(* A message is written as bytes.                                          *)
LEMMA SerializedType ==
  ASSUME NEW fields, FieldsOK(fields), NEW m \in MessagesOf(fields), Short(fields, m)
  PROVE  Serialized(fields, m) \in Seq(Byte)
<1>1. PICK w : WrittenRun(w, fields, m) /\ Serialized(fields, m) = w[Len(fields)]
  BY SerializedRuns
<1>2. Len(fields) \in 0 .. Len(fields)
  BY DEF FieldsOK
<1> QED
  BY <1>1, <1>2 DEF WrittenRun

(* What is written up to a field is how all that is written starts.        *)
Starts(x, y) == Len(x) <= Len(y) /\ \A j \in 1 .. Len(x) : y[j] = x[j]

(* What stands after some of the fields is the beginning of the whole.     *)
LEMMA WrittenStarts ==
  ASSUME NEW fields, FieldsOK(fields), NEW m \in MessagesOf(fields), Short(fields, m),
         NEW w, WrittenRun(w, fields, m), NEW k \in 0 .. Len(fields)
  PROVE  Starts(w[k], w[Len(fields)])
<1> DEFINE n == Len(fields)
           T == { d \in 0 .. n : Starts(w[n - d], w[n]) }
<1>1. n \in Nat /\ DOMAIN fields = 1 .. n
  BY DEF FieldsOK
<1>2. \A i \in 1 .. n : w[i] = w[i - 1] \o WrittenField(fields[i], m) /\ WrittenField(fields[i], m) \in Seq(Byte)
  BY <1>1, WrittenType DEF WrittenRun
<1>3. \A i \in 0 .. n : w[i] \in Seq(Byte) /\ Len(w[i]) \in Nat
  BY LenProperties DEF WrittenRun
<1>a. k \in 0 .. n
  OBVIOUS
<1> HIDE DEF n
<1>4. 0 \in T
  <2>1. n - 0 = n /\ 0 \in 0 .. n /\ n \in 0 .. n
    BY <1>1
  <2>2. Len(w[n]) <= Len(w[n])
    BY <1>3, <2>1
  <2> QED
    BY <2>1, <2>2 DEF Starts
<1>5. ASSUME NEW d \in 0 .. n - 1, d \in T PROVE d + 1 \in T
  <2> DEFINE i == n - d
             x == w[i - 1]
             y == WrittenField(fields[i], m)
  <2>1. i \in 1 .. n /\ i - 1 \in 0 .. n /\ n - (d + 1) = i - 1 /\ d + 1 \in 0 .. n /\ i \in 0 .. n
    BY <1>1
  <2>2. Starts(w[i], w[n])
    BY <1>5
  <2> HIDE DEF i
  <2>3. w[i] = x \o y /\ x \in Seq(Byte) /\ y \in Seq(Byte)
    BY <1>2, <1>3, <2>1
  <2>4. Len(x) \in Nat /\ Len(y) \in Nat /\ Len(w[n]) \in Nat
    <3>1. n \in 0 .. n
      BY <1>1
    <3> QED
      BY <1>3, <2>3, <3>1, LenProperties
  <2> HIDE DEF x, y
  <2>5. Len(w[i]) = Len(x) + Len(y) /\ \A j \in 1 .. Len(x) : w[i][j] = x[j] /\ j \in 1 .. Len(w[i])
    BY <2>3, <2>4, ConcatProperties
  <2>6. Starts(x, w[n])
    BY <2>2, <2>4, <2>5 DEF Starts
  <2> QED
    BY <2>1, <2>6 DEF x
<1> HIDE DEF T
<1>6. n - k \in T
  <2>1. n - k \in 0 .. n
    BY <1>1, <1>a
  <2> QED
    BY <1>1, <1>4, <1>5, <2>1, UpTo
<1>7. n - (n - k) = k
  BY <1>1, <1>a
<1> QED
  BY <1>6, <1>7 DEF T, n

(* The tag of a field takes one byte, and tells the field.                 *)
LEMMA TagVarint ==
  ASSUME NEW t \in 1 .. 127
  PROVE  W(t) = << 0, t >> /\ W(t) \in Word /\ W(t) # W(0) /\ Varint(W(t)) = << t >>
<1>1. W(t) = << 0, t >> /\ W(0) = << 0, 0 >>
  BY SMT DEF W, Half
<1>2. W(t) \in Word
  BY WType
<1>3. W(t) # W(0)
  BY <1>1
<1> DEFINE w == W(t)
<1>4. w[1] = 0 /\ w[2] = t
  BY <1>1
<1>5. Groups(w)[1] = t % 128
  BY <1>4 DEF Groups
<1>6. PICK n \in 1 .. 5 : Last7(Groups(w), n)
                          /\ Varint(w) = [i \in 1 .. n |-> IF i < n THEN Groups(w)[i] + 128 ELSE Groups(w)[i]]
  BY <1>2, VarintIs
<1>7. UInt32Size(w) = 1
  BY <1>4 DEF UInt32Size
<1>8. Len(Varint(w)) = 1
  BY <1>2, <1>7, VarintType
<1> HIDE DEF w
<1>9. n = 1
  BY <1>6, <1>8
<1>10. Varint(w) = << t >>
  <2>1. t % 128 = t
    BY SMT
  <2>2. Varint(w) = [i \in 1 .. 1 |-> Groups(w)[1]]
    BY <1>6, <1>9
  <2>3. [i \in 1 .. 1 |-> t] = << t >>
    OBVIOUS
  <2> QED
    BY <1>5, <2>1, <2>2, <2>3
<1> QED
  BY <1>1, <1>2, <1>3, <1>10 DEF w

(* Tags of different fields are different words.                           *)
LEMMA TagTells ==
  ASSUME NEW t \in 1 .. 127, NEW u \in 1 .. 127, W(t) = W(u)
  PROVE  t = u
<1>1. W(t) = << 0, t >>
  BY TagVarint
<1>2. W(u) = << 0, u >>
  BY TagVarint
<1>3. << 0, t >> = << 0, u >>
  BY ONLY <1>1, <1>2, W(t) = W(u)
<1> QED
  BY ONLY <1>3

(* What stands behind the first byte.                                      *)
LEMMA StandsBehind ==
  ASSUME NEW x \in Byte, NEW c \in Seq(Byte), NEW b \in Seq(Byte), NEW i, StandsAt(<< x >> \o c, b, i)
  PROVE  StandsAt(<< x >>, b, i) /\ StandsAt(c, b, i + 1) /\ i <= Len(b)
<1> DEFINE s == << x >>
<1>1. s \in Seq(Byte) /\ Len(s) = 1 /\ s[1] = x
  OBVIOUS
<1> HIDE DEF s
<1>2. Len(c) \in Nat /\ Len(b) \in Nat
  BY LenProperties
<1>3. Len(s \o c) = 1 + Len(c) /\ \A k \in 1 .. 1 + Len(c) : (s \o c)[k] = IF k <= 1 THEN s[k] ELSE c[k - 1]
  BY <1>1, ConcatProperties
<1>4. i \in Nat \ {0} /\ i + (1 + Len(c)) <= Len(b) + 1
      /\ \A k \in 1 .. 1 + Len(c) : b[i + k - 1] = (s \o c)[k]
  <2>1. StandsAt(s \o c, b, i)
    BY DEF s
  <2> QED
    BY <1>3, <2>1 DEF StandsAt
<1>5. StandsAt(s, b, i)
  <2>1. 1 \in 1 .. 1 + Len(c)
    BY <1>2
  <2>2. b[i + 1 - 1] = s[1]
    BY <1>3, <1>4, <2>1
  <2>3. i + 1 <= Len(b) + 1
    BY <1>2, <1>4
  <2>4. \A k \in 1 .. 1 : k = 1
    OBVIOUS
  <2> QED
    BY <1>1, <1>4, <2>2, <2>3, <2>4 DEF StandsAt
<1>6. StandsAt(c, b, i + 1)
  <2>1. i + 1 \in Nat \ {0} /\ (i + 1) + Len(c) <= Len(b) + 1
    BY <1>2, <1>4
  <2>2. ASSUME NEW k \in 1 .. Len(c) PROVE b[i + 1 + k - 1] = c[k]
    <3>1. k + 1 \in 1 .. 1 + Len(c) /\ ~ k + 1 <= 1 /\ (k + 1) - 1 = k /\ i + (k + 1) - 1 = i + 1 + k - 1
      BY <1>2, <1>4
    <3> QED
      BY <1>3, <1>4, <3>1
  <2> QED
    BY <2>1, <2>2 DEF StandsAt
<1>7. i <= Len(b)
  BY <1>2, <1>4
<1> QED
  BY <1>5, <1>6, <1>7 DEF s

(* A value is read as it was written.                                      *)
LEMMA ValueRead ==
  ASSUME NEW f, f.bytes \in BOOLEAN, NEW val \in Holds(f), f.bytes => Len(val) \in Lengths,
         NEW b \in Seq(Byte), NEW i, StandsAt(ValueOf(f, val), b, i)
  PROVE  /\ f.bytes => ReadBytes(b, i) = [val |-> val, behind |-> i + Len(ValueOf(f, val))]
         /\ ~ f.bytes => ReadVarint(b, i) = [val |-> val, behind |-> i + Len(ValueOf(f, val))]
<1>0. Len(b) \in Nat /\ i \in Nat
  BY LenProperties DEF StandsAt
<1>1. CASE f.bytes
  <2>1. val \in Seq(Byte) /\ Len(val) \in Lengths
    BY <1>1 DEF Holds
  <2> DEFINE v == Varint(W(Len(val)))
  <2>2. v \in Seq(Byte)
    BY <2>1, LengthIs, VarintType
  <2>3. ValueOf(f, val) = v \o val
    BY <1>1 DEF ValueOf
  <2>4. ReadBytes(b, i) = [val |-> val, behind |-> i + Len(v) + Len(val)]
    BY <2>1, <2>3, BytesRead
  <2> HIDE DEF v
  <2>5. Len(v \o val) = Len(v) + Len(val) /\ Len(v) \in Nat /\ Len(val) \in Nat
    BY <2>1, <2>2, ConcatProperties, LenProperties
  <2>6. i + Len(v) + Len(val) = i + Len(v \o val)
    BY <1>0, <2>5
  <2> QED
    BY <1>1, <2>3, <2>4, <2>6
<1>2. CASE ~ f.bytes
  <2>1. val \in Word
    BY <1>2 DEF Holds
  <2>2. ValueOf(f, val) = Varint(val)
    BY <1>2 DEF ValueOf
  <2>3. ReadVarint(b, i) = [val |-> val, behind |-> i + Len(Varint(val))]
    BY <1>0, <2>1, <2>2, VarintRead
  <2> QED
    BY <1>2, <2>2, <2>3
<1> QED
  BY <1>1, <1>2

(* The step of the parser over a field.                                    *)
LEMMA FieldRead ==
  ASSUME NEW fields, FieldsOK(fields), NEW m \in MessagesOf(fields), Short(fields, m),
         NEW k \in DOMAIN fields, Has(m, fields[k].name), NEW p, NEW b \in Seq(Byte), NEW at,
         StandsAt(WrittenField(fields[k], m), b, at)
  PROVE  MergedAt(fields, Reading(p, at, << >>), b)
           = Reading(Set(p, fields[k].name, m[fields[k].name]), at + Len(WrittenField(fields[k], m)), << >>)
<1> DEFINE f == fields[k]  t == f.tag  val == m[f.name]  v == ValueOf(f, val)
           tag == ReadVarint(b, at)
           known == { g \in Range(fields) : tag.val = W(g.tag) }
           s == Reading(p, at, << >>)
           read == IF f.bytes THEN ReadBytes(b, at + 1) ELSE ReadVarint(b, at + 1)
<1>1. t \in 1 .. 127 /\ f.bytes \in BOOLEAN /\ t % 8 = IF f.bytes THEN 2 ELSE 0
  BY DEF FieldsOK
<1>2. val \in Holds(f) /\ (f.bytes => Len(val) \in Lengths)
  BY MessagesAre DEF Short
<1>3. v \in Seq(Byte) /\ Len(v) \in Nat
  <2> HIDE DEF f, val
  <2>1. v \in Seq(Byte)
    BY <1>1, <1>2, ValueType
  <2> QED
    BY <2>1, LenProperties
<1>4. WrittenField(f, m) = << t >> \o v
  BY DEF WrittenField
<1>5. t \in Byte
  <2>1. \A x \in 1 .. 127 : x \in Byte
    BY BelowByte
  <2> HIDE DEF t
  <2> QED
    BY <1>1, <2>1
<1>6. StandsAt(<< t >>, b, at) /\ StandsAt(v, b, at + 1) /\ at <= Len(b)
  <2>1. StandsAt(<< t >> \o v, b, at)
    BY <1>4
  <2> HIDE DEF t, v
  <2> QED
    BY <1>3, <1>5, <2>1, StandsBehind
<1>7. tag = [val |-> W(t), behind |-> at + 1]
  <2>1. W(t) \in Word /\ Varint(W(t)) = << t >>
    <3> HIDE DEF t
    <3> QED
      BY <1>1, TagVarint
  <2>2. Len(b) \in Nat /\ Len(<< t >>) = 1
    BY LenProperties
  <2> HIDE DEF t
  <2>3. ReadVarint(b, at) = [val |-> W(t), behind |-> at + Len(Varint(W(t)))]
    BY <1>6, <2>1, <2>2, VarintRead
  <2> QED
    BY <2>1, <2>2, <2>3
<1>8. known = {f}
  <2>1. \A i \in DOMAIN fields : W(fields[i].tag) = W(t) => i = k
    <3> TAKE i \in DOMAIN fields
    <3> HAVE W(fields[i].tag) = W(t)
    <3>1. fields[i].tag \in 1 .. 127
      BY DEF FieldsOK
    <3>2. fields[i].tag = t
      <4> DEFINE u == fields[i].tag
      <4>1. u \in 1 .. 127 /\ W(u) = W(t)
        BY <3>1
      <4> HIDE DEF u, t
      <4>2. u = t
        BY <1>1, <4>1, TagTells
      <4> QED
        BY <4>2 DEF u
    <3> QED
      BY <3>2 DEF FieldsOK
  <2>2. tag.val = W(t)
    BY <1>7
  <2>3. f \in Range(fields)
    BY DEF Range
  <2> HIDE DEF tag
  <2>4. \A g \in known : g = f
    BY <2>1, <2>2 DEF Range
  <2> QED
    BY <2>2, <2>3, <2>4
<1>9. read = [val |-> val, behind |-> (at + 1) + Len(v)]
  <2> HIDE DEF f, val
  <2>1. StandsAt(ValueOf(f, val), b, at + 1)
    BY <1>6
  <2>2. (IF f.bytes THEN ReadBytes(b, at + 1) ELSE ReadVarint(b, at + 1))
           = [val |-> val, behind |-> (at + 1) + Len(ValueOf(f, val))]
    <3> DEFINE i == at + 1
    <3>1. StandsAt(ValueOf(f, val), b, i)
      BY <2>1
    <3>2. f.bytes \in BOOLEAN
      BY <1>1
    <3> HIDE DEF i
    <3>3. /\ f.bytes => ReadBytes(b, i) = [val |-> val, behind |-> i + Len(ValueOf(f, val))]
          /\ ~ f.bytes => ReadVarint(b, i) = [val |-> val, behind |-> i + Len(ValueOf(f, val))]
      BY ONLY b \in Seq(Byte), <1>2, <3>1, <3>2, ValueRead
    <3> QED
      BY <3>2, <3>3 DEF i
  <2> QED
    BY <2>2
<1>10. s.how = "reading" /\ s.at = at /\ s.groups = << >> /\ s.msg = p
  BY DEF Reading
<1>11. at \in Nat /\ ~ at > Len(b)
  <2>1. at \in Nat /\ Len(b) \in Nat
    BY <1>6, LenProperties DEF StandsAt
  <2> QED
    BY <1>6, <2>1
<1>12. MergedAt(fields, s, b) = MergedTag(s, b, tag, known)
  BY <1>10, <1>11 DEF MergedAt
<1>13. (CHOOSE g \in known : TRUE) = f
  BY <1>8
<1>14. tag.behind = at + 1 /\ tag.val = W(t) /\ at + 1 # 0
  BY <1>7, <1>11
<1>15. W(t) # W(0) /\ W(t)[2] = t
  <2> HIDE DEF t
  <2>1. W(t) # W(0) /\ W(t) = << 0, t >>
    BY <1>1, TagVarint
  <2>2. << 0, t >>[2] = t
    OBVIOUS
  <2> QED
    BY ONLY <2>1, <2>2
<1>16. t % 8 # 4
  BY <1>1
<1>a. f = fields[k] /\ val = m[f.name] /\ WrittenField(fields[k], m) = << t >> \o v
  BY <1>4
<1>b. read = IF f.bytes THEN ReadBytes(b, at + 1) ELSE ReadVarint(b, at + 1)
  OBVIOUS
<1>17. Len(<< t >> \o v) = 1 + Len(v)
  <2> HIDE DEF t, v
  <2>1. << t >> \in Seq(Byte) /\ Len(<< t >>) = 1
    BY <1>5
  <2> QED
    BY <1>3, <2>1, ConcatProperties
<1> HIDE DEF known, tag, s, read, v, val, t
<1>18. ~ EndsGroup(s.groups, tag.val)
  BY <1>10 DEF EndsGroup
<1>19. MergedTag(s, b, tag, known)
         = MergedField(s.msg, f.name, IF f.bytes THEN ReadBytes(b, tag.behind) ELSE ReadVarint(b, tag.behind))
  <2>1. known # {}
    BY <1>8
  <2> HIDE DEF f
  <2> QED
    BY <1>10, <1>13, <1>14, <1>15, <1>16, <1>18, <2>1 DEF MergedTag
<1>20. MergedField(p, f.name, read) = MergedOn(Set(p, f.name, val), (at + 1) + Len(v), << >>)
  BY <1>9 DEF MergedField
<1>21. (at + 1) + Len(v) = at + Len(<< t >> \o v) /\ (at + 1) + Len(v) # 0
  BY <1>3, <1>11, <1>17
<1>22. MergedOn(Set(p, f.name, val), (at + 1) + Len(v), << >>) = Reading(Set(p, f.name, val), at + Len(<< t >> \o v), << >>)
  BY <1>21 DEF MergedOn
<1>23. MergedAt(fields, s, b) = Reading(Set(p, f.name, val), at + Len(<< t >> \o v), << >>)
  <2> HIDE DEF f
  <2> QED
    BY <1>10, <1>12, <1>14, <1>19, <1>20, <1>22, <1>b
<1> QED
  BY <1>23, <1>a DEF s, val

(* The fields of a message that are among the first k.                     *)
Part(fields, m, k) == [x \in DOMAIN m \cap { fields[i].name : i \in 1 .. k } |-> m[x]]

(***************************************************************************)
(* Setting the next field of a part of a message gives the next larger     *)
(* part.                                                                   *)
(***************************************************************************)
LEMMA PartGrows ==
  ASSUME NEW fields, FieldsOK(fields), NEW m \in MessagesOf(fields), NEW k \in Nat, k + 1 \in DOMAIN fields
  PROVE  /\ Has(m, fields[k + 1].name) =>
              Set(Part(fields, m, k), fields[k + 1].name, m[fields[k + 1].name]) = Part(fields, m, k + 1)
         /\ ~ Has(m, fields[k + 1].name) => Part(fields, m, k) = Part(fields, m, k + 1)
<1> DEFINE name == fields[k + 1].name
           A == { fields[i].name : i \in 1 .. k }
           B == { fields[i].name : i \in 1 .. k + 1 }
<1>1. B = A \cup {name}
  <2>1. \A i \in 1 .. k + 1 : i \in 1 .. k \/ i = k + 1
    OBVIOUS
  <2>2. k + 1 \in 1 .. k + 1 /\ \A i \in 1 .. k : i \in 1 .. k + 1
    OBVIOUS
  <2> QED
    BY <2>1, <2>2
<1>2. name \notin A
  <2>1. \A i \in 1 .. k : i \in DOMAIN fields /\ i # k + 1
    BY DEF FieldsOK
  <2> QED
    BY <2>1 DEF FieldsOK
<1>3. Part(fields, m, k) = [x \in DOMAIN m \cap A |-> m[x]] /\ Part(fields, m, k + 1) = [x \in DOMAIN m \cap B |-> m[x]]
  BY DEF Part
<1> HIDE DEF A, B
<1>4. CASE Has(m, name)
  <2>1. name \in DOMAIN m
    BY <1>4 DEF Has
  <2> DEFINE p == Part(fields, m, k)
             q == Part(fields, m, k + 1)
             s == Set(p, name, m[name])
  <2>a. DOMAIN p = DOMAIN m \cap A /\ \A x \in DOMAIN p : p[x] = m[x]
    BY <1>3
  <2>2. s = [x \in DOMAIN p \cup {name} |-> IF x = name THEN m[name] ELSE p[x]]
    BY DEF Set
  <2> HIDE DEF p, name, s
  <2>3. s = [x \in DOMAIN m \cap B |-> IF x = name THEN m[name] ELSE p[x]]
    BY <1>1, <2>1, <2>2, <2>a
  <2>4. \A x \in DOMAIN m \cap B : (IF x = name THEN m[name] ELSE p[x]) = m[x]
    BY <1>1, <2>a
  <2>5. s = [x \in DOMAIN m \cap B |-> m[x]]
    BY <2>3, <2>4
  <2> QED
    BY <1>3, <1>4, <2>5 DEF s, p, name
<1>5. CASE ~ Has(m, name)
  <2>1. DOMAIN m \cap A = DOMAIN m \cap B
    BY <1>1, <1>5 DEF Has
  <2> QED
    BY <1>3, <1>5, <2>1
<1> QED
  BY <1>4, <1>5

(* What MergePartialFromCodedStream reads of the bytes that                *)
(* SerializeWithCachedSizes wrote is the message, for every table of       *)
(* fields and every value of them (ProxyMsg.pb.cc:315).                    *)
THEOREM MergedSerialized ==
  ASSUME NEW fields, FieldsOK(fields), NEW m \in MessagesOf(fields), Short(fields, m)
  PROVE  Merged(fields, Clear, Serialized(fields, m)) = Result("ended", m)
<1> DEFINE n == Len(fields)
           b == Serialized(fields, m)
           N == Len(b) + 1
           At(k) == Reading(Part(fields, m, k), k, << >>)
<1>1. PICK w : WrittenRun(w, fields, m) /\ b = w[n]
  BY SerializedRuns
<1>2. b \in Seq(Byte) /\ Len(b) \in Nat
  BY SerializedType, LenProperties
<1>3. PICK after : MergedRun(after, fields, Clear, b) /\ Merged(fields, Clear, b) = after[N]
  BY <1>2, ClearType, MergedRuns
<1>a. b = Serialized(fields, m) /\ n = Len(fields)
  OBVIOUS
<1> HIDE DEF b, n
<1>4. n \in Nat /\ DOMAIN fields = 1 .. n
  BY <1>a DEF FieldsOK
<1>5. /\ w[0] = << >>
      /\ \A k \in 0 .. n : w[k] \in Seq(Byte) /\ Len(w[k]) \in Nat
      /\ \A k \in 1 .. n : w[k] = w[k - 1] \o WrittenField(fields[k], m)
  BY <1>1, <1>a, LenProperties DEF WrittenRun
<1>6. \A k \in 0 .. n : Len(w[k]) <= Len(b) /\ \A j \in 1 .. Len(w[k]) : b[j] = w[k][j]
  <2>1. \A k \in 0 .. Len(fields) : Starts(w[k], w[Len(fields)])
    BY <1>1, WrittenStarts
  <2>2. \A k \in 0 .. n : Starts(w[k], b)
    BY ONLY <1>1, <1>a, <2>1
  <2> QED
    BY ONLY <2>2 DEF Starts
<1>7. /\ after[0] = Reading(Clear, 1, << >>)
      /\ \A t \in 1 .. N : after[t] = MergedAt(fields, after[t - 1], b)
  <2>1. /\ after \in [0 .. N -> MergeStates(fields)] /\ after[0] = Reading(Clear, 1, << >>)
        /\ \A t \in 1 .. N : after[t] = MergedStep(fields, b)[t][after[t - 1]]
    BY <1>3 DEF MergedRun, Recurs
  <2>2. ASSUME NEW t \in 1 .. N PROVE after[t] = MergedAt(fields, after[t - 1], b)
    <3>1. t - 1 \in 0 .. N
      BY <1>2
    <3>2. after[t - 1] \in MergeStates(fields) /\ after[t] = MergedStep(fields, b)[t][after[t - 1]]
      BY <2>1, <3>1
    <3> QED
      BY <3>2 DEF MergedStep
  <2> QED
    BY <2>1, <2>2
<1> DEFINE Reached(k) == \E t \in 0 .. Len(w[k]) : after[t] = Reading(Part(fields, m, k), Len(w[k]) + 1, << >>)
           T == { k \in 0 .. n : Reached(k) }
<1>8. 0 \in T
  <2>1. Part(fields, m, 0) = Clear
    <3>1. DOMAIN m \cap { fields[i].name : i \in 1 .. 0 } = {}
      OBVIOUS
    <3>2. Part(fields, m, 0) = [x \in {} |-> m[x]]
      BY <3>1 DEF Part
    <3>3. [x \in {} |-> m[x]] = [x \in {} |-> << >>]
      OBVIOUS
    <3> QED
      BY <3>2, <3>3 DEF Clear
  <2>2. Len(w[0]) = 0 /\ 0 \in 0 .. 0 /\ 0 \in 0 .. n /\ 0 + 1 = 1
    BY <1>4, <1>5
  <2>3. Reached(0)
    BY <1>7, <2>1, <2>2
  <2> HIDE DEF Reached
  <2> QED
    BY <2>2, <2>3
<1>9. ASSUME NEW k \in 0 .. n - 1, k \in T PROVE k + 1 \in T
  <2> DEFINE f == fields[k + 1]
             c == WrittenField(f, m)
  <2>1. k \in Nat /\ k \in 0 .. n /\ k + 1 \in 0 .. n /\ k + 1 \in 1 .. n /\ k + 1 \in DOMAIN fields /\ (k + 1) - 1 = k
    BY <1>4
  <2>2. PICK t \in 0 .. Len(w[k]) : after[t] = Reading(Part(fields, m, k), Len(w[k]) + 1, << >>)
    BY <1>9
  <2>3. c \in Seq(Byte) /\ Len(c) \in Nat /\ (Has(m, f.name) => Len(c) >= 1) /\ (~ Has(m, f.name) => c = << >>)
    <3>1. c \in Seq(Byte) /\ (Has(m, f.name) => Len(c) >= 1)
      BY <2>1, WrittenType
    <3>2. ~ Has(m, f.name) => c = << >>
      BY DEF WrittenField
    <3> QED
      BY <3>1, <3>2, LenProperties
  <2>4. w[k + 1] = w[k] \o c
    BY <1>5, <2>1
  <2>c. c = WrittenField(fields[k + 1], m) /\ f = fields[k + 1]
    OBVIOUS
  <2> HIDE DEF c, f
  <2>5. /\ Len(w[k + 1]) = Len(w[k]) + Len(c) /\ Len(w[k]) \in Nat
        /\ \A j \in 1 .. Len(w[k]) + Len(c) : (w[k] \o c)[j] = IF j <= Len(w[k]) THEN w[k][j] ELSE c[j - Len(w[k])]
    BY <1>5, <2>1, <2>3, <2>4, ConcatProperties
  <2>6. CASE ~ Has(m, f.name)
    <3>1. c = << >> /\ Len(c) = 0
      BY <2>3, <2>6
    <3>2. Len(w[k + 1]) = Len(w[k])
      BY <2>5, <3>1
    <3>3. Part(fields, m, k) = Part(fields, m, k + 1)
      BY <2>1, <2>6, <2>c, PartGrows
    <3>4. Reached(k + 1)
      BY <2>2, <3>2, <3>3
    <3> HIDE DEF Reached
    <3> QED
      BY <2>1, <3>4
  <2>7. CASE Has(m, f.name)
    <3> DEFINE at == Len(w[k]) + 1
    <3>1. at \in Nat \ {0} /\ at + Len(c) = Len(w[k + 1]) + 1 /\ Len(w[k + 1]) <= Len(b)
      <4>1. Len(w[k + 1]) <= Len(b)
        BY <1>6, <2>1
      <4> QED
        BY <2>3, <2>5, <4>1
    <3>2. StandsAt(c, b, at)
      <4>1. ASSUME NEW j \in 1 .. Len(c) PROVE b[at + j - 1] = c[j]
        <5> DEFINE i == Len(w[k]) + j
        <5>1. i \in 1 .. Len(w[k]) + Len(c) /\ ~ i <= Len(w[k]) /\ i - Len(w[k]) = j /\ at + j - 1 = i
          BY <2>3, <2>5
        <5> HIDE DEF i, at
        <5>2. b[i] = w[k + 1][i]
          BY <1>6, <2>1, <2>5, <5>1
        <5>3. w[k + 1][i] = c[i - Len(w[k])]
          BY <2>4, <2>5, <5>1
        <5> QED
          BY <5>1, <5>2, <5>3
      <4>2. at + Len(c) <= Len(b) + 1
        BY <1>2, <3>1, <2>3, <2>5
      <4> HIDE DEF at
      <4> QED
        BY <3>1, <4>1, <4>2 DEF StandsAt
    <3>3. MergedAt(fields, Reading(Part(fields, m, k), at, << >>), b)
            = Reading(Set(Part(fields, m, k), f.name, m[f.name]), at + Len(c), << >>)
      <4> HIDE DEF at
      <4>1. StandsAt(WrittenField(fields[k + 1], m), b, at) /\ Has(m, fields[k + 1].name)
        BY <2>7, <2>c, <3>2
      <4>2. MergedAt(fields, Reading(Part(fields, m, k), at, << >>), b)
              = Reading(Set(Part(fields, m, k), fields[k + 1].name, m[fields[k + 1].name]),
                        at + Len(WrittenField(fields[k + 1], m)), << >>)
        <5> DEFINE i == k + 1  p == Part(fields, m, k)
        <5>1. i \in DOMAIN fields /\ StandsAt(WrittenField(fields[i], m), b, at) /\ Has(m, fields[i].name)
          BY <2>1, <4>1
        <5> HIDE DEF i, p
        <5>2. MergedAt(fields, Reading(p, at, << >>), b)
                = Reading(Set(p, fields[i].name, m[fields[i].name]), at + Len(WrittenField(fields[i], m)), << >>)
          BY <1>2, <5>1, FieldRead
        <5> QED
          BY <5>2 DEF i, p
      <4> QED
        BY <2>c, <4>2
    <3>4. Set(Part(fields, m, k), f.name, m[f.name]) = Part(fields, m, k + 1)
      BY <2>1, <2>7, <2>c, PartGrows
    <3>5. t + 1 \in 1 .. N /\ (t + 1) - 1 = t /\ t + 1 \in 0 .. Len(w[k + 1])
      <4>1. Len(c) >= 1
        BY <2>3, <2>7
      <4>2. t \in Int /\ 0 <= t /\ t <= Len(w[k])
        BY <2>5
      <4>3. Len(w[k]) + 1 <= Len(w[k + 1])
        BY <2>3, <2>5, <4>1
      <4>4. Len(w[k + 1]) \in Nat /\ Len(w[k + 1]) <= Len(b)
        BY <1>5, <2>1, <3>1
      <4> QED
        BY ONLY <1>2, <2>5, <4>2, <4>3, <4>4
    <3>6. after[t + 1] = MergedAt(fields, after[t], b)
      <4> HIDE DEF N
      <4>1. \A u \in 1 .. N : after[u] = MergedAt(fields, after[u - 1], b)
        BY <1>7
      <4>2. after[t + 1] = MergedAt(fields, after[(t + 1) - 1], b)
        BY ONLY <3>5, <4>1
      <4> QED
        BY ONLY <3>5, <4>2
    <3>7. after[t + 1] = Reading(Part(fields, m, k + 1), Len(w[k + 1]) + 1, << >>)
      BY <2>2, <3>1, <3>3, <3>4, <3>6
    <3>8. Reached(k + 1)
      BY <3>5, <3>7
    <3> HIDE DEF Reached
    <3> QED
      BY <2>1, <3>8
  <2> QED
    BY <2>6, <2>7
<1>10. Reached(n)
  <2> HIDE DEF Reached
  <2>1. n \in 0 .. n
    BY <1>4
  <2> HIDE DEF T
  <2>2. n \in T
    BY <1>4, <1>8, <1>9, <2>1, UpTo
  <2> QED
    BY <2>2 DEF T
<1>11. Part(fields, m, n) = m
  <2>1. DOMAIN m \subseteq Names(fields) /\ m = [x \in DOMAIN m |-> m[x]]
    BY MessagesAre
  <2>2. { fields[i].name : i \in 1 .. n } = Names(fields)
    BY <1>4 DEF Names
  <2>3. DOMAIN m \cap { fields[i].name : i \in 1 .. n } = DOMAIN m
    BY <2>1, <2>2
  <2>4. Part(fields, m, n) = [x \in DOMAIN m |-> m[x]]
    BY <2>3 DEF Part
  <2> QED
    BY <2>1, <2>4
<1>12. PICK t \in 0 .. Len(b) : after[t] = Reading(m, Len(b) + 1, << >>)
  BY <1>1, <1>10, <1>11
<1> DEFINE done == Result("ended", m)
           U == { d \in Nat : t + 1 + d <= N => after[t + 1 + d] = done }
<1>13. 0 \in U
  <2>1. t + 1 \in 1 .. N /\ (t + 1) - 1 = t /\ t + 1 + 0 = t + 1
    BY <1>2
  <2>2. after[t + 1] = MergedAt(fields, after[t], b)
    <3> HIDE DEF N
    <3>1. after[t + 1] = MergedAt(fields, after[(t + 1) - 1], b)
      BY ONLY <1>7, <2>1
    <3> QED
      BY ONLY <2>1, <3>1
  <2>3. MergedAt(fields, Reading(m, Len(b) + 1, << >>), b) = done
    <3>1. Len(b) + 1 > Len(b)
      BY <1>2
    <3> QED
      BY <3>1 DEF MergedAt, Reading, EndOf, Result
  <2>4. after[t + 1] = done
    BY <1>12, <2>2, <2>3
  <2> QED
    BY <2>1, <2>4
<1>14. ASSUME NEW d \in Nat, d \in U PROVE d + 1 \in U
  <2> SUFFICES ASSUME t + 1 + (d + 1) <= N PROVE after[t + 1 + (d + 1)] = done
    OBVIOUS
  <2> DEFINE u == t + 1 + (d + 1)
  <2>1. u \in 1 .. N /\ u - 1 = t + 1 + d /\ t + 1 + d <= N
    BY <1>2
  <2>2. after[t + 1 + d] = done
    BY <1>14, <2>1
  <2> HIDE DEF u, N, done
  <2>3. after[u] = MergedAt(fields, after[u - 1], b)
    BY ONLY <1>7, <2>1
  <2>4. MergedAt(fields, done, b) = done
    BY DEF MergedAt, Result, done
  <2>5. after[u] = done
    BY ONLY <2>1, <2>2, <2>3, <2>4
  <2> QED
    BY <2>5 DEF u
<1>15. after[N] = done
  <2> DEFINE e == N - (t + 1)
  <2>1. e \in Nat /\ t + 1 + e = N /\ t + 1 + e <= N
    BY <1>2
  <2> HIDE DEF U, e
  <2>2. e \in U
    BY <1>13, <1>14, <2>1, Induction
  <2> QED
    BY <2>1, <2>2 DEF U
<1> QED
  BY <1>3, <1>15 DEF b

(* The size protobuf counts is the number of bytes it writes.              *)
LEMMA ByteSizeIs ==
  ASSUME NEW fields, FieldsOK(fields), NEW m \in MessagesOf(fields), Short(fields, m)
  PROVE  ByteSize(fields, m) = Len(Serialized(fields, m))
<1> DEFINE N == Len(fields)
           Size(n) == FieldSize(fields[n], m)
           g == [n \in 1 .. N |-> [t \in Nat |-> t + Size(n)]]
           Is(f) == f = [n \in 0 .. N |-> IF n = 0 THEN 0 ELSE f[n - 1] + Size(n)]
           total == CHOOSE f : Is(f)
<1>a. ByteSize(fields, m) = total[N]
  BY DEF ByteSize, FieldSize
<1>b. total = CHOOSE f : Is(f)
  OBVIOUS
<1>1. N \in Nat /\ DOMAIN fields = 1 .. N
  BY DEF FieldsOK
<1>2. PICK w : WrittenRun(w, fields, m) /\ Serialized(fields, m) = w[N]
  BY SerializedRuns
<1>3. \A n \in 1 .. N : WrittenField(fields[n], m) \in Seq(Byte) /\ Len(WrittenField(fields[n], m)) = Size(n)
  BY <1>1, WrittenType
<1>4. w \in [0 .. N -> Seq(Byte)] /\ w[0] = << >> /\ \A n \in 1 .. N : w[n] = w[n - 1] \o WrittenField(fields[n], m)
  BY <1>2 DEF WrittenRun
<1> HIDE DEF Size, N
<1>5. \A n \in 1 .. N : Size(n) \in Nat
  BY <1>3, LenProperties
<1> DEFINE l == [n \in 0 .. N |-> Len(w[n])]
<1>6. ASSUME NEW n \in 1 .. N PROVE l[n] = l[n - 1] + Size(n)
  <2>1. n \in 0 .. N /\ n - 1 \in 0 .. N
    BY <1>1
  <2>2. w[n - 1] \in Seq(Byte)
    BY <1>4, <2>1
  <2>3. Len(w[n - 1] \o WrittenField(fields[n], m)) = Len(w[n - 1]) + Len(WrittenField(fields[n], m))
    BY <1>3, <2>2, ConcatProperties
  <2> QED
    BY <1>3, <1>4, <2>1, <2>3
<1>7. l[0] = 0
  BY <1>1, <1>4
<1>8. Is(l)
  <2>1. \A n \in 0 .. N : n # 0 => n \in 1 .. N
    BY <1>1
  <2>2. l = [n \in 0 .. N |-> l[n]]
    OBVIOUS
  <2> HIDE DEF l
  <2>3. \A n \in 0 .. N : l[n] = IF n = 0 THEN 0 ELSE l[n - 1] + Size(n)
    BY <1>6, <1>7, <2>1
  <2> QED
    BY <2>2, <2>3
<1> HIDE DEF Is, total
<1>9. Is(total)
  BY <1>8, <1>b
<1> DEFINE T == { n \in 0 .. N : total[n] = l[n] }
<1>10. N \in T
  <2>0. total = [n \in 0 .. N |-> IF n = 0 THEN 0 ELSE total[n - 1] + Size(n)]
    BY <1>9 DEF Is
  <2>1. 0 \in T
    BY <1>1, <1>7, <2>0
  <2>2. ASSUME NEW n \in 0 .. N - 1, n \in T PROVE n + 1 \in T
    <3>1. n + 1 \in 1 .. N /\ n + 1 \in 0 .. N /\ n + 1 # 0 /\ (n + 1) - 1 = n
      BY <1>1
    <3>2. total[n] = l[n]
      BY <2>2
    <3> HIDE DEF l, T
    <3>3. total[n + 1] = total[(n + 1) - 1] + Size(n + 1)
      BY ONLY <2>0, <3>1
    <3>4. l[n + 1] = l[(n + 1) - 1] + Size(n + 1)
      BY ONLY <1>6, <3>1
    <3>5. total[n + 1] = l[n + 1]
      BY ONLY <3>1, <3>2, <3>3, <3>4
    <3> QED
      BY <3>1, <3>5 DEF T
  <2>3. N \in 0 .. N
    BY <1>1
  <2> HIDE DEF T
  <2> QED
    BY <1>1, <2>1, <2>2, <2>3, UpTo
<1>11. N \in 0 .. N
  BY <1>1
<1> QED
  BY <1>2, <1>10, <1>11, <1>a

(* A message of small fields is small.                                     *)
Small == 16777216
Room == 16777300

(***************************************************************************)
(* A message of few fields and short strings is written in a length that   *)
(* one body may have.                                                      *)
(***************************************************************************)
LEMMA SerializedSmall ==
  ASSUME NEW fields, FieldsOK(fields), NEW m \in MessagesOf(fields), Short(fields, m),
         Len(fields) <= 7,
         \A i \in DOMAIN fields : Has(m, fields[i].name) /\ fields[i].bytes => Len(m[fields[i].name]) <= Small
  PROVE  Len(Serialized(fields, m)) \in Lengths
<1> DEFINE N == Len(fields)
<1>0. /\ Small \in Nat /\ Room \in Nat
      /\ \A x \in 1 .. 5, y \in Nat : y <= Small => 1 + (x + y) \in Nat /\ 1 + (x + y) <= Room
      /\ \A x \in 1 .. 5 : 1 + x \in Nat /\ 1 + x <= Room
      /\ \A x, y, n \in Nat : x <= Room * n /\ y <= Room => x + y \in Nat /\ x + y <= Room * (n + 1)
      /\ \A x, y \in Nat : x <= Room * y /\ y <= 7 => x \in Lengths
      /\ 0 <= Room /\ 0 <= Room * 0
  <2>1. Small \in Nat /\ Room \in Nat /\ 0 <= Room /\ 0 <= Room * 0
    BY SMT DEF Small, Room
  <2>2. \A x \in 1 .. 5, y \in Nat : y <= Small => 1 + (x + y) \in Nat /\ 1 + (x + y) <= Room
    BY SMT DEF Small, Room
  <2>3. \A x \in 1 .. 5 : 1 + x \in Nat /\ 1 + x <= Room
    BY SMT DEF Room
  <2>4. \A x, y, n \in Nat : x <= Room * n /\ y <= Room => x + y \in Nat /\ x + y <= Room * (n + 1)
    BY SMT DEF Room
  <2>5. \A x, y \in Nat : x <= Room * y /\ y <= 7 => x \in Lengths
    BY SMT DEF Room, Lengths
  <2> QED
    BY ONLY <2>1, <2>2, <2>3, <2>4, <2>5
<1>1. N \in Nat /\ N <= 7 /\ DOMAIN fields = 1 .. N
  BY DEF FieldsOK
<1>2. PICK w : WrittenRun(w, fields, m) /\ Serialized(fields, m) = w[N]
  BY SerializedRuns
<1>3. ASSUME NEW n \in 1 .. N
      PROVE  WrittenField(fields[n], m) \in Seq(Byte)
             /\ Len(WrittenField(fields[n], m)) \in Nat /\ Len(WrittenField(fields[n], m)) <= Room
  <2> DEFINE f == fields[n]  val == m[f.name]
  <2>1. n \in DOMAIN fields
    BY <1>1
  <2>2. WrittenField(f, m) \in Seq(Byte) /\ Len(WrittenField(f, m)) = FieldSize(f, m)
    BY <2>1, WrittenType
  <2>3. f.bytes \in BOOLEAN /\ (Has(m, f.name) => val \in Holds(f) /\ (f.bytes => Len(val) \in Lengths /\ Len(val) <= Small))
    BY <2>1, MessagesAre DEF FieldsOK, Short
  <2>a. FieldSize(f, m) = IF ~ Has(m, f.name) THEN 0
                           ELSE 1 + (IF f.bytes THEN UInt32Size(W(Len(val))) + Len(val) ELSE UInt32Size(val))
    BY DEF FieldSize
  <2>b. f = fields[n]
    OBVIOUS
  <2> HIDE DEF f, val
  <2>4. \A x \in Word : UInt32Size(x) \in 1 .. 5
    BY VarintType
  <2>5. CASE ~ Has(m, f.name)
    <3>1. Len(WrittenField(f, m)) = 0
      BY ONLY <2>2, <2>5, <2>a
    <3> QED
      BY <1>0, <2>2, <2>b, <3>1
  <2>6. CASE Has(m, f.name) /\ f.bytes
    <3>1. Len(val) \in Nat /\ Len(val) <= Small /\ W(Len(val)) \in Word
      BY <2>3, <2>6, LengthIs, LenProperties DEF Holds
    <3>2. UInt32Size(W(Len(val))) \in 1 .. 5
      BY <2>4, <3>1
    <3> DEFINE a == UInt32Size(W(Len(val)))  c == Len(val)
    <3>3. Len(WrittenField(f, m)) = 1 + (a + c)
      BY ONLY <2>2, <2>6, <2>a
    <3> HIDE DEF a, c
    <3>4. a \in 1 .. 5 /\ c \in Nat /\ c <= Small
      BY <3>1, <3>2 DEF a, c
    <3>5. 1 + (a + c) \in Nat /\ 1 + (a + c) <= Room
      BY ONLY <1>0, <3>4
    <3> QED
      BY ONLY <2>2, <2>b, <3>3, <3>5
  <2>7. CASE Has(m, f.name) /\ ~ f.bytes
    <3>1. val \in Word
      BY <2>3, <2>7 DEF Holds
    <3>2. UInt32Size(val) \in 1 .. 5
      BY <2>4, <3>1
    <3>3. Len(WrittenField(f, m)) = 1 + UInt32Size(val)
      BY ONLY <2>2, <2>7, <2>a
    <3> QED
      BY ONLY <1>0, <2>2, <2>b, <3>2, <3>3
  <2> QED
    BY <2>3, <2>5, <2>6, <2>7
<1>4. w \in [0 .. N -> Seq(Byte)] /\ w[0] = << >> /\ \A n \in 1 .. N : w[n] = w[n - 1] \o WrittenField(fields[n], m)
  BY <1>2 DEF WrittenRun
<1> HIDE DEF N
<1> DEFINE T == { n \in 0 .. N : Len(w[n]) \in Nat /\ Len(w[n]) <= Room * n }
<1>5. N \in T
  <2>1. 0 \in T
    <3>1. Len(w[0]) = 0 /\ 0 \in 0 .. N
      BY <1>1, <1>4
    <3> QED
      BY <1>0, <3>1
  <2>2. ASSUME NEW n \in 0 .. N - 1, n \in T PROVE n + 1 \in T
    <3>1. n \in Nat /\ n + 1 \in 1 .. N /\ n + 1 \in 0 .. N /\ n \in 0 .. N /\ (n + 1) - 1 = n
      BY <1>1
    <3>2. Len(w[n]) \in Nat /\ Len(w[n]) <= Room * n
      BY <2>2
    <3> HIDE DEF T
    <3> DEFINE c == WrittenField(fields[n + 1], m)
    <3>3. c \in Seq(Byte) /\ Len(c) \in Nat /\ Len(c) <= Room
      BY <1>3, <3>1
    <3>4. w[n + 1] = w[n] \o c /\ w[n] \in Seq(Byte)
      BY <1>4, <3>1
    <3> HIDE DEF c
    <3>5. Len(w[n + 1]) = Len(w[n]) + Len(c)
      BY <3>3, <3>4, ConcatProperties
    <3> QED
      BY <1>0, <3>1, <3>2, <3>3, <3>5 DEF T
  <2>3. N \in 0 .. N
    BY <1>1
  <2> HIDE DEF T
  <2> QED
    BY <1>1, <2>1, <2>2, <2>3, UpTo
<1> DEFINE b == Serialized(fields, m)
<1>7. Len(b) \in Nat /\ Len(b) <= Room * N
  BY <1>2, <1>5
<1> HIDE DEF b
<1>8. Len(b) \in Lengths
  BY ONLY <1>0, <1>1, <1>7
<1> QED
  BY <1>8 DEF b

-----------------------------------------------------------------------------
(* Start-up.                                                               *)

(* A program that runs got through inits() with a setting that was read,   *)
(* a method and frames that are known, and one codec.                      *)
Beyond(setting, behind) ==
  IF setting.encryptMethod = "chacha20" /\ Len(setting.key) < 32 THEN behind ELSE << >>

(***************************************************************************)
(* A program that runs has read its settings, names a codec that exists    *)
(* and a frame that exists, and its facade lists that codec with the key   *)
(* of the settings.                                                        *)
(***************************************************************************)
LEMMA InitsRunning ==
  ASSUME NEW result, NEW behind, result.st # "running", Running(inits(result, behind))
  PROVE  LET p == inits(result, behind)  a == result.setting IN
         /\ result.st = "read" /\ p.setting = a /\ p.logLv = initLog(a.logLv)
         /\ a.encryptMethod \in CodecNames /\ a.frame \in headers
         /\ p.codec = [key |-> a.key, behind |-> Beyond(a, behind),
                       list |-> << a.encryptMethod >>, all |-> CodecNames]
<1> DEFINE a == result.setting
           method == a.encryptMethod
           beyond == IF method = "chacha20" /\ Len(a.key) < 32 THEN behind ELSE << >>
           codec == addCodec(init(a.key, beyond), method)
           p == inits(result, behind)
           running == [st |-> "running", setting |-> a, codec |-> codec, logLv |-> initLog(a.logLv)]
<1>1. p = CASE result.st # "read" -> result
            [] result.st = "read" /\ codec.list = << >> -> Ended("exit1")
            [] result.st = "read" /\ codec.list # << >> /\ a.frame \notin headers -> Ended("exit2")
            [] OTHER -> running
  BY DEF inits
<1>2. beyond = Beyond(a, behind)
  BY DEF Beyond
<1>3. codec = IF method \in CodecNames
              THEN [key |-> a.key, behind |-> beyond, list |-> << method >>, all |-> CodecNames]
              ELSE [key |-> a.key, behind |-> beyond, list |-> << >>, all |-> CodecNames]
  <2>1. Append(<< >>, method) = << method >>
    OBVIOUS
  <2>2. CodecNames = {"xor", "chacha20", "reverse", "none", "rc4"}
    BY DEF CodecNames
  <2>3. init(a.key, beyond) = [key |-> a.key, behind |-> beyond, list |-> << >>, all |-> CodecNames]
    BY <2>2 DEF init
  <2> DEFINE i == init(a.key, beyond)
  <2>4. i.all = CodecNames /\ i.list = << >>
    BY <2>3
  <2>5. codec = IF method \in i.all THEN [i EXCEPT !.list = Append(@, method)] ELSE i
    BY DEF addCodec
  <2>6. [i EXCEPT !.list = Append(@, method)]
          = [key |-> a.key, behind |-> beyond, list |-> << method >>, all |-> CodecNames]
    BY <2>1, <2>3
  <2> HIDE DEF method, beyond, a, i, codec
  <2>7. CASE method \in CodecNames
    BY ONLY <2>7, <2>4, <2>5, <2>6
  <2>8. CASE method \notin CodecNames
    BY ONLY <2>8, <2>4, <2>5, <2>3 DEF i
  <2> QED
    BY <2>7, <2>8
<1>4. running.setting = a /\ running.logLv = initLog(a.logLv) /\ running.codec = codec
  OBVIOUS
<1>5. p.st = "running"
  BY DEF Running
<1> HIDE DEF codec, beyond, method, p, running
<1>6. result.st = "read"
  BY <1>1, <1>5
<1>7. codec.list # << >>
  BY <1>1, <1>5, <1>6 DEF Ended
<1>8. a.frame \in headers
  BY <1>1, <1>5, <1>6, <1>7 DEF Ended
<1>9. p = running
  BY <1>1, <1>6, <1>7, <1>8
<1>10. method \in CodecNames
  BY <1>3, <1>7
<1>11. codec = [key |-> a.key, behind |-> beyond, list |-> << method >>, all |-> CodecNames]
  BY <1>3, <1>10
<1> QED
  BY <1>2, <1>4, <1>6, <1>8, <1>9, <1>10, <1>11 DEF p, method

(* How a program came to run.                                              *)
Started(program, result, behind) ==
  result.st # "running" /\ program = inits(result, behind) /\ Running(program)

(* Settings whose texts are short and whose level is a number.             *)
SettingOK(setting) ==
  /\ IsText(setting.key) /\ IsText(setting.user) /\ IsText(setting.password)
  /\ setting.logLv \in Int

(* A text of the options is bytes, of a length that a message may hold.    *)
LEMMA TextIs ==
  ASSUME NEW x, IsText(x)
  PROVE  x \in Seq(Byte) /\ Len(x) \in Nat /\ Len(x) \in Lengths /\ Len(x) <= Small
<1>1. x \in Seq(Byte)
  BY DEF IsText
<1>2. Len(x) \in Nat
  BY <1>1, LenProperties
<1>3. Len(x) < 256 * 65536
  BY SMT DEF IsText, Half
<1>4. \A n \in Nat : n < 256 * 65536 => n \in Lengths /\ n <= Small
  BY SMT DEF Lengths, Small
<1> QED
  BY SMT, <1>1, <1>2, <1>3, <1>4

(* What fits in a length byte of SOCKS is a text.                          *)
LEMMA ShortText ==
  ASSUME NEW x \in Seq(Byte), Len(x) <= 255
  PROVE  IsText(x)
<1>1. Len(x) \in Nat
  BY LenProperties
<1>2. \A n \in Nat : n <= 255 => n < 256 * Half
  BY SMT DEF Half
<1> QED
  BY <1>1, <1>2 DEF IsText

(* The codec of a program that runs can be proved about.                   *)
LEMMA StartedCodec ==
  ASSUME NEW program, NEW result, NEW behind, Started(program, result, behind),
         SettingOK(result.setting), behind \in Seq(Byte), Len(behind) >= 31
  PROVE  FacadeOK(program.codec)
<1> DEFINE a == program.setting  c == program.codec
<1>1. /\ program.setting = result.setting /\ a.encryptMethod \in CodecNames
      /\ c = [key |-> a.key, behind |-> Beyond(a, behind), list |-> << a.encryptMethod >>, all |-> CodecNames]
  BY InitsRunning DEF Started
<1>2. IsText(a.key)
  BY <1>1 DEF SettingOK
<1> HIDE DEF a, c
<1>3. a.key \in Seq(Byte) /\ Len(a.key) \in Nat
  BY <1>2, TextIs
<1>4. Beyond(a, behind) \in Seq(Byte)
  BY DEF Beyond
<1>5. c.key = a.key /\ c.behind = Beyond(a, behind) /\ c.list = << a.encryptMethod >>
  BY <1>1
<1>6. c.list \in Seq(CodecNames) /\ Len(c.list) = 1 /\ c.list[1] = a.encryptMethod
  BY <1>1, <1>5
<1>7. a.encryptMethod = "chacha20" => Len(a.key) + Len(Beyond(a, behind)) >= 31
  <2>1. CASE Len(a.key) < 32
    <3>1. a.encryptMethod = "chacha20" => Beyond(a, behind) = behind
      BY <2>1 DEF Beyond
    <3>2. Len(behind) \in Nat
      BY LenProperties
    <3> QED
      BY <1>3, <3>1, <3>2
  <2>2. CASE ~ Len(a.key) < 32
    <3>1. Len(Beyond(a, behind)) \in Nat
      BY <1>4, LenProperties
    <3> QED
      BY <1>3, <2>2, <3>1
  <2> QED
    BY <2>1, <2>2
<1>8. \A n \in 1 .. Len(c.list) : c.list[n] = a.encryptMethod
  BY <1>6
<1> QED
  BY <1>3, <1>4, <1>5, <1>6, <1>7, <1>8 DEF FacadeOK, c

-----------------------------------------------------------------------------
(* The settings.                                                           *)
LEMMA LettersType ==
  ASSUME NEW from \in 0 .. 127, NEW to \in from .. 127
  PROVE  Letters(from, to) \in Seq(Byte) /\ Len(Letters(from, to)) = to - from + 1
<1> DEFINE n == to - from + 1
<1>1. n \in Nat /\ \A i \in 1 .. n : from + i - 1 \in Nat /\ from + i - 1 < 256
  OBVIOUS
<1>2. \A i \in 1 .. n : from + i - 1 \in Byte
  BY <1>1, BelowByte
<1>3. Letters(from, to) = [i \in 1 .. n |-> from + i - 1]
  BY DEF Letters
<1> HIDE DEF n
<1> QED
  BY <1>1, <1>2, <1>3 DEF n

(* The letters that random strings are drawn from.                         *)
LEMMA VisibleType ==
  visible \in Seq(Byte) /\ Len(visible) \in Nat \ {0}
<1>1. Letters(97, 108) \in Seq(Byte) /\ Len(Letters(97, 108)) = 12
  <2>1. 97 \in 0 .. 127 /\ 108 \in 97 .. 127
    BY SMT
  <2>2. Letters(97, 108) \in Seq(Byte) /\ Len(Letters(97, 108)) = 108 - 97 + 1
    BY <2>1, LettersType
  <2> QED
    BY SMT, <2>2
<1>2. << 110, 109 >> \in Seq(Byte)
  <2>1. 110 \in Byte /\ 109 \in Byte
    BY BelowByte
  <2> QED
    BY <2>1
<1>3. Letters(111, 122) \in Seq(Byte) /\ Letters(65, 90) \in Seq(Byte) /\ Letters(49, 57) \in Seq(Byte)
  <2>1. Letters(111, 122) \in Seq(Byte)
    BY LettersType
  <2>2. Letters(65, 90) \in Seq(Byte)
    BY LettersType
  <2>3. Letters(49, 57) \in Seq(Byte)
    BY LettersType
  <2> QED
    BY <2>1, <2>2, <2>3
<1>4. << 48 >> \in Seq(Byte)
  <2>1. 48 \in Byte
    BY BelowByte
  <2> QED
    BY <2>1
<1> DEFINE a == Letters(97, 108)  b == << 110, 109 >>  c == Letters(111, 122)
           d == Letters(65, 90)  e == Letters(49, 57)  f == << 48 >>
<1>5. visible = a \o b \o c \o d \o e \o f
  BY DEF visible
<1>6. a \in Seq(Byte) /\ Len(a) = 12 /\ b \in Seq(Byte) /\ c \in Seq(Byte) /\ d \in Seq(Byte)
      /\ e \in Seq(Byte) /\ f \in Seq(Byte)
  BY <1>1, <1>2, <1>3, <1>4
<1> HIDE DEF a, b, c, d, e, f
<1>7. \A x, y \in Seq(Byte) : x \o y \in Seq(Byte) /\ (Len(x) \in Nat \ {0} => Len(x \o y) \in Nat \ {0})
  <2> TAKE x, y \in Seq(Byte)
  <2>1. x \o y \in Seq(Byte) /\ Len(x \o y) = Len(x) + Len(y)
    BY ConcatProperties
  <2>2. Len(x) \in Nat /\ Len(y) \in Nat
    BY LenProperties
  <2> QED
    BY <2>1, <2>2
<1>8. a \o b \in Seq(Byte) /\ Len(a \o b) \in Nat \ {0}
  <2>1. Len(a) \in Nat \ {0}
    BY <1>6
  <2> QED
    BY ONLY <1>6, <1>7, <2>1
<1>9. a \o b \o c \in Seq(Byte) /\ Len(a \o b \o c) \in Nat \ {0}
  BY <1>6, <1>7, <1>8
<1>10. a \o b \o c \o d \in Seq(Byte) /\ Len(a \o b \o c \o d) \in Nat \ {0}
  BY <1>6, <1>7, <1>9
<1>11. a \o b \o c \o d \o e \in Seq(Byte) /\ Len(a \o b \o c \o d \o e) \in Nat \ {0}
  BY <1>6, <1>7, <1>10
<1>12. a \o b \o c \o d \o e \o f \in Seq(Byte) /\ Len(a \o b \o c \o d \o e \o f) \in Nat \ {0}
  BY <1>6, <1>7, <1>11
<1> QED
  BY <1>5, <1>12

(* The random string that stands in for a key.                             *)
LEMMA RandomKey ==
  ASSUME NEW seed, NEW at \in {0, 12}, \A i \in 1 .. 20 : Rand(seed, i) \in Nat
  PROVE  IsText(randStringVisible(seed, at, 8))
<1> DEFINE x == randStringVisible(seed, at, 8)
<1>1. \A i \in 1 .. 8 : at + i \in 1 .. 20
  OBVIOUS
<1>2. \A n \in Nat, l \in Nat \ {0} : (n % l) + 1 \in 1 .. l
  OBVIOUS
<1>3. x = [i \in 1 .. 8 |-> visible[(Rand(seed, at + i) % Len(visible)) + 1]]
  BY DEF randStringVisible
<1>4. \A i \in 1 .. 8 : visible[(Rand(seed, at + i) % Len(visible)) + 1] \in Byte
  <2> TAKE i \in 1 .. 8
  <2>1. Rand(seed, at + i) \in Nat
    BY <1>1
  <2>2. (Rand(seed, at + i) % Len(visible)) + 1 \in 1 .. Len(visible)
    BY <1>2, <2>1, VisibleType
  <2> QED
    BY <2>2, VisibleType, ElementOfSeq
<1> HIDE DEF x
<1>5. x \in Seq(Byte) /\ Len(x) = 8
  BY <1>3, <1>4
<1>6. IsText(x)
  <2>1. Len(x) <= 255
    BY <1>5
  <2> QED
    BY <1>5, <2>1, ShortText
<1> QED
  BY <1>6 DEF x

(* loadConfig() of a file that can be read, and the options.               *)
LEMMA LoadedOK ==
  ASSUME NEW name, \A n \in DOMAIN Files : FileOK(Files[n])
  PROVE  SettingOK(loadConfig(name))
<1>1. IsText(Digits) /\ IsText(<< >>)
  <2>1. Digits \in Seq(Byte) /\ Len(Digits) <= 255
    <3>1. 49 \in Byte /\ 50 \in Byte /\ 51 \in Byte /\ 52 \in Byte /\ 53 \in Byte
      BY BelowByte
    <3> QED
      BY <3>1 DEF Digits
  <2>2. << >> \in Seq(Byte) /\ Len(<< >>) <= 255
    OBVIOUS
  <2>3. IsText(Digits)
    BY <2>1, ShortText
  <2>4. IsText(<< >>)
    BY <2>2, ShortText
  <2> QED
    BY <2>3, <2>4
<1>2. CASE name \notin DOMAIN Files
  <2>1. loadConfig(name) = Unset
    BY <1>2 DEF loadConfig
  <2>2. Unset.key = << >> /\ Unset.user = << >> /\ Unset.password = << >> /\ Unset.logLv = 0
    BY DEF Unset
  <2> QED
    BY <1>1, <2>1, <2>2 DEF SettingOK
<1>3. CASE name \in DOMAIN Files
  <2> DEFINE file == Files[name]  a == loadConfig(name)
  <2>1. /\ a.key = Given(file, "key", Digits) /\ a.user = Given(file, "user", Digits)
        /\ a.password = Given(file, "password", Digits) /\ a.logLv = Given(file, "loglv", 0)
    BY <1>3 DEF loadConfig
  <2>2. FileOK(file)
    BY <1>3
  <2> HIDE DEF file, a
  <2>3. IsText(Given(file, "key", Digits)) /\ IsText(Given(file, "user", Digits)) /\ IsText(Given(file, "password", Digits))
    BY <1>1, <2>2 DEF FileOK, Given
  <2>4. Given(file, "loglv", 0) \in Int
    BY <2>2 DEF FileOK, Given
  <2>5. SettingOK(a)
    BY <2>1, <2>3, <2>4 DEF SettingOK
  <2> QED
    BY <2>5 DEF a
<1> QED
  BY <1>2, <1>3

(* The settings made of the options of a line are fit to run.              *)
LEMMA FromOptionsOK ==
  ASSUME NEW line, LineOK(line), Converts(line), NEW key, IsText(key)
  PROVE  SettingOK(fromOptions(line, key))
<1> DEFINE a == fromOptions(line, key)
           level == Given(line, "log_level", {0})
<1>1. /\ a.key = Given(line, "key", key) /\ a.user = Given(line, "user", Test)
      /\ a.password = Given(line, "password", Test) /\ a.logLv = CHOOSE n \in level : TRUE
  BY DEF fromOptions
<1>2. IsText(Test)
  <2>1. Test \in Seq(Byte) /\ Len(Test) <= 255
    <3>1. 116 \in Byte /\ 101 \in Byte /\ 115 \in Byte
      BY BelowByte
    <3> QED
      BY <3>1 DEF Test
  <2> QED
    BY <2>1, ShortText
<1>3. level # {} /\ level \subseteq Int
  <2>1. CASE "log_level" \in DOMAIN line
    BY <2>1 DEF Given, Converts, LineOK
  <2>2. CASE "log_level" \notin DOMAIN line
    BY <2>2 DEF Given
  <2> QED
    BY <2>1, <2>2
<1> HIDE DEF a, level
<1>4. (CHOOSE n \in level : TRUE) \in Int
  BY <1>3
<1>5. IsText(Given(line, "key", key)) /\ IsText(Given(line, "user", Test)) /\ IsText(Given(line, "password", Test))
  BY <1>2 DEF Given, LineOK
<1> QED
  BY <1>1, <1>4, <1>5 DEF SettingOK, a

(* What both programs make of a command line: the end of the program, or   *)
(* the setting of the file or the options.                                 *)
FromLine(result, line) ==
  \/ result.st \in {"exit3", "died"}
  \/ /\ result.st = "read" /\ Converts(line)
     /\ \/ "setting" \in DOMAIN line /\ result.setting = loadConfig(line["setting"])
        \/ /\ "setting" \notin DOMAIN line /\ AddressesConvert(line)
           /\ \E key : IsText(key) /\ result.setting = fromOptions(line, key)

(***************************************************************************)
(* The settings of a line are read from the file it names or made of its   *)
(* options.                                                                *)
(***************************************************************************)
LEMMA SettingOfIs ==
  ASSUME NEW line, NEW key, IsText(key), Converts(line)
  PROVE  FromLine(settingOf(line, key), line)
<1>1. CASE "setting" \in DOMAIN line
  <2>1. settingOf(line, key) = Read(loadConfig(line["setting"]))
    BY <1>1 DEF settingOf
  <2> QED
    BY <1>1, <2>1 DEF FromLine, Read
<1>2. CASE "setting" \notin DOMAIN line /\ AddressesConvert(line)
  <2>1. settingOf(line, key) = Read(fromOptions(line, key))
    BY <1>2 DEF settingOf
  <2>2. Read(fromOptions(line, key)).st = "read" /\ Read(fromOptions(line, key)).setting = fromOptions(line, key)
    BY DEF Read
  <2> QED
    BY <1>2, <2>1, <2>2 DEF FromLine
<1>3. CASE "setting" \notin DOMAIN line /\ ~ AddressesConvert(line)
  <2>1. settingOf(line, key) = Ended("died")
    BY <1>3 DEF settingOf
  <2> QED
    BY <2>1 DEF FromLine, Ended
<1> QED
  BY <1>1, <1>2, <1>3

(* The same of the settings of tun_local.                                  *)
LEMMA LocalSettingIs ==
  ASSUME NEW line, NEW seed, \A i \in 1 .. 20 : Rand(seed, i) \in Nat
  PROVE  FromLine(localSetting(line, seed), line)
<1>1. CASE ~ Parses(line, LocalOptions)
  <2>1. localSetting(line, seed) = Ended("exit3")
    BY <1>1 DEF localSetting
  <2> QED
    BY <2>1 DEF FromLine, Ended
<1>2. CASE Parses(line, LocalOptions) /\ ~ Converts(line)
  <2>1. localSetting(line, seed) = Ended("died")
    BY <1>2 DEF localSetting
  <2> QED
    BY <2>1 DEF FromLine, Ended
<1>3. CASE Parses(line, LocalOptions) /\ Converts(line)
  <2>1. localSetting(line, seed) = settingOf(line, randStringVisible(seed, 0, 8))
    BY <1>3 DEF localSetting
  <2>2. IsText(randStringVisible(seed, 0, 8))
    BY RandomKey
  <2> QED
    BY <1>3, <2>1, <2>2, SettingOfIs
<1> QED
  BY <1>1, <1>2, <1>3

(* The same of the settings of tun_remote.                                 *)
LEMMA RemoteSettingIs ==
  ASSUME NEW line, NEW seed, \A i \in 1 .. 20 : Rand(seed, i) \in Nat
  PROVE  FromLine(remoteSetting(line, seed), line)
<1> DEFINE drawn == IF "user_list" \in DOMAIN line THEN 0 ELSE 12
           Bad == "user_list" \in DOMAIN line /\ ~ IsUserList(line["user_list"])
<1>1. CASE ~ Parses(line, RemoteOptions)
  <2>1. remoteSetting(line, seed) = Ended("exit3")
    BY <1>1 DEF remoteSetting
  <2> QED
    BY <2>1 DEF FromLine, Ended
<1>2. CASE Parses(line, RemoteOptions) /\ ~ Converts(line)
  <2>1. remoteSetting(line, seed) = Ended("died")
    BY <1>2 DEF remoteSetting
  <2> QED
    BY <2>1 DEF FromLine, Ended
<1>3. CASE Parses(line, RemoteOptions) /\ Converts(line)
  <2>1. remoteSetting(line, seed)
          = IF Bad THEN Ended("exit3") ELSE settingOf(line, randStringVisible(seed, drawn, 8))
    BY <1>3 DEF remoteSetting
  <2>2. drawn \in {0, 12}
    OBVIOUS
  <2> HIDE DEF drawn, Bad
  <2>3. IsText(randStringVisible(seed, drawn, 8))
    BY <2>2, RandomKey
  <2>4. FromLine(settingOf(line, randStringVisible(seed, drawn, 8)), line)
    BY <1>3, <2>3, SettingOfIs
  <2>5. FromLine(Ended("exit3"), line)
    BY DEF FromLine, Ended
  <2> QED
    BY <2>1, <2>4, <2>5
<1> QED
  BY <1>1, <1>2, <1>3

(***************************************************************************)
(* Settings that were read, from a file or from the options, are fit to    *)
(* run.                                                                    *)
(***************************************************************************)
LEMMA FromLineOK ==
  ASSUME NEW result, NEW line, FromLine(result, line), LineOK(line),
         \A n \in DOMAIN Files : FileOK(Files[n])
  PROVE  /\ result.st # "running"
         /\ result.st = "read" => SettingOK(result.setting)
<1>1. result.st # "running"
  BY DEF FromLine
<1>2. ASSUME result.st = "read" PROVE SettingOK(result.setting)
  <2>1. CASE "setting" \in DOMAIN line /\ result.setting = loadConfig(line["setting"])
    BY <2>1, LoadedOK
  <2>2. CASE \E key : IsText(key) /\ result.setting = fromOptions(line, key)
    BY <1>2, <2>2, FromOptionsOK DEF FromLine
  <2> QED
    BY <1>2, <2>1, <2>2 DEF FromLine
<1> QED
  BY <1>1, <1>2

(* A program that runs was told what it has.                               *)
LEMMA StartedTold ==
  ASSUME NEW program, NEW result, NEW line, NEW behind, FromLine(result, line),
         Started(program, result, behind)
  PROVE  Told(program.setting, line)
<1>1. program.setting = result.setting /\ result.st = "read" /\ result.setting.encryptMethod \in CodecNames
  BY InitsRunning DEF Started
<1>2. CASE "setting" \in DOMAIN line
  <2> DEFINE name == line["setting"]  file == Files[name]  a == program.setting
  <2>1. a = loadConfig(name)
    BY <1>1, <1>2 DEF FromLine
  <2>2. name \in DOMAIN Files
    <3>1. ASSUME name \notin DOMAIN Files PROVE FALSE
      <4>1. a = Unset
        BY <2>1, <3>1 DEF loadConfig
      <4>2. Unset.encryptMethod = ""
        BY DEF Unset
      <4>4. a.encryptMethod = ""
        BY <4>1, <4>2
      <4>3. a.encryptMethod \in CodecNames
        BY <1>1
      <4> QED
        BY ONLY <4>4, <4>3 DEF CodecNames
    <3> QED
      BY <3>1
  <2>3. a = [threadCount |-> Given(file, "threads", 1),
             localBindAddr |-> Given(file, "local_bind", "127.0.0.1"),
             localListenPort |-> Given(file, "local_port", 2333),
             serverBindAddr |-> Given(file, "server_bind", "127.0.0.1"),
             serverListenPort |-> Given(file, "server_port", 8000),
             encryptMethod |-> Given(file, "method", "xor"), frame |-> Given(file, "frame", "fix"),
             key |-> Given(file, "key", Digits), user |-> Given(file, "user", Digits),
             password |-> Given(file, "password", Digits), logLv |-> Given(file, "loglv", 0)]
    BY <2>1, <2>2 DEF loadConfig
  <2> HIDE DEF a, file
  <2>4. ToldByFile(a, file)
    <3>1. DOMAIN FieldOf = {"local_bind", "local_port", "server_bind", "server_port", "method",
                            "frame", "key", "user", "password", "loglv", "threads"}
      BY DEF FieldOf
    <3>2. /\ FieldOf["local_bind"] = "localBindAddr" /\ FieldOf["local_port"] = "localListenPort"
          /\ FieldOf["server_bind"] = "serverBindAddr" /\ FieldOf["server_port"] = "serverListenPort"
          /\ FieldOf["method"] = "encryptMethod" /\ FieldOf["frame"] = "frame" /\ FieldOf["key"] = "key"
          /\ FieldOf["user"] = "user" /\ FieldOf["password"] = "password" /\ FieldOf["loglv"] = "logLv"
          /\ FieldOf["threads"] = "threadCount"
      BY DEF FieldOf
    <3>3. \A other : \A f \in DOMAIN file : Given(file, f, other) = file[f]
      BY DEF Given
    <3>4. /\ "local_bind" \in DOMAIN file => a["localBindAddr"] = file["local_bind"]
          /\ "local_port" \in DOMAIN file => a["localListenPort"] = file["local_port"]
          /\ "server_bind" \in DOMAIN file => a["serverBindAddr"] = file["server_bind"]
          /\ "server_port" \in DOMAIN file => a["serverListenPort"] = file["server_port"]
          /\ "method" \in DOMAIN file => a["encryptMethod"] = file["method"]
          /\ "frame" \in DOMAIN file => a["frame"] = file["frame"]
          /\ "key" \in DOMAIN file => a["key"] = file["key"]
          /\ "user" \in DOMAIN file => a["user"] = file["user"]
          /\ "password" \in DOMAIN file => a["password"] = file["password"]
          /\ "loglv" \in DOMAIN file => a["logLv"] = file["loglv"]
          /\ "threads" \in DOMAIN file => a["threadCount"] = file["threads"]
      BY <2>3, <3>3
    <3> QED
      BY <3>1, <3>2, <3>4 DEF ToldByFile
  <2> QED
    BY <1>2, <2>4 DEF Told, a, file
<1>3. CASE "setting" \notin DOMAIN line
  <2> DEFINE a == program.setting
             port == BindAddress(line).port
  <2>1. PICK key : IsText(key) /\ a = fromOptions(line, key)
    BY <1>1, <1>3 DEF FromLine
  <2>2. AddressesConvert(line)
    BY <1>1, <1>3 DEF FromLine
  <2>3. /\ a["encryptMethod"] = Given(line, "method", "none") /\ a["frame"] = Given(line, "frame", "fix")
        /\ a["key"] = Given(line, "key", key) /\ a["user"] = Given(line, "user", Test)
        /\ a["password"] = Given(line, "password", Test)
        /\ a.serverBindAddr = BindAddress(line).host
        /\ a.serverListenPort = CHOOSE n \in port : TRUE
        /\ a.logLv = CHOOSE n \in Given(line, "log_level", {0}) : TRUE
        /\ a.threadCount = CHOOSE n \in Given(line, "thread", {4}) : TRUE
    BY <2>1 DEF fromOptions
  <2>a. /\ "log_level" \in DOMAIN line => Given(line, "log_level", {0}) = line["log_level"] /\ line["log_level"] # {}
        /\ "thread" \in DOMAIN line => Given(line, "thread", {4}) = line["thread"] /\ line["thread"] # {}
    BY <1>1 DEF FromLine, Converts, Given
  <2> HIDE DEF a, port
  <2>b. /\ "log_level" \in DOMAIN line => a.logLv \in line["log_level"]
        /\ "thread" \in DOMAIN line => a.threadCount \in line["thread"]
    BY <2>3, <2>a
  <2>4. \A o \in DOMAIN line \cap {"method", "frame", "key", "user", "password"} : a[FieldOf[o]] = line[o]
    <3>1. /\ FieldOf["method"] = "encryptMethod" /\ FieldOf["frame"] = "frame" /\ FieldOf["key"] = "key"
          /\ FieldOf["user"] = "user" /\ FieldOf["password"] = "password"
      BY DEF FieldOf
    <3>2. \A other : \A f \in DOMAIN line : Given(line, f, other) = line[f]
      BY DEF Given
    <3> QED
      BY <2>3, <3>1, <3>2
  <2>5. ASSUME "server_addr" \in DOMAIN line, "local_addr" \notin DOMAIN line
        PROVE  /\ a.serverBindAddr = line["server_addr"].host
               /\ a.serverListenPort \in line["server_addr"].port
    <3>1. BindAddress(line) = line["server_addr"]
      BY <2>5 DEF BindAddress, Given
    <3>2. line["server_addr"].port # {}
      BY <2>2, <2>5 DEF AddressesConvert
    <3> QED
      BY <2>3, <3>1, <3>2 DEF port
  <2>6. ToldByOptions(a, line)
    BY <2>4, <2>5, <2>b DEF ToldByOptions
  <2> QED
    BY <1>3, <2>6 DEF Told, a
<1> QED
  BY <1>2, <1>3

-----------------------------------------------------------------------------
(* The checksum.                                                           *)

(* A run over data, a byte at a time, from all ones.                       *)
DigestStep(g, data) == [n \in 1 .. Len(data) |-> [x \in Word |-> g[x][data[n]]]]

(* The state a run of the recursive definitions in Checksum ends in, for   *)
(* the table of steps g, is that of a run.                                 *)
LEMMA Digests ==
  ASSUME NEW g \in [Word -> [Byte -> Word]], NEW data \in Seq(Byte)
  PROVE  LET state[n \in 0 .. Len(data)] == IF n = 0 THEN Ones ELSE g[state[n - 1]][data[n]]
         IN  Recurs(state, Len(data), Word, Ones, DigestStep(g, data))
<1> DEFINE N == Len(data)
           Step(n, x) == g[x][data[n]]
           h == DigestStep(g, data)
           Is(f) == f = [n \in 0 .. N |-> IF n = 0 THEN Ones ELSE Step(n, f[n - 1])]
           state == CHOOSE f : Is(f)
<1>a. state = CHOOSE f : Is(f)
  OBVIOUS
<1>1. N \in Nat
  BY LenProperties
<1>2. Ones \in Word
  <2>1. Ones = << 65535, 65535 >>
    BY SMT DEF Ones, Half
  <2>2. \A x, y \in Nat : x < 65536 /\ y < 65536 => << x, y >> \in Word
    BY WordIs
  <2>3. << 65535, 65535 >> \in Word
    BY ONLY SMT, <2>2
  <2> QED
    BY ONLY <2>1, <2>3
<1>3. \A n \in 1 .. N : \A x \in Word : Step(n, x) \in Word
  <2> TAKE n \in 1 .. N
  <2> TAKE x \in Word
  <2>1. data[n] \in Byte
    BY ElementOfSeq
  <2> QED
    BY <2>1
<1>4. h = [n \in 1 .. N |-> [x \in Word |-> Step(n, x)]]
  BY DEF DigestStep
<1> HIDE DEF Step, h
<1>5. h \in [1 .. N -> [Word -> Word]]
  BY <1>3, <1>4
<1> HIDE DEF N
<1>6. PICK f : Recurs(f, N, Word, Ones, h)
  BY <1>1, <1>2, <1>5, Recursion
<1>7. Is(f)
  <2>1. f \in [0 .. N -> Word] /\ f[0] = Ones /\ \A n \in 1 .. N : f[n] = h[n][f[n - 1]]
    BY <1>6 DEF Recurs
  <2>2. ASSUME NEW n \in 1 .. N PROVE f[n] = Step(n, f[n - 1])
    <3>1. n - 1 \in 0 .. N
      BY <1>1
    <3>2. f[n] = h[n][f[n - 1]] /\ f[n - 1] \in Word
      BY <2>1, <3>1
    <3> QED
      BY <1>4, <3>2
  <2>3. \A n \in 0 .. N : n # 0 => n \in 1 .. N
    BY <1>1
  <2>4. \A n \in 0 .. N : f[n] = IF n = 0 THEN Ones ELSE Step(n, f[n - 1])
    BY <2>1, <2>2, <2>3
  <2>5. f = [n \in 0 .. N |-> f[n]]
    BY <2>1
  <2> QED
    BY <2>4, <2>5
<1> HIDE DEF Is, state
<1>8. Is(state)
  BY <1>7, <1>a
<1>9. Recurs(state, N, Word, Ones, h)
  <2>1. state = [n \in 0 .. N |-> IF n = 0 THEN Ones ELSE Step(n, state[n - 1])]
    BY <1>8 DEF Is
  <2>2. 0 \in 0 .. N /\ \A n \in 1 .. N : n \in 0 .. N /\ n # 0 /\ n - 1 \in 0 .. N
    BY <1>1
  <2>3. \A n \in 0 .. N : state[n] = IF n = 0 THEN Ones ELSE Step(n, state[n - 1])
    BY ONLY <2>1
  <2>4. state = [n \in 0 .. N |-> state[n]]
    BY ONLY <2>1
  <2>5. state[0] = Ones /\ \A n \in 1 .. N : state[n] = Step(n, state[n - 1])
    BY ONLY <2>2, <2>3
  <2>6. \A n \in 1 .. N : state[n - 1] \in Word => state[n] \in Word
    BY <1>3, <2>5
  <2>7. state \in [0 .. N -> Word]
    BY <1>1, <1>2, <2>4, <2>5, <2>6, Stays
  <2>8. ASSUME NEW n \in 1 .. N PROVE state[n] = h[n][state[n - 1]]
    <3>1. state[n - 1] \in Word
      BY <2>2, <2>7
    <3> QED
      BY <1>4, <2>5, <3>1
  <2> QED
    BY <2>5, <2>7, <2>8 DEF Recurs
<1> QED
  BY <1>9 DEF state, Is, Step, h, N

(* The table of four bits: sixteen words.                                  *)
LEMMA TableType ==
  ASSUME NEW d \in 0 .. 15
  PROVE  crc32_table[d + 1] \in Word
<1>1. /\ crc32_table[1] = << 0, 0 >> /\ crc32_table[2] = << 7607, 4196 >>
      /\ crc32_table[3] = << 15214, 8392 >> /\ crc32_table[4] = << 9945, 12460 >>
      /\ crc32_table[5] = << 30428, 16784 >> /\ crc32_table[6] = << 27499, 20980 >>
      /\ crc32_table[7] = << 19890, 24920 >> /\ crc32_table[8] = << 20485, 28988 >>
      /\ crc32_table[9] = << 60856, 33568 >> /\ crc32_table[10] = << 61455, 37700 >>
      /\ crc32_table[11] = << 54998, 41960 >> /\ crc32_table[12] = << 52065, 45964 >>
      /\ crc32_table[13] = << 39780, 49840 >> /\ crc32_table[14] = << 34515, 53972 >>
      /\ crc32_table[15] = << 40970, 57976 >> /\ crc32_table[16] = << 48573, 61980 >>
  BY SMT DEF crc32_table
<1>2. \A x, y \in Nat : x < 65536 /\ y < 65536 => << x, y >> \in Word
  BY WordIs
<1>3. crc32_table[1] \in Word /\ crc32_table[2] \in Word /\ crc32_table[3] \in Word /\ crc32_table[4] \in Word
  BY SMT, <1>1, <1>2
<1>4. crc32_table[5] \in Word /\ crc32_table[6] \in Word /\ crc32_table[7] \in Word /\ crc32_table[8] \in Word
  BY SMT, <1>1, <1>2
<1>5. crc32_table[9] \in Word /\ crc32_table[10] \in Word /\ crc32_table[11] \in Word /\ crc32_table[12] \in Word
  BY SMT, <1>1, <1>2
<1>6. crc32_table[13] \in Word /\ crc32_table[14] \in Word /\ crc32_table[15] \in Word /\ crc32_table[16] \in Word
  BY SMT, <1>1, <1>2
<1>7. d + 1 \in {1, 2, 3, 4, 5, 6, 7, 8, 9, 10, 11, 12, 13, 14, 15, 16}
  BY SMT
<1> QED
  BY ONLY SMT, <1>3, <1>4, <1>5, <1>6, <1>7

(* On digits, the exclusive or of bytes is that of digits.                 *)
LEMMA LowDigit ==
  ASSUME NEW a \in 0 .. 15, NEW b \in 0 .. 15
  PROVE  a \in Byte /\ b \in Byte /\ XorByte(a, b) = XorDigit(a, b) /\ XorDigit(a, b) \in 0 .. 15
<1>1. XorDigit(a, b) \in 0 .. 15
  BY XorDigitBack
<1>2. a \div 16 = 0 /\ b \div 16 = 0 /\ (a % 16) = a /\ (b % 16) = b
  OBVIOUS
<1>3. XorDigit(0, 0) = 0
  BY DEF XorDigit
<1>4. XorByte(a, b) = XorDigit(0, 0) * 16 + XorDigit(a, b)
  <2>1. XorByte(a, b) = Xors[0][0] * 16 + Xors[a][b]
    BY <1>2 DEF XorByte
  <2>2. Xors[0][0] = XorDigit(0, 0) /\ Xors[a][b] = XorDigit(a, b)
    BY XorsAre
  <2> QED
    BY <2>1, <2>2
<1>5. a \in Byte /\ b \in Byte
  BY BelowByte
<1> QED
  BY <1>1, <1>3, <1>4, <1>5

(* A step of the checksum leaves a word.                                   *)
LEMMA DigitType ==
  ASSUME NEW a \in Word, NEW d \in 0 .. 15
  PROVE  Digit(a, d) \in Word
<1>1. (a[2] % 16) \in 0 .. 15
  <2>1. a[2] \in Nat
    BY WordIs
  <2> QED
    BY <2>1
<1>2. XorByte(a[2] % 16, d) \in 0 .. 15
  BY <1>1, LowDigit
<1> QED
  BY <1>2, TableType, ShiftedType, XorWordType DEF Digit

(* update takes a word and a byte to a word.                               *)
LEMMA UpdateType ==
  update \in [Word -> [Byte -> Word]]
<1>1. ASSUME NEW a \in Word, NEW d \in Byte PROVE Digit(Digit(a, d % 16), d \div 16) \in Word
  <2>1. (d % 16) \in 0 .. 15 /\ d \div 16 \in 0 .. 15
    BY DigitsOf
  <2>2. Digit(a, d % 16) \in Word
    BY <2>1, DigitType
  <2> QED
    BY <2>1, <2>2, DigitType
<1>2. update = [state \in Word |-> [data \in Byte |-> Digit(Digit(state, data % 16), data \div 16)]]
  BY DEF update
<1> QED
  BY <1>1, <1>2

(* The checksum of bytes is a word.                                        *)
LEMMA CalculateType ==
  ASSUME NEW data \in Seq(Byte)
  PROVE  calculate(data) \in Word
<1> DEFINE state == CHOOSE f : f = [n \in 0 .. Len(data) |-> IF n = 0 THEN Ones ELSE update[f[n - 1]][data[n]]]
<1>1. Recurs(state, Len(data), Word, Ones, DigestStep(update, data))
  BY UpdateType, Digests
<1>2. Updated(data) = state[Len(data)]
  BY DEF Updated
<1>3. Len(data) \in 0 .. Len(data)
  BY LenProperties
<1> HIDE DEF state
<1>4. Updated(data) \in Word
  BY <1>1, <1>2, <1>3 DEF Recurs
<1> QED
  BY <1>4, ComplementType DEF calculate

-----------------------------------------------------------------------------
(* The messages of both programs.                                          *)

(* The tables of the generated classes.                                    *)
LEMMA ProxyMsgTable ==
  LET f == ProxyMsgFields IN
  /\ Len(f) = 7 /\ DOMAIN f = 1 .. 7
  /\ f[1].name = "place_holder" /\ f[1].tag = 10 /\ f[1].bytes
  /\ f[2].name = "check_sum" /\ f[2].tag = 16 /\ ~ f[2].bytes
  /\ f[3].name = "cmd" /\ f[3].tag = 24 /\ ~ f[3].bytes
  /\ f[4].name = "subcmd" /\ f[4].tag = 32 /\ ~ f[4].bytes
  /\ f[5].name = "seq" /\ f[5].tag = 40 /\ ~ f[5].bytes
  /\ f[6].name = "err_code" /\ f[6].tag = 48 /\ ~ f[6].bytes
  /\ f[7].name = "body" /\ f[7].tag = 82 /\ f[7].bytes
  /\ \A i \in 1 .. 7 : f[i].bytes \in BOOLEAN
<1> DEFINE f == ProxyMsgFields
<1>1. /\ f = << f[1], f[2], f[3], f[4], f[5], f[6], f[7] >>
      /\ f[1] = Field("place_holder", 1, TRUE) /\ f[2] = Field("check_sum", 2, FALSE)
      /\ f[3] = Field("cmd", 3, FALSE) /\ f[4] = Field("subcmd", 4, FALSE)
      /\ f[5] = Field("seq", 5, FALSE) /\ f[6] = Field("err_code", 6, FALSE)
      /\ f[7] = Field("body", 10, TRUE)
  BY DEF ProxyMsgFields
<1> HIDE DEF f
<1>2. Len(f) = 7 /\ DOMAIN f = 1 .. 7
  BY ONLY <1>1
<1>3. /\ f[1].name = "place_holder" /\ f[1].tag = 10 /\ f[1].bytes = TRUE
      /\ f[2].name = "check_sum" /\ f[2].tag = 16 /\ f[2].bytes = FALSE
  BY ONLY <1>1 DEF Field
<1>4. /\ f[3].name = "cmd" /\ f[3].tag = 24 /\ f[3].bytes = FALSE
      /\ f[4].name = "subcmd" /\ f[4].tag = 32 /\ f[4].bytes = FALSE
  BY ONLY <1>1 DEF Field
<1>5. /\ f[5].name = "seq" /\ f[5].tag = 40 /\ f[5].bytes = FALSE
      /\ f[6].name = "err_code" /\ f[6].tag = 48 /\ f[6].bytes = FALSE
      /\ f[7].name = "body" /\ f[7].tag = 82 /\ f[7].bytes = TRUE
  BY ONLY <1>1 DEF Field
<1>6. \A i \in 1 .. 7 : f[i].bytes \in BOOLEAN
  <2>1. \A i \in 1 .. 7 : i = 1 \/ i = 2 \/ i = 3 \/ i = 4 \/ i = 5 \/ i = 6 \/ i = 7
    OBVIOUS
  <2> QED
    BY ONLY <1>3, <1>4, <1>5, <2>1
<1> QED
  BY <1>2, <1>3, <1>4, <1>5, <1>6 DEF f

(* The fields of ProxyConnectReq, read off its table.                      *)
LEMMA ConnectReqTable ==
  LET f == ProxyConnectReqFields IN
  /\ Len(f) = 5 /\ DOMAIN f = 1 .. 5
  /\ f[1].name = "type" /\ f[1].tag = 8 /\ ~ f[1].bytes
  /\ f[2].name = "address" /\ f[2].tag = 18 /\ f[2].bytes
  /\ f[3].name = "port" /\ f[3].tag = 24 /\ ~ f[3].bytes
  /\ f[4].name = "username" /\ f[4].tag = 34 /\ f[4].bytes
  /\ f[5].name = "password" /\ f[5].tag = 42 /\ f[5].bytes
  /\ \A i \in 1 .. 5 : f[i].bytes \in BOOLEAN
<1> DEFINE f == ProxyConnectReqFields
<1>1. /\ f = << f[1], f[2], f[3], f[4], f[5] >>
      /\ f[1] = Field("type", 1, FALSE) /\ f[2] = Field("address", 2, TRUE)
      /\ f[3] = Field("port", 3, FALSE) /\ f[4] = Field("username", 4, TRUE)
      /\ f[5] = Field("password", 5, TRUE)
  BY DEF ProxyConnectReqFields
<1> HIDE DEF f
<1>2. Len(f) = 5 /\ DOMAIN f = 1 .. 5
  BY ONLY <1>1
<1>3. /\ f[1].name = "type" /\ f[1].tag = 8 /\ f[1].bytes = FALSE
      /\ f[2].name = "address" /\ f[2].tag = 18 /\ f[2].bytes = TRUE
  BY ONLY <1>1 DEF Field
<1>4. /\ f[3].name = "port" /\ f[3].tag = 24 /\ f[3].bytes = FALSE
      /\ f[4].name = "username" /\ f[4].tag = 34 /\ f[4].bytes = TRUE
      /\ f[5].name = "password" /\ f[5].tag = 42 /\ f[5].bytes = TRUE
  BY ONLY <1>1 DEF Field
<1>5. \A i \in 1 .. 5 : f[i].bytes \in BOOLEAN
  <2>1. \A i \in 1 .. 5 : i = 1 \/ i = 2 \/ i = 3 \/ i = 4 \/ i = 5
    OBVIOUS
  <2> QED
    BY ONLY <1>3, <1>4, <2>1
<1> QED
  BY <1>2, <1>3, <1>4, <1>5 DEF f

(* The field of ProxyConnectRsp, read off its table.                       *)
LEMMA ConnectRspTable ==
  LET f == ProxyConnectRspFields IN
  Len(f) = 1 /\ DOMAIN f = 1 .. 1 /\ f[1].name = "result" /\ f[1].tag = 8 /\ f[1].bytes = FALSE
<1> DEFINE f == ProxyConnectRspFields
<1>1. f = << f[1] >> /\ f[1] = Field("result", 1, FALSE)
  BY DEF ProxyConnectRspFields
<1> HIDE DEF f
<1>2. Len(f) = 1 /\ DOMAIN f = 1 .. 1
  BY ONLY <1>1
<1>3. f[1].name = "result" /\ f[1].tag = 8 /\ f[1].bytes = FALSE
  BY ONLY <1>1 DEF Field
<1> QED
  BY <1>2, <1>3 DEF f

(***************************************************************************)
(* The three tables are fit to be written and read: their tags differ and  *)
(* so do their names.                                                      *)
(***************************************************************************)
LEMMA TablesOK ==
  FieldsOK(ProxyMsgFields) /\ FieldsOK(ProxyConnectReqFields) /\ FieldsOK(ProxyConnectRspFields)
<1>1. FieldsOK(ProxyMsgFields)
  <2> DEFINE f == ProxyMsgFields
  <2>1. /\ Len(f) = 7 /\ DOMAIN f = 1 .. 7 /\ (\A i \in 1 .. 7 : f[i].bytes \in BOOLEAN)
        /\ f[1].tag = 10 /\ f[2].tag = 16 /\ f[3].tag = 24 /\ f[4].tag = 32 /\ f[5].tag = 40
        /\ f[6].tag = 48 /\ f[7].tag = 82
    BY ProxyMsgTable
  <2>2. /\ f[1].bytes /\ ~ f[2].bytes /\ ~ f[3].bytes /\ ~ f[4].bytes /\ ~ f[5].bytes
        /\ ~ f[6].bytes /\ f[7].bytes
    BY ProxyMsgTable
  <2>3. /\ f[1].name = "place_holder" /\ f[2].name = "check_sum" /\ f[3].name = "cmd"
        /\ f[4].name = "subcmd" /\ f[5].name = "seq" /\ f[6].name = "err_code" /\ f[7].name = "body"
    BY ProxyMsgTable
  <2> HIDE DEF f
  <2>4. \A i \in 1 .. 7 : i = 1 \/ i = 2 \/ i = 3 \/ i = 4 \/ i = 5 \/ i = 6 \/ i = 7
    OBVIOUS
  <2>5. \A i \in 1 .. 7 : f[i].tag \in 1 .. 127 /\ f[i].tag % 8 = IF f[i].bytes THEN 2 ELSE 0
    BY ONLY SMT, <2>1, <2>2, <2>4
  <2>6. \A i, j \in 1 .. 7 : f[i].tag = f[j].tag => i = j
    BY ONLY SMT, <2>1, <2>4
  <2>7. \A i, j \in 1 .. 7 : f[i].name = f[j].name => i = j
    BY ONLY SMT, <2>3, <2>4
  <2> QED
    BY <2>1, <2>5, <2>6, <2>7 DEF FieldsOK, f
<1>2. FieldsOK(ProxyConnectReqFields)
  <2> DEFINE f == ProxyConnectReqFields
  <2>1. /\ Len(f) = 5 /\ DOMAIN f = 1 .. 5 /\ (\A i \in 1 .. 5 : f[i].bytes \in BOOLEAN)
        /\ f[1].tag = 8 /\ f[2].tag = 18 /\ f[3].tag = 24 /\ f[4].tag = 34 /\ f[5].tag = 42
    BY ConnectReqTable
  <2>2. ~ f[1].bytes /\ f[2].bytes /\ ~ f[3].bytes /\ f[4].bytes /\ f[5].bytes
    BY ConnectReqTable
  <2>3. /\ f[1].name = "type" /\ f[2].name = "address" /\ f[3].name = "port"
        /\ f[4].name = "username" /\ f[5].name = "password"
    BY ConnectReqTable
  <2> HIDE DEF f
  <2>4. \A i \in 1 .. 5 : i = 1 \/ i = 2 \/ i = 3 \/ i = 4 \/ i = 5
    OBVIOUS
  <2>5. \A i \in 1 .. 5 : f[i].tag \in 1 .. 127 /\ f[i].tag % 8 = IF f[i].bytes THEN 2 ELSE 0
    BY ONLY SMT, <2>1, <2>2, <2>4
  <2>6. \A i, j \in 1 .. 5 : f[i].tag = f[j].tag => i = j
    BY ONLY SMT, <2>1, <2>4
  <2>7. \A i, j \in 1 .. 5 : f[i].name = f[j].name => i = j
    BY ONLY SMT, <2>3, <2>4
  <2> QED
    BY <2>1, <2>5, <2>6, <2>7 DEF FieldsOK, f
<1>3. FieldsOK(ProxyConnectRspFields)
  <2> DEFINE f == ProxyConnectRspFields
  <2>1. Len(f) = 1 /\ DOMAIN f = 1 .. 1 /\ f[1].tag = 8 /\ f[1].bytes = FALSE
    BY ConnectRspTable
  <2> HIDE DEF f
  <2>2. \A i \in 1 .. 1 : i = 1
    OBVIOUS
  <2>3. 8 \in 1 .. 127 /\ (8 % 8) = 0
    BY SMT
  <2>4. \A i \in 1 .. 1 : f[i].tag \in 1 .. 127 /\ f[i].bytes \in BOOLEAN /\ f[i].tag % 8 = IF f[i].bytes THEN 2 ELSE 0
    BY ONLY <2>1, <2>2, <2>3
  <2> QED
    BY <2>1, <2>2, <2>4 DEF FieldsOK, f
<1> QED
  BY <1>1, <1>2, <1>3

(* Nothing but a message without fields is written as no bytes.            *)
LEMMA SerializedNotEmpty ==
  ASSUME NEW fields, FieldsOK(fields), NEW m \in MessagesOf(fields), Short(fields, m), m # Clear
  PROVE  Serialized(fields, m) # << >>
<1> DEFINE b == Serialized(fields, m)
<1>1. ASSUME b = << >> PROVE FALSE
  <2>1. << >> \in Seq(Byte) /\ Len(<< >>) = 0
    OBVIOUS
  <2>2. Clear \in MessagesOf(fields)
    BY ClearType
  <2>3. PICK after : MergedRun(after, fields, Clear, << >>) /\ Merged(fields, Clear, << >>) = after[Len(<< >>) + 1]
    BY <2>1, <2>2, MergedRuns
  <2> DEFINE start == Reading(Clear, 1, << >>)
  <2>4. after[0] = start /\ after[1] = MergedStep(fields, << >>)[1][after[0]]
    <3>1. \A n \in 1 .. Len(<< >>) + 1 : after[n] = MergedStep(fields, << >>)[n][after[n - 1]]
      BY <2>3 DEF MergedRun, Recurs
    <3>2. 1 \in 1 .. Len(<< >>) + 1 /\ 1 - 1 = 0
      BY <2>1
    <3>3. after[1] = MergedStep(fields, << >>)[1][after[1 - 1]]
      BY ONLY <3>1, <3>2
    <3>4. after[0] = start
      BY <2>3 DEF MergedRun, Recurs
    <3> QED
      BY ONLY <3>2, <3>3, <3>4
  <2>5. start \in MergeStates(fields)
    <3>1. 1 \in Nat \ {0} /\ << >> \in Seq(Word)
      OBVIOUS
    <3> QED
      BY <2>2, <3>1, ReadingType
  <2>6. MergedStep(fields, << >>)[1][start] = MergedAt(fields, start, << >>)
    <3>1. 1 \in 1 .. Len(<< >>) + 1
      BY <2>1
    <3> HIDE DEF start
    <3> QED
      BY <2>5, <3>1 DEF MergedStep
  <2>7. start.how = "reading" /\ start.at = 1 /\ start.groups = << >> /\ start.msg = Clear
    BY DEF Reading
  <2> HIDE DEF start
  <2>8. MergedAt(fields, start, << >>) = EndOf("ended", start)
    BY <2>1, <2>7 DEF MergedAt
  <2>9. EndOf("ended", start) = Result("ended", Clear)
    BY <2>7 DEF EndOf
  <2>10. Merged(fields, Clear, << >>) = Result("ended", Clear)
    BY <2>1, <2>3, <2>4, <2>6, <2>8, <2>9
  <2>11. Merged(fields, Clear, << >>) = Result("ended", m)
    BY <1>1, MergedSerialized
  <2> QED
    BY <2>10, <2>11 DEF Result
<1> QED
  BY <1>1

(* A message as createDefaultParams() leaves it.                           *)
PackageNames == {"place_holder", "check_sum", "cmd", "subcmd", "seq", "err_code", "body"}

Package(m, cmd, sub, no, body, padding) ==
  /\ DOMAIN m = PackageNames /\ m = [x \in DOMAIN m |-> m[x]]
  /\ m["cmd"] = cmd /\ m["subcmd"] = sub /\ m["seq"] = no /\ m["body"] = body
  /\ m["err_code"] = W(0) /\ m["place_holder"] = padding /\ m["check_sum"] = calculate(body)

(***************************************************************************)
(* createDefaultParams completes a message to a package with its padding   *)
(* and its checksum.                                                       *)
(***************************************************************************)
LEMMA DefaultParams ==
  ASSUME NEW m, {"cmd", "subcmd", "body", "err_code"} \subseteq DOMAIN m, DOMAIN m \subseteq PackageNames,
         m["err_code"] = W(0), NEW no, NEW padding
  PROVE  Package(createDefaultParams(m, no, padding), m["cmd"], m["subcmd"],
                 IF Has(m, "seq") THEN m["seq"] ELSE no, m["body"], padding)
<1> DEFINE numbered == IF Has(m, "seq") THEN m ELSE Set(m, "seq", no)
           summed == Set(numbered, "check_sum", calculate(m["body"]))
           r == Set(summed, "place_holder", padding)
<1>1. createDefaultParams(m, no, padding) = r
  BY DEF createDefaultParams, Has
<1>2. /\ DOMAIN numbered = DOMAIN m \cup {"seq"}
      /\ numbered["seq"] = IF Has(m, "seq") THEN m["seq"] ELSE no
      /\ \A x \in DOMAIN m : x # "seq" => numbered[x] = m[x]
  <2>1. CASE Has(m, "seq")
    BY <2>1 DEF Has
  <2>2. CASE ~ Has(m, "seq")
    <3> DEFINE set == Set(m, "seq", no)
    <3>1. numbered = set
      BY <2>2
    <3>3. /\ DOMAIN set = DOMAIN m \cup {"seq"} /\ set["seq"] = no
          /\ \A x \in DOMAIN m : x # "seq" => set[x] = m[x]
      BY DEF Set
    <3> HIDE DEF numbered, set
    <3>2. /\ DOMAIN numbered = DOMAIN m \cup {"seq"} /\ numbered["seq"] = no
          /\ \A x \in DOMAIN m : x # "seq" => numbered[x] = m[x]
      BY ONLY <3>1, <3>3
    <3> QED
      BY <2>2, <3>2
  <2> QED
    BY <2>1, <2>2
<1> HIDE DEF numbered
<1>3. /\ DOMAIN summed = DOMAIN numbered \cup {"check_sum"} /\ summed["check_sum"] = calculate(m["body"])
      /\ \A x \in DOMAIN numbered : x # "check_sum" => summed[x] = numbered[x]
  BY DEF Set
<1> HIDE DEF summed
<1>4. /\ DOMAIN r = DOMAIN summed \cup {"place_holder"} /\ r["place_holder"] = padding
      /\ r = [x \in DOMAIN r |-> r[x]]
      /\ \A x \in DOMAIN summed : x # "place_holder" => r[x] = summed[x]
  <2>1. r = [x \in DOMAIN r |-> r[x]]
    BY DEF Set
  <2>2. /\ DOMAIN r = DOMAIN summed \cup {"place_holder"} /\ r["place_holder"] = padding
        /\ \A x \in DOMAIN summed : x # "place_holder" => r[x] = summed[x]
    BY DEF Set
  <2> QED
    BY <2>1, <2>2
<1> HIDE DEF r
<1>5. DOMAIN r = PackageNames
  BY <1>2, <1>3, <1>4 DEF PackageNames
<1>6. r["cmd"] = m["cmd"] /\ r["subcmd"] = m["subcmd"] /\ r["body"] = m["body"] /\ r["err_code"] = m["err_code"]
  <2>1. \A x \in {"cmd", "subcmd", "body", "err_code"} : r[x] = m[x]
    <3> TAKE x \in {"cmd", "subcmd", "body", "err_code"}
    <3>1. x # "seq" /\ x # "check_sum" /\ x # "place_holder" /\ x \in DOMAIN m
      OBVIOUS
    <3> QED
      BY ONLY <1>2, <1>3, <1>4, <3>1
  <2> QED
    BY <2>1
<1>7. r["seq"] = numbered["seq"] /\ r["check_sum"] = calculate(m["body"])
  <2>1. "seq" # "check_sum" /\ "seq" # "place_holder" /\ "check_sum" # "place_holder"
    OBVIOUS
  <2> QED
    BY ONLY <1>2, <1>3, <1>4, <2>1
<1> QED
  BY <1>1, <1>2, <1>4, <1>5, <1>6, <1>7 DEF Package

(* The connect request of a browser, as the fields of its body.            *)
Request(type, host, port, user, pwd) ==
  [address |-> host, port |-> port, type |-> type, username |-> user, password |-> pwd]

(* createConnectReq makes a package whose body is the request.             *)
LEMMA ConnectReqMade ==
  ASSUME NEW type, NEW host, NEW port, NEW user, NEW pwd, NEW no, NEW padding
  PROVE  Package(createConnectReq(type, host, port, user, pwd, no, padding), ServerCmd, SubCmd1,
                 no, ProxyConnectReqSerialize(Request(type, host, port, user, pwd)), padding)
<1> DEFINE b == ProxyConnectReqSerialize(Request(type, host, port, user, pwd))
           m == [cmd |-> ServerCmd, subcmd |-> SubCmd1, body |-> b, err_code |-> W(0)]
<1>1. createConnectReq(type, host, port, user, pwd, no, padding) = createDefaultParams(m, no, padding)
  BY DEF createConnectReq, Request
<1> HIDE DEF b
<1>2. /\ DOMAIN m = {"cmd", "subcmd", "body", "err_code"} /\ m["cmd"] = ServerCmd /\ m["subcmd"] = SubCmd1
      /\ m["body"] = b /\ m["err_code"] = W(0)
  OBVIOUS
<1> HIDE DEF m
<1>3. {"cmd", "subcmd", "body", "err_code"} \subseteq DOMAIN m /\ DOMAIN m \subseteq PackageNames /\ ~ Has(m, "seq")
  BY <1>2 DEF PackageNames, Has
<1>4. Package(createDefaultParams(m, no, padding), m["cmd"], m["subcmd"],
              IF Has(m, "seq") THEN m["seq"] ELSE no, m["body"], padding)
  BY <1>2, <1>3, DefaultParams
<1>5. Package(createDefaultParams(m, no, padding), ServerCmd, SubCmd1, no, b, padding)
  BY <1>2, <1>3, <1>4
<1> QED
  BY <1>1, <1>5 DEF b

(* createDataPkg makes a package whose body is the data.                   *)
LEMMA DataMade ==
  ASSUME NEW data, NEW no, NEW padding
  PROVE  Package(createDataPkg(data, no, padding), ServerCmd, SubCmd2, no, data, padding)
<1> DEFINE m == [cmd |-> ServerCmd, subcmd |-> SubCmd2, body |-> data, err_code |-> W(0)]
<1>1. createDataPkg(data, no, padding) = createDefaultParams(m, no, padding)
  BY DEF createDataPkg
<1>2. /\ DOMAIN m = {"cmd", "subcmd", "body", "err_code"} /\ m["cmd"] = ServerCmd /\ m["subcmd"] = SubCmd2
      /\ m["body"] = data /\ m["err_code"] = W(0)
  OBVIOUS
<1> HIDE DEF m
<1>3. {"cmd", "subcmd", "body", "err_code"} \subseteq DOMAIN m /\ DOMAIN m \subseteq PackageNames /\ ~ Has(m, "seq")
  BY <1>2 DEF PackageNames, Has
<1>4. Package(createDefaultParams(m, no, padding), m["cmd"], m["subcmd"],
              IF Has(m, "seq") THEN m["seq"] ELSE no, m["body"], padding)
  BY <1>2, <1>3, DefaultParams
<1>5. Package(createDefaultParams(m, no, padding), ServerCmd, SubCmd2, no, data, padding)
  BY <1>2, <1>3, <1>4
<1> QED
  BY <1>1, <1>5

(* An answer has the number of its request.                                *)
LEMMA RspMade ==
  ASSUME NEW req, NEW body, NEW no, NEW padding
  PROVE  Package(createCommonRsp(req, body, W(0), no, padding), Number(req, "cmd"), Number(req, "subcmd"),
                 Number(req, "seq"), body, padding)
<1> DEFINE c == Number(req, "cmd")  d == Number(req, "subcmd")  n == Number(req, "seq")
           m == [cmd |-> c, subcmd |-> d, seq |-> n, body |-> body, err_code |-> W(0)]
<1>1. createCommonRsp(req, body, W(0), no, padding) = createDefaultParams(m, no, padding)
  BY DEF createCommonRsp
<1> HIDE DEF c, d, n
<1>2. /\ DOMAIN m = {"cmd", "subcmd", "seq", "body", "err_code"} /\ m["cmd"] = c /\ m["subcmd"] = d
      /\ m["body"] = body /\ m["err_code"] = W(0) /\ m["seq"] = n
  OBVIOUS
<1> HIDE DEF m
<1>3. {"cmd", "subcmd", "body", "err_code"} \subseteq DOMAIN m /\ DOMAIN m \subseteq PackageNames /\ Has(m, "seq")
  BY <1>2 DEF PackageNames, Has
<1>4. Package(createDefaultParams(m, no, padding), m["cmd"], m["subcmd"],
              IF Has(m, "seq") THEN m["seq"] ELSE no, m["body"], padding)
  BY <1>2, <1>3, DefaultParams
<1>5. Package(createDefaultParams(m, no, padding), c, d, n, body, padding)
  BY <1>2, <1>3, <1>4
<1> QED
  BY <1>1, <1>5 DEF c, d, n

(* A package whose texts are not too long is a message of its table.       *)
LEMMA PackageType ==
  ASSUME NEW m, NEW cmd \in Word, NEW sub \in Word, NEW no \in Word, NEW body \in Seq(Byte),
         NEW padding \in Seq(Byte), Package(m, cmd, sub, no, body, padding),
         Len(body) \in Lengths, Len(padding) \in Lengths
  PROVE  /\ m \in MessagesOf(ProxyMsgFields) /\ Short(ProxyMsgFields, m) /\ m # Clear
         /\ ProxyMsgSerialize(m) \in Seq(Byte)
<1> DEFINE f == ProxyMsgFields
<1>1. /\ m["cmd"] \in Word /\ m["subcmd"] \in Word /\ m["seq"] \in Word /\ m["err_code"] \in Word
      /\ m["check_sum"] \in Word /\ m["body"] = body /\ m["place_holder"] = padding
      /\ DOMAIN m = PackageNames /\ m = [x \in DOMAIN m |-> m[x]]
  BY CalculateType, WType DEF Package
<1>2. /\ DOMAIN f = 1 .. 7
      /\ f[1].name = "place_holder" /\ f[2].name = "check_sum" /\ f[3].name = "cmd"
      /\ f[4].name = "subcmd" /\ f[5].name = "seq" /\ f[6].name = "err_code" /\ f[7].name = "body"
  BY ProxyMsgTable
<1>3. /\ f[1].bytes /\ ~ f[2].bytes /\ ~ f[3].bytes /\ ~ f[4].bytes /\ ~ f[5].bytes
      /\ ~ f[6].bytes /\ f[7].bytes
  BY ProxyMsgTable
<1>4. FieldsOK(f)
  BY TablesOK
<1> HIDE DEF f
<1>5. \A i \in 1 .. 7 : i = 1 \/ i = 2 \/ i = 3 \/ i = 4 \/ i = 5 \/ i = 6 \/ i = 7
  OBVIOUS
<1>6. DOMAIN m \subseteq Names(f)
  <2>1. \A x \in PackageNames : \E i \in 1 .. 7 : x = f[i].name
    <3>1. 1 \in 1 .. 7 /\ 2 \in 1 .. 7 /\ 3 \in 1 .. 7 /\ 4 \in 1 .. 7 /\ 5 \in 1 .. 7 /\ 6 \in 1 .. 7 /\ 7 \in 1 .. 7
      OBVIOUS
    <3> QED
      BY ONLY <1>2, <3>1 DEF PackageNames
  <2> QED
    BY <1>1, <1>2, <2>1 DEF Names
<1>7. \A i \in DOMAIN f : m[f[i].name] \in Holds(f[i])
  <2>1. m[f[1].name] \in Holds(f[1]) /\ m[f[7].name] \in Holds(f[7])
    BY <1>1, <1>2, <1>3 DEF Holds
  <2>2. /\ m[f[2].name] \in Holds(f[2]) /\ m[f[3].name] \in Holds(f[3]) /\ m[f[4].name] \in Holds(f[4])
        /\ m[f[5].name] \in Holds(f[5]) /\ m[f[6].name] \in Holds(f[6])
    BY <1>1, <1>2, <1>3 DEF Holds
  <2> QED
    BY ONLY <1>2, <1>5, <2>1, <2>2
<1>8. m \in MessagesOf(f)
  BY <1>1, <1>6, <1>7, MessagesAre
<1>9. Short(f, m)
  <2>1. \A i \in 1 .. 7 : f[i].bytes => i = 1 \/ i = 7
    BY ONLY <1>3, <1>5
  <2>2. Len(m[f[1].name]) \in Lengths /\ Len(m[f[7].name]) \in Lengths
    BY <1>1, <1>2
  <2> QED
    BY <1>2, <2>1, <2>2 DEF Short
<1>10. m # Clear
  BY <1>1, ClearType DEF PackageNames
<1>11. Serialized(f, m) \in Seq(Byte)
  BY <1>4, <1>8, <1>9, SerializedType
<1> QED
  BY <1>8, <1>9, <1>10, <1>11 DEF f, ProxyMsgSerialize

(* What is written of a package with a body is read and found in order:    *)
(* parseAndCheck() undoes SerializeAsString() (ProxyMsgPkg.cpp:10).        *)
THEOREM PackageRead ==
  ASSUME NEW m, NEW cmd \in Word, NEW sub \in Word, NEW no \in Word, NEW body \in Seq(Byte),
         NEW padding \in Seq(Byte), Package(m, cmd, sub, no, body, padding),
         Len(body) \in Lengths, Len(padding) \in Lengths, body # << >>
  PROVE  parseAndCheck(ProxyMsgSerialize(m)) = [result |-> "PROXY_PARSE_OK", package |-> m]
<1> DEFINE p == Parsed(ProxyMsgMerge(ProxyMsgSerialize(m)), {"err_code"})
<1>1. m \in MessagesOf(ProxyMsgFields) /\ Short(ProxyMsgFields, m)
  BY PackageType
<1>2. ProxyMsgMerge(ProxyMsgSerialize(m)) = Result("ended", m)
  BY <1>1, TablesOK, MergedSerialized DEF ProxyMsgMerge, ProxyMsgSerialize, ProxyMsgClear
<1>3. p = [ok |-> "err_code" \in DOMAIN m, msg |-> m]
  BY <1>2 DEF Parsed, Result
<1>4. "err_code" \in DOMAIN m /\ "body" \in DOMAIN m /\ "check_sum" \in DOMAIN m
  BY DEF Package, PackageNames
<1> HIDE DEF p
<1>5. p.ok /\ p.msg = m
  BY ONLY <1>3, <1>4
<1>6. /\ Number(p.msg, "err_code") = W(0) /\ String(p.msg, "body") = body
      /\ Number(p.msg, "check_sum") = calculate(body)
  BY <1>4, <1>5 DEF Package, Number, String, Has
<1>7. Checked(p) = [result |-> "PROXY_PARSE_OK", package |-> m]
  BY <1>5, <1>6 DEF Checked
<1> QED
  BY <1>7 DEF parseAndCheck, p

(* The body of a connect request is read as it was written.                *)
LEMMA RequestRead ==
  ASSUME NEW type \in Word, NEW host, IsText(host), NEW port \in Word, NEW user, IsText(user),
         NEW pwd, IsText(pwd)
  PROVE  LET req == Request(type, host, port, user, pwd)  b == ProxyConnectReqSerialize(req) IN
         /\ b \in Seq(Byte) /\ Len(b) \in Lengths /\ b # << >>
         /\ ProxyConnectReqMerge(b) = Result("ended", req)
         /\ ProxyConnectReqByteSize(req) = Len(b)
<1> DEFINE req == Request(type, host, port, user, pwd)
           f == ProxyConnectReqFields
           b == Serialized(f, req)
<1>1. /\ DOMAIN req = {"type", "address", "port", "username", "password"}
      /\ req = [x \in DOMAIN req |-> req[x]]
      /\ req["type"] = type /\ req["address"] = host /\ req["port"] = port
      /\ req["username"] = user /\ req["password"] = pwd
  BY DEF Request
<1>2. /\ host \in Seq(Byte) /\ Len(host) \in Lengths /\ Len(host) <= Small
      /\ user \in Seq(Byte) /\ Len(user) \in Lengths /\ Len(user) <= Small
      /\ pwd \in Seq(Byte) /\ Len(pwd) \in Lengths /\ Len(pwd) <= Small
  BY TextIs
<1>3. /\ DOMAIN f = 1 .. 5 /\ Len(f) = 5
      /\ f[1].name = "type" /\ f[2].name = "address" /\ f[3].name = "port"
      /\ f[4].name = "username" /\ f[5].name = "password"
  BY ConnectReqTable
<1>4. ~ f[1].bytes /\ f[2].bytes /\ ~ f[3].bytes /\ f[4].bytes /\ f[5].bytes
  BY ConnectReqTable
<1>5. FieldsOK(f)
  BY TablesOK
<1> HIDE DEF req, f
<1>6. \A i \in 1 .. 5 : i = 1 \/ i = 2 \/ i = 3 \/ i = 4 \/ i = 5
  OBVIOUS
<1>7. DOMAIN req \subseteq Names(f)
  <2>1. 1 \in 1 .. 5 /\ 2 \in 1 .. 5 /\ 3 \in 1 .. 5 /\ 4 \in 1 .. 5 /\ 5 \in 1 .. 5
    OBVIOUS
  <2>2. \A x \in {"type", "address", "port", "username", "password"} : \E i \in 1 .. 5 : x = f[i].name
    BY ONLY <1>3, <2>1
  <2> QED
    BY <1>1, <1>3, <2>2 DEF Names
<1>8. \A i \in DOMAIN f : req[f[i].name] \in Holds(f[i])
  <2>1. req[f[1].name] \in Holds(f[1]) /\ req[f[3].name] \in Holds(f[3])
    BY <1>1, <1>3, <1>4 DEF Holds
  <2>2. req[f[2].name] \in Holds(f[2]) /\ req[f[4].name] \in Holds(f[4]) /\ req[f[5].name] \in Holds(f[5])
    BY <1>1, <1>2, <1>3, <1>4 DEF Holds
  <2> QED
    BY ONLY <1>3, <1>6, <2>1, <2>2
<1>9. req \in MessagesOf(f)
  BY <1>1, <1>7, <1>8, MessagesAre
<1>10. \A i \in DOMAIN f : f[i].bytes => Len(req[f[i].name]) \in Lengths /\ Len(req[f[i].name]) <= Small
  <2>1. \A i \in 1 .. 5 : f[i].bytes => i = 2 \/ i = 4 \/ i = 5
    BY ONLY <1>4, <1>6
  <2>2. req[f[2].name] = host /\ req[f[4].name] = user /\ req[f[5].name] = pwd
    BY ONLY <1>1, <1>3
  <2> QED
    BY ONLY <1>2, <1>3, <2>1, <2>2
<1>11. Short(f, req)
  BY <1>10 DEF Short
<1>12. b \in Seq(Byte)
  BY <1>5, <1>9, <1>11, SerializedType
<1>13. Len(b) \in Lengths
  <2>1. Len(f) <= 7
    BY <1>3
  <2>2. \A i \in DOMAIN f : Has(req, f[i].name) /\ f[i].bytes => Len(req[f[i].name]) <= Small
    BY <1>10
  <2> QED
    BY <1>5, <1>9, <1>11, <2>1, <2>2, SerializedSmall
<1>14. req # Clear
  BY <1>1, ClearType
<1>15. b # << >>
  BY <1>5, <1>9, <1>11, <1>14, SerializedNotEmpty
<1>16. Merged(f, Clear, b) = Result("ended", req)
  BY <1>5, <1>9, <1>11, MergedSerialized
<1>17. ByteSize(f, req) = Len(b)
  BY <1>5, <1>9, <1>11, ByteSizeIs
<1> QED
  BY <1>12, <1>13, <1>15, <1>16, <1>17
  DEF f, req, ProxyConnectReqSerialize, ProxyConnectReqMerge, ProxyConnectReqClear, ProxyConnectReqByteSize

(* And so is that of the answer.                                           *)
Answer == [result |-> W(0)]

(***************************************************************************)
(* The body of an answer reads as the answer, and its size is what         *)
(* ByteSize says.                                                          *)
(***************************************************************************)
LEMMA AnswerRead ==
  LET b == ProxyConnectRspSerialize(Answer) IN
  /\ b \in Seq(Byte) /\ Len(b) \in Lengths /\ b # << >>
  /\ ProxyConnectRspMerge(b) = Result("ended", Answer)
  /\ ProxyConnectRspByteSize(Answer) = Len(b)
<1> DEFINE f == ProxyConnectRspFields
           b == Serialized(f, Answer)
<1>1. /\ DOMAIN Answer = {"result"} /\ Answer = [x \in DOMAIN Answer |-> Answer[x]]
      /\ Answer["result"] \in Word
  BY WType DEF Answer
<1>2. DOMAIN f = 1 .. 1 /\ Len(f) = 1 /\ f[1].name = "result" /\ f[1].bytes = FALSE
  BY ConnectRspTable
<1>3. FieldsOK(f)
  BY TablesOK
<1> HIDE DEF f
<1>4. \A i \in 1 .. 1 : i = 1
  OBVIOUS
<1>5. DOMAIN Answer \subseteq Names(f)
  <2>1. 1 \in 1 .. 1
    OBVIOUS
  <2> QED
    BY <1>1, <1>2, <2>1 DEF Names
<1>6. \A i \in DOMAIN f : Answer[f[i].name] \in Holds(f[i])
  <2>1. Answer[f[1].name] \in Holds(f[1])
    BY <1>1, <1>2 DEF Holds
  <2> QED
    BY ONLY <1>2, <1>4, <2>1
<1>7. Answer \in MessagesOf(f)
  BY <1>1, <1>5, <1>6, MessagesAre
<1>8. \A i \in DOMAIN f : ~ f[i].bytes
  BY ONLY <1>2, <1>4
<1>9. Short(f, Answer)
  BY <1>8 DEF Short
<1>10. b \in Seq(Byte)
  BY <1>3, <1>7, <1>9, SerializedType
<1>11. Len(b) \in Lengths
  <2>1. Len(f) <= 7
    BY <1>2
  <2>2. \A i \in DOMAIN f : Has(Answer, f[i].name) /\ f[i].bytes => Len(Answer[f[i].name]) <= Small
    BY <1>8
  <2> QED
    BY <1>3, <1>7, <1>9, <2>1, <2>2, SerializedSmall
<1>12. Answer # Clear
  BY <1>1, ClearType
<1>13. b # << >>
  BY <1>3, <1>7, <1>9, <1>12, SerializedNotEmpty
<1>14. Merged(f, Clear, b) = Result("ended", Answer)
  BY <1>3, <1>7, <1>9, MergedSerialized
<1>15. ByteSize(f, Answer) = Len(b)
  BY <1>3, <1>7, <1>9, ByteSizeIs
<1> QED
  BY <1>10, <1>11, <1>13, <1>14, <1>15
  DEF f, ProxyConnectRspSerialize, ProxyConnectRspMerge, ProxyConnectRspClear, ProxyConnectRspByteSize

(* A random padding is short.                                              *)
LEMMA PaddingIs ==
  ASSUME NEW padding \in Padding
  PROVE  padding \in Seq(Byte) /\ Len(padding) \in Lengths
<1>1. PICK n \in randInt(2, 10) : padding \in randString(n)
  BY DEF Padding
<1>2. padding \in Paddings /\ Len(padding) = n
  BY <1>1 DEF randString
<1>3. n \in Nat /\ n <= 9
  BY <1>1 DEF randInt
<1>4. padding \in Seq(Byte)
  BY <1>2, DeploymentAssumption
<1>5. \A k \in Nat : k <= 9 => k \in Lengths
  BY SMT DEF Lengths
<1> QED
  BY <1>2, <1>3, <1>4, <1>5

(* The commands of the messages are words.                                 *)
LEMMA CommandsType ==
  ServerCmd \in Word /\ SubCmd1 \in Word /\ SubCmd2 \in Word
BY WType DEF ServerCmd, SubCmd1, SubCmd2

(* A package that one program made, serialized and encoded, is what the    *)
(* other one has when it has decoded, parsed and checked it, if their      *)
(* codecs are the same (ProxyMsgPkg.cpp:15, CodecFacade.cpp:30).           *)
THEOREM Understanding ==
  ASSUME NEW codec, FacadeOK(codec), NEW m, NEW cmd \in Word, NEW sub \in Word, NEW no \in Word,
         NEW body \in Seq(Byte), NEW padding \in Padding, Package(m, cmd, sub, no, body, padding),
         Len(body) \in Lengths, body # << >>
  PROVE  /\ encode(codec, ProxyMsgSerialize(m)) \in Seq(Byte)
         /\ parseAndCheck(decode(codec, encode(codec, ProxyMsgSerialize(m))))
              = [result |-> "PROXY_PARSE_OK", package |-> m]
<1>1. padding \in Seq(Byte) /\ Len(padding) \in Lengths
  BY PaddingIs
<1>2. ProxyMsgSerialize(m) \in Seq(Byte)
  BY <1>1, PackageType
<1>3. /\ encode(codec, ProxyMsgSerialize(m)) \in Seq(Byte)
      /\ decode(codec, encode(codec, ProxyMsgSerialize(m))) = ProxyMsgSerialize(m)
  BY <1>2, DecodeEncode
<1>4. parseAndCheck(ProxyMsgSerialize(m)) = [result |-> "PROXY_PARSE_OK", package |-> m]
  BY <1>1, PackageRead
<1> QED
  BY <1>3, <1>4

-----------------------------------------------------------------------------
(* The inductive invariant.                                                *)

(* A program that runs was started with its command line, and has read the *)
(* users of its list.                                                      *)
LocalStarted ==
  \E now \in Seeds, behind \in Memories : Started(local, localSetting(deployment.local, now), behind)
UsersRead(line, read) == "user_list" \in DOMAIN line => read = Listed(Files[line["user_list"]].users)
RemoteStarted ==
  /\ \E now \in Seeds, behind \in Memories : Started(remote, remoteSetting(deployment.remote, now), behind)
  /\ UsersRead(deployment.remote, users)

States == {"off", "running", "exit1", "exit2", "exit3", "died"}

Typed ==
  /\ deployment \in Deployments /\ garbage \in [Sessions -> Garbage]
  /\ local.st \in States /\ remote.st \in States
  /\ Running(local) => LocalStarted
  /\ Running(remote) => RemoteStarted
  /\ seq \in Nat /\ number \in [Sessions -> Nat]
  /\ stage \in [Sessions -> Stages]
  /\ wire \in [Sessions -> Seq(Byte)]
  /\ made \in [Sessions -> MessagesOf(ProxyMsgFields)]
  /\ authPkg \in [Sessions -> MessagesOf(ProxyMsgFields)]
  /\ dialled \in [Sessions -> [host : Seq(Byte), port : Nat]]
  /\ delivered \in [Sessions -> Seq(Byte)]

(* A session that asks has something to ask for, and one that has got      *)
(* beyond that has a server to talk to: tun_local then cannot die.         *)
Reached(s) ==
  /\ stage[s] # "asking" => s \in DOMAIN deployment.asks
  /\ stage[s] \notin {"asking", "failed"} =>
       Running(local) /\ ServerEnd(local.setting).host \in Addresses /\ remote # Off
  /\ dialled[s] # Nobody \/ delivered[s] # << >> => local # Off /\ remote # Off

(* The body of the request of a session.                                   *)
RequestOf(s) ==
  Request(W(asks(s).type), addressOf(asks(s)), W(reqPort(s)), local.setting.user, local.setting.password)
RequestBody(s) == ProxyConnectReqSerialize(RequestOf(s))

Asked(m, s) ==
  \E padding \in Padding : Package(m, ServerCmd, SubCmd1, W(number[s]), RequestBody(s), padding)

(* Any message a program makes.                                            *)
Made(m) ==
  /\ m["cmd"] \in Word /\ m["subcmd"] \in Word /\ m["seq"] \in Word
  /\ m["body"] \in Seq(Byte) /\ Len(m["body"]) \in Lengths /\ m["body"] # << >>
  /\ \E padding \in Padding : Package(m, m["cmd"], m["subcmd"], m["seq"], m["body"], padding)

Answered(m) == m["body"] = ProxyConnectRspSerialize(Answer)

SentData(m, s) ==
  \E padding \in Padding : Package(m, ServerCmd, SubCmd2, W(number[s]), Data, padding)

(* What is on the link is the message last made, by a codec.               *)
WireIs(codec, s) == wire[s] = encode(codec, ProxyMsgSerialize(made[s]))

Linked(s) ==
  /\ stage[s] = "asked" => made[s] # Clear /\ Asked(made[s], s) /\ WireIs(local.codec, s)
  /\ stage[s] = "sent" => made[s] # Clear /\ SentData(made[s], s) /\ WireIs(local.codec, s)
  /\ stage[s] = "answered" => made[s] # Clear /\ Answered(made[s]) /\ (Running(remote) => WireIs(remote.codec, s))
  /\ made[s] # Clear => Made(made[s])

(* Both run, and what one encodes the other decodes.                       *)
Alike == Running(local) /\ Running(remote) /\ SameCodec(512)

(* While the codecs of both do the same: tun_remote dials only for a user  *)
(* of its list, and what tun_local wrote for the browser's request; data   *)
(* come as sent, and the answer has the number of its request.             *)
Served(s) ==
  /\ stage[s] = "dialling" => Asked(authPkg[s], s)
  /\ dialled[s] # Nobody =>
       IsUser(local.setting) /\ dialled[s] = [host |-> addressOf(asks(s)), port |-> reqPort(s)]
  /\ delivered[s] \in {<< >>, Data}
  /\ stage[s] = "answered" => made[s].seq = W(number[s])
  /\ Fits(local, remote) /\ IsUser(local.setting) /\ stage[s] \in {"refused", "waiting"} =>
       asks(s).type \notin {1, 3, 4}

Inv ==
  /\ Typed
  /\ \A s \in Sessions : Reached(s) /\ Linked(s)
  /\ Alike => \A s \in Sessions : Served(s)

(* A program that runs has a codec that can be proved about, and what it   *)
(* was told.                                                               *)
LEMMA LineIs ==
  ASSUME NEW d \in Deployments
  PROVE  /\ LineOK(d.local) /\ LineOK(d.remote)
         /\ \A s \in DOMAIN d.asks : AskOK(d.asks[s])
BY DeploymentAssumption

(***************************************************************************)
(* What lies behind a key in memory is bytes, and enough of them for a     *)
(* key of ChaCha20.                                                        *)
(***************************************************************************)
LEMMA MemoryIs ==
  ASSUME NEW behind \in Memories
  PROVE  behind \in Seq(Byte) /\ Len(behind) >= 31
BY DeploymentAssumption

(* Numbers drawn from a seed are naturals.                                 *)
LEMMA RandIs ==
  ASSUME NEW now \in Seeds
  PROVE  \A i \in 1 .. 20 : Rand(now, i) \in Nat
BY DeploymentAssumption

(***************************************************************************)
(* The files of a deployment hold settings as the assumption on constants  *)
(* says.                                                                   *)
(***************************************************************************)
LEMMA FilesAre ==
  \A name \in DOMAIN Files : FileOK(Files[name])
BY DeploymentAssumption

(* What a program that runs is known to have.                              *)
Configured(program, line) ==
  /\ FacadeOK(program.codec) /\ SettingOK(program.setting) /\ Told(program.setting, line)
  /\ program.logLv = initLog(program.setting.logLv)
  /\ program.setting.frame \in headers /\ program.setting.encryptMethod \in CodecNames
  /\ \E behind \in Memories :
       program.codec = [key |-> program.setting.key, behind |-> Beyond(program.setting, behind),
                        list |-> << program.setting.encryptMethod >>, all |-> CodecNames]

(* A program that has started from a line is configured as the line says.  *)
LEMMA StartedRuns ==
  ASSUME NEW line, LineOK(line), NEW program, NEW result, FromLine(result, line), NEW behind \in Memories,
         Started(program, result, behind)
  PROVE  Configured(program, line)
<1>1. result.st # "running" /\ (result.st = "read" => SettingOK(result.setting))
  BY FilesAre, FromLineOK
<1>2. program = inits(result, behind) /\ Running(inits(result, behind))
  BY DEF Started
<1> DEFINE a == result.setting
<1>3. /\ result.st = "read" /\ program.setting = a /\ program.logLv = initLog(a.logLv)
      /\ a.encryptMethod \in CodecNames /\ a.frame \in headers
      /\ program.codec = [key |-> a.key, behind |-> Beyond(a, behind),
                          list |-> << a.encryptMethod >>, all |-> CodecNames]
  BY <1>1, <1>2, InitsRunning
<1>4. SettingOK(a)
  BY <1>1, <1>3
<1>5. FacadeOK(program.codec)
  BY <1>4, MemoryIs, StartedCodec
<1>6. Told(program.setting, line)
  BY StartedTold
<1> HIDE DEF a
<1> QED
  BY <1>3, <1>4, <1>5, <1>6 DEF Configured

(* A tun_local that runs is configured as the deployment says.             *)
LEMMA LocalRuns ==
  ASSUME Typed, Running(local)
  PROVE  Configured(local, deployment.local)
<1>1. PICK now \in Seeds, behind \in Memories : Started(local, localSetting(deployment.local, now), behind)
  BY DEF Typed, LocalStarted
<1>2. LineOK(deployment.local)
  BY LineIs DEF Typed
<1>3. FromLine(localSetting(deployment.local, now), deployment.local)
  BY RandIs, LocalSettingIs
<1> QED
  BY <1>1, <1>2, <1>3, StartedRuns

(* A tun_remote that runs is configured as the deployment says.            *)
LEMMA RemoteRuns ==
  ASSUME Typed, Running(remote)
  PROVE  Configured(remote, deployment.remote)
<1>1. PICK now \in Seeds, behind \in Memories : Started(remote, remoteSetting(deployment.remote, now), behind)
  BY DEF Typed, RemoteStarted
<1>2. LineOK(deployment.remote)
  BY LineIs DEF Typed
<1>3. FromLine(remoteSetting(deployment.remote, now), deployment.remote)
  BY RandIs, RemoteSettingIs
<1> QED
  BY <1>1, <1>2, <1>3, StartedRuns

(* A program that runs has one codec, that of its method.                  *)
LEMMA EncodesByMethod ==
  ASSUME NEW program, NEW line, Configured(program, line), NEW x \in Seq(Byte)
  PROVE  encode(program.codec, x) = Crypted(program.codec, program.setting.encryptMethod, x)
<1> DEFINE c == program.codec
           m == program.setting.encryptMethod
<1>1. FacadeOK(c)
  BY DEF Configured
<1>2. PICK behind \in Memories :
        c = [key |-> program.setting.key, behind |-> Beyond(program.setting, behind),
             list |-> << m >>, all |-> CodecNames]
  BY DEF Configured
<1> HIDE DEF c, m
<1>3. c.list = << m >>
  BY ONLY <1>2
<1>4. Len(c.list) = 1 /\ c.list[1] = m
  BY ONLY <1>3
<1>5. encode(c, x) = Crypted(c, c.list[1], x)
  BY <1>1, <1>4, EncodeOne
<1> QED
  BY <1>4, <1>5 DEF c, m

(* Without a codec, and with reverse, every byte goes to its mirrored place *)
(* in a segment of the size that the setting gives.                        *)
LEMMA Mirrors512 ==
  ASSUME NEW program, NEW line, Configured(program, line), NEW x \in Seq(Byte),
         program.setting.encryptMethod \in {"none", "reverse"}
  PROVE  encode(program.codec, x) = [i \in 1 .. Len(x) |-> x[Mirror(i, SegSize(program.setting, 512), Len(x))]]
<1> DEFINE c == program.codec
           a == program.setting
           L == Len(x)
<1>1. L \in Nat /\ x = [i \in 1 .. L |-> x[i]] /\ DOMAIN x = 1 .. L
  BY LenProperties, BytesAre
<1>2. CASE a.encryptMethod = "none"
  <2>1. encode(c, x) = x
    BY <1>2, EncodesByMethod DEF Crypted, None
  <2>2. SegSize(a, 512) = 1
    BY <1>2 DEF SegSize
  <2>3. ASSUME NEW i \in 1 .. L PROVE Mirror(i, 1, L) = i
    <3> HIDE DEF L
    <3>1. i - 1 \in Nat /\ ((i - 1) \div 1) * 1 = i - 1 /\ ~ (i - 1) + 1 > L
      BY <1>1
    <3> QED
      BY <1>1, <3>1 DEF Mirror
  <2> HIDE DEF c, a, L
  <2> QED
    BY <1>1, <2>1, <2>2, <2>3 DEF c, a, L
<1>3. CASE a.encryptMethod = "reverse"
  <2>1. encode(c, x) = ReverseSegments(x, c.key)
    BY <1>3, EncodesByMethod DEF Crypted
  <2>2. PICK behind \in Memories :
          c = [key |-> a.key, behind |-> Beyond(a, behind), list |-> << a.encryptMethod >>, all |-> CodecNames]
    BY DEF Configured
  <2>3. c.key \in Seq(Byte)
    BY DEF Configured, FacadeOK
  <2> HIDE DEF c, a
  <2>4. c.key = a.key
    BY ONLY <2>2
  <2>5. getSegSize(a.key) \in 1 .. 512
    BY <2>3, <2>4, SegmentSize
  <2>6. SegSize(a, 512) = getSegSize(a.key)
    <3> DEFINE size == getSegSize(a.key)
    <3>0. size \in 1 .. 512
      BY <2>5
    <3> HIDE DEF size
    <3>1. size <= 512
      BY ONLY <3>0
    <3>2. a.encryptMethod = "reverse"
      BY <1>3 DEF a
    <3> QED
      BY ONLY <3>1, <3>2 DEF SegSize, size
  <2>7. ReverseSegments(x, c.key) = [i \in 1 .. L |-> x[Mirror(i, getSegSize(c.key), L)]]
    BY <1>1 DEF ReverseSegments, Mirror
  <2> HIDE DEF L
  <2> QED
    BY <2>1, <2>4, <2>6, <2>7 DEF c, a, L
<1> QED
  BY <1>2, <1>3

(***************************************************************************)
(* What is called the same codec encodes the same, although the keys may   *)
(* differ, and even the methods.                                           *)
(***************************************************************************)
LEMMA AlikeEncodes ==
  ASSUME Typed, Alike, NEW x \in Seq(Byte)
  PROVE  encode(local.codec, x) = encode(remote.codec, x)
<1> DEFINE a == local.setting  b == remote.setting
           c == local.codec  d == remote.codec
<1>1. Configured(local, deployment.local) /\ Configured(remote, deployment.remote)
  BY LocalRuns, RemoteRuns DEF Alike
<1>2. \/ a.encryptMethod = b.encryptMethod /\ SameKey(a.encryptMethod, c, d)
      \/ /\ {a.encryptMethod, b.encryptMethod} \subseteq {"none", "reverse"}
         /\ SegSize(a, 512) = SegSize(b, 512)
  BY DEF Alike, SameCodec
<1>3. encode(c, x) = Crypted(c, a.encryptMethod, x) /\ encode(d, x) = Crypted(d, b.encryptMethod, x)
  BY <1>1, EncodesByMethod
<1>4. CASE /\ {a.encryptMethod, b.encryptMethod} \subseteq {"none", "reverse"}
           /\ SegSize(a, 512) = SegSize(b, 512)
  <2>1. a.encryptMethod \in {"none", "reverse"} /\ b.encryptMethod \in {"none", "reverse"}
    BY <1>4
  <2>2. encode(c, x) = [i \in 1 .. Len(x) |-> x[Mirror(i, SegSize(a, 512), Len(x))]]
    BY <1>1, <2>1, Mirrors512
  <2>3. encode(d, x) = [i \in 1 .. Len(x) |-> x[Mirror(i, SegSize(b, 512), Len(x))]]
    BY <1>1, <2>1, Mirrors512
  <2> HIDE DEF a, b, c, d
  <2> QED
    BY <1>4, <2>2, <2>3 DEF c, d
<1>5. CASE a.encryptMethod = b.encryptMethod /\ SameKey(a.encryptMethod, c, d)
  <2> DEFINE m == a.encryptMethod
  <2>1. m \in {"rc4", "chacha20", "xor"}
    BY <1>5 DEF SameKey
  <2>2. encode(c, x) = Crypted(c, m, x) /\ encode(d, x) = Crypted(d, m, x) /\ SameKey(m, c, d)
    BY <1>3, <1>5
  <2> HIDE DEF m, c, d
  <2>3. CASE m = "rc4"
    <3>1. cycled(c.key) = cycled(d.key)
      BY <2>2, <2>3 DEF SameKey
    <3>2. Rc4(x, c.key) = Rc4(x, d.key)
      BY <3>1 DEF Rc4, rc4_setup
    <3> QED
      BY <2>2, <2>3, <3>2 DEF Crypted, c, d
  <2>4. CASE m = "chacha20"
    <3>1. Len(c.key) = Len(d.key) /\ realKey(c.key, c.behind) = realKey(d.key, d.behind)
      BY <2>2, <2>4 DEF SameKey
    <3>2. Chacha20(x, c.key, c.behind) = Chacha20(x, d.key, d.behind)
      BY <3>1 DEF Chacha20
    <3> QED
      BY <2>2, <2>4, <3>2 DEF Crypted, c, d
  <2>5. CASE m = "xor"
    BY <2>2, <2>5 DEF Crypted, c, d
  <2> QED
    BY <2>1, <2>3, <2>4, <2>5
<1> QED
  BY <1>2, <1>4, <1>5

(* However start-up ends, it ends in one of the known ways.                *)
LEMMA InitsStates ==
  ASSUME NEW result, NEW line, FromLine(result, line), NEW behind
  PROVE  inits(result, behind).st \in States /\ inits(result, behind).st # "off"
<1> DEFINE a == result.setting
           beyond == IF a.encryptMethod = "chacha20" /\ Len(a.key) < 32 THEN behind ELSE << >>
           codec == addCodec(init(a.key, beyond), a.encryptMethod)
           p == inits(result, behind)
           running == [st |-> "running", setting |-> a, codec |-> codec, logLv |-> initLog(a.logLv)]
<1>1. p = CASE result.st # "read" -> result
            [] result.st = "read" /\ codec.list = << >> -> Ended("exit1")
            [] result.st = "read" /\ codec.list # << >> /\ a.frame \notin headers -> Ended("exit2")
            [] OTHER -> running
  BY DEF inits
<1>2. running.st = "running" /\ Ended("exit1").st = "exit1" /\ Ended("exit2").st = "exit2"
  BY DEF Ended
<1>3. result.st \in {"exit3", "died", "read"}
  BY DEF FromLine
<1> HIDE DEF running, codec, a, p, beyond
<1>4. CASE result.st # "read"
  BY <1>1, <1>3, <1>4 DEF States, p
<1>5. CASE result.st = "read" /\ codec.list = << >>
  BY <1>1, <1>2, <1>5 DEF States, p
<1>6. CASE result.st = "read" /\ codec.list # << >> /\ a.frame \notin headers
  BY <1>1, <1>2, <1>6 DEF States, p
<1>7. CASE result.st = "read" /\ codec.list # << >> /\ a.frame \in headers
  BY <1>1, <1>2, <1>7 DEF States, p
<1> QED
  BY <1>4, <1>5, <1>6, <1>7

(* A package with a body is one that a session may send.                   *)
LEMMA PackageMade ==
  ASSUME NEW m, NEW cmd \in Word, NEW sub \in Word, NEW no \in Word, NEW body \in Seq(Byte),
         NEW padding \in Padding, Package(m, cmd, sub, no, body, padding),
         Len(body) \in Lengths, body # << >>
  PROVE  Made(m)
<1>1. m["cmd"] = cmd /\ m["subcmd"] = sub /\ m["seq"] = no /\ m["body"] = body
  BY DEF Package
<1>2. Package(m, m["cmd"], m["subcmd"], m["seq"], m["body"], padding)
  BY <1>1
<1> QED
  BY <1>1, <1>2 DEF Made

(***************************************************************************)
(* Such a package, encoded and decoded by one facade, is parsed as the     *)
(* package it was.                                                         *)
(***************************************************************************)
LEMMA MadeRead ==
  ASSUME NEW codec, FacadeOK(codec), NEW m, Made(m)
  PROVE  /\ m \in MessagesOf(ProxyMsgFields) /\ m # Clear
         /\ encode(codec, ProxyMsgSerialize(m)) \in Seq(Byte)
         /\ parseAndCheck(decode(codec, encode(codec, ProxyMsgSerialize(m))))
              = [result |-> "PROXY_PARSE_OK", package |-> m]
<1>1. PICK padding \in Padding : Package(m, m["cmd"], m["subcmd"], m["seq"], m["body"], padding)
  BY DEF Made
<1>2. /\ m["cmd"] \in Word /\ m["subcmd"] \in Word /\ m["seq"] \in Word
      /\ m["body"] \in Seq(Byte) /\ Len(m["body"]) \in Lengths /\ m["body"] # << >>
  BY DEF Made
<1>3. padding \in Seq(Byte) /\ Len(padding) \in Lengths
  BY PaddingIs
<1>4. m \in MessagesOf(ProxyMsgFields) /\ m # Clear
  BY <1>1, <1>2, <1>3, PackageType
<1>5. /\ encode(codec, ProxyMsgSerialize(m)) \in Seq(Byte)
      /\ parseAndCheck(decode(codec, encode(codec, ProxyMsgSerialize(m))))
           = [result |-> "PROXY_PARSE_OK", package |-> m]
  BY <1>1, <1>2, Understanding
<1> QED
  BY <1>4, <1>5

(* The fields of a message that was read.                                  *)
LEMMA HeldIs ==
  ASSUME NEW fields, NEW m \in MessagesOf(fields), NEW i \in DOMAIN fields, fields[i].bytes \in BOOLEAN
  PROVE  /\ fields[i].bytes => String(m, fields[i].name) \in Seq(Byte)
         /\ ~ fields[i].bytes => Number(m, fields[i].name) \in Word
<1>1. Has(m, fields[i].name) => m[fields[i].name] \in Holds(fields[i])
  BY MessagesAre
<1>2. << >> \in Seq(Byte) /\ W(0) \in Word
  BY WType
<1> QED
  BY <1>1, <1>2 DEF Holds, String, Number

(* The fields of a package have their types, set or not.                   *)
LEMMA PackageFields ==
  ASSUME NEW m \in MessagesOf(ProxyMsgFields)
  PROVE  /\ String(m, "body") \in Seq(Byte) /\ Number(m, "cmd") \in Word
         /\ Number(m, "subcmd") \in Word /\ Number(m, "seq") \in Word
<1> DEFINE f == ProxyMsgFields
<1>1. /\ DOMAIN f = 1 .. 7
      /\ f[3].name = "cmd" /\ f[4].name = "subcmd" /\ f[5].name = "seq" /\ f[7].name = "body"
      /\ \A i \in 1 .. 7 : f[i].bytes \in BOOLEAN
  BY ProxyMsgTable
<1>2. ~ f[3].bytes /\ ~ f[4].bytes /\ ~ f[5].bytes /\ f[7].bytes
  BY ProxyMsgTable
<1>3. m \in MessagesOf(f)
  OBVIOUS
<1> HIDE DEF f
<1>4. 3 \in DOMAIN f /\ 4 \in DOMAIN f /\ 5 \in DOMAIN f /\ 7 \in DOMAIN f
  BY <1>1
<1>5. f[3].bytes \in BOOLEAN /\ f[4].bytes \in BOOLEAN /\ f[5].bytes \in BOOLEAN /\ f[7].bytes \in BOOLEAN
  BY ONLY <1>1, <1>4
<1>6. \A i \in DOMAIN f : f[i].bytes \in BOOLEAN =>
        /\ f[i].bytes => String(m, f[i].name) \in Seq(Byte)
        /\ ~ f[i].bytes => Number(m, f[i].name) \in Word
  BY <1>3, HeldIs
<1> QED
  BY ONLY <1>1, <1>2, <1>4, <1>5, <1>6

(* The fields of a request have their types, set or not.                   *)
LEMMA RequestFields ==
  ASSUME NEW m \in MessagesOf(ProxyConnectReqFields)
  PROVE  String(m, "address") \in Seq(Byte) /\ Number(m, "port") \in Word
<1> DEFINE f == ProxyConnectReqFields
<1>1. /\ DOMAIN f = 1 .. 5 /\ f[2].name = "address" /\ f[3].name = "port"
      /\ \A i \in 1 .. 5 : f[i].bytes \in BOOLEAN
  BY ConnectReqTable
<1>2. f[2].bytes /\ ~ f[3].bytes
  BY ConnectReqTable
<1>3. m \in MessagesOf(f)
  OBVIOUS
<1> HIDE DEF f
<1>4. 2 \in DOMAIN f /\ 3 \in DOMAIN f
  BY <1>1
<1>5. f[2].bytes \in BOOLEAN /\ f[3].bytes \in BOOLEAN
  BY ONLY <1>1, <1>4
<1>6. \A i \in DOMAIN f : f[i].bytes \in BOOLEAN =>
        /\ f[i].bytes => String(m, f[i].name) \in Seq(Byte)
        /\ ~ f[i].bytes => Number(m, f[i].name) \in Word
  BY <1>3, HeldIs
<1> QED
  BY ONLY <1>1, <1>2, <1>4, <1>5, <1>6

(* Whatever is on the link, what is read of it is a message.               *)
LEMMA ReadType ==
  ASSUME NEW codec, FacadeOK(codec), NEW data \in Seq(Byte)
  PROVE  parseAndCheck(decode(codec, data)).package \in MessagesOf(ProxyMsgFields)
<1> DEFINE b == decode(codec, data)
<1>1. b \in Seq(Byte)
  BY DecodeEncode
<1> HIDE DEF b
<1>2. ProxyMsgMerge(b).msg \in MessagesOf(ProxyMsgFields)
  BY <1>1, ClearType, TablesOK, MergedType DEF ProxyMsgMerge, ProxyMsgClear
<1>3. parseAndCheck(b).package = ProxyMsgMerge(b).msg
  <2> DEFINE p == Parsed(ProxyMsgMerge(b), {"err_code"})
  <2>1. p.msg = ProxyMsgMerge(b).msg
    BY DEF Parsed
  <2>2. parseAndCheck(b) = Checked(p)
    BY DEF parseAndCheck
  <2> HIDE DEF p
  <2>3. Checked(p).package = p.msg
    BY DEF Checked
  <2> QED
    BY <2>1, <2>2, <2>3
<1> QED
  BY <1>2, <1>3 DEF b

(* Whatever the bytes, what is read of them as a request is a request.     *)
LEMMA RequestReadType ==
  ASSUME NEW b \in Seq(Byte)
  PROVE  Parsed(ProxyConnectReqMerge(b), {}).msg \in MessagesOf(ProxyConnectReqFields)
<1>1. ProxyConnectReqMerge(b).msg \in MessagesOf(ProxyConnectReqFields)
  BY ClearType, TablesOK, MergedType DEF ProxyConnectReqMerge, ProxyConnectReqClear
<1> QED
  BY <1>1 DEF Parsed

(* What is written for the request of a browser fits its message.          *)
LEMMA AskIs ==
  ASSUME Typed, NEW s \in Sessions, s \in DOMAIN deployment.asks
  PROVE  /\ asks(s).type \in Nat /\ asks(s).type < 256 /\ reqPort(s) \in Nat /\ reqPort(s) < 65536
         /\ IsText(addressOf(asks(s))) /\ addressOf(asks(s)) \in Seq(Byte)
         /\ W(asks(s).type) \in Word /\ W(reqPort(s)) \in Word
         /\ W(reqPort(s))[2] = reqPort(s)
         /\ W(asks(s).type) \in {W(1), W(3), W(4)} <=> asks(s).type \in {1, 3, 4}
<1> DEFINE a == asks(s)
           h == addressOf(a)
           p == reqPort(s)
<1>1. AskOK(a)
  BY LineIs DEF Typed, asks
<1>2. garbage[s] \in Nat /\ garbage[s] < Half
  BY DeploymentAssumption DEF Typed
<1>3. p = IF a.type = 3 THEN a.port ELSE garbage[s]
  BY DEF reqPort
<1> HIDE DEF a
<1>4. a.type \in Byte /\ h \in Seq(Byte) /\ Len(h) <= 255 /\ a.port \in Nat /\ a.port < Half
  BY <1>1 DEF AskOK
<1> HIDE DEF h, p
<1>5. p \in Nat /\ p < Half
  BY <1>2, <1>3, <1>4
<1>6. a.type \in Nat /\ a.type < 256
  BY <1>4, BelowByte
<1>7. p < 65536
  <2>1. \A n \in Nat : n < Half => n < 65536
    BY SMT DEF Half
  <2> QED
    BY <1>5, <2>1
<1>8. IsText(h)
  BY <1>4, ShortText
<1>9. \A n \in Nat : n < 65536 => W(n) = << 0, n >>
  BY SMT DEF W, Half
<1>10. W(p)[2] = p
  BY <1>5, <1>7, <1>9
<1>11. \A n \in Nat : n < 256 => W(n) = << 0, n >>
  BY SMT DEF W, Half
<1>12. W(1) = << 0, 1 >> /\ W(3) = << 0, 3 >> /\ W(4) = << 0, 4 >> /\ W(a.type) = << 0, a.type >>
  BY SMT, <1>6, <1>11
<1>13. W(a.type) \in {W(1), W(3), W(4)} <=> a.type \in {1, 3, 4}
  BY ONLY <1>12
<1>14. W(a.type) \in Word /\ W(p) \in Word
  BY <1>5, <1>6, WType
<1> QED
  BY <1>4, <1>5, <1>6, <1>7, <1>8, <1>10, <1>13, <1>14 DEF a, h, p

(* The body of the request that a session makes reads as that request.     *)
LEMMA RequestBodyIs ==
  ASSUME Typed, Running(local), NEW s \in Sessions, s \in DOMAIN deployment.asks
  PROVE  /\ RequestBody(s) \in Seq(Byte) /\ Len(RequestBody(s)) \in Lengths /\ RequestBody(s) # << >>
         /\ ProxyConnectReqMerge(RequestBody(s)) = Result("ended", RequestOf(s))
         /\ ProxyConnectReqByteSize(RequestOf(s)) = Len(RequestBody(s))
<1>1. IsText(local.setting.user) /\ IsText(local.setting.password)
  BY LocalRuns DEF Configured, SettingOK
<1>2. IsText(addressOf(asks(s))) /\ W(asks(s).type) \in Word /\ W(reqPort(s)) \in Word
  BY AskIs
<1> QED
  BY <1>1, <1>2, RequestRead DEF RequestBody, RequestOf

(***************************************************************************)
(* The fields of the request that a session makes: who asks, and for       *)
(* what.                                                                   *)
(***************************************************************************)
LEMMA RequestOfIs ==
  ASSUME NEW s
  PROVE  /\ String(RequestOf(s), "username") = local.setting.user
         /\ String(RequestOf(s), "password") = local.setting.password
         /\ String(RequestOf(s), "address") = addressOf(asks(s))
         /\ Number(RequestOf(s), "type") = W(asks(s).type)
         /\ Number(RequestOf(s), "port") = W(reqPort(s))
<1> DEFINE r == RequestOf(s)
<1>1. /\ DOMAIN r = {"type", "address", "port", "username", "password"}
      /\ r["type"] = W(asks(s).type) /\ r["address"] = addressOf(asks(s)) /\ r["port"] = W(reqPort(s))
      /\ r["username"] = local.setting.user /\ r["password"] = local.setting.password
  BY DEF RequestOf, Request
<1> HIDE DEF r
<1>2. String(r, "username") = local.setting.user /\ String(r, "password") = local.setting.password
  BY <1>1 DEF String, Has
<1>3. String(r, "address") = addressOf(asks(s))
  BY <1>1 DEF String, Has
<1>4. Number(r, "type") = W(asks(s).type) /\ Number(r, "port") = W(reqPort(s))
  BY <1>1 DEF Number, Has
<1> QED
  BY <1>2, <1>3, <1>4 DEF r

(* The data of a session fit a package.                                    *)
LEMMA DataIs ==
  Data \in Seq(Byte) /\ Len(Data) \in Lengths /\ Data # << >>
BY DeploymentAssumption, TextIs

-----------------------------------------------------------------------------
(* The steps.                                                              *)

(* A step leaves a session alone.                                          *)
Same(t) ==
  /\ number'[t] = number[t] /\ stage'[t] = stage[t] /\ wire'[t] = wire[t] /\ made'[t] = made[t]
  /\ authPkg'[t] = authPkg[t] /\ dialled'[t] = dialled[t] /\ delivered'[t] = delivered[t]

(***************************************************************************)
(* A session that a step does not touch stays as it was, while the         *)
(* programs run on.                                                        *)
(***************************************************************************)
LEMMA Untouched ==
  ASSUME NEW t \in Sessions, UNCHANGED programs, Same(t)
  PROVE  /\ Reached(t) => Reached(t)'
         /\ Linked(t) => Linked(t)'
         /\ Served(t) => Served(t)'
<1>1. /\ asks(t)' = asks(t) /\ reqPort(t)' = reqPort(t)
      /\ RequestOf(t)' = RequestOf(t) /\ RequestBody(t)' = RequestBody(t)
  BY DEF programs, asks, reqPort, RequestOf, RequestBody
<1>2. \A m : Asked(m, t)' <=> Asked(m, t)
  BY <1>1 DEF Same, Asked
<1>3. \A m : SentData(m, t)' <=> SentData(m, t)
  BY DEF Same, SentData
<1>4. \A codec : WireIs(codec, t)' <=> WireIs(codec, t)
  BY DEF Same, WireIs
<1>5. Reached(t) => Reached(t)'
  BY DEF programs, Same, Reached
<1>6. Linked(t) => Linked(t)'
  <2>1. Asked(made[t], t)' <=> Asked(made[t], t)
    BY <1>1 DEF Same, Asked
  <2>2. SentData(made[t], t)' <=> SentData(made[t], t)
    BY DEF Same, SentData
  <2>3. WireIs(local.codec, t)' <=> WireIs(local.codec, t)
    BY DEF programs, Same, WireIs
  <2>4. WireIs(remote.codec, t)' <=> WireIs(remote.codec, t)
    BY DEF programs, Same, WireIs
  <2>5. Answered(made[t])' <=> Answered(made[t])
    BY DEF Same, Answered
  <2>6. Made(made[t])' <=> Made(made[t])
    BY DEF Same, Made
  <2> QED
    BY <2>1, <2>2, <2>3, <2>4, <2>5, <2>6 DEF programs, Same, Linked
<1>7. Served(t) => Served(t)'
  <2>1. Asked(authPkg[t], t)' <=> Asked(authPkg[t], t)
    BY <1>1 DEF Same, Asked
  <2>2. IsUser(local.setting)' <=> IsUser(local.setting)
    BY DEF programs, IsUser
  <2>3. Fits(local, remote)' <=> Fits(local, remote)
    BY DEF programs, Fits
  <2> QED
    BY <1>1, <2>1, <2>2, <2>3 DEF Same, Served
<1> QED
  BY <1>5, <1>6, <1>7

(* What has to be shown of a step of a session.                            *)
LEMMA Stepped ==
  ASSUME Inv, NEW s \in Sessions, UNCHANGED programs, Typed', \A t \in Sessions \ {s} : Same(t),
         Reached(s)', Linked(s)', Alike => Served(s)'
  PROVE  Inv'
<1>1. Alike' <=> Alike
  BY DEF programs, Alike, SameCodec
<1>2. ASSUME NEW t \in Sessions
      PROVE  Reached(t)' /\ Linked(t)' /\ (Alike => Served(t)')
  <2>1. CASE t = s
    BY <2>1
  <2>2. CASE t # s
    <3>1. Same(t)
      BY <2>2
    <3>2. Reached(t) /\ Linked(t) /\ (Alike => Served(t))
      BY DEF Inv
    <3> QED
      BY <3>1, <3>2, Untouched
  <2> QED
    BY <2>1, <2>2
<1> QED
  BY <1>1, <1>2 DEF Inv

(***************************************************************************)
(* A function updated at one place: its type, its value there, its values  *)
(* elsewhere.                                                              *)
(***************************************************************************)
LEMMA Exceptional ==
  ASSUME NEW S, NEW V, NEW f \in [S -> V], NEW s \in S, NEW v \in V, NEW g, g = [f EXCEPT ![s] = v]
  PROVE  g \in [S -> V] /\ g[s] = v /\ \A t \in S \ {s} : g[t] = f[t]
OBVIOUS

(* Reading the number of the first package keeps the invariant.            *)
LEMMA ReadSeqInv ==
  ASSUME Inv, NEW s \in Sessions, readSeq(s)
  PROVE  Inv'
<1> DEFINE to == IF stage[s] = "connected" THEN "connected_read" ELSE "open_read"
<1>1. /\ Running(local) /\ stage[s] \in {"connected", "open"}
      /\ number' = [number EXCEPT ![s] = seq] /\ stage' = [stage EXCEPT ![s] = to]
      /\ UNCHANGED programs /\ seq' = seq /\ wire' = wire /\ made' = made /\ authPkg' = authPkg
      /\ dialled' = dialled /\ delivered' = delivered
  BY DEF readSeq, Goes, messages
<1>2. Typed /\ Reached(s) /\ Linked(s) /\ (Alike => Served(s))
  BY DEF Inv
<1>3. to \in Stages /\ to \in {"connected_read", "open_read"}
  BY DEF Stages
<1> HIDE DEF to
<1>4. number' \in [Sessions -> Nat] /\ \A t \in Sessions \ {s} : number'[t] = number[t]
  BY <1>1, <1>2 DEF Typed
<1>5. stage' \in [Sessions -> Stages] /\ stage'[s] = to /\ \A t \in Sessions \ {s} : stage'[t] = stage[t]
  BY <1>1, <1>2, <1>3 DEF Typed
<1>6. Typed'
  BY <1>1, <1>2, <1>4, <1>5 DEF Typed, programs, Running, LocalStarted, RemoteStarted
<1>7. \A t \in Sessions \ {s} : Same(t)
  BY <1>1, <1>4, <1>5 DEF Same
<1>8. Reached(s)'
  BY <1>1, <1>2, <1>3, <1>5 DEF Reached, programs, Running
<1>9. stage'[s] \in {"connected_read", "open_read"}
  BY <1>3, <1>5
<1>10. Linked(s)'
  <2>1. Made(made[s])' <=> Made(made[s])
    BY <1>1 DEF Made
  <2> QED
    BY <1>1, <1>2, <1>9, <2>1 DEF Linked
<1>11. Served(s) => Served(s)'
  <2>1. IsUser(local.setting)' <=> IsUser(local.setting)
    BY <1>1 DEF programs, IsUser
  <2>2. asks(s)' = asks(s) /\ reqPort(s)' = reqPort(s)
    BY <1>1 DEF programs, asks, reqPort
  <2> QED
    BY <1>1, <1>9, <2>1, <2>2 DEF Served
<1> QED
  BY <1>1, <1>2, <1>6, <1>7, <1>8, <1>10, <1>11, Stepped DEF Inv

(* A program makes a message for a session, which gets one stage further.  *)
LEMMA MakesTyped ==
  ASSUME Inv, NEW s \in Sessions, NEW program, FacadeOK(program.codec), NEW m, Made(m),
         Makes(program, s, m), NEW to \in Stages, Goes(s, to),
         UNCHANGED << programs, number, authPkg, dialled, delivered >>, seq' \in Nat
  PROVE  /\ Typed' /\ made'[s] = m /\ stage'[s] = to
         /\ wire'[s] = encode(program.codec, ProxyMsgSerialize(m))
         /\ \A t \in Sessions \ {s} : Same(t)
<1>1. Typed
  BY DEF Inv
<1>2. m \in MessagesOf(ProxyMsgFields) /\ encode(program.codec, ProxyMsgSerialize(m)) \in Seq(Byte)
  BY MadeRead
<1> DEFINE e == encode(program.codec, ProxyMsgSerialize(m))
<1>3. made' = [made EXCEPT ![s] = m] /\ wire' = [wire EXCEPT ![s] = e] /\ stage' = [stage EXCEPT ![s] = to]
  BY DEF Makes, Goes
<1>4. e \in Seq(Byte)
  BY <1>2
<1> HIDE DEF e
<1>5. /\ made' \in [Sessions -> MessagesOf(ProxyMsgFields)] /\ made'[s] = m
      /\ \A t \in Sessions \ {s} : made'[t] = made[t]
  BY <1>1, <1>2, <1>3 DEF Typed
<1>6. /\ wire' \in [Sessions -> Seq(Byte)] /\ wire'[s] = e
      /\ \A t \in Sessions \ {s} : wire'[t] = wire[t]
  <2>1. wire \in [Sessions -> Seq(Byte)]
    BY <1>1 DEF Typed
  <2> QED
    BY ONLY <1>3, <1>4, <2>1, s \in Sessions
<1>7. stage' \in [Sessions -> Stages] /\ stage'[s] = to /\ \A t \in Sessions \ {s} : stage'[t] = stage[t]
  BY <1>1, <1>3 DEF Typed
<1>8. Typed'
  BY <1>1, <1>5, <1>6, <1>7 DEF Typed, programs, Running, LocalStarted, RemoteStarted
<1>9. \A t \in Sessions \ {s} : Same(t)
  BY <1>5, <1>6, <1>7 DEF Same
<1> QED
  BY <1>5, <1>6, <1>7, <1>8, <1>9 DEF e

(* Sending the request, once connected, keeps the invariant.               *)
LEMMA ConnectToRemoteInv ==
  ASSUME Inv, NEW s \in Sessions, handleConnectToRemote(s)
  PROVE  Inv'
<1>1. /\ Running(local) /\ stage[s] = "connected_read" /\ seq' = number[s] + 1 /\ Goes(s, "asked")
      /\ UNCHANGED << programs, number, authPkg, dialled, delivered >>
  BY DEF handleConnectToRemote
<1>2. PICK padding \in Padding :
        Makes(local, s, createConnectReq(W(asks(s).type), addressOf(asks(s)), W(reqPort(s)),
                                         local.setting.user, local.setting.password,
                                         W(number[s]), padding))
  BY DEF handleConnectToRemote
<1> DEFINE m == createConnectReq(W(asks(s).type), addressOf(asks(s)), W(reqPort(s)),
                                 local.setting.user, local.setting.password, W(number[s]), padding)
<1>3. Typed /\ Reached(s) /\ Linked(s) /\ (Alike => Served(s))
  BY DEF Inv
<1>4. s \in DOMAIN deployment.asks /\ number[s] \in Nat
  BY <1>1, <1>3 DEF Reached, Typed
<1>5. Package(m, ServerCmd, SubCmd1, W(number[s]), RequestBody(s), padding)
  BY ConnectReqMade DEF RequestBody, RequestOf
<1>6. Makes(local, s, m)
  BY <1>2
<1> HIDE DEF m
<1>7. Made(m)
  <2>1. W(number[s]) \in Word
    BY <1>4, WType
  <2>2. RequestBody(s) \in Seq(Byte) /\ Len(RequestBody(s)) \in Lengths /\ RequestBody(s) # << >>
    BY <1>1, <1>3, <1>4, RequestBodyIs
  <2> QED
    BY <1>5, <2>1, <2>2, CommandsType, PackageMade
<1>8. FacadeOK(local.codec)
  BY <1>1, <1>3, LocalRuns DEF Configured
<1>9. "asked" \in Stages
  BY DEF Stages
<1>10. seq' \in Nat
  BY <1>1, <1>4
<1>11. /\ Typed' /\ made'[s] = m /\ stage'[s] = "asked"
       /\ wire'[s] = encode(local.codec, ProxyMsgSerialize(m))
       /\ \A t \in Sessions \ {s} : Same(t)
  BY <1>1, <1>6, <1>7, <1>8, <1>9, <1>10, MakesTyped
<1>12. Reached(s)'
  BY <1>1, <1>3, <1>11 DEF Reached, programs, Running
<1>13. Linked(s)'
  <2>1. RequestBody(s)' = RequestBody(s) /\ number' = number
    BY <1>1 DEF programs, RequestBody, RequestOf, asks, reqPort
  <2>6. \E p \in Padding : Package(made'[s], ServerCmd, SubCmd1, W(number'[s]), RequestBody(s)', p)
    BY <1>5, <1>11, <2>1
  <2>2. Asked(made[s], s)'
    BY <2>6 DEF Asked
  <2>3. WireIs(local.codec, s)'
    BY <1>1, <1>11 DEF WireIs, programs
  <2>4. Made(made[s])'
    BY <1>7, <1>11 DEF Made
  <2>5. made'[s] # Clear
    BY <1>7, <1>8, <1>11, MadeRead
  <2> QED
    BY <1>11, <2>2, <2>3, <2>4, <2>5 DEF Linked
<1>14. Served(s) => Served(s)'
  <2>1. IsUser(local.setting)' <=> IsUser(local.setting)
    BY <1>1 DEF programs, IsUser
  <2>2. asks(s)' = asks(s) /\ reqPort(s)' = reqPort(s)
    BY <1>1 DEF programs, asks, reqPort
  <2> QED
    BY <1>1, <1>11, <2>1, <2>2 DEF Served
<1> QED
  BY <1>1, <1>3, <1>11, <1>12, <1>13, <1>14, Stepped

(* Sending the data of the browser keeps the invariant.                    *)
LEMMA ReadDataInv ==
  ASSUME Inv, NEW s \in Sessions, handleReadDataFromBrowser(s)
  PROVE  Inv'
<1>1. /\ Running(local) /\ stage[s] = "open_read" /\ seq' = number[s] + 1 /\ Goes(s, "sent")
      /\ UNCHANGED << programs, number, authPkg, dialled, delivered >>
  BY DEF handleReadDataFromBrowser
<1>2. PICK padding \in Padding : Makes(local, s, createDataPkg(Data, W(number[s]), padding))
  BY DEF handleReadDataFromBrowser
<1> DEFINE m == createDataPkg(Data, W(number[s]), padding)
<1>3. Typed /\ Reached(s) /\ Linked(s) /\ (Alike => Served(s))
  BY DEF Inv
<1>4. number[s] \in Nat
  BY <1>3 DEF Typed
<1>5. Package(m, ServerCmd, SubCmd2, W(number[s]), Data, padding)
  BY DataMade
<1>6. Makes(local, s, m)
  BY <1>2
<1> HIDE DEF m
<1>7. Made(m)
  <2>1. W(number[s]) \in Word
    BY <1>4, WType
  <2> QED
    BY <1>5, <2>1, DataIs, CommandsType, PackageMade
<1>8. FacadeOK(local.codec)
  BY <1>1, <1>3, LocalRuns DEF Configured
<1>9. "sent" \in Stages
  BY DEF Stages
<1>10. seq' \in Nat
  BY <1>1, <1>4
<1>11. /\ Typed' /\ made'[s] = m /\ stage'[s] = "sent"
       /\ wire'[s] = encode(local.codec, ProxyMsgSerialize(m))
       /\ \A t \in Sessions \ {s} : Same(t)
  BY <1>1, <1>6, <1>7, <1>8, <1>9, <1>10, MakesTyped
<1>12. Reached(s)'
  BY <1>1, <1>3, <1>11 DEF Reached, programs, Running
<1>13. Linked(s)'
  <2>1. \E p \in Padding : Package(m, ServerCmd, SubCmd2, W(number[s]), Data, p)
    BY <1>5
  <2>2. SentData(made[s], s)'
    BY <1>1, <1>11, <2>1 DEF SentData
  <2>3. WireIs(local.codec, s)'
    BY <1>1, <1>11 DEF WireIs, programs
  <2>4. Made(made[s])'
    BY <1>7, <1>11 DEF Made
  <2>5. made'[s] # Clear
    BY <1>7, <1>8, <1>11, MadeRead
  <2> QED
    BY <1>11, <2>2, <2>3, <2>4, <2>5 DEF Linked
<1>14. Served(s) => Served(s)'
  <2>1. IsUser(local.setting)' <=> IsUser(local.setting)
    BY <1>1 DEF programs, IsUser
  <2>2. asks(s)' = asks(s) /\ reqPort(s)' = reqPort(s)
    BY <1>1 DEF programs, asks, reqPort
  <2> QED
    BY <1>1, <1>11, <2>1, <2>2 DEF Served
<1> QED
  BY <1>1, <1>3, <1>11, <1>12, <1>13, <1>14, Stepped

(* Answering, once the target is reached, keeps the invariant.             *)
LEMMA ConnectToTargetInv ==
  ASSUME Inv, NEW s \in Sessions, handleConnectToTarget(s)
  PROVE  Inv'
<1> DEFINE b == ProxyConnectRspSerialize(Answer)
<1>1. /\ Running(remote) /\ stage[s] = "dialling" /\ Goes(s, "answered")
      /\ UNCHANGED << programs, seq, number, authPkg, dialled, delivered >>
  BY DEF handleConnectToTarget
<1>2. PICK padding \in Padding :
        Makes(remote, s, createCommonRsp(authPkg[s], b, W(0), W(0), padding))
  BY DEF handleConnectToTarget, Answer
<1> DEFINE m == createCommonRsp(authPkg[s], b, W(0), W(0), padding)
           no == Number(authPkg[s], "seq")
<1>3. Typed /\ Reached(s) /\ Linked(s) /\ (Alike => Served(s))
  BY DEF Inv
<1>4. b \in Seq(Byte) /\ Len(b) \in Lengths /\ b # << >>
  BY AnswerRead
<1>5. Package(m, Number(authPkg[s], "cmd"), Number(authPkg[s], "subcmd"), no, b, padding)
  BY RspMade
<1>6. Makes(remote, s, m)
  BY <1>2
<1> HIDE DEF m, b
<1>7. Number(authPkg[s], "cmd") \in Word /\ Number(authPkg[s], "subcmd") \in Word /\ no \in Word
  <2>1. authPkg[s] \in MessagesOf(ProxyMsgFields)
    BY <1>3 DEF Typed
  <2> QED
    BY <2>1, PackageFields
<1> HIDE DEF no
<1>8. Made(m)
  BY <1>4, <1>5, <1>7, PackageMade
<1>9. FacadeOK(remote.codec)
  BY <1>1, <1>3, RemoteRuns DEF Configured
<1>10. "answered" \in Stages
  BY DEF Stages
<1>11. seq' \in Nat
  BY <1>1, <1>3 DEF Typed
<1>12. /\ Typed' /\ made'[s] = m /\ stage'[s] = "answered"
       /\ wire'[s] = encode(remote.codec, ProxyMsgSerialize(m))
       /\ \A t \in Sessions \ {s} : Same(t)
  BY <1>1, <1>6, <1>8, <1>9, <1>10, <1>11, MakesTyped
<1>13. Reached(s)'
  BY <1>1, <1>3, <1>12 DEF Reached, programs, Running
<1>14. m["body"] = b /\ m["seq"] = no
  BY <1>5 DEF Package
<1>15. Linked(s)'
  <2>2. Answered(made[s])'
    BY <1>12, <1>14 DEF Answered, b
  <2>3. WireIs(remote.codec, s)'
    BY <1>1, <1>12 DEF WireIs, programs
  <2>4. Made(made[s])'
    BY <1>8, <1>12 DEF Made
  <2>5. made'[s] # Clear
    BY <1>8, <1>9, <1>12, MadeRead
  <2> QED
    BY <1>12, <2>2, <2>3, <2>4, <2>5 DEF Linked
<1>16. Served(s) => Served(s)'
  <2>1. IsUser(local.setting)' <=> IsUser(local.setting)
    BY <1>1 DEF programs, IsUser
  <2>2. asks(s)' = asks(s) /\ reqPort(s)' = reqPort(s)
    BY <1>1 DEF programs, asks, reqPort
  <2>3. ASSUME Served(s) PROVE made'[s].seq = W(number'[s])
    <3>1. Asked(authPkg[s], s)
      BY <1>1, <2>3 DEF Served
    <3>2. DOMAIN authPkg[s] = PackageNames /\ authPkg[s]["seq"] = W(number[s])
      BY <3>1 DEF Asked, Package
    <3>3. no = W(number[s])
      BY <3>2 DEF no, Number, Has, PackageNames
    <3> QED
      BY <1>1, <1>12, <1>14, <3>3
  <2> QED
    BY <1>1, <1>12, <2>1, <2>2, <2>3 DEF Served
<1> QED
  BY <1>1, <1>3, <1>12, <1>13, <1>15, <1>16, Stepped

(* What is on the link is encoded alike by both while they are alike.      *)
LEMMA AlikeWire ==
  ASSUME Inv, Alike, NEW s \in Sessions, made[s] # Clear
  PROVE  WireIs(local.codec, s) <=> WireIs(remote.codec, s)
<1> DEFINE m == made[s]
<1>1. Made(m)
  BY DEF Inv, Linked
<1>2. PICK padding \in Padding : Package(m, m["cmd"], m["subcmd"], m["seq"], m["body"], padding)
  BY <1>1 DEF Made
<1>3. /\ m["cmd"] \in Word /\ m["subcmd"] \in Word /\ m["seq"] \in Word
      /\ m["body"] \in Seq(Byte) /\ Len(m["body"]) \in Lengths /\ m["body"] # << >>
  BY <1>1 DEF Made
<1>4. padding \in Seq(Byte) /\ Len(padding) \in Lengths
  BY PaddingIs
<1> HIDE DEF m
<1>5. ProxyMsgSerialize(m) \in Seq(Byte)
  BY <1>2, <1>3, <1>4, PackageType
<1>6. encode(local.codec, ProxyMsgSerialize(m)) = encode(remote.codec, ProxyMsgSerialize(m))
  BY <1>5, AlikeEncodes DEF Inv
<1> QED
  BY <1>6 DEF WireIs, m

(* What tun_remote and tun_local read while they are alike.                *)
LEMMA ReadOf ==
  ASSUME Inv, Alike, NEW s \in Sessions, made[s] # Clear,
         NEW codec, codec \in {local.codec, remote.codec}, WireIs(codec, s)
  PROVE  parseAndCheck(decode(codec, wire[s])) = [result |-> "PROXY_PARSE_OK", package |-> made[s]]
<1>1. Made(made[s])
  BY DEF Inv, Linked
<1>2. FacadeOK(codec)
  BY LocalRuns, RemoteRuns DEF Inv, Alike, Configured
<1>3. parseAndCheck(decode(codec, encode(codec, ProxyMsgSerialize(made[s]))))
        = [result |-> "PROXY_PARSE_OK", package |-> made[s]]
  BY <1>1, <1>2, MadeRead
<1> QED
  BY <1>3 DEF WireIs

(* The body of a package is the body it was made with.                     *)
LEMMA PackageBody ==
  ASSUME NEW m, NEW cmd, NEW sub, NEW no, NEW body, NEW padding, Package(m, cmd, sub, no, body, padding)
  PROVE  String(m, "body") = body
BY DEF Package, PackageNames, String, Has

(* A package that a session sends has a body.                              *)
LEMMA MadeBody ==
  ASSUME NEW m, Made(m)
  PROVE  String(m, "body") = m["body"]
BY PackageBody DEF Made

(* A program that runs has been started.                                   *)
LEMMA OffIs ==
  (Running(local) => local # Off) /\ (Running(remote) => remote # Off)
BY DEF Running, Off, Ended

(* A step that only brings a session to another stage.                     *)
LEMMA StageStep ==
  ASSUME Inv, NEW s \in Sessions, stage[s] \notin {"asking", "failed"},
         NEW to \in {"open", "failed", "refused", "waiting"}, Goes(s, to),
         UNCHANGED << programs, seq, number, messages, dialled, delivered >>,
         Alike /\ Fits(local, remote) /\ IsUser(local.setting) /\ to \in {"refused", "waiting"} =>
           asks(s).type \notin {1, 3, 4}
  PROVE  Inv'
<1>1. stage' = [stage EXCEPT ![s] = to]
  BY DEF Goes
<1>2. UNCHANGED << programs, seq, number, messages, dialled, delivered, wire, made, authPkg >>
  BY DEF messages
<1>3. Typed /\ Reached(s) /\ Linked(s) /\ (Alike => Served(s))
  BY DEF Inv
<1>4. to \in Stages
  BY DEF Stages
<1>5. stage' \in [Sessions -> Stages] /\ stage'[s] = to /\ \A t \in Sessions \ {s} : stage'[t] = stage[t]
  BY <1>1, <1>3, <1>4 DEF Typed
<1>6. Typed'
  BY <1>2, <1>3, <1>5 DEF Typed, programs, Running, LocalStarted, RemoteStarted
<1>7. \A t \in Sessions \ {s} : Same(t)
  BY <1>2, <1>5 DEF Same
<1>8. Reached(s)'
  BY <1>2, <1>3, <1>5 DEF Reached, programs, Running
<1>9. Linked(s)'
  <2>1. Made(made[s])' <=> Made(made[s])
    BY <1>2 DEF Made
  <2> QED
    BY <1>2, <1>3, <1>5, <2>1 DEF Linked
<1>10. Alike => Served(s)'
  <2>1. IsUser(local.setting)' <=> IsUser(local.setting)
    BY <1>2 DEF programs, IsUser
  <2>2. asks(s)' = asks(s) /\ reqPort(s)' = reqPort(s)
    BY <1>2 DEF programs, asks, reqPort
  <2>3. stage'[s] # "dialling" /\ stage'[s] # "answered"
    BY <1>5
  <2>4. Fits(local, remote)' <=> Fits(local, remote)
    BY <1>2 DEF programs, Fits
  <2> QED
    BY <1>2, <1>3, <1>5, <2>1, <2>2, <2>3, <2>4 DEF Served
<1> QED
  BY <1>2, <1>6, <1>7, <1>8, <1>9, <1>10, Stepped

(* A target that cannot be reached keeps the invariant.                    *)
LEMMA ConnectFailsInv ==
  ASSUME Inv, NEW s \in Sessions, handleConnectToTargetFails(s)
  PROVE  Inv'
BY StageStep DEF handleConnectToTargetFails

(* Passing the answer on to the browser keeps the invariant.               *)
LEMMA WriteRspInv ==
  ASSUME Inv, NEW s \in Sessions, handleWriteSockv5RspToBrowser(s)
  PROVE  Inv'
<1> DEFINE read == parseAndCheck(decode(local.codec, wire[s]))
           rsp == Parsed(ProxyConnectRspMerge(String(read.package, "body")), {"result"})
<1>1. /\ stage[s] = "answered" /\ RspRead(s, read)
      /\ UNCHANGED << programs, seq, number, messages, dialled, delivered >>
  BY DEF handleWriteSockv5RspToBrowser
<1>2. IF read.result = "PROXY_PARSE_OK" /\ IsSuccess(rsp) THEN Goes(s, "open") ELSE Goes(s, "refused")
  BY <1>1 DEF RspRead
<1>3. ASSUME Alike PROVE read.result = "PROXY_PARSE_OK" /\ IsSuccess(rsp)
  <2>1. Linked(s)
    BY DEF Inv
  <2>a. made[s] # Clear /\ Answered(made[s]) /\ WireIs(remote.codec, s) /\ Made(made[s])
    BY <1>1, <1>3, <2>1 DEF Linked, Alike
  <2>2. made[s] # Clear /\ Answered(made[s]) /\ WireIs(local.codec, s) /\ Made(made[s])
    BY <1>3, <2>a, AlikeWire
  <2>3. read = [result |-> "PROXY_PARSE_OK", package |-> made[s]]
    BY <1>3, <2>2, ReadOf
  <2>4. String(made[s], "body") = ProxyConnectRspSerialize(Answer)
    BY <2>2, MadeBody DEF Answered
  <2> HIDE DEF read
  <2>5. read.result = "PROXY_PARSE_OK" /\ read.package = made[s]
    BY ONLY <2>3
  <2>6. rsp = Parsed(Result("ended", Answer), {"result"})
    BY <2>4, <2>5, AnswerRead
  <2> HIDE DEF rsp
  <2>7. rsp.ok /\ rsp.msg = Answer
    BY <2>6 DEF Parsed, Result, Answer
  <2>8. Number(Answer, "result") = W(0)
    BY DEF Number, Has, Answer
  <2> QED
    BY <2>5, <2>7, <2>8 DEF IsSuccess
<1> HIDE DEF read, rsp
<1>4. CASE read.result = "PROXY_PARSE_OK" /\ IsSuccess(rsp)
  <2>1. Goes(s, "open")
    BY <1>2, <1>4
  <2> QED
    BY <1>1, <2>1, StageStep
<1>5. CASE ~ (read.result = "PROXY_PARSE_OK" /\ IsSuccess(rsp))
  <2>1. Goes(s, "refused") /\ ~ Alike
    BY <1>2, <1>3, <1>5
  <2> QED
    BY <1>1, <2>1, StageStep
<1> QED
  BY <1>4, <1>5

(* Passing the data on to the target keeps the invariant.                  *)
LEMMA WriteDataInv ==
  ASSUME Inv, NEW s \in Sessions, handleWriteDataToTarget(s)
  PROVE  Inv'
<1> DEFINE read == parseAndCheck(decode(remote.codec, wire[s]))
           body == String(read.package, "body")
<1>1. /\ Running(remote) /\ stage[s] = "sent" /\ DataRead(s, read)
      /\ UNCHANGED << programs, seq, number, messages, dialled >>
  BY DEF handleWriteDataToTarget
<1>2. Typed /\ Reached(s) /\ Linked(s) /\ (Alike => Served(s))
  BY DEF Inv
<1>3. ASSUME Alike PROVE read.result = "PROXY_PARSE_OK" /\ body = Data
  <2>1. made[s] # Clear /\ SentData(made[s], s) /\ WireIs(local.codec, s)
    BY <1>1, <1>2 DEF Linked
  <2>2. WireIs(remote.codec, s)
    BY <1>3, <2>1, AlikeWire
  <2>3. read = [result |-> "PROXY_PARSE_OK", package |-> made[s]]
    BY <1>3, <2>1, <2>2, ReadOf
  <2>4. String(made[s], "body") = Data
    BY <2>1, PackageBody DEF SentData
  <2> HIDE DEF read
  <2>5. read.result = "PROXY_PARSE_OK" /\ read.package = made[s]
    BY ONLY <2>3
  <2> QED
    BY <2>4, <2>5
<1>4. body \in Seq(Byte)
  <2>1. FacadeOK(remote.codec)
    BY <1>1, <1>2, RemoteRuns DEF Configured
  <2>2. wire[s] \in Seq(Byte)
    BY <1>2 DEF Typed
  <2>3. read.package \in MessagesOf(ProxyMsgFields)
    BY <2>1, <2>2, ReadType
  <2> QED
    BY <2>3, PackageFields
<1>5. IF read.result = "PROXY_PARSE_OK"
      THEN delivered' = [delivered EXCEPT ![s] = body] /\ Goes(s, "delivered")
      ELSE Goes(s, "refused") /\ UNCHANGED delivered
  BY <1>1 DEF DataRead
<1> HIDE DEF read, body
<1>6. CASE read.result # "PROXY_PARSE_OK"
  <2>1. Goes(s, "refused") /\ UNCHANGED delivered /\ ~ Alike
    BY <1>3, <1>5, <1>6
  <2> QED
    BY <1>1, <2>1, StageStep
<1>7. CASE read.result = "PROXY_PARSE_OK"
  <2>1. delivered' = [delivered EXCEPT ![s] = body] /\ stage' = [stage EXCEPT ![s] = "delivered"]
    BY <1>5, <1>7 DEF Goes
  <2>2. UNCHANGED << programs, seq, number, wire, made, authPkg, dialled >>
    BY <1>1 DEF messages
  <2>3. /\ delivered' \in [Sessions -> Seq(Byte)] /\ delivered'[s] = body
        /\ \A t \in Sessions \ {s} : delivered'[t] = delivered[t]
    <3>1. delivered \in [Sessions -> Seq(Byte)]
      BY <1>2 DEF Typed
    <3> QED
      BY ONLY <1>4, <2>1, <3>1, s \in Sessions
  <2>4. /\ stage' \in [Sessions -> Stages] /\ stage'[s] = "delivered"
        /\ \A t \in Sessions \ {s} : stage'[t] = stage[t]
    BY <1>2, <2>1 DEF Typed, Stages
  <2>5. Typed'
    BY <1>2, <2>2, <2>3, <2>4 DEF Typed, programs, Running, LocalStarted, RemoteStarted
  <2>6. \A t \in Sessions \ {s} : Same(t)
    BY <2>2, <2>3, <2>4 DEF Same
  <2>7. local # Off
    BY <1>1, <1>2, OffIs DEF Reached
  <2>8. Reached(s)'
    BY <1>1, <1>2, <2>2, <2>4, <2>7 DEF Reached, programs, Running
  <2>9. Linked(s)'
    <3>1. Made(made[s])' <=> Made(made[s])
      BY <2>2 DEF Made
    <3> QED
      BY <1>2, <2>2, <2>4, <3>1 DEF Linked
  <2>10. Alike => Served(s)'
    <3>1. IsUser(local.setting)' <=> IsUser(local.setting)
      BY <2>2 DEF programs, IsUser
    <3>2. asks(s)' = asks(s) /\ reqPort(s)' = reqPort(s)
      BY <2>2 DEF programs, asks, reqPort
    <3> QED
      BY <1>2, <1>3, <2>2, <2>3, <2>4, <3>1, <3>2 DEF Served
  <2> QED
    BY <2>2, <2>5, <2>6, <2>8, <2>9, <2>10, Stepped
<1> QED
  BY <1>6, <1>7

(***************************************************************************)
(* Reading the request at the far side keeps the invariant: this is the    *)
(* step that takes a package apart which the other program has put         *)
(* together.                                                               *)
(***************************************************************************)
LEMMA ReadReqInv ==
  ASSUME Inv, NEW s \in Sessions, handleReadSockv5Req(s)
  PROVE  Inv'
<1> DEFINE end == ServerEnd(local.setting)
           reached == Running(remote) /\ Meet([end EXCEPT !.host = IF end.host = "0.0.0.0" THEN "127.0.0.1" ELSE end.host], ServerEnd(remote.setting))
<1>1. /\ Running(local) /\ s \in DOMAIN deployment.asks /\ stage[s] = "asking"
      /\ UNCHANGED << deployment, garbage, remote, users, seq, number, messages, dialled, delivered >>
  BY DEF handleReadSockv5Req
<1>2. (CASE end.host \notin Addresses -> local' = Ended("died") /\ UNCHANGED stage
        [] end.host \in Addresses /\ reached -> Goes(s, "connected") /\ UNCHANGED local
        [] OTHER -> Goes(s, "failed") /\ UNCHANGED local)
  BY DEF handleReadSockv5Req
<1>3. UNCHANGED << deployment, garbage, remote, users, seq, number, wire, made, authPkg, dialled, delivered >>
  BY <1>1 DEF messages
<1>4. Typed /\ \A t \in Sessions : Reached(t) /\ Linked(t) /\ (Alike => Served(t))
  BY DEF Inv
<1>5. CASE end.host \notin Addresses
  <2>1. local' = Ended("died") /\ stage' = stage
    <3> HIDE DEF end, reached
    <3> QED
      BY ONLY <1>2, <1>5
  <2>2. local'.st = "died" /\ local' # Off /\ ~ Running(local)'
    BY <2>1 DEF Ended, Off, Running
  <2>3. Typed'
    BY <1>3, <1>4, <2>1, <2>2 DEF Typed, States, Running, RemoteStarted
  <2>4. ASSUME NEW t \in Sessions PROVE Reached(t)' /\ Linked(t)'
    <3>1. stage[t] \in {"asking", "failed"}
      BY <1>4, <1>5 DEF Reached
    <3>2. Reached(t)'
      BY <1>3, <1>4, <2>1, <2>2, <3>1 DEF Reached
    <3>3. Made(made[t])' <=> Made(made[t])
      BY <1>3 DEF Made
    <3>4. Linked(t)'
      BY <1>3, <1>4, <2>1, <3>1, <3>3 DEF Linked
    <3> QED
      BY <3>2, <3>4
  <2>5. ~ Alike'
    BY <2>2 DEF Alike
  <2> QED
    BY <2>3, <2>4, <2>5 DEF Inv
<1>6. ASSUME NEW to \in {"connected", "failed"}, Goes(s, to), UNCHANGED local, end.host \in Addresses,
             to = "connected" => Running(remote)
      PROVE  Inv'
  <2>1. UNCHANGED programs
    BY <1>3, <1>6 DEF programs
  <2>2. to \in Stages
    BY DEF Stages
  <2>3. stage' = [stage EXCEPT ![s] = to]
    BY <1>6 DEF Goes
  <2>4. stage' \in [Sessions -> Stages] /\ stage'[s] = to /\ \A t \in Sessions \ {s} : stage'[t] = stage[t]
    BY <1>4, <2>2, <2>3 DEF Typed
  <2>5. Typed'
    BY <1>3, <1>4, <2>1, <2>4 DEF Typed, programs, Running, LocalStarted, RemoteStarted
  <2>6. \A t \in Sessions \ {s} : Same(t)
    BY <1>3, <2>4 DEF Same
  <2>7. Reached(s)'
    <3>1. to = "connected" => remote # Off
      BY <1>6, OffIs
    <3> HIDE DEF end
    <3>2. end' = end
      BY <1>6 DEF end
    <3>3. Running(local)' /\ deployment' = deployment /\ remote' = remote /\ local' = local
      BY <1>1, <2>1 DEF programs, Running
    <3>4. dialled[s] # Nobody \/ delivered[s] # << >> => local # Off /\ remote # Off
      BY <1>4 DEF Reached
    <3> QED
      BY <1>1, <1>3, <1>6, <2>4, <3>1, <3>2, <3>3, <3>4 DEF Reached, end
  <2>8. Linked(s)'
    <3>1. Made(made[s])' <=> Made(made[s])
      BY <1>3 DEF Made
    <3> QED
      BY <1>3, <1>4, <2>4, <3>1 DEF Linked
  <2>9. Alike => Served(s)'
    <3>1. IsUser(local.setting)' <=> IsUser(local.setting)
      BY <2>1 DEF programs, IsUser
    <3>2. asks(s)' = asks(s) /\ reqPort(s)' = reqPort(s)
      BY <2>1 DEF programs, asks, reqPort
    <3>3. stage'[s] \in {"connected", "failed"}
      BY <2>4
    <3> QED
      BY <1>3, <1>4, <3>1, <3>2, <3>3 DEF Served
  <2> QED
    BY <2>1, <2>5, <2>6, <2>7, <2>8, <2>9, Stepped
<1>7. CASE end.host \in Addresses /\ reached
  <2>1. Goes(s, "connected") /\ UNCHANGED local
    <3> HIDE DEF end, reached
    <3> QED
      BY ONLY <1>2, <1>7
  <2>2. "connected" \in {"connected", "failed"} /\ Running(remote) /\ end.host \in Addresses
    BY <1>7
  <2> QED
    BY <1>6, <2>1, <2>2
<1>8. CASE end.host \in Addresses /\ ~ reached
  <2>1. Goes(s, "failed") /\ UNCHANGED local
    <3> HIDE DEF end, reached
    <3> QED
      BY ONLY <1>2, <1>8
  <2>2. "failed" \in {"connected", "failed"} /\ "failed" # "connected" /\ end.host \in Addresses
    BY <1>8
  <2> QED
    BY <1>6, <2>1, <2>2
<1> QED
  BY <1>5, <1>7, <1>8

(* tun_remote dies: nothing that was said while it ran is said any more.   *)
LEMMA RemoteDies ==
  ASSUME Inv, Running(remote), remote' = Ended("died"),
         UNCHANGED << deployment, garbage, local, users, seq, number, stage, messages, dialled, delivered >>
  PROVE  Inv'
<1>1. UNCHANGED << deployment, garbage, local, users, seq, number, stage, wire, made, authPkg, dialled, delivered >>
  BY DEF messages
<1>2. Typed /\ \A t \in Sessions : Reached(t) /\ Linked(t)
  BY DEF Inv
<1>3. remote'.st = "died" /\ remote' # Off /\ ~ Running(remote)'
  BY DEF Ended, Off, Running
<1>4. Typed'
  BY <1>1, <1>2, <1>3 DEF Typed, States, Running, LocalStarted
<1>5. ASSUME NEW t \in Sessions PROVE Reached(t)' /\ Linked(t)'
  <2>1. Reached(t)'
    BY <1>1, <1>2, <1>3 DEF Reached, Running
  <2>2. Made(made[t])' <=> Made(made[t])
    BY <1>1 DEF Made
  <2>3. Answered(made[t])' <=> Answered(made[t])
    BY <1>1 DEF Answered
  <2>4. RequestBody(t)' = RequestBody(t)
    BY <1>1 DEF RequestBody, RequestOf, asks, reqPort
  <2>5. Asked(made[t], t)' <=> Asked(made[t], t)
    BY <1>1, <2>4 DEF Asked
  <2>6. SentData(made[t], t)' <=> SentData(made[t], t)
    BY <1>1 DEF SentData
  <2>7. WireIs(local.codec, t)' <=> WireIs(local.codec, t)
    BY <1>1 DEF WireIs
  <2>8. Linked(t)'
    BY <1>1, <1>2, <1>3, <2>2, <2>3, <2>5, <2>6, <2>7 DEF Linked
  <2> QED
    BY <2>1, <2>8
<1>6. ~ Alike'
  BY <1>3 DEF Alike
<1> QED
  BY <1>4, <1>5, <1>6 DEF Inv

(* What tun_remote makes of the first message of a session.                *)
LEMMA AuthInv ==
  ASSUME Inv, NEW s \in Sessions, handleAuthFromBrowser(s)
  PROVE  Inv'
<1> DEFINE read == parseAndCheck(decode(remote.codec, wire[s]))
           body == Parsed(ProxyConnectReqMerge(String(read.package, "body")), {})
           type == Number(body.msg, "type")
           host == String(body.msg, "address")
           port == Number(body.msg, "port")
           user == String(body.msg, "username")
           pwd == String(body.msg, "password")
           ok == read.result = "PROXY_PARSE_OK" /\ body.ok /\ checkUser(user, pwd)
           known == type \in {W(1), W(3), W(4)}
<1>1. /\ Running(remote) /\ stage[s] = "asked"
      /\ UNCHANGED << deployment, garbage, local, users, seq, number, wire, made, delivered >>
      /\ IF Fits(local, remote) THEN AuthRead(s, read) /\ UNCHANGED remote
         ELSE Unfit(s) /\ UNCHANGED << authPkg, dialled >>
  BY DEF handleAuthFromBrowser
<1>2. Typed /\ Reached(s) /\ Linked(s) /\ (Alike => Served(s))
  BY DEF Inv
<1>3. s \in DOMAIN deployment.asks /\ Running(local)
  BY <1>1, <1>2 DEF Reached
<1>4. CASE ~ Fits(local, remote)
  <2>1. Unfit(s) /\ UNCHANGED << authPkg, dialled >>
    BY <1>1, <1>4
  <2>2. UNCHANGED << seq, number, messages, dialled, delivered >>
    BY <1>1, <2>1 DEF messages
  <2>3. CASE remote.setting.frame = "fix"
    <3>1. Goes(s, "waiting") /\ UNCHANGED remote
      BY <2>1, <2>3 DEF Unfit
    <3>2. UNCHANGED programs
      BY <1>1, <3>1 DEF programs
    <3> QED
      BY <1>1, <1>4, <2>2, <3>1, <3>2, StageStep
  <2>4. CASE remote.setting.frame # "fix"
    <3>1. remote' = Ended("died") /\ UNCHANGED stage
      BY <2>1, <2>4 DEF Unfit
    <3> QED
      BY <1>1, <2>2, <3>1, RemoteDies
  <2> QED
    BY <2>3, <2>4
<1>5. ASSUME Alike
      PROVE  /\ read = [result |-> "PROXY_PARSE_OK", package |-> made[s]]
             /\ body = [ok |-> TRUE, msg |-> RequestOf(s)]
  <2>1. made[s] # Clear /\ Asked(made[s], s) /\ WireIs(local.codec, s)
    BY <1>1, <1>2 DEF Linked
  <2>2. WireIs(remote.codec, s)
    BY <1>5, <2>1, AlikeWire
  <2>3. read = [result |-> "PROXY_PARSE_OK", package |-> made[s]]
    BY <1>5, <2>1, <2>2, ReadOf
  <2>4. String(made[s], "body") = RequestBody(s)
    BY <2>1, PackageBody DEF Asked
  <2>5. ProxyConnectReqMerge(RequestBody(s)) = Result("ended", RequestOf(s))
    BY <1>2, <1>3, RequestBodyIs
  <2>6. read.package = made[s]
    <3> HIDE DEF read
    <3> QED
      BY ONLY <2>3
  <2>7. body = Parsed(Result("ended", RequestOf(s)), {})
    BY <2>4, <2>5, <2>6
  <2>8. Parsed(Result("ended", RequestOf(s)), {}) = [ok |-> TRUE, msg |-> RequestOf(s)]
    BY DEF Parsed, Result
  <2> QED
    BY <2>3, <2>7, <2>8
<1>6. ASSUME Alike
      PROVE  /\ read.result = "PROXY_PARSE_OK" /\ read.package = made[s] /\ body.ok
             /\ user = local.setting.user /\ pwd = local.setting.password
             /\ host = addressOf(asks(s)) /\ type = W(asks(s).type) /\ port[2] = reqPort(s)
             /\ known <=> asks(s).type \in {1, 3, 4}
  <2>1. /\ read = [result |-> "PROXY_PARSE_OK", package |-> made[s]]
        /\ body = [ok |-> TRUE, msg |-> RequestOf(s)]
    BY <1>5, <1>6
  <2> HIDE DEF read
  <2>2. read.result = "PROXY_PARSE_OK" /\ read.package = made[s]
    BY ONLY <2>1
  <2> HIDE DEF body
  <2>3. body.ok /\ body.msg = RequestOf(s)
    BY ONLY <2>1
  <2>4. /\ user = local.setting.user /\ pwd = local.setting.password /\ host = addressOf(asks(s))
        /\ type = W(asks(s).type) /\ port = W(reqPort(s))
    BY <2>3, RequestOfIs
  <2> HIDE DEF user, pwd, host, type, port
  <2>5. port[2] = reqPort(s) /\ (known <=> asks(s).type \in {1, 3, 4})
    BY <1>2, <1>3, <2>4, AskIs
  <2> QED
    BY <2>2, <2>3, <2>4, <2>5
<1>7. read.package \in MessagesOf(ProxyMsgFields) /\ host \in Seq(Byte) /\ port \in Word
  <2>1. FacadeOK(remote.codec)
    BY <1>1, <1>2, RemoteRuns DEF Configured
  <2>2. wire[s] \in Seq(Byte)
    BY <1>2 DEF Typed
  <2>3. read.package \in MessagesOf(ProxyMsgFields)
    BY <2>1, <2>2, ReadType
  <2>4. String(read.package, "body") \in Seq(Byte)
    BY <2>3, PackageFields
  <2>5. body.msg \in MessagesOf(ProxyConnectReqFields)
    BY <2>4, RequestReadType
  <2> QED
    BY <2>3, <2>5, RequestFields
<1>8. ASSUME Fits(local, remote)
      PROVE  /\ UNCHANGED remote
             /\ ok /\ known => /\ dialled' = [dialled EXCEPT ![s] = [host |-> host, port |-> port[2]]]
                               /\ authPkg' = [authPkg EXCEPT ![s] = read.package]
                               /\ Goes(s, "dialling")
             /\ ~ (ok /\ known) => Goes(s, "refused") /\ UNCHANGED << authPkg, dialled >>
  <2>1. AuthRead(s, read) /\ UNCHANGED remote
    BY <1>1, <1>8
  <2>2. IF read.result = "PROXY_PARSE_OK" THEN Authenticated(s, read.package, body)
        ELSE Goes(s, "refused") /\ UNCHANGED << authPkg, dialled >>
    BY <2>1 DEF AuthRead
  <2>3. Authenticated(s, read.package, body) <=>
          IF body.ok /\ checkUser(user, pwd) THEN Dials(s, read.package, type, host, port)
          ELSE Goes(s, "refused") /\ UNCHANGED << authPkg, dialled >>
    BY DEF Authenticated
  <2> HIDE DEF read, body, user, pwd, type, host, port
  <2>4. Dials(s, read.package, type, host, port) <=>
          IF known
          THEN /\ dialled' = [dialled EXCEPT ![s] = [host |-> host, port |-> port[2]]]
               /\ authPkg' = [authPkg EXCEPT ![s] = read.package]
               /\ Goes(s, "dialling")
          ELSE Goes(s, "refused") /\ UNCHANGED << authPkg, dialled >>
    BY DEF Dials
  <2>5. CASE ok /\ known
    BY <2>1, <2>2, <2>3, <2>4, <2>5
  <2>6. CASE ok /\ ~ known
    BY <2>1, <2>2, <2>3, <2>4, <2>6
  <2>7. CASE ~ ok
    BY <2>1, <2>2, <2>3, <2>7
  <2> QED
    BY <2>5, <2>6, <2>7
<1> HIDE DEF read, body, type, host, port, user, pwd
<1>9. CASE Fits(local, remote) /\ ~ (ok /\ known)
  <2>1. Goes(s, "refused") /\ UNCHANGED << authPkg, dialled, remote >>
    BY <1>8, <1>9
  <2>2. UNCHANGED << programs, seq, number, messages, dialled, delivered >>
    BY <1>1, <2>1 DEF programs, messages
  <2>3. ASSUME Alike, IsUser(local.setting), asks(s).type \in {1, 3, 4} PROVE FALSE
    <3>1. checkUser(user, pwd)
      BY <1>6, <2>3 DEF checkUser, IsUser
    <3>2. ok /\ known
      BY <1>6, <2>3, <3>1
    <3> QED
      BY <1>9, <3>2
  <2>4. "refused" \in {"open", "failed", "refused", "waiting"} /\ stage[s] \notin {"asking", "failed"}
    BY <1>1
  <2> QED
    BY <2>1, <2>2, <2>3, <2>4, StageStep
<1>10. CASE Fits(local, remote) /\ ok /\ known
  <2> DEFINE to == [host |-> host, port |-> port[2]]
  <2>1. /\ dialled' = [dialled EXCEPT ![s] = to] /\ authPkg' = [authPkg EXCEPT ![s] = read.package]
        /\ stage' = [stage EXCEPT ![s] = "dialling"] /\ UNCHANGED remote
    BY <1>8, <1>10 DEF Goes
  <2>2. UNCHANGED << programs, seq, number, wire, made, delivered >>
    BY <1>1, <2>1 DEF programs
  <2>3. to \in [host : Seq(Byte), port : Nat]
    <3>1. port[2] \in Nat
      BY <1>7, WordIs
    <3> QED
      BY <1>7, <3>1
  <2>4. to.host = host /\ to.port = port[2] /\ to = [host |-> host, port |-> port[2]]
    OBVIOUS
  <2> HIDE DEF to
  <2>5. /\ dialled' \in [Sessions -> [host : Seq(Byte), port : Nat]] /\ dialled'[s] = to
        /\ \A t \in Sessions \ {s} : dialled'[t] = dialled[t]
    <3>1. dialled \in [Sessions -> [host : Seq(Byte), port : Nat]]
      BY <1>2 DEF Typed
    <3> DEFINE V == [host : Seq(Byte), port : Nat]
    <3>2. dialled \in [Sessions -> V] /\ to \in V
      BY <2>3, <3>1
    <3> HIDE DEF V
    <3>3. /\ dialled' \in [Sessions -> V] /\ dialled'[s] = to
          /\ \A t \in Sessions \ {s} : dialled'[t] = dialled[t]
      BY ONLY <2>1, <3>2, s \in Sessions
    <3> QED
      BY <3>3 DEF V
  <2>6. /\ authPkg' \in [Sessions -> MessagesOf(ProxyMsgFields)] /\ authPkg'[s] = read.package
        /\ \A t \in Sessions \ {s} : authPkg'[t] = authPkg[t]
    <3>1. authPkg \in [Sessions -> MessagesOf(ProxyMsgFields)]
      BY <1>2 DEF Typed
    <3> QED
      BY ONLY <1>7, <2>1, <3>1, s \in Sessions
  <2>7. /\ stage' \in [Sessions -> Stages] /\ stage'[s] = "dialling"
        /\ \A t \in Sessions \ {s} : stage'[t] = stage[t]
    BY <1>2, <2>1 DEF Typed, Stages
  <2>8. Typed'
    BY <1>2, <2>2, <2>5, <2>6, <2>7 DEF Typed, programs, Running, LocalStarted, RemoteStarted
  <2>9. \A t \in Sessions \ {s} : Same(t)
    BY <2>2, <2>5, <2>6, <2>7 DEF Same
  <2>10. local # Off
    BY <1>3, OffIs
  <2>11. Reached(s)'
    BY <1>1, <1>2, <2>2, <2>7, <2>10 DEF Reached, programs, Running
  <2>12. Linked(s)'
    <3>1. Made(made[s])' <=> Made(made[s])
      BY <2>2 DEF Made
    <3> QED
      BY <1>2, <2>2, <2>7, <3>1 DEF Linked
  <2>13. Alike => Served(s)'
    <3>1. IsUser(local.setting)' <=> IsUser(local.setting)
      BY <2>2 DEF programs, IsUser
    <3>2. asks(s)' = asks(s) /\ reqPort(s)' = reqPort(s)
      BY <2>2 DEF programs, asks, reqPort
    <3>3. ASSUME Alike PROVE IsUser(local.setting)
      <4>1. checkUser(user, pwd) /\ user = local.setting.user /\ pwd = local.setting.password
        BY <1>6, <1>10, <3>3
      <4> QED
        BY <4>1 DEF checkUser, IsUser
    <3>4. ASSUME Alike PROVE to = [host |-> addressOf(asks(s)), port |-> reqPort(s)]
      BY <1>6, <2>4, <3>4
    <3>5. ASSUME Alike PROVE Asked(authPkg[s], s)'
      <4>1. Asked(made[s], s)
        BY <1>1, <1>2 DEF Linked
      <4>2. authPkg'[s] = made[s]
        BY <1>6, <2>6, <3>5
      <4>3. RequestBody(s)' = RequestBody(s)
        BY <2>2 DEF programs, RequestBody, RequestOf, asks, reqPort
      <4>4. \E p \in Padding : Package(authPkg'[s], ServerCmd, SubCmd1, W(number'[s]), RequestBody(s)', p)
        BY <2>2, <4>1, <4>2, <4>3 DEF Asked
      <4> QED
        BY <4>4 DEF Asked
    <3>6. Alike => delivered[s] \in {<< >>, Data}
      BY <1>2 DEF Served
    <3> QED
      BY <2>2, <2>5, <2>7, <3>1, <3>2, <3>3, <3>4, <3>5, <3>6 DEF Served
  <2> QED
    BY <2>2, <2>8, <2>9, <2>11, <2>12, <2>13, Stepped
<1> QED
  BY <1>4, <1>9, <1>10

(* What inits() and the server's constructor leave is running with what    *)
(* inits() made, or has ended in a known way.                              *)
LEMMA BoundIs ==
  ASSUME NEW result, NEW line, FromLine(result, line), LineOK(line), NEW behind, NEW end, NEW inUse
  PROVE  LET p == Bound(inits(result, behind), end, inUse) IN
         p.st \in States /\ (Running(p) => Started(p, result, behind))
<1> DEFINE q == inits(result, behind)  p == Bound(q, end, inUse)
<1>1. p = q \/ p = Ended("died")
  BY DEF Bound
<1>2. q.st \in States
  BY InitsStates
<1>3. Ended("died").st = "died" /\ "died" \in States
  BY DEF Ended, States
<1>4. result.st # "running"
  BY DEF FromLine
<1> HIDE DEF p
<1>5. CASE p = q
  BY <1>2, <1>4, <1>5 DEF Started, p
<1>6. CASE p = Ended("died")
  BY <1>3, <1>6 DEF Running, p
<1> QED
  BY <1>1, <1>5, <1>6

(* Of every name in a list the first entry is read.                        *)
LEMMA ListedTold ==
  ASSUME NEW list, list \in Seq(Range(list)), users = Listed(list)
  PROVE  ToldUsers(list)
<1>1. Len(list) \in Nat /\ DOMAIN list = 1 .. Len(list)
  BY LenProperties
<1>2. DOMAIN users = { list[i].user : i \in DOMAIN list }
  BY DEF Listed
<1>3. ASSUME NEW i \in DOMAIN list, \A j \in 1 .. i - 1 : list[j].user # list[i].user
      PROVE  users[list[i].user] = list[i].pwd
  <2> DEFINE u == list[i].user
             I == { k \in 1 .. Len(list) : list[k].user = u }
             m == SelectInSeq(list, LAMBDA item : item.user = u)
  <2>1. users[u] = list[m].pwd
    BY DEF Listed
  <2>2. m = IF I # {} THEN Min(I) ELSE 0
    BY DEF SelectInSeq
  <2>3. i \in I
    BY <1>1
  <2>4. ASSUME NEW k \in I PROVE i <= k
    <3>1. i \in Nat /\ k \in Nat /\ k >= 1 /\ list[k].user = u
      BY <1>1
    <3>2. k \notin 1 .. i - 1
      BY <1>3, <3>1
    <3> QED
      BY <3>1, <3>2
  <2>5. I \subseteq Nat
    BY <1>1
  <2> HIDE DEF I, m, u
  <2>6. Min(I) = i
    BY <2>3, <2>4, <2>5 DEF Min
  <2>7. m = i
    BY <2>2, <2>3, <2>6
  <2> QED
    BY <2>1, <2>7 DEF u
<1> QED
  BY <1>2, <1>3 DEF ToldUsers

(* Before one of the programs was started no session has got anywhere.     *)
LEMMA NothingYet ==
  ASSUME Typed, NEW s \in Sessions, Reached(s), local = Off \/ remote = Off
  PROVE  stage[s] \in {"asking", "failed"} /\ dialled[s] = Nobody /\ delivered[s] = << >>
<1>1. Off.st = "off"
  BY DEF Off, Ended
<1>2. local = Off => ~ Running(local)
  BY <1>1 DEF Running
<1> QED
  BY <1>2 DEF Reached

(***************************************************************************)
(* The start of one of the programs, while no session has begun, keeps     *)
(* the invariant.                                                          *)
(***************************************************************************)
LEMMA StartInv ==
  ASSUME Inv, local = Off \/ remote = Off,
         UNCHANGED << deployment, garbage, seq, number, stage, messages, dialled, delivered >>,
         local'.st \in States, remote'.st \in States,
         Running(local)' => LocalStarted', Running(remote)' => RemoteStarted'
  PROVE  Inv'
<1>1. UNCHANGED << deployment, garbage, seq, number, stage, wire, made, authPkg, dialled, delivered >>
  BY DEF messages
<1>2. Typed /\ \A t \in Sessions : Reached(t) /\ Linked(t)
  BY DEF Inv
<1>3. Typed'
  BY <1>1, <1>2 DEF Typed, Running
<1>4. ASSUME NEW t \in Sessions PROVE Reached(t)' /\ Linked(t)' /\ Served(t)'
  <2>1. stage[t] \in {"asking", "failed"} /\ dialled[t] = Nobody /\ delivered[t] = << >>
    BY <1>2, NothingYet
  <2>2. stage'[t] \in {"asking", "failed"} /\ dialled'[t] = Nobody /\ delivered'[t] = << >>
    BY <1>1, <2>1
  <2>3. Reached(t)'
    BY <1>1, <1>2, <2>2 DEF Reached
  <2>4. Made(made[t])' <=> Made(made[t])
    BY <1>1 DEF Made
  <2>5. Linked(t)'
    BY <1>1, <1>2, <2>2, <2>4 DEF Linked
  <2>6. Served(t)'
    BY <2>2 DEF Served
  <2> QED
    BY <2>3, <2>5, <2>6
<1> QED
  BY <1>3, <1>4 DEF Inv

(* The start of tun_local keeps the invariant.                             *)
LEMMA StartLocalInv ==
  ASSUME Inv, StartLocal
  PROVE  Inv'
<1>1. /\ local = Off
      /\ UNCHANGED << deployment, garbage, remote, users, seq, number, stage, messages, dialled, delivered >>
  BY DEF StartLocal
<1>2. PICK now \in Seeds, behind \in Memories :
        local' = LocalBound(inits(localSetting(deployment.local, now), behind))
  BY DEF StartLocal
<1>3. Typed
  BY DEF Inv
<1> DEFINE result == localSetting(deployment.local, now)
<1>4. LineOK(deployment.local)
  BY <1>3, LineIs DEF Typed
<1>5. FromLine(result, deployment.local)
  BY RandIs, LocalSettingIs
<1> HIDE DEF result
<1>6. PICK end, inUse : local' = Bound(inits(result, behind), end, inUse)
  BY <1>2 DEF LocalBound, result
<1>7. local'.st \in States /\ (Running(local') => Started(local', result, behind))
  BY <1>4, <1>5, <1>6, BoundIs
<1>8. Running(local)' => LocalStarted'
  BY <1>1, <1>7 DEF LocalStarted, Running, result
<1>9. remote'.st \in States /\ (Running(remote)' => RemoteStarted')
  BY <1>1, <1>3 DEF Typed, Running, RemoteStarted
<1> QED
  BY <1>1, <1>7, <1>8, <1>9, StartInv

(* The start of tun_remote keeps the invariant.                            *)
LEMMA StartRemoteInv ==
  ASSUME Inv, StartRemote
  PROVE  Inv'
<1>1. /\ remote = Off
      /\ UNCHANGED << deployment, garbage, local, seq, number, stage, messages, dialled, delivered >>
  BY DEF StartRemote
<1>2. PICK now \in Seeds, behind \in Memories, first \in BOOLEAN :
        /\ remote' = RemoteBound(inits(remoteSetting(deployment.remote, now), behind))
        /\ users' = IF Running(remote') THEN usersOf(deployment.remote, now, first) ELSE users
  BY DEF StartRemote
<1>3. Typed
  BY DEF Inv
<1> DEFINE result == remoteSetting(deployment.remote, now)
<1>4. LineOK(deployment.remote)
  BY <1>3, LineIs DEF Typed
<1>5. FromLine(result, deployment.remote)
  BY RandIs, RemoteSettingIs
<1> HIDE DEF result
<1>6. PICK end, inUse : remote' = Bound(inits(result, behind), end, inUse)
  BY <1>2 DEF RemoteBound, result
<1>7. remote'.st \in States /\ (Running(remote') => Started(remote', result, behind))
  BY <1>4, <1>5, <1>6, BoundIs
<1>8. Running(remote)' => RemoteStarted'
  <2> SUFFICES ASSUME Running(remote') PROVE RemoteStarted'
    BY DEF Running
  <2>1. Started(remote', remoteSetting(deployment.remote, now), behind)
    BY <1>7 DEF result
  <2>2. UsersRead(deployment.remote, users')
    BY <1>2 DEF UsersRead, usersOf
  <2> QED
    BY <1>1, <2>1, <2>2 DEF RemoteStarted, UsersRead
<1>9. local'.st \in States /\ (Running(local)' => LocalStarted')
  BY <1>1, <1>3 DEF Typed, Running, LocalStarted
<1> QED
  BY <1>1, <1>7, <1>8, <1>9, StartInv

(* The invariant holds before either program has started.                  *)
LEMMA InitInv ==
  ASSUME Init
  PROVE  Inv
<1>1. Off.st = "off" /\ "off" \in States /\ "asking" \in Stages
  BY DEF Off, Ended, States, Stages
<1>2. Clear \in MessagesOf(ProxyMsgFields)
  BY ClearType
<1>3. Nobody \in [host : Seq(Byte), port : Nat]
  BY DEF Nobody
<1>4. ~ Running(local) /\ ~ Running(remote)
  BY <1>1 DEF Init, Running
<1>5. << >> \in Seq(Byte) /\ 0 \in Nat
  OBVIOUS
<1>6. Typed
  BY <1>1, <1>2, <1>3, <1>4, <1>5 DEF Init, Typed
<1>7. ASSUME NEW s \in Sessions PROVE Reached(s) /\ Linked(s) /\ Served(s)
  <2>1. /\ stage[s] = "asking" /\ dialled[s] = Nobody /\ delivered[s] = << >> /\ made[s] = Clear
    BY DEF Init
  <2> QED
    BY <2>1 DEF Reached, Linked, Served
<1> QED
  BY <1>6, <1>7 DEF Inv

(* A step that changes nothing keeps the invariant.                        *)
LEMMA StutterInv ==
  ASSUME Inv, UNCHANGED vars
  PROVE  Inv'
<1>1. UNCHANGED programs /\ UNCHANGED << seq, number, stage, wire, made, authPkg, dialled, delivered >>
  BY DEF vars, messages
<1>2. Typed' 
  BY <1>1 DEF Inv, Typed, programs, Running, LocalStarted, RemoteStarted
<1>3. \A t \in Sessions : Same(t)
  BY <1>1 DEF Same
<1>4. Alike' <=> Alike
  BY <1>1 DEF programs, Alike, SameCodec
<1>5. ASSUME NEW t \in Sessions
      PROVE  Reached(t)' /\ Linked(t)' /\ (Alike => Served(t)')
  <2>1. Reached(t) /\ Linked(t) /\ (Alike => Served(t))
    BY DEF Inv
  <2> QED
    BY <1>1, <1>3, <2>1, Untouched
<1> QED
  BY <1>2, <1>4, <1>5 DEF Inv

(* The inductive invariant, of every deployment and every number of        *)
(* sessions.                                                               *)
THEOREM Invariant == Spec => []Inv
<1>1. Init => Inv
  BY InitInv
<1>2. Inv /\ [Next]_vars => Inv'
  <2> SUFFICES ASSUME Inv, [Next]_vars PROVE Inv'
    OBVIOUS
  <2>1. CASE StartLocal
    BY <2>1, StartLocalInv
  <2>2. CASE StartRemote
    BY <2>2, StartRemoteInv
  <2>3. ASSUME NEW s \in Sessions, Serves(s) PROVE Inv'
    <3>1. CASE handleReadSockv5Req(s)
      BY <3>1, ReadReqInv
    <3>2. CASE readSeq(s)
      BY <3>2, ReadSeqInv
    <3>3. CASE handleConnectToRemote(s)
      BY <3>3, ConnectToRemoteInv
    <3>4. CASE handleAuthFromBrowser(s)
      BY <3>4, AuthInv
    <3>5. CASE handleConnectToTarget(s)
      BY <3>5, ConnectToTargetInv
    <3>6. CASE handleConnectToTargetFails(s)
      BY <3>6, ConnectFailsInv
    <3>7. CASE handleWriteSockv5RspToBrowser(s)
      BY <3>7, WriteRspInv
    <3>8. CASE handleReadDataFromBrowser(s)
      BY <3>8, ReadDataInv
    <3>9. CASE handleWriteDataToTarget(s)
      BY <3>9, WriteDataInv
    <3> QED
      BY <2>3, <3>1, <3>2, <3>3, <3>4, <3>5, <3>6, <3>7, <3>8, <3>9 DEF Serves
  <2>4. CASE UNCHANGED vars
    BY <2>4, StutterInv
  <2> QED
    BY <2>1, <2>2, <2>3, <2>4 DEF Next
<1> QED
  BY <1>1, <1>2, PTL DEF Spec

(* Every variable has its type: what is on the wire are bytes, whatever    *)
(* the programs were started with.                                         *)
THEOREM TypeCorrect == Spec => []TypeOK
<1>1. Inv => TypeOK
  <2> SUFFICES ASSUME Inv PROVE TypeOK
    OBVIOUS
  <2>1. Typed
    BY DEF Inv
  <2>2. ASSUME NEW p, NEW line, Configured(p, line)
        PROVE  p.logLv \in 0 .. 3 /\ p.setting.frame \in headers /\ Range(p.codec.list) \subseteq p.codec.all
    <3>1. p.logLv = initLog(p.setting.logLv) /\ p.setting.logLv \in Int
      BY <2>2 DEF Configured, SettingOK
    <3>2. p.logLv \in 0 .. 3
      BY <3>1 DEF initLog
    <3>3. PICK behind \in Memories :
            p.codec = [key |-> p.setting.key, behind |-> Beyond(p.setting, behind),
                       list |-> << p.setting.encryptMethod >>, all |-> CodecNames]
      BY <2>2 DEF Configured
    <3>4. p.codec.list = << p.setting.encryptMethod >> /\ p.codec.all = CodecNames
      BY <3>3
    <3>5. Range(p.codec.list) \subseteq p.codec.all
      BY <2>2, <3>4 DEF Configured, Range
    <3> QED
      BY <2>2, <3>2, <3>5 DEF Configured
  <2>3. ProgramOK(local)
    BY <2>1, <2>2, LocalRuns DEF ProgramOK, Typed, States
  <2>4. ProgramOK(remote)
    BY <2>1, <2>2, RemoteRuns DEF ProgramOK, Typed, States
  <2>5. \A x \in Seq(Byte) : Range(x) \subseteq Byte
    BY DEF Range
  <2>6. ASSUME NEW s \in Sessions
        PROVE  /\ number[s] \in Nat /\ stage[s] \in Stages
               /\ Range(wire[s]) \subseteq Byte /\ Range(delivered[s]) \subseteq Byte
               /\ dialled[s].port \in Nat
    <3>1. wire[s] \in Seq(Byte) /\ delivered[s] \in Seq(Byte) /\ dialled[s] \in [host : Seq(Byte), port : Nat]
      BY <2>1 DEF Typed
    <3>2. dialled[s].port \in Nat
      BY <3>1
    <3> QED
      BY <2>1, <2>5, <3>1, <3>2 DEF Typed
  <2> QED
    BY <2>1, <2>3, <2>4, <2>6 DEF TypeOK, Typed
<1> QED
  BY <1>1, Invariant, PTL

(* A program that runs has the values that its command line or file gave   *)
(* it, its logger the level, and tun_remote the users of its list          *)
(* (local.cpp:56, remote.cpp:61); what AsTold leaves out is said there.    *)
THEOREM ProgramsAsTold == Spec => []AsTold
<1>1. Inv => AsTold
  <2> SUFFICES ASSUME Inv PROVE AsTold
    OBVIOUS
  <2>1. Typed
    BY DEF Inv
  <2>2. Running(local) => Configured(local, deployment.local)
    BY <2>1, LocalRuns
  <2>3. Running(remote) => Configured(remote, deployment.remote)
    BY <2>1, RemoteRuns
  <2>4. ASSUME NEW p, NEW line, Configured(p, line), p.setting.logLv \in 0 .. 3
        PROVE  p.logLv = p.setting.logLv
    BY <2>4 DEF Configured, initLog
  <2>5. ASSUME Running(remote), "user_list" \in DOMAIN deployment.remote
        PROVE  ToldUsers(Files[deployment.remote["user_list"]].users)
    <3> DEFINE name == deployment.remote["user_list"]
               list == Files[name].users
    <3>1. users = Listed(list)
      BY <2>1, <2>5 DEF Typed, RemoteStarted, UsersRead
    <3>2. PICK now \in Seeds, behind \in Memories :
            Started(remote, remoteSetting(deployment.remote, now), behind)
      BY <2>1, <2>5 DEF Typed, RemoteStarted
    <3>3. IsUserList(name)
      <4> SUFFICES ASSUME ~ IsUserList(name) PROVE FALSE
        OBVIOUS
      <4>1. FromLine(remoteSetting(deployment.remote, now), deployment.remote)
        BY RandIs, RemoteSettingIs
      <4>2. remoteSetting(deployment.remote, now) \in {Ended("exit3"), Ended("died")}
        BY <2>5 DEF remoteSetting
      <4>3. remoteSetting(deployment.remote, now).st = "read"
        BY <3>2, <4>1, InitsRunning DEF Started, FromLine
      <4> QED
        BY <4>2, <4>3 DEF Ended
    <3>4. name \in DOMAIN Files /\ "users" \in DOMAIN Files[name]
      BY <3>3 DEF IsUserList
    <3>5. list \in Seq(Range(list))
      BY <3>4, FilesAre DEF FileOK
    <3> HIDE DEF list
    <3>6. ToldUsers(list)
      BY <3>1, <3>5, ListedTold
    <3> QED
      BY <3>6 DEF list
  <2> QED
    BY <2>2, <2>3, <2>4, <2>5 DEF AsTold, Configured
<1> QED
  BY <1>1, Invariant, PTL

(* Programs whose codecs do the same, with frames that fit, understand     *)
(* each other: no handler finds a message that does not decode or check.   *)
THEOREM AgreedUnderstood == Spec => []Understood
<1>1. Inv => Understood
  <2> SUFFICES ASSUME Inv, Agree, NEW s \in Sessions, stage[s] \in {"refused", "waiting"}
               PROVE  asks(s).type \notin {1, 3, 4}
    BY DEF Understood
  <2>1. Alike
    BY DEF Agree, Alike
  <2> QED
    BY <2>1 DEF Inv, Served, Agree
<1> QED
  BY <1>1, Invariant, PTL

-----------------------------------------------------------------------------
(* The exclusive or: what the division by a polynomial needs to know of it *)

(* Of digits: the bits of the exclusive or, ...                            *)
LEMMA XorDigitBits ==
  ASSUME NEW a \in 0 .. 15, NEW b \in 0 .. 15, NEW p \in {1, 2, 4, 8}
  PROVE  (XorDigit(a, b) \div p) % 2 = (a \div p + b \div p) % 2
<1>1. CASE p = 1
  BY <1>1 DEF XorDigit
<1>2. CASE p = 2
  BY <1>2 DEF XorDigit
<1>3. CASE p = 4
  BY <1>3 DEF XorDigit
<1>4. CASE p = 8
  BY <1>4 DEF XorDigit
<1> QED
  BY <1>1, <1>2, <1>3, <1>4

(* ... its laws, ...                                                       *)
LEMMA XorDigitLaws ==
  ASSUME NEW a \in 0 .. 15, NEW b \in 0 .. 15, NEW c \in 0 .. 15
  PROVE  /\ XorDigit(a, b) = XorDigit(b, a) /\ XorDigit(a, 0) = a
         /\ XorDigit(XorDigit(a, b), c) = XorDigit(a, XorDigit(b, c))
<1>1. XorDigit(a, b) = XorDigit(b, a)
  BY DEF XorDigit
<1>2. XorDigit(a, 0) = a
  BY DEF XorDigit
<1> DEFINE x == XorDigit(a, b)  y == XorDigit(b, c)
<1>3. x \in 0 .. 15 /\ y \in 0 .. 15
  BY XorDigitBack
<1>4. ASSUME NEW p \in {1, 2, 4, 8}
      PROVE  (x \div p + c \div p) % 2 = (a \div p + y \div p) % 2
  <2>1. (x \div p) % 2 = (a \div p + b \div p) % 2 /\ (y \div p) % 2 = (b \div p + c \div p) % 2
    BY XorDigitBits
  <2>2. x \div p \in Nat /\ y \div p \in Nat /\ a \div p \in Nat /\ b \div p \in Nat /\ c \div p \in Nat
    BY <1>3
  <2>3. \A i, j, k, u, v \in Nat :
          (u % 2) = (i + j) % 2 /\ (v % 2) = (j + k) % 2 => (u + k) % 2 = (i + v) % 2
    OBVIOUS
  <2> HIDE DEF x, y
  <2> QED
    BY ONLY <2>1, <2>2, <2>3
<1> HIDE DEF x, y
<1>5. XorDigit(x, c) = XorDigit(a, y)
  <2>1. /\ (x \div 1 + c \div 1) % 2 = (a \div 1 + y \div 1) % 2
        /\ (x \div 2 + c \div 2) % 2 = (a \div 2 + y \div 2) % 2
        /\ (x \div 4 + c \div 4) % 2 = (a \div 4 + y \div 4) % 2
        /\ (x \div 8 + c \div 8) % 2 = (a \div 8 + y \div 8) % 2
    BY <1>4
  <2> QED
    BY ONLY <2>1 DEF XorDigit
<1> QED
  BY <1>1, <1>2, <1>5 DEF x, y

(* ... and what becomes of it when it is halved.                           *)
LEMMA XorDigitHalved ==
  ASSUME NEW a \in 0 .. 15, NEW b \in 0 .. 15
  PROVE  /\ XorDigit(a, b) % 2 = (a + b) % 2
         /\ XorDigit(a, b) \div 2 = XorDigit(a \div 2, b \div 2)
<1>1. XorDigit(a, b) % 2 = (a + b) % 2
  BY DEF XorDigit
<1>2. /\ (a \div 2) \div 2 = a \div 4 /\ (a \div 2) \div 4 = a \div 8 /\ (a \div 2) \div 8 = 0 /\ (a \div 2) \div 1 = a \div 2
      /\ (b \div 2) \div 2 = b \div 4 /\ (b \div 2) \div 4 = b \div 8 /\ (b \div 2) \div 8 = 0 /\ (b \div 2) \div 1 = b \div 2
  OBVIOUS
<1>3. XorDigit(a \div 2, b \div 2)
        = ((a \div 2 + b \div 2) % 2) + 2 * ((a \div 4 + b \div 4) % 2) + 4 * ((a \div 8 + b \div 8) % 2)
  BY <1>2 DEF XorDigit
<1>4. XorDigit(a, b) \div 2
        = ((a \div 2 + b \div 2) % 2) + 2 * ((a \div 4 + b \div 4) % 2) + 4 * ((a \div 8 + b \div 8) % 2)
  BY DEF XorDigit
<1> QED
  BY <1>1, <1>3, <1>4

(***************************************************************************)
(* The highest bit of the exclusive or of two digits is the sum of their   *)
(* highest bits.                                                           *)
(***************************************************************************)
LEMMA XorDigitTop ==
  ASSUME NEW s \in 0 .. 1, NEW t \in 0 .. 1, NEW x \in 0 .. 7, NEW y \in 0 .. 7
  PROVE  /\ XorDigit(s * 8 + x, t * 8 + y) = 8 * ((s + t) % 2) + XorDigit(x, y)
         /\ XorDigit(x, y) \in 0 .. 7
<1> DEFINE a == s * 8 + x  b == t * 8 + y
<1>1. /\ a \div 1 = s * 8 + x /\ a \div 2 = s * 4 + x \div 2 /\ a \div 4 = s * 2 + x \div 4 /\ a \div 8 = s
      /\ b \div 1 = t * 8 + y /\ b \div 2 = t * 4 + y \div 2 /\ b \div 4 = t * 2 + y \div 4 /\ b \div 8 = t
  OBVIOUS
<1>2. x \div 1 = x /\ x \div 8 = 0 /\ y \div 1 = y /\ y \div 8 = 0
  OBVIOUS
<1> DEFINE low == (x + y) % 2  mid == (x \div 2 + y \div 2) % 2  high == (x \div 4 + y \div 4) % 2
<1>3. low \in 0 .. 1 /\ mid \in 0 .. 1 /\ high \in 0 .. 1
  OBVIOUS
<1>4. XorDigit(x, y) = low + 2 * mid + 4 * high
  BY <1>2, <1>3 DEF XorDigit
<1>5. /\ (a \div 1 + b \div 1) % 2 = low /\ (a \div 2 + b \div 2) % 2 = mid
      /\ (a \div 4 + b \div 4) % 2 = high /\ (a \div 8 + b \div 8) % 2 = (s + t) % 2
  <2> HIDE DEF a, b
  <2>1. \A i, j, k \in Nat : (2 * i + k + 2 * j) % 2 = (k % 2)
    OBVIOUS
  <2>2. a \div 1 + b \div 1 = 2 * (4 * s) + (x + y) + 2 * (4 * t)
    BY <1>1
  <2>3. a \div 2 + b \div 2 = 2 * (2 * s) + (x \div 2 + y \div 2) + 2 * (2 * t)
    BY <1>1
  <2>4. a \div 4 + b \div 4 = 2 * s + (x \div 4 + y \div 4) + 2 * t
    BY <1>1
  <2>5. (a \div 1 + b \div 1) % 2 = low
    BY <2>1, <2>2
  <2>6. (a \div 2 + b \div 2) % 2 = mid
    BY <2>1, <2>3
  <2>7. (a \div 4 + b \div 4) % 2 = high
    BY <2>1, <2>4
  <2> QED
    BY <1>1, <2>5, <2>6, <2>7
<1> HIDE DEF a, b, low, mid, high
<1>6. XorDigit(a, b) = low + 2 * mid + 4 * high + 8 * ((s + t) % 2)
  BY <1>3, <1>5 DEF XorDigit
<1> QED
  BY <1>3, <1>4, <1>6 DEF a, b

(* The same of bytes, by their digits, ...                                 *)
LEMMA XorByteLaws ==
  ASSUME NEW a \in Byte, NEW b \in Byte, NEW c \in Byte
  PROVE  /\ XorByte(a, b) = XorByte(b, a) /\ XorByte(a, 0) = a
         /\ XorByte(XorByte(a, b), c) = XorByte(a, XorByte(b, c))
<1>1. ASSUME NEW x \in Byte, NEW y \in Byte, x \div 16 = y \div 16, (x % 16) = (y % 16)
      PROVE  x = y
  BY <1>1, DigitsOf
<1>2. 0 \in Byte /\ 0 \div 16 = 0 /\ (0 % 16) = 0
  BY BelowByte
<1> DEFINE D(x) == x \div 16 \in 0 .. 15 /\ (x % 16) \in 0 .. 15
<1>3. D(a) /\ D(b) /\ D(c)
  BY DigitsOf
<1>4. XorByte(a, b) = XorByte(b, a)
  BY <1>1, <1>3, XorByteIs, XorDigitLaws
<1>5. XorByte(a, 0) = a
  BY <1>1, <1>2, <1>3, XorByteIs, XorDigitLaws
<1>6. XorByte(XorByte(a, b), c) = XorByte(a, XorByte(b, c))
  <2> DEFINE x == XorByte(a, b)  y == XorByte(b, c)  u == XorByte(x, c)  v == XorByte(a, y)
  <2>1. /\ x \in Byte /\ x \div 16 = XorDigit(a \div 16, b \div 16) /\ (x % 16) = XorDigit(a % 16, b % 16)
        /\ y \in Byte /\ y \div 16 = XorDigit(b \div 16, c \div 16) /\ (y % 16) = XorDigit(b % 16, c % 16)
    BY XorByteIs
  <2> HIDE DEF x, y
  <2>2. /\ u \in Byte /\ u \div 16 = XorDigit(x \div 16, c \div 16) /\ (u % 16) = XorDigit(x % 16, c % 16)
        /\ v \in Byte /\ v \div 16 = XorDigit(a \div 16, y \div 16) /\ (v % 16) = XorDigit(a % 16, y % 16)
    BY <2>1, XorByteIs
  <2> HIDE DEF u, v
  <2>3. u \div 16 = v \div 16
    BY <1>3, <2>1, <2>2, XorDigitLaws
  <2>4. (u % 16) = (v % 16)
    BY <1>3, <2>1, <2>2, XorDigitLaws
  <2>5. u = v
    BY <1>1, <2>2, <2>3, <2>4
  <2> QED
    BY <2>5 DEF u, v, x, y
<1> QED
  BY <1>4, <1>5, <1>6

(***************************************************************************)
(* The lowest bit of an exclusive or of bytes is the sum of their lowest   *)
(* bits, and what is left when it is dropped is the exclusive or of what   *)
(* is left of each.                                                        *)
(***************************************************************************)
LEMMA XorByteHalved ==
  ASSUME NEW a \in Byte, NEW b \in Byte
  PROVE  /\ (XorByte(a, b) % 2) = (a + b) % 2
         /\ a \div 2 \in Byte /\ b \div 2 \in Byte
         /\ XorByte(a, b) \div 2 = XorByte(a \div 2, b \div 2)
<1> DEFINE h == a \div 16  l == a % 16  i == b \div 16  j == b % 16
           u == XorDigit(h, i)  v == XorDigit(l, j)
           p == a \div 2  q == b \div 2
<1>1. /\ h \in 0 .. 15 /\ l \in 0 .. 15 /\ a = h * 16 + l
      /\ i \in 0 .. 15 /\ j \in 0 .. 15 /\ b = i * 16 + j
  BY DigitsOf
<1>2. p \in Byte /\ q \in Byte
  BY BelowByte
<1>3. XorByte(a, b) = u * 16 + v /\ u \in 0 .. 15 /\ v \in 0 .. 15
  <2>1. u \in 0 .. 15 /\ v \in 0 .. 15
    BY <1>1, XorDigitBack
  <2>2. XorByte(a, b) = u * 16 + v
    BY <1>1, XorsAre DEF XorByte
  <2> QED
    BY <2>1, <2>2
<1>4. /\ p \div 16 = h \div 2 /\ (p % 16) = (h % 2) * 8 + (l \div 2) /\ l \div 2 \in 0 .. 7 /\ (a % 2) = (l % 2)
      /\ q \div 16 = i \div 2 /\ (q % 16) = (i % 2) * 8 + (j \div 2) /\ j \div 2 \in 0 .. 7 /\ (b % 2) = (j % 2)
      /\ (h % 2) \in 0 .. 1 /\ (i % 2) \in 0 .. 1
  <2> HIDE DEF h, l, i, j
  <2> QED
    BY <1>1
<1>5. XorByte(p, q) \in Byte /\ XorByte(p, q) \div 16 = XorDigit(p \div 16, q \div 16)
      /\ XorByte(p, q) % 16 = XorDigit(p % 16, q % 16)
  BY <1>2, XorByteIs
<1>6. XorByte(p, q) = 16 * (XorByte(p, q) \div 16) + (XorByte(p, q) % 16)
  BY <1>5, DigitsOf
<1> HIDE DEF h, l, i, j, p, q
<1>7. /\ (u % 2) = (h + i) % 2 /\ u \div 2 = XorDigit(h \div 2, i \div 2)
      /\ (v % 2) = (l + j) % 2 /\ v \div 2 = XorDigit(l \div 2, j \div 2)
  BY <1>1, XorDigitHalved
<1>8. XorDigit(p % 16, q % 16) = 8 * (((h % 2) + (i % 2)) % 2) + XorDigit(l \div 2, j \div 2)
  BY <1>4, XorDigitTop
<1>9. ((h % 2) + (i % 2)) % 2 = (h + i) % 2 /\ (a + b) % 2 = (l + j) % 2
  BY <1>1
<1> HIDE DEF u, v
<1>10. XorByte(p, q) = 16 * (u \div 2) + 8 * (u % 2) + (v \div 2)
  <2>1. XorByte(p, q) \div 16 = u \div 2
    BY <1>4, <1>5, <1>7
  <2>2. XorByte(p, q) % 16 = 8 * ((h + i) % 2) + XorDigit(l \div 2, j \div 2)
    BY <1>5, <1>8, <1>9
  <2>3. XorByte(p, q) % 16 = 8 * (u % 2) + (v \div 2)
    BY <1>7, <2>2
  <2>4. 16 * (u \div 2) + (8 * (u % 2) + (v \div 2)) = 16 * (u \div 2) + 8 * (u % 2) + (v \div 2)
    BY <1>3
  <2> QED
    BY ONLY <1>6, <2>1, <2>3, <2>4
<1>11. (u * 16 + v) \div 2 = 16 * (u \div 2) + 8 * (u % 2) + (v \div 2) /\ (u * 16 + v) % 2 = (v % 2)
  BY <1>3
<1>12. XorByte(p, q) = XorByte(a, b) \div 2
  BY <1>3, <1>10, <1>11
<1> QED
  BY <1>2, <1>3, <1>7, <1>9, <1>11, <1>12 DEF p, q

(***************************************************************************)
(* The highest bit of the exclusive or of two bytes is the sum of their    *)
(* highest bits.                                                           *)
(***************************************************************************)
LEMMA XorByteTop ==
  ASSUME NEW a \in Byte, NEW b \in Byte
  PROVE  /\ XorByte(a, b) = 128 * ((a \div 128 + b \div 128) % 2) + XorByte(a % 128, b % 128)
         /\ XorByte(a % 128, b % 128) < 128
         /\ (a % 128) \in Byte /\ (b % 128) \in Byte
<1> DEFINE s == a \div 128  t == b \div 128  x == a % 128  y == b % 128
<1>1. x \in Byte /\ y \in Byte
  BY BelowByte
<1>2. /\ a \div 16 = s * 8 + (x \div 16) /\ (a % 16) = (x % 16) /\ x \div 16 \in 0 .. 7 /\ s \in 0 .. 1
      /\ b \div 16 = t * 8 + (y \div 16) /\ (b % 16) = (y % 16) /\ y \div 16 \in 0 .. 7 /\ t \in 0 .. 1
  BY SMT, BelowByte
<1>3. /\ XorByte(a, b) \div 16 = XorDigit(a \div 16, b \div 16)
      /\ (XorByte(a, b) % 16) = XorDigit(a % 16, b % 16) /\ XorByte(a, b) \in Byte
      /\ XorByte(x, y) \div 16 = XorDigit(x \div 16, y \div 16)
      /\ (XorByte(x, y) % 16) = XorDigit(x % 16, y % 16) /\ XorByte(x, y) \in Byte
  BY <1>1, XorByteIs
<1> HIDE DEF s, t, x, y
<1>4. /\ XorDigit(a \div 16, b \div 16) = 8 * ((s + t) % 2) + XorDigit(x \div 16, y \div 16)
      /\ XorDigit(x \div 16, y \div 16) \in 0 .. 7
  BY <1>2, XorDigitTop
<1> DEFINE u == XorByte(a, b)  v == XorByte(x, y)
<1>5. u \in Byte /\ v \in Byte /\ u \div 16 = 8 * ((s + t) % 2) + v \div 16 /\ v \div 16 \in 0 .. 7 /\ (u % 16) = (v % 16)
  BY <1>2, <1>3, <1>4
<1>6. u = 16 * (u \div 16) + (u % 16) /\ v = 16 * (v \div 16) + (v % 16) /\ (v % 16) \in 0 .. 15
  BY <1>5, DigitsOf
<1> HIDE DEF u, v
<1>7. u = 128 * ((s + t) % 2) + v /\ v < 128
  <2> DEFINE o == (s + t) % 2  m == v \div 16  n == v % 16
  <2>1. o \in Nat /\ m \in 0 .. 7 /\ n \in 0 .. 15
    BY <1>2, <1>5, <1>6
  <2>2. u = 16 * (8 * o + m) + n /\ v = 16 * m + n
    BY <1>5, <1>6
  <2> HIDE DEF o, m, n
  <2>3. u = 128 * o + v /\ v < 128
    BY <2>1, <2>2
  <2> QED
    BY <2>3 DEF o
<1> QED
  BY <1>1, <1>7 DEF u, v, s, t, x, y

(* ... of halves, by their bytes, ...                                      *)
IsHalf(x) == x \in Nat /\ x < 65536

(* A half has two bytes.                                                   *)
LEMMA BytesOf ==
  ASSUME NEW a, IsHalf(a)
  PROVE  a \div 256 \in Byte /\ (a % 256) \in Byte /\ a = (a \div 256) * 256 + (a % 256)
BY SMT, BelowByte DEF IsHalf

(* Two bytes make a half, and are its bytes.                               *)
LEMMA OfBytes ==
  ASSUME NEW h \in Byte, NEW l \in Byte
  PROVE  /\ IsHalf(h * 256 + l)
         /\ (h * 256 + l) \div 256 = h /\ ((h * 256 + l) % 256) = l
BY SMT, BelowByte DEF IsHalf

(* The bytes of the exclusive or of two halves.                            *)
LEMMA XorHalfIs ==
  ASSUME NEW a, IsHalf(a), NEW b, IsHalf(b)
  PROVE  /\ IsHalf(XorHalf(a, b))
         /\ XorHalf(a, b) \div 256 = XorByte(a \div 256, b \div 256)
         /\ (XorHalf(a, b) % 256) = XorByte(a % 256, b % 256)
<1> DEFINE h == XorByte(a \div 256, b \div 256)
           l == XorByte(a % 256, b % 256)
<1>1. h \in Byte /\ l \in Byte
  BY BytesOf, XorByteIs
<1>2. XorHalf(a, b) = h * 256 + l
  BY DEF XorHalf
<1> HIDE DEF h, l
<1>3. IsHalf(h * 256 + l) /\ (h * 256 + l) \div 256 = h /\ ((h * 256 + l) % 256) = l
  BY <1>1, OfBytes
<1> QED
  BY ONLY <1>2, <1>3 DEF h, l

(***************************************************************************)
(* On halves, exclusive or is commutative and associative, and zero        *)
(* changes nothing.                                                        *)
(***************************************************************************)
LEMMA XorHalfLaws ==
  ASSUME NEW a, IsHalf(a), NEW b, IsHalf(b), NEW c, IsHalf(c)
  PROVE  /\ XorHalf(a, b) = XorHalf(b, a) /\ XorHalf(a, 0) = a
         /\ XorHalf(XorHalf(a, b), c) = XorHalf(a, XorHalf(b, c))
<1>1. ASSUME NEW x, IsHalf(x), NEW y, IsHalf(y), x \div 256 = y \div 256, (x % 256) = (y % 256)
      PROVE  x = y
  <2>1. x = (x \div 256) * 256 + (x % 256) /\ y = (y \div 256) * 256 + (y % 256)
    BY <1>1, BytesOf
  <2> QED
    BY ONLY <1>1, <2>1
<1>2. IsHalf(0) /\ 0 \div 256 = 0 /\ (0 % 256) = 0
  BY SMT DEF IsHalf
<1>3. /\ a \div 256 \in Byte /\ (a % 256) \in Byte /\ b \div 256 \in Byte /\ (b % 256) \in Byte
      /\ c \div 256 \in Byte /\ (c % 256) \in Byte
  BY BytesOf
<1>4. XorHalf(a, b) = XorHalf(b, a)
  <2>1. XorHalf(a, b) \div 256 = XorHalf(b, a) \div 256
    BY <1>3, XorHalfIs, XorByteLaws
  <2>2. (XorHalf(a, b) % 256) = (XorHalf(b, a) % 256)
    BY <1>3, XorHalfIs, XorByteLaws
  <2> QED
    BY <1>1, <2>1, <2>2, XorHalfIs
<1>5. XorHalf(a, 0) = a
  <2>1. XorHalf(a, 0) \div 256 = a \div 256
    BY <1>2, <1>3, XorHalfIs, XorByteLaws
  <2>2. (XorHalf(a, 0) % 256) = (a % 256)
    BY <1>2, <1>3, XorHalfIs, XorByteLaws
  <2> QED
    BY <1>1, <1>2, <2>1, <2>2, XorHalfIs
<1>6. XorHalf(XorHalf(a, b), c) = XorHalf(a, XorHalf(b, c))
  <2> DEFINE x == XorHalf(a, b)  y == XorHalf(b, c)  u == XorHalf(x, c)  v == XorHalf(a, y)
  <2>1. /\ IsHalf(x) /\ x \div 256 = XorByte(a \div 256, b \div 256) /\ (x % 256) = XorByte(a % 256, b % 256)
        /\ IsHalf(y) /\ y \div 256 = XorByte(b \div 256, c \div 256) /\ (y % 256) = XorByte(b % 256, c % 256)
    BY XorHalfIs
  <2> HIDE DEF x, y
  <2>2. /\ IsHalf(u) /\ u \div 256 = XorByte(x \div 256, c \div 256) /\ (u % 256) = XorByte(x % 256, c % 256)
        /\ IsHalf(v) /\ v \div 256 = XorByte(a \div 256, y \div 256) /\ (v % 256) = XorByte(a % 256, y % 256)
    BY <2>1, XorHalfIs
  <2> HIDE DEF u, v
  <2>3. u \div 256 = v \div 256
    BY <1>3, <2>1, <2>2, XorByteLaws
  <2>4. (u % 256) = (v % 256)
    BY <1>3, <2>1, <2>2, XorByteLaws
  <2>5. u = v
    BY <1>1, <2>2, <2>3, <2>4
  <2> QED
    BY <2>5 DEF u, v, x, y
<1> QED
  BY <1>4, <1>5, <1>6

(* Halving distributes over the exclusive or of halves.                    *)
LEMMA XorHalfHalved ==
  ASSUME NEW a, IsHalf(a), NEW b, IsHalf(b)
  PROVE  /\ (XorHalf(a, b) % 2) = (a + b) % 2
         /\ XorHalf(a, b) \div 2 = XorHalf(a \div 2, b \div 2)
<1> DEFINE h == a \div 256  l == a % 256  i == b \div 256  j == b % 256
           u == XorByte(h, i)  v == XorByte(l, j)
           p == a \div 2  q == b \div 2
<1>1. /\ h \in Byte /\ l \in Byte /\ a = h * 256 + l
      /\ i \in Byte /\ j \in Byte /\ b = i * 256 + j
  BY BytesOf
<1>2. IsHalf(p) /\ IsHalf(q)
  BY SMT DEF IsHalf
<1>3. XorHalf(a, b) = u * 256 + v
  BY DEF XorHalf
<1>4. u \in Byte /\ v \in Byte
  BY <1>1, XorByteIs
<1>5. /\ XorHalf(p, q) \div 256 = XorByte(p \div 256, q \div 256)
      /\ (XorHalf(p, q) % 256) = XorByte(p % 256, q % 256)
      /\ IsHalf(XorHalf(p, q))
  BY <1>2, XorHalfIs
<1>6. XorHalf(p, q) = (XorHalf(p, q) \div 256) * 256 + (XorHalf(p, q) % 256)
  BY <1>5, BytesOf
<1>7. \A x, y \in Nat : x < 256 /\ y < 256 =>
        /\ ((x * 256 + y) \div 2) \div 256 = x \div 2
        /\ (((x * 256 + y) \div 2) % 256) = (x % 2) * 128 + (y \div 2)
        /\ y \div 2 \in 0 .. 127 /\ (x % 2) \in 0 .. 1
        /\ ((x * 256 + y) % 2) = (y % 2)
        /\ (x * 256 + y) \div 2 = (x \div 2) * 256 + (128 * (x % 2) + (y \div 2))
  BY SMT
<1> HIDE DEF h, l, i, j
<1>8. /\ h \in Nat /\ h < 256 /\ l \in Nat /\ l < 256 /\ i \in Nat /\ i < 256 /\ j \in Nat /\ j < 256
      /\ u \in Nat /\ u < 256 /\ v \in Nat /\ v < 256
  BY <1>1, <1>4, BelowByte
<1>9. /\ p \div 256 = h \div 2 /\ (p % 256) = (h % 2) * 128 + (l \div 2) /\ l \div 2 \in 0 .. 127
      /\ (h % 2) \in 0 .. 1 /\ (a % 2) = (l % 2)
  BY SMT, <1>1, <1>7, <1>8
<1>10. /\ q \div 256 = i \div 2 /\ (q % 256) = (i % 2) * 128 + (j \div 2) /\ j \div 2 \in 0 .. 127
       /\ (i % 2) \in 0 .. 1 /\ (b % 2) = (j % 2)
  BY SMT, <1>1, <1>7, <1>8
<1> HIDE DEF p, q
<1>11. /\ (u % 2) = (h + i) % 2 /\ u \div 2 = XorByte(h \div 2, i \div 2)
       /\ (v % 2) = (l + j) % 2 /\ v \div 2 = XorByte(l \div 2, j \div 2)
  BY <1>1, XorByteHalved
<1>12. XorByte(p % 256, q % 256) = 128 * (((h % 2) + (i % 2)) % 2) + XorByte(l \div 2, j \div 2)
  <2> DEFINE c == p % 256  d == q % 256
  <2>1. /\ c \in Byte /\ c \div 128 = (h % 2) /\ (c % 128) = l \div 2
        /\ d \in Byte /\ d \div 128 = (i % 2) /\ (d % 128) = j \div 2
    BY SMT, <1>9, <1>10, BelowByte
  <2> HIDE DEF c, d
  <2>2. XorByte(c, d) = 128 * ((c \div 128 + d \div 128) % 2) + XorByte(c % 128, d % 128)
    BY <2>1, XorByteTop
  <2> QED
    BY ONLY <2>1, <2>2 DEF c, d
<1>13. \A x, y \in Nat : ((x % 2) + (y % 2)) % 2 = (x + y) % 2
  OBVIOUS
<1>14. ((h % 2) + (i % 2)) % 2 = (h + i) % 2 /\ (a + b) % 2 = (l + j) % 2
  <2>1. ((h % 2) + (i % 2)) % 2 = (h + i) % 2
    BY <1>8, <1>13
  <2>2. a \in Nat /\ b \in Nat
    BY DEF IsHalf
  <2>3. ((a % 2) + (b % 2)) % 2 = (a + b) % 2 /\ ((l % 2) + (j % 2)) % 2 = (l + j) % 2
    BY <1>8, <1>13, <2>2
  <2> QED
    BY <1>9, <1>10, <2>1, <2>3
<1> HIDE DEF u, v
<1>15. XorHalf(p, q) \div 256 = u \div 2
  BY <1>5, <1>9, <1>10, <1>11
<1>16. (XorHalf(p, q) % 256) = 128 * (u % 2) + (v \div 2)
  BY <1>5, <1>11, <1>12, <1>14
<1>17. (u * 256 + v) \div 2 = (u \div 2) * 256 + (128 * (u % 2) + (v \div 2)) /\ ((u * 256 + v) % 2) = (v % 2)
  BY <1>7, <1>8
<1>18. XorHalf(p, q) = (u \div 2) * 256 + (128 * (u % 2) + (v \div 2))
  BY <1>6, <1>15, <1>16
<1>19. XorHalf(p, q) = XorHalf(a, b) \div 2
  BY <1>3, <1>17, <1>18
<1> QED
  BY <1>3, <1>11, <1>14, <1>17, <1>19 DEF p, q

(***************************************************************************)
(* The highest bit of the exclusive or of two halves is the sum of their   *)
(* highest bits.                                                           *)
(***************************************************************************)
LEMMA XorHalfTop ==
  ASSUME NEW a, IsHalf(a), NEW b, IsHalf(b)
  PROVE  XorHalf(a, b) = 32768 * ((a \div 32768 + b \div 32768) % 2) + XorHalf(a % 32768, b % 32768)
<1> DEFINE s == a \div 32768  t == b \div 32768  x == a % 32768  y == b % 32768
           h == a \div 256  i == b \div 256
<1>1. IsHalf(x) /\ IsHalf(y)
  BY SMT DEF IsHalf
<1>2. /\ h \in Byte /\ h \div 128 = s /\ (h % 128) = x \div 256 /\ (a % 256) = (x % 256)
      /\ i \in Byte /\ i \div 128 = t /\ (i % 128) = y \div 256 /\ (b % 256) = (y % 256)
      /\ s \in Nat /\ t \in Nat
  BY SMT, BelowByte DEF IsHalf
<1>3. /\ XorHalf(a, b) \div 256 = XorByte(h, i)
      /\ (XorHalf(a, b) % 256) = XorByte(a % 256, b % 256) /\ IsHalf(XorHalf(a, b))
  BY XorHalfIs
<1>4. /\ XorHalf(x, y) \div 256 = XorByte(x \div 256, y \div 256)
      /\ (XorHalf(x, y) % 256) = XorByte(x % 256, y % 256) /\ IsHalf(XorHalf(x, y))
  BY <1>1, XorHalfIs
<1> HIDE DEF s, t, x, y, h, i
<1>5. XorByte(h, i) = 128 * ((h \div 128 + i \div 128) % 2) + XorByte(h % 128, i % 128)
  BY <1>2, XorByteTop
<1> DEFINE u == XorHalf(a, b)  v == XorHalf(x, y)
<1>6. u \div 256 = 128 * ((s + t) % 2) + v \div 256 /\ (u % 256) = (v % 256)
  BY ONLY <1>2, <1>3, <1>4, <1>5
<1>7. u = (u \div 256) * 256 + (u % 256) /\ v = (v \div 256) * 256 + (v % 256) /\ u \in Nat /\ v \in Nat
  BY <1>3, <1>4, BytesOf DEF IsHalf
<1> HIDE DEF u, v
<1>8. \A j, k, m, n, o \in Nat : j = (128 * o + m) * 256 + n /\ k = m * 256 + n =>
        j = 32768 * o + k
  BY SMT
<1>9. u = 32768 * ((s + t) % 2) + v
  <2>1. v \div 256 \in Nat /\ (v % 256) \in Nat /\ (s + t) % 2 \in Nat
    BY <1>2, <1>7
  <2>2. u = (128 * ((s + t) % 2) + v \div 256) * 256 + (v % 256)
    BY ONLY <1>6, <1>7
  <2> QED
    BY SMT, <1>7, <1>8, <2>1, <2>2
<1> QED
  BY <1>9 DEF u, v, s, t, x, y

(* ... and of words, by their halves.                                      *)
Zero == << 0, 0 >>

(***************************************************************************)
(* On words, exclusive or is commutative and associative, and zero         *)
(* changes nothing.                                                        *)
(***************************************************************************)
LEMMA XorWordLaws ==
  ASSUME NEW a \in Word, NEW b \in Word, NEW c \in Word
  PROVE  /\ XorWord(a, b) = XorWord(b, a) /\ XorWord(a, Zero) = a /\ XorWord(Zero, a) = a
         /\ XorWord(XorWord(a, b), c) = XorWord(a, XorWord(b, c))
<1>1. \A x \in Word : x = << x[1], x[2] >> /\ IsHalf(x[1]) /\ IsHalf(x[2])
  BY WordIs DEF IsHalf
<1>2. Zero[1] = 0 /\ Zero[2] = 0 /\ IsHalf(0)
  BY SMT DEF Zero, IsHalf
<1>3. XorWord(a, b) = XorWord(b, a)
  BY <1>1, XorHalfLaws DEF XorWord
<1>4. XorHalf(a[1], 0) = a[1] /\ XorHalf(a[2], 0) = a[2] /\ XorHalf(0, a[1]) = a[1] /\ XorHalf(0, a[2]) = a[2]
  BY <1>1, <1>2, XorHalfLaws
<1>5. XorWord(a, Zero) = a /\ XorWord(Zero, a) = a
  BY <1>1, <1>2, <1>4 DEF XorWord
<1>6. /\ XorHalf(XorHalf(a[1], b[1]), c[1]) = XorHalf(a[1], XorHalf(b[1], c[1]))
      /\ XorHalf(XorHalf(a[2], b[2]), c[2]) = XorHalf(a[2], XorHalf(b[2], c[2]))
  BY <1>1, XorHalfLaws
<1>7. XorWord(XorWord(a, b), c) = XorWord(a, XorWord(b, c))
  BY <1>6 DEF XorWord
<1> QED
  BY <1>3, <1>5, <1>7

(* A word shifted by one bit, half by half.                                *)
LEMMA HalvedIs ==
  ASSUME NEW a \in Word
  PROVE  /\ Halved(a) \in Word
         /\ Halved(a)[1] = a[1] \div 2
         /\ Halved(a)[2] \div 32768 = (a[1] % 2) /\ (Halved(a)[2] % 32768) = a[2] \div 2
         /\ (Halved(a)[2] % 2) = (a[2] \div 2) % 2
<1>1. a[1] \in Nat /\ a[1] < 65536 /\ a[2] \in Nat /\ a[2] < 65536
  BY WordIs
<1>2. Halved(a)[1] = a[1] \div 2 /\ Halved(a)[2] = (a[1] % 2) * 32768 + a[2] \div 2
  BY DEF Halved
<1>3. \A x, y \in Nat : x < 65536 /\ y < 65536 =>
        /\ x \div 2 \in Nat /\ x \div 2 < 65536
        /\ (x % 2) * 32768 + y \div 2 \in Nat /\ (x % 2) * 32768 + y \div 2 < 65536
        /\ ((x % 2) * 32768 + y \div 2) \div 32768 = (x % 2)
        /\ (((x % 2) * 32768 + y \div 2) % 32768) = y \div 2
        /\ (((x % 2) * 32768 + y \div 2) % 2) = (y \div 2) % 2
  BY SMT
<1>4. << a[1] \div 2, (a[1] % 2) * 32768 + a[2] \div 2 >> \in Word
  BY <1>1, <1>3, WordIs
<1>5. Halved(a) \in Word
  BY <1>4 DEF Halved
<1> QED
  BY <1>1, <1>2, <1>3, <1>5

(* Halving distributes over the exclusive or of words.                     *)
LEMMA HalvedXor ==
  ASSUME NEW a \in Word, NEW b \in Word
  PROVE  /\ Halved(XorWord(a, b)) = XorWord(Halved(a), Halved(b))
         /\ (XorWord(a, b)[2] % 2) = (a[2] + b[2]) % 2
<1> DEFINE x == XorWord(a, b)  p == Halved(a)  q == Halved(b)  y == XorWord(p, q)  z == Halved(x)
<1>1. \A w \in Word : w = << w[1], w[2] >> /\ IsHalf(w[1]) /\ IsHalf(w[2])
  BY WordIs DEF IsHalf
<1>2. /\ x \in Word /\ x[1] = XorHalf(a[1], b[1]) /\ x[2] = XorHalf(a[2], b[2])
      /\ p \in Word /\ q \in Word
  BY XorWordType, HalvedIs DEF XorWord
<1>3. /\ p[1] = a[1] \div 2 /\ p[2] \div 32768 = (a[1] % 2) /\ (p[2] % 32768) = a[2] \div 2
      /\ q[1] = b[1] \div 2 /\ q[2] \div 32768 = (b[1] % 2) /\ (q[2] % 32768) = b[2] \div 2
  BY HalvedIs
<1>4. z = << x[1] \div 2, (x[1] % 2) * 32768 + x[2] \div 2 >>
  BY DEF Halved
<1>5. y = << XorHalf(p[1], q[1]), XorHalf(p[2], q[2]) >>
  BY DEF XorWord
<1> HIDE DEF x, p, q, y, z
<1>6. /\ (x[1] % 2) = (a[1] + b[1]) % 2 /\ x[1] \div 2 = XorHalf(a[1] \div 2, b[1] \div 2)
      /\ (x[2] % 2) = (a[2] + b[2]) % 2 /\ x[2] \div 2 = XorHalf(a[2] \div 2, b[2] \div 2)
  BY <1>1, <1>2, XorHalfHalved
<1>7. XorHalf(p[2], q[2]) = 32768 * ((p[2] \div 32768 + q[2] \div 32768) % 2) + XorHalf(p[2] % 32768, q[2] % 32768)
  BY <1>1, <1>2, XorHalfTop
<1>8. XorHalf(p[2], q[2]) = 32768 * (((a[1] % 2) + (b[1] % 2)) % 2) + x[2] \div 2
  BY ONLY <1>3, <1>6, <1>7
<1>9. ((a[1] % 2) + (b[1] % 2)) % 2 = (a[1] + b[1]) % 2
  <2>1. \A i, j \in Nat : ((i % 2) + (j % 2)) % 2 = (i + j) % 2
    OBVIOUS
  <2> QED
    BY <1>1, <2>1 DEF IsHalf
<1>10. 32768 * (x[1] % 2) = (x[1] % 2) * 32768
  <2>1. \A i \in Nat : 32768 * (i % 2) = (i % 2) * 32768
    BY SMT
  <2> QED
    BY <1>1, <1>2, <2>1 DEF IsHalf
<1>11. XorHalf(p[2], q[2]) = (x[1] % 2) * 32768 + x[2] \div 2
  BY ONLY <1>6, <1>8, <1>9, <1>10
<1>12. XorHalf(p[1], q[1]) = x[1] \div 2
  BY <1>3, <1>6
<1>13. y = z
  BY ONLY <1>4, <1>5, <1>11, <1>12
<1> QED
  BY <1>6, <1>13 DEF x, y, z, p, q

(* Shifting by a digit is halving four times.                              *)
LEMMA ShiftedHalved ==
  ASSUME NEW a \in Word
  PROVE  LET b == Halved(a)  c == Halved(b)  d == Halved(c) IN
         /\ Shifted(a) = Halved(d)
         /\ (b[2] % 2) = (a[2] \div 2) % 2 /\ (c[2] % 2) = (a[2] \div 4) % 2 /\ (d[2] % 2) = (a[2] \div 8) % 2
<1>1. a[1] \in Nat /\ a[2] \in Nat
  BY WordIs
<1>2. \A x \in Nat :
        /\ x \div 2 \in Nat /\ x \div 4 \in Nat /\ x \div 8 \in Nat /\ (x \div 2) \div 2 = x \div 4 /\ (x \div 4) \div 2 = x \div 8
        /\ (x \div 8) \div 2 = x \div 16
        /\ (x % 2) \in Nat /\ (x % 4) \in Nat /\ (x % 8) \in Nat
        /\ (x % 4) = 2 * ((x \div 2) % 2) + (x % 2)
        /\ (x % 8) = 4 * ((x \div 4) % 2) + (x % 4)
        /\ (x % 16) = 8 * ((x \div 8) % 2) + (x % 8)
        /\ ((x \div 2) % 2) \in Nat /\ ((x \div 4) % 2) \in Nat /\ ((x \div 8) % 2) \in Nat
  BY SMT
<1>3. \A k, m \in Nat :
        /\ (k * 32768 + m) \div 2 = k * 16384 + m \div 2
        /\ (k * 16384 + m) \div 2 = k * 8192 + m \div 2
        /\ (k * 8192 + m) \div 2 = k * 4096 + m \div 2
  BY SMT
<1> DEFINE b == Halved(a)  c == Halved(b)  d == Halved(c)  e == Halved(d)
           x == a[1]  y == a[2]
<1>4. b[1] = x \div 2 /\ b[2] = (x % 2) * 32768 + y \div 2
  BY DEF Halved
<1> HIDE DEF b, x, y
<1>5. c[1] = b[1] \div 2 /\ c[2] = (b[1] % 2) * 32768 + b[2] \div 2
  BY DEF Halved
<1>6. x \in Nat /\ y \in Nat
  BY <1>1 DEF x, y
<1>7. c[1] = x \div 4 /\ c[2] = (x % 4) * 16384 + y \div 4
  <2>1. b[2] \div 2 = (x % 2) * 16384 + (y \div 2) \div 2
    BY <1>2, <1>3, <1>4, <1>6
  <2>2. c[2] = ((x \div 2) % 2) * 32768 + ((x % 2) * 16384 + y \div 4)
    BY <1>2, <1>4, <1>5, <1>6, <2>1
  <2>3. \A i, j, k, l \in Nat : k = 2 * i + j => i * 32768 + (j * 16384 + l) = k * 16384 + l
    BY SMT
  <2>4. c[2] = (x % 4) * 16384 + y \div 4
    BY <1>2, <1>6, <2>2, <2>3
  <2> QED
    BY <1>2, <1>4, <1>5, <1>6, <2>4
<1> HIDE DEF c
<1>8. d[1] = c[1] \div 2 /\ d[2] = (c[1] % 2) * 32768 + c[2] \div 2
  BY DEF Halved
<1>9. d[1] = x \div 8 /\ d[2] = (x % 8) * 8192 + y \div 8
  <2>1. c[2] \div 2 = (x % 4) * 8192 + (y \div 4) \div 2
    BY <1>2, <1>3, <1>6, <1>7
  <2>2. d[2] = ((x \div 4) % 2) * 32768 + ((x % 4) * 8192 + y \div 8)
    BY <1>2, <1>6, <1>7, <1>8, <2>1
  <2>3. \A i, j, k, l \in Nat : k = 4 * i + j => i * 32768 + (j * 8192 + l) = k * 8192 + l
    BY SMT
  <2>4. d[2] = (x % 8) * 8192 + y \div 8
    BY <1>2, <1>6, <2>2, <2>3
  <2> QED
    BY <1>2, <1>6, <1>7, <1>8, <2>4
<1> HIDE DEF d
<1>10. e = << d[1] \div 2, (d[1] % 2) * 32768 + d[2] \div 2 >>
  BY DEF Halved
<1>11. d[1] \div 2 = x \div 16 /\ (d[1] % 2) * 32768 + d[2] \div 2 = (x % 16) * 4096 + y \div 16
  <2>1. d[2] \div 2 = (x % 8) * 4096 + (y \div 8) \div 2
    BY <1>2, <1>3, <1>6, <1>9
  <2>2. (d[1] % 2) * 32768 + d[2] \div 2 = ((x \div 8) % 2) * 32768 + ((x % 8) * 4096 + y \div 16)
    BY <1>2, <1>6, <1>9, <2>1
  <2>3. \A i, j, k, l \in Nat : k = 8 * i + j => i * 32768 + (j * 4096 + l) = k * 4096 + l
    BY SMT
  <2> QED
    BY <1>2, <1>6, <1>9, <2>2, <2>3
<1>12. e = << x \div 16, (x % 16) * 4096 + y \div 16 >>
  BY ONLY <1>10, <1>11
<1>13. \A k, m \in Nat : /\ ((k * 32768 + m) % 2) = (m % 2) /\ ((k * 16384 + m) % 2) = (m % 2)
                         /\ ((k * 8192 + m) % 2) = (m % 2)
  BY SMT
<1>14. (b[2] % 2) = (y \div 2) % 2 /\ (c[2] % 2) = (y \div 4) % 2 /\ (d[2] % 2) = (y \div 8) % 2
  BY <1>2, <1>4, <1>6, <1>7, <1>9, <1>13
<1> QED
  BY <1>12, <1>14 DEF Shifted, b, c, d, e, x, y

-----------------------------------------------------------------------------
(* The checksum is the division by the polynomial.                         *)

(* The words the table of four bits is made of, and their combinations.    *)
LEMMA TableIs ==
  /\ crc32_table[1] = << 0, 0 >> /\ crc32_table[2] = << 7607, 4196 >>
  /\ crc32_table[3] = << 15214, 8392 >> /\ crc32_table[4] = << 9945, 12460 >>
  /\ crc32_table[5] = << 30428, 16784 >> /\ crc32_table[6] = << 27499, 20980 >>
  /\ crc32_table[7] = << 19890, 24920 >> /\ crc32_table[8] = << 20485, 28988 >>
  /\ crc32_table[9] = << 60856, 33568 >> /\ crc32_table[10] = << 61455, 37700 >>
  /\ crc32_table[11] = << 54998, 41960 >> /\ crc32_table[12] = << 52065, 45964 >>
  /\ crc32_table[13] = << 39780, 49840 >> /\ crc32_table[14] = << 34515, 53972 >>
  /\ crc32_table[15] = << 40970, 57976 >> /\ crc32_table[16] = << 48573, 61980 >>
BY SMT DEF crc32_table

(* The exclusive or of halves, digit by digit.                             *)
LEMMA HalfOfDigits ==
  ASSUME NEW a, IsHalf(a), NEW b, IsHalf(b)
  PROVE  XorHalf(a, b) = XorDigit(a \div 4096, b \div 4096) * 4096
                       + XorDigit((a \div 256) % 16, (b \div 256) % 16) * 256
                       + XorDigit((a \div 16) % 16, (b \div 16) % 16) * 16
                       + XorDigit(a % 16, b % 16)
<1> DEFINE h == a \div 256  i == b \div 256  l == a % 256  j == b % 256
<1>1. h \in Byte /\ i \in Byte /\ l \in Byte /\ j \in Byte
  BY BytesOf
<1>2. /\ h \div 16 = a \div 4096 /\ i \div 16 = b \div 4096
      /\ l \div 16 = (a \div 16) % 16 /\ j \div 16 = (b \div 16) % 16
      /\ (l % 16) = (a % 16) /\ (j % 16) = (b % 16)
  BY SMT DEF IsHalf
<1>3. XorHalf(a, b) = XorByte(h, i) * 256 + XorByte(l, j)
  BY DEF XorHalf
<1> HIDE DEF h, i, l, j
<1>4. \A x, y \in Byte : /\ XorByte(x, y) = XorDigit(x \div 16, y \div 16) * 16 + XorDigit(x % 16, y % 16)
                         /\ XorDigit(x \div 16, y \div 16) \in Nat /\ XorDigit(x % 16, y % 16) \in Nat
  <2> TAKE x, y \in Byte
  <2>1. x \div 16 \in 0 .. 15 /\ (x % 16) \in 0 .. 15 /\ y \div 16 \in 0 .. 15 /\ (y % 16) \in 0 .. 15
    BY DigitsOf
  <2>2. XorDigit(x \div 16, y \div 16) \in 0 .. 15 /\ XorDigit(x % 16, y % 16) \in 0 .. 15
    BY <2>1, XorDigitBack
  <2>3. XorByte(x, y) = XorDigit(x \div 16, y \div 16) * 16 + XorDigit(x % 16, y % 16)
    BY <2>1, XorsAre DEF XorByte
  <2> QED
    BY <2>2, <2>3
<1>5. \A k, m, n, o \in Nat : (k * 16 + m) * 256 + (n * 16 + o) = k * 4096 + m * 256 + n * 16 + o
  BY SMT
<1>6. /\ XorByte(h, i) = XorDigit(h \div 16, i \div 16) * 16 + XorDigit(h % 16, i % 16)
      /\ XorByte(l, j) = XorDigit(l \div 16, j \div 16) * 16 + XorDigit(l % 16, j % 16)
      /\ XorDigit(h \div 16, i \div 16) \in Nat /\ XorDigit(h % 16, i % 16) \in Nat
      /\ XorDigit(l \div 16, j \div 16) \in Nat /\ XorDigit(l % 16, j % 16) \in Nat
  BY <1>1, <1>4
<1>7. XorHalf(a, b) = XorDigit(h \div 16, i \div 16) * 4096 + XorDigit(h % 16, i % 16) * 256
                      + XorDigit(l \div 16, j \div 16) * 16 + XorDigit(l % 16, j % 16)
  BY ONLY <1>3, <1>5, <1>6
<1> QED
  BY ONLY <1>2, <1>7 DEF h, i

(***************************************************************************)
(* The entries of the table of the checksum are sums of those at the       *)
(* powers of two: computed, one by one, from the constants of the source.  *)
(***************************************************************************)
LEMMA TableSums ==
  /\ XorWord(crc32_table[2], crc32_table[3]) = crc32_table[4]
  /\ XorWord(crc32_table[2], crc32_table[5]) = crc32_table[6]
  /\ XorWord(crc32_table[3], crc32_table[5]) = crc32_table[7]
  /\ XorWord(crc32_table[4], crc32_table[5]) = crc32_table[8]
  /\ XorWord(crc32_table[2], crc32_table[9]) = crc32_table[10]
  /\ XorWord(crc32_table[3], crc32_table[9]) = crc32_table[11]
  /\ XorWord(crc32_table[4], crc32_table[9]) = crc32_table[12]
  /\ XorWord(crc32_table[5], crc32_table[9]) = crc32_table[13]
  /\ XorWord(crc32_table[6], crc32_table[9]) = crc32_table[14]
  /\ XorWord(crc32_table[7], crc32_table[9]) = crc32_table[15]
  /\ XorWord(crc32_table[8], crc32_table[9]) = crc32_table[16]
<1>1. \A a, b : IsHalf(a) /\ IsHalf(b) =>
        XorHalf(a, b) = XorDigit(a \div 4096, b \div 4096) * 4096
                        + XorDigit((a \div 256) % 16, (b \div 256) % 16) * 256
                        + XorDigit((a \div 16) % 16, (b \div 16) % 16) * 16
                        + XorDigit(a % 16, b % 16)
  BY HalfOfDigits
<1>2. XorWord(crc32_table[2], crc32_table[3]) = crc32_table[4]
  <2>1. XorHalf(7607, 15214) = XorDigit(1, 3) * 4096 + XorDigit(13, 11) * 256 + XorDigit(11, 6) * 16 + XorDigit(7, 14)
    BY SMT, <1>1 DEF IsHalf
  <2>2. XorDigit(1, 3) = 2 /\ XorDigit(13, 11) = 6 /\ XorDigit(11, 6) = 13 /\ XorDigit(7, 14) = 9
    BY SMT DEF XorDigit
  <2>3. XorHalf(7607, 15214) = 9945
    BY ONLY SMT, <2>1, <2>2
  <2>4. XorHalf(4196, 8392) = XorDigit(1, 2) * 4096 + XorDigit(0, 0) * 256 + XorDigit(6, 12) * 16 + XorDigit(4, 8)
    BY SMT, <1>1 DEF IsHalf
  <2>5. XorDigit(1, 2) = 3 /\ XorDigit(0, 0) = 0 /\ XorDigit(6, 12) = 10 /\ XorDigit(4, 8) = 12
    BY SMT DEF XorDigit
  <2>6. XorHalf(4196, 8392) = 12460
    BY ONLY SMT, <2>4, <2>5
  <2> QED
    BY ONLY SMT, TableIs, <2>3, <2>6 DEF XorWord
<1>3. XorWord(crc32_table[2], crc32_table[5]) = crc32_table[6]
  <2>1. XorHalf(7607, 30428) = XorDigit(1, 7) * 4096 + XorDigit(13, 6) * 256 + XorDigit(11, 13) * 16 + XorDigit(7, 12)
    BY SMT, <1>1 DEF IsHalf
  <2>2. XorDigit(1, 7) = 6 /\ XorDigit(13, 6) = 11 /\ XorDigit(11, 13) = 6 /\ XorDigit(7, 12) = 11
    BY SMT DEF XorDigit
  <2>3. XorHalf(7607, 30428) = 27499
    BY ONLY SMT, <2>1, <2>2
  <2>4. XorHalf(4196, 16784) = XorDigit(1, 4) * 4096 + XorDigit(0, 1) * 256 + XorDigit(6, 9) * 16 + XorDigit(4, 0)
    BY SMT, <1>1 DEF IsHalf
  <2>5. XorDigit(1, 4) = 5 /\ XorDigit(0, 1) = 1 /\ XorDigit(6, 9) = 15 /\ XorDigit(4, 0) = 4
    BY SMT DEF XorDigit
  <2>6. XorHalf(4196, 16784) = 20980
    BY ONLY SMT, <2>4, <2>5
  <2> QED
    BY ONLY SMT, TableIs, <2>3, <2>6 DEF XorWord
<1>4. XorWord(crc32_table[3], crc32_table[5]) = crc32_table[7]
  <2>1. XorHalf(15214, 30428) = XorDigit(3, 7) * 4096 + XorDigit(11, 6) * 256 + XorDigit(6, 13) * 16 + XorDigit(14, 12)
    BY SMT, <1>1 DEF IsHalf
  <2>2. XorDigit(3, 7) = 4 /\ XorDigit(11, 6) = 13 /\ XorDigit(6, 13) = 11 /\ XorDigit(14, 12) = 2
    BY SMT DEF XorDigit
  <2>3. XorHalf(15214, 30428) = 19890
    BY ONLY SMT, <2>1, <2>2
  <2>4. XorHalf(8392, 16784) = XorDigit(2, 4) * 4096 + XorDigit(0, 1) * 256 + XorDigit(12, 9) * 16 + XorDigit(8, 0)
    BY SMT, <1>1 DEF IsHalf
  <2>5. XorDigit(2, 4) = 6 /\ XorDigit(0, 1) = 1 /\ XorDigit(12, 9) = 5 /\ XorDigit(8, 0) = 8
    BY SMT DEF XorDigit
  <2>6. XorHalf(8392, 16784) = 24920
    BY ONLY SMT, <2>4, <2>5
  <2> QED
    BY ONLY SMT, TableIs, <2>3, <2>6 DEF XorWord
<1>5. XorWord(crc32_table[4], crc32_table[5]) = crc32_table[8]
  <2>1. XorHalf(9945, 30428) = XorDigit(2, 7) * 4096 + XorDigit(6, 6) * 256 + XorDigit(13, 13) * 16 + XorDigit(9, 12)
    BY SMT, <1>1 DEF IsHalf
  <2>2. XorDigit(2, 7) = 5 /\ XorDigit(6, 6) = 0 /\ XorDigit(13, 13) = 0 /\ XorDigit(9, 12) = 5
    BY SMT DEF XorDigit
  <2>3. XorHalf(9945, 30428) = 20485
    BY ONLY SMT, <2>1, <2>2
  <2>4. XorHalf(12460, 16784) = XorDigit(3, 4) * 4096 + XorDigit(0, 1) * 256 + XorDigit(10, 9) * 16 + XorDigit(12, 0)
    BY SMT, <1>1 DEF IsHalf
  <2>5. XorDigit(3, 4) = 7 /\ XorDigit(0, 1) = 1 /\ XorDigit(10, 9) = 3 /\ XorDigit(12, 0) = 12
    BY SMT DEF XorDigit
  <2>6. XorHalf(12460, 16784) = 28988
    BY ONLY SMT, <2>4, <2>5
  <2> QED
    BY ONLY SMT, TableIs, <2>3, <2>6 DEF XorWord
<1>6. XorWord(crc32_table[2], crc32_table[9]) = crc32_table[10]
  <2>1. XorHalf(7607, 60856) = XorDigit(1, 14) * 4096 + XorDigit(13, 13) * 256 + XorDigit(11, 11) * 16 + XorDigit(7, 8)
    BY SMT, <1>1 DEF IsHalf
  <2>2. XorDigit(1, 14) = 15 /\ XorDigit(13, 13) = 0 /\ XorDigit(11, 11) = 0 /\ XorDigit(7, 8) = 15
    BY SMT DEF XorDigit
  <2>3. XorHalf(7607, 60856) = 61455
    BY ONLY SMT, <2>1, <2>2
  <2>4. XorHalf(4196, 33568) = XorDigit(1, 8) * 4096 + XorDigit(0, 3) * 256 + XorDigit(6, 2) * 16 + XorDigit(4, 0)
    BY SMT, <1>1 DEF IsHalf
  <2>5. XorDigit(1, 8) = 9 /\ XorDigit(0, 3) = 3 /\ XorDigit(6, 2) = 4 /\ XorDigit(4, 0) = 4
    BY SMT DEF XorDigit
  <2>6. XorHalf(4196, 33568) = 37700
    BY ONLY SMT, <2>4, <2>5
  <2> QED
    BY ONLY SMT, TableIs, <2>3, <2>6 DEF XorWord
<1>7. XorWord(crc32_table[3], crc32_table[9]) = crc32_table[11]
  <2>1. XorHalf(15214, 60856) = XorDigit(3, 14) * 4096 + XorDigit(11, 13) * 256 + XorDigit(6, 11) * 16 + XorDigit(14, 8)
    BY SMT, <1>1 DEF IsHalf
  <2>2. XorDigit(3, 14) = 13 /\ XorDigit(11, 13) = 6 /\ XorDigit(6, 11) = 13 /\ XorDigit(14, 8) = 6
    BY SMT DEF XorDigit
  <2>3. XorHalf(15214, 60856) = 54998
    BY ONLY SMT, <2>1, <2>2
  <2>4. XorHalf(8392, 33568) = XorDigit(2, 8) * 4096 + XorDigit(0, 3) * 256 + XorDigit(12, 2) * 16 + XorDigit(8, 0)
    BY SMT, <1>1 DEF IsHalf
  <2>5. XorDigit(2, 8) = 10 /\ XorDigit(0, 3) = 3 /\ XorDigit(12, 2) = 14 /\ XorDigit(8, 0) = 8
    BY SMT DEF XorDigit
  <2>6. XorHalf(8392, 33568) = 41960
    BY ONLY SMT, <2>4, <2>5
  <2> QED
    BY ONLY SMT, TableIs, <2>3, <2>6 DEF XorWord
<1>8. XorWord(crc32_table[4], crc32_table[9]) = crc32_table[12]
  <2>1. XorHalf(9945, 60856) = XorDigit(2, 14) * 4096 + XorDigit(6, 13) * 256 + XorDigit(13, 11) * 16 + XorDigit(9, 8)
    BY SMT, <1>1 DEF IsHalf
  <2>2. XorDigit(2, 14) = 12 /\ XorDigit(6, 13) = 11 /\ XorDigit(13, 11) = 6 /\ XorDigit(9, 8) = 1
    BY SMT DEF XorDigit
  <2>3. XorHalf(9945, 60856) = 52065
    BY ONLY SMT, <2>1, <2>2
  <2>4. XorHalf(12460, 33568) = XorDigit(3, 8) * 4096 + XorDigit(0, 3) * 256 + XorDigit(10, 2) * 16 + XorDigit(12, 0)
    BY SMT, <1>1 DEF IsHalf
  <2>5. XorDigit(3, 8) = 11 /\ XorDigit(0, 3) = 3 /\ XorDigit(10, 2) = 8 /\ XorDigit(12, 0) = 12
    BY SMT DEF XorDigit
  <2>6. XorHalf(12460, 33568) = 45964
    BY ONLY SMT, <2>4, <2>5
  <2> QED
    BY ONLY SMT, TableIs, <2>3, <2>6 DEF XorWord
<1>9. XorWord(crc32_table[5], crc32_table[9]) = crc32_table[13]
  <2>1. XorHalf(30428, 60856) = XorDigit(7, 14) * 4096 + XorDigit(6, 13) * 256 + XorDigit(13, 11) * 16 + XorDigit(12, 8)
    BY SMT, <1>1 DEF IsHalf
  <2>2. XorDigit(7, 14) = 9 /\ XorDigit(6, 13) = 11 /\ XorDigit(13, 11) = 6 /\ XorDigit(12, 8) = 4
    BY SMT DEF XorDigit
  <2>3. XorHalf(30428, 60856) = 39780
    BY ONLY SMT, <2>1, <2>2
  <2>4. XorHalf(16784, 33568) = XorDigit(4, 8) * 4096 + XorDigit(1, 3) * 256 + XorDigit(9, 2) * 16 + XorDigit(0, 0)
    BY SMT, <1>1 DEF IsHalf
  <2>5. XorDigit(4, 8) = 12 /\ XorDigit(1, 3) = 2 /\ XorDigit(9, 2) = 11 /\ XorDigit(0, 0) = 0
    BY SMT DEF XorDigit
  <2>6. XorHalf(16784, 33568) = 49840
    BY ONLY SMT, <2>4, <2>5
  <2> QED
    BY ONLY SMT, TableIs, <2>3, <2>6 DEF XorWord
<1>10. XorWord(crc32_table[6], crc32_table[9]) = crc32_table[14]
  <2>1. XorHalf(27499, 60856) = XorDigit(6, 14) * 4096 + XorDigit(11, 13) * 256 + XorDigit(6, 11) * 16 + XorDigit(11, 8)
    BY SMT, <1>1 DEF IsHalf
  <2>2. XorDigit(6, 14) = 8 /\ XorDigit(11, 13) = 6 /\ XorDigit(6, 11) = 13 /\ XorDigit(11, 8) = 3
    BY SMT DEF XorDigit
  <2>3. XorHalf(27499, 60856) = 34515
    BY ONLY SMT, <2>1, <2>2
  <2>4. XorHalf(20980, 33568) = XorDigit(5, 8) * 4096 + XorDigit(1, 3) * 256 + XorDigit(15, 2) * 16 + XorDigit(4, 0)
    BY SMT, <1>1 DEF IsHalf
  <2>5. XorDigit(5, 8) = 13 /\ XorDigit(1, 3) = 2 /\ XorDigit(15, 2) = 13 /\ XorDigit(4, 0) = 4
    BY SMT DEF XorDigit
  <2>6. XorHalf(20980, 33568) = 53972
    BY ONLY SMT, <2>4, <2>5
  <2> QED
    BY ONLY SMT, TableIs, <2>3, <2>6 DEF XorWord
<1>11. XorWord(crc32_table[7], crc32_table[9]) = crc32_table[15]
  <2>1. XorHalf(19890, 60856) = XorDigit(4, 14) * 4096 + XorDigit(13, 13) * 256 + XorDigit(11, 11) * 16 + XorDigit(2, 8)
    BY SMT, <1>1 DEF IsHalf
  <2>2. XorDigit(4, 14) = 10 /\ XorDigit(13, 13) = 0 /\ XorDigit(11, 11) = 0 /\ XorDigit(2, 8) = 10
    BY SMT DEF XorDigit
  <2>3. XorHalf(19890, 60856) = 40970
    BY ONLY SMT, <2>1, <2>2
  <2>4. XorHalf(24920, 33568) = XorDigit(6, 8) * 4096 + XorDigit(1, 3) * 256 + XorDigit(5, 2) * 16 + XorDigit(8, 0)
    BY SMT, <1>1 DEF IsHalf
  <2>5. XorDigit(6, 8) = 14 /\ XorDigit(1, 3) = 2 /\ XorDigit(5, 2) = 7 /\ XorDigit(8, 0) = 8
    BY SMT DEF XorDigit
  <2>6. XorHalf(24920, 33568) = 57976
    BY ONLY SMT, <2>4, <2>5
  <2> QED
    BY ONLY SMT, TableIs, <2>3, <2>6 DEF XorWord
<1>12. XorWord(crc32_table[8], crc32_table[9]) = crc32_table[16]
  <2>1. XorHalf(20485, 60856) = XorDigit(5, 14) * 4096 + XorDigit(0, 13) * 256 + XorDigit(0, 11) * 16 + XorDigit(5, 8)
    BY SMT, <1>1 DEF IsHalf
  <2>2. XorDigit(5, 14) = 11 /\ XorDigit(0, 13) = 13 /\ XorDigit(0, 11) = 11 /\ XorDigit(5, 8) = 13
    BY SMT DEF XorDigit
  <2>3. XorHalf(20485, 60856) = 48573
    BY ONLY SMT, <2>1, <2>2
  <2>4. XorHalf(28988, 33568) = XorDigit(7, 8) * 4096 + XorDigit(1, 3) * 256 + XorDigit(3, 2) * 16 + XorDigit(12, 0)
    BY SMT, <1>1 DEF IsHalf
  <2>5. XorDigit(7, 8) = 15 /\ XorDigit(1, 3) = 2 /\ XorDigit(3, 2) = 1 /\ XorDigit(12, 0) = 12
    BY SMT DEF XorDigit
  <2>6. XorHalf(28988, 33568) = 61980
    BY ONLY SMT, <2>4, <2>5
  <2> QED
    BY ONLY SMT, TableIs, <2>3, <2>6 DEF XorWord
<1> QED
  BY ONLY <1>2, <1>3, <1>4, <1>5, <1>6, <1>7, <1>8, <1>9, <1>10, <1>11, <1>12

(* A word that is taken or left by a bit.                                  *)
Masked(c, w) == IF c = 1 THEN w ELSE Zero

(* Zero is a word, even, and its own half.                                 *)
LEMMA ZeroIs ==
  Zero \in Word /\ Halved(Zero) = Zero /\ Zero[2] = 0
<1>1. \A x, y \in Nat : x < 65536 /\ y < 65536 => << x, y >> \in Word
  BY WordIs
<1>2. Zero \in Word
  BY SMT, <1>1 DEF Zero
<1>3. Halved(Zero) = << 0 \div 2, (0 % 2) * 32768 + 0 \div 2 >>
  BY DEF Halved, Zero
<1>4. 0 \div 2 = 0 /\ (0 % 2) * 32768 + 0 \div 2 = 0
  BY SMT
<1>5. Halved(Zero) = Zero
  BY ONLY <1>3, <1>4 DEF Zero
<1> QED
  BY <1>2, <1>5 DEF Zero

(* A masked word is the word or zero.                                      *)
LEMMA MaskedIs ==
  ASSUME NEW c, NEW w \in Word
  PROVE  /\ Masked(c, w) \in Word /\ Halved(Masked(c, w)) = Masked(c, Halved(w))
         /\ (w[2] % 2) = 0 => (Masked(c, w)[2] % 2) = 0
<1>1. 0 % 2 = 0
  OBVIOUS
<1>2. CASE c = 1
  BY <1>2 DEF Masked
<1>3. CASE c # 1
  BY <1>1, <1>3, ZeroIs DEF Masked
<1> QED
  BY <1>2, <1>3

(* The polynomial, halved; its lowest bits are no factor of the quotient.  *)
LEMMA PolynomialIs ==
  /\ Polynomial = crc32_table[9] /\ Halved(crc32_table[9]) = crc32_table[5]
  /\ Halved(crc32_table[5]) = crc32_table[3] /\ Halved(crc32_table[3]) = crc32_table[2]
  /\ crc32_table[9][2] % 2 = 0 /\ crc32_table[5][2] % 2 = 0 /\ crc32_table[3][2] % 2 = 0
  /\ crc32_table[1] = Zero
<1>1. /\ crc32_table[1] = << 0, 0 >> /\ crc32_table[2] = << 7607, 4196 >>
      /\ crc32_table[3] = << 15214, 8392 >> /\ crc32_table[5] = << 30428, 16784 >>
      /\ crc32_table[9] = << 60856, 33568 >>
  BY TableIs
<1>2. Polynomial = << 60856, 33568 >>
  BY DEF Polynomial
<1>3. \A a, x, y : a = << x, y >> => Halved(a) = << x \div 2, (x % 2) * 32768 + y \div 2 >> /\ a[2] = y
  BY DEF Halved
<1>4. /\ 60856 \div 2 = 30428 /\ (60856 % 2) * 32768 + 33568 \div 2 = 16784
      /\ 30428 \div 2 = 15214 /\ (30428 % 2) * 32768 + 16784 \div 2 = 8392
      /\ 15214 \div 2 = 7607 /\ (15214 % 2) * 32768 + 8392 \div 2 = 4196
      /\ 33568 % 2 = 0 /\ 16784 % 2 = 0 /\ 8392 % 2 = 0
  BY ONLY SMT
<1>5. /\ Halved(crc32_table[9]) = << 60856 \div 2, (60856 % 2) * 32768 + 33568 \div 2 >> /\ crc32_table[9][2] = 33568
      /\ Halved(crc32_table[5]) = << 30428 \div 2, (30428 % 2) * 32768 + 16784 \div 2 >> /\ crc32_table[5][2] = 16784
      /\ Halved(crc32_table[3]) = << 15214 \div 2, (15214 % 2) * 32768 + 8392 \div 2 >> /\ crc32_table[3][2] = 8392
  BY ONLY SMT, <1>1, <1>3
<1>6. Halved(crc32_table[9]) = crc32_table[5] /\ (crc32_table[9][2] % 2) = 0
  BY ONLY SMT, <1>1, <1>4, <1>5
<1>7. Halved(crc32_table[5]) = crc32_table[3] /\ (crc32_table[5][2] % 2) = 0
  BY ONLY SMT, <1>1, <1>4, <1>5
<1>8. Halved(crc32_table[3]) = crc32_table[2] /\ (crc32_table[3][2] % 2) = 0
  BY ONLY SMT, <1>1, <1>4, <1>5
<1>9. Polynomial = crc32_table[9] /\ crc32_table[1] = Zero
  BY ONLY SMT, <1>1, <1>2 DEF Zero
<1> QED
  BY ONLY <1>6, <1>7, <1>8, <1>9

(* Division by a bit.                                                      *)
LEMMA DividedBitIs ==
  ASSUME NEW a \in Word, NEW b \in Word, NEW c, (b[2] % 2) = 0
  PROVE  /\ DividedBit(a) = XorWord(Halved(a), Masked(a[2] % 2, Polynomial))
         /\ (XorWord(a, b)[2] % 2) = (a[2] % 2)
<1>1. DividedBit(a) = XorWord(Halved(a), Masked(a[2] % 2, Polynomial))
  <2>1. XorWord(Halved(a), Zero) = Halved(a)
    BY HalvedIs, XorWordLaws
  <2>2. CASE (a[2] % 2) = 1
    BY <2>2 DEF DividedBit, Masked
  <2>3. CASE (a[2] % 2) # 1
    BY <2>1, <2>3 DEF DividedBit, Masked
  <2> QED
    BY <2>2, <2>3
<1>2. (XorWord(a, b)[2] % 2) = (a[2] + b[2]) % 2
  BY HalvedXor
<1>3. a[2] \in Nat /\ b[2] \in Nat
  BY WordIs
<1>4. \A i, j \in Nat : (j % 2) = 0 => (i + j) % 2 = (i % 2)
  OBVIOUS
<1>5. (XorWord(a, b)[2] % 2) = (a[2] % 2)
  BY <1>2, <1>3, <1>4
<1> QED
  BY <1>1, <1>5

(* The word of the table for a digit, by the bits of the digit.            *)
LEMMA TableBits ==
  ASSUME NEW i \in 0 .. 1, NEW j \in 0 .. 1, NEW k \in 0 .. 1, NEW l \in 0 .. 1
  PROVE  crc32_table[8 * l + 4 * k + 2 * j + i + 1]
           = XorWord(XorWord(XorWord(Masked(i, crc32_table[2]), Masked(j, crc32_table[3])),
                             Masked(k, crc32_table[5])), Masked(l, crc32_table[9]))
<1> DEFINE T(n) == crc32_table[n + 1]
<1>1. \A n \in 0 .. 15 : T(n) \in Word
  BY TableType
<1>2. T(0) = Zero
  BY PolynomialIs
<1>3. Masked(0, T(1)) = Zero /\ Masked(1, T(1)) = T(1) /\ Masked(0, T(2)) = Zero /\ Masked(1, T(2)) = T(2)
      /\ Masked(0, T(4)) = Zero /\ Masked(1, T(4)) = T(4) /\ Masked(0, T(8)) = Zero /\ Masked(1, T(8)) = T(8)
  BY DEF Masked
<1>4. \A n \in 0 .. 15 : XorWord(T(n), Zero) = T(n) /\ XorWord(Zero, T(n)) = T(n)
  BY <1>1, XorWordLaws, ZeroIs
<1>5. /\ XorWord(T(1), T(2)) = T(3) /\ XorWord(T(1), T(4)) = T(5) /\ XorWord(T(2), T(4)) = T(6)
      /\ XorWord(T(3), T(4)) = T(7) /\ XorWord(T(1), T(8)) = T(9) /\ XorWord(T(2), T(8)) = T(10)
      /\ XorWord(T(3), T(8)) = T(11) /\ XorWord(T(4), T(8)) = T(12) /\ XorWord(T(5), T(8)) = T(13)
      /\ XorWord(T(6), T(8)) = T(14) /\ XorWord(T(7), T(8)) = T(15)
  BY TableSums
<1> HIDE DEF T
<1> DEFINE two == XorWord(Masked(i, T(1)), Masked(j, T(2)))
           three == XorWord(two, Masked(k, T(4)))
           four == XorWord(three, Masked(l, T(8)))
<1>6. two = T(2 * j + i) /\ 2 * j + i \in 0 .. 3
  BY <1>2, <1>3, <1>4, <1>5
<1> HIDE DEF two
<1> DEFINE m == 2 * j + i
<1>7. m \in 0 .. 3 /\ two = T(m)
  BY <1>6
<1> HIDE DEF m
<1>8. three = T(4 * k + m) /\ 4 * k + m \in 0 .. 7
  <2>1. XorWord(Zero, T(4)) = T(4) /\ XorWord(T(0), Zero) = T(0) /\ XorWord(T(1), Zero) = T(1)
        /\ XorWord(T(2), Zero) = T(2) /\ XorWord(T(3), Zero) = T(3)
    BY <1>4
  <2> QED
    BY <1>2, <1>3, <1>5, <1>7, <2>1
<1> HIDE DEF three
<1> DEFINE n == 4 * k + m
<1>9. n \in 0 .. 7 /\ three = T(n)
  BY <1>8
<1> HIDE DEF n
<1>10. four = T(8 * l + n)
  <2>1. CASE l = 0
    <3>1. XorWord(T(n), Zero) = T(n)
      BY <1>4, <1>9
    <3>2. 8 * l + n = n
      BY <1>9, <2>1
    <3> QED
      BY <1>3, <1>9, <2>1, <3>1, <3>2
  <2>2. CASE l = 1
    <3>1. XorWord(T(0), T(8)) = T(8)
      BY <1>2, <1>4
    <3>2. four = XorWord(T(n), T(8))
      BY <1>3, <1>9, <2>2
    <3>3. 8 * l + n = 8 + n
      BY <2>2
    <3> QED
      BY <1>5, <1>9, <3>1, <3>2, <3>3
  <2> QED
    BY <2>1, <2>2
<1>11. 8 * l + n + 1 = 8 * l + 4 * k + 2 * j + i + 1
  BY DEF n, m
<1> QED
  BY <1>10, <1>11 DEF two, three, four, T

Even(w) == (w[2] % 2) = 0

(* The exclusive or of even words is even.                                 *)
LEMMA EvenXor ==
  ASSUME NEW a \in Word, NEW b \in Word, Even(a), Even(b)
  PROVE  Even(XorWord(a, b))
<1>1. (XorWord(a, b)[2] % 2) = (a[2] + b[2]) % 2
  BY HalvedXor
<1>2. a[2] \in Nat /\ b[2] \in Nat
  BY WordIs
<1>3. \A i, j \in Nat : (i % 2) = 0 /\ (j % 2) = 0 => (i + j) % 2 = 0
  OBVIOUS
<1> QED
  BY <1>1, <1>2, <1>3 DEF Even

(* A bit of the division of a word that has been reduced by e: the         *)
(* remainder e of what went before does not touch the bit that decides.    *)
LEMMA DivideStep ==
  ASSUME NEW h \in Word, NEW e \in Word, Even(e)
  PROVE  DividedBit(XorWord(h, e))
           = XorWord(Halved(h), XorWord(Halved(e), Masked(h[2] % 2, crc32_table[9])))
<1> DEFINE a == XorWord(h, e)  m == Masked(h[2] % 2, crc32_table[9])
<1>1. a \in Word
  BY XorWordType
<1>2. crc32_table[9] \in Word
  <2>1. crc32_table[8 + 1] \in Word
    BY TableType
  <2> QED
    BY <2>1
<1>3. (a[2] % 2) = (h[2] % 2)
  BY DividedBitIs DEF Even
<1>4. DividedBit(a) = XorWord(Halved(a), Masked(a[2] % 2, Polynomial))
  BY <1>1, ZeroIs, DividedBitIs
<1>5. Halved(a) = XorWord(Halved(h), Halved(e))
  BY HalvedXor
<1>6. m \in Word
  BY <1>2, MaskedIs
<1>7. Polynomial = crc32_table[9]
  BY PolynomialIs
<1>8. Masked(a[2] % 2, Polynomial) = m
  BY <1>3, <1>7
<1> HIDE DEF a, m
<1>9. XorWord(XorWord(Halved(h), Halved(e)), m) = XorWord(Halved(h), XorWord(Halved(e), m))
  BY <1>6, HalvedIs, XorWordLaws
<1> QED
  BY <1>4, <1>5, <1>8, <1>9 DEF a, m

(* Division by a digit, as the table has it.                               *)
LEMMA DividedDigitIs ==
  ASSUME NEW y \in Word
  PROVE  DividedDigit(y) = XorWord(crc32_table[(y[2] % 16) + 1], Shifted(y))
<1> DEFINE h1 == Halved(y)  h2 == Halved(h1)  h3 == Halved(h2)
           i == y[2] % 2  j == h1[2] % 2  k == h2[2] % 2  l == h3[2] % 2
           a == crc32_table[2]  b == crc32_table[3]  c == crc32_table[5]  d == crc32_table[9]
           e1 == Masked(i, d)
           e2 == XorWord(Masked(i, c), Masked(j, d))
           e3 == XorWord(XorWord(Masked(i, b), Masked(j, c)), Masked(k, d))
           e4 == XorWord(XorWord(XorWord(Masked(i, a), Masked(j, b)), Masked(k, c)), Masked(l, d))
<1>1. a \in Word /\ b \in Word /\ c \in Word /\ d \in Word
  <2>1. crc32_table[1 + 1] \in Word /\ crc32_table[2 + 1] \in Word /\ crc32_table[4 + 1] \in Word /\ crc32_table[8 + 1] \in Word
    BY TableType
  <2> QED
    BY <2>1
<1>2. Halved(d) = c /\ Halved(c) = b /\ Halved(b) = a /\ Even(b) /\ Even(c) /\ Even(d)
  BY PolynomialIs DEF Even
<1>3. h1 \in Word /\ h2 \in Word /\ h3 \in Word
  BY HalvedIs
<1>4. Shifted(y) = Halved(h3)
  BY ShiftedHalved
<1>5. DividedDigit(y) = DividedBit(DividedBit(DividedBit(DividedBit(y))))
  BY DEF DividedDigit
<1>6. y[2] \in Nat /\ j = (y[2] \div 2) % 2 /\ k = (y[2] \div 4) % 2 /\ l = (y[2] \div 8) % 2
  <2>1. y[2] \in Nat
    BY WordIs
  <2> QED
    BY <2>1, ShiftedHalved
<1>7. i \in 0 .. 1 /\ j \in 0 .. 1 /\ k \in 0 .. 1 /\ l \in 0 .. 1 /\ (y[2] % 16) = 8 * l + 4 * k + 2 * j + i
  <2>1. \A x \in Nat : /\ (x % 4) = 2 * ((x \div 2) % 2) + (x % 2)
                       /\ (x % 8) = 4 * ((x \div 4) % 2) + (x % 4)
                       /\ (x % 16) = 8 * ((x \div 8) % 2) + (x % 8)
                       /\ (x % 2) \in 0 .. 1 /\ (x \div 2) % 2 \in 0 .. 1
                       /\ (x \div 4) % 2 \in 0 .. 1 /\ (x \div 8) % 2 \in 0 .. 1
    BY SMT
  <2> HIDE DEF j, k, l
  <2>2. i \in 0 .. 1 /\ j \in 0 .. 1 /\ k \in 0 .. 1 /\ l \in 0 .. 1
    BY <1>6, <2>1
  <2>3. (y[2] % 16) = 8 * l + (4 * k + (2 * j + i))
    BY <1>6, <2>1
  <2> QED
    BY <2>2, <2>3
<1>8. crc32_table[(y[2] % 16) + 1] = e4
  <2> HIDE DEF i, j, k, l
  <2> QED
    BY <1>7, TableBits
<1> HIDE DEF h1, h2, h3, i, j, k, l, a, b, c, d
<1>9. \A q, w : w \in Word => Masked(q, w) \in Word /\ Halved(Masked(q, w)) = Masked(q, Halved(w))
                                /\ (Even(w) => Even(Masked(q, w)))
  BY MaskedIs DEF Even
<1>10. \A u, v \in Word : XorWord(u, v) \in Word /\ Halved(XorWord(u, v)) = XorWord(Halved(u), Halved(v))
                          /\ (Even(u) /\ Even(v) => Even(XorWord(u, v)))
  BY XorWordType, HalvedXor, EvenXor
<1>11. /\ Masked(i, a) \in Word /\ Masked(i, b) \in Word /\ Masked(i, c) \in Word /\ Masked(i, d) \in Word
       /\ Masked(j, b) \in Word /\ Masked(j, c) \in Word /\ Masked(j, d) \in Word
       /\ Masked(k, c) \in Word /\ Masked(k, d) \in Word /\ Masked(l, d) \in Word
       /\ Even(Masked(i, b)) /\ Even(Masked(i, c)) /\ Even(Masked(i, d))
       /\ Even(Masked(j, c)) /\ Even(Masked(j, d)) /\ Even(Masked(k, d))
  BY <1>1, <1>2, <1>9
<1>12. /\ Halved(Masked(i, d)) = Masked(i, c) /\ Halved(Masked(i, c)) = Masked(i, b) /\ Halved(Masked(i, b)) = Masked(i, a)
       /\ Halved(Masked(j, d)) = Masked(j, c) /\ Halved(Masked(j, c)) = Masked(j, b) /\ Halved(Masked(k, d)) = Masked(k, c)
  BY <1>1, <1>2, <1>9
<1>13. DividedBit(y) = XorWord(h1, e1)
  <2>1. DividedBit(y) = XorWord(Halved(y), Masked(y[2] % 2, Polynomial))
    BY ZeroIs, DividedBitIs
  <2> QED
    BY <2>1, PolynomialIs DEF h1, i, d
<1>14. e1 \in Word /\ Even(e1) /\ XorWord(Halved(e1), Masked(j, d)) = e2
  BY <1>11, <1>12
<1>15. e2 \in Word /\ Even(e2) /\ XorWord(Halved(e2), Masked(k, d)) = e3
  <2>1. e2 \in Word /\ Even(e2) /\ Halved(e2) = XorWord(Masked(i, b), Masked(j, c))
    BY <1>10, <1>11, <1>12
  <2> QED
    BY <2>1
<1>16. e3 \in Word /\ Even(e3) /\ XorWord(Halved(e3), Masked(l, d)) = e4
  <2> DEFINE u == XorWord(Masked(i, b), Masked(j, c))
  <2>1. u \in Word /\ Even(u) /\ Halved(u) = XorWord(Masked(i, a), Masked(j, b))
    BY <1>10, <1>11, <1>12
  <2>2. e3 = XorWord(u, Masked(k, d))
    OBVIOUS
  <2> HIDE DEF u
  <2>3. e3 \in Word /\ Even(e3) /\ Halved(e3) = XorWord(Halved(u), Masked(k, c))
    BY ONLY <1>10, <1>11, <1>12, <2>1, <2>2
  <2> QED
    BY <2>1, <2>3
<1> HIDE DEF e1, e2, e3, e4
<1>17. DividedBit(XorWord(h1, e1)) = XorWord(h2, e2)
  BY <1>3, <1>14, DivideStep DEF h2, j, d
<1>18. DividedBit(XorWord(h2, e2)) = XorWord(h3, e3)
  BY <1>3, <1>15, DivideStep DEF h3, k, d
<1>19. DividedBit(XorWord(h3, e3)) = XorWord(Halved(h3), e4)
  BY <1>3, <1>16, DivideStep DEF l, d
<1>20. e4 \in Word
  <2>1. (y[2] % 16) \in 0 .. 15
    BY <1>6
  <2>2. crc32_table[(y[2] % 16) + 1] \in Word
    BY <2>1, TableType
  <2> QED
    BY <1>8, <2>2
<1>21. DividedDigit(y) = XorWord(Shifted(y), e4)
  BY <1>4, <1>5, <1>13, <1>17, <1>18, <1>19
<1>22. XorWord(Shifted(y), e4) = XorWord(e4, Shifted(y))
  BY <1>20, ShiftedType, XorWordLaws
<1> QED
  BY <1>8, <1>21, <1>22

(* A byte as a word.                                                       *)
LEMMA ByteWord ==
  ASSUME NEW b \in Byte
  PROVE  /\ W(b) = << 0, b >> /\ W(b) \in Word /\ b \div 16 \in Byte /\ b \div 16 < 16
         /\ Shifted(W(b)) = W(b \div 16) /\ W(0) = Zero
<1>1. \A n \in Nat : n < 256 => (n \div 65536) % 65536 = 0 /\ (n % 65536) = n
  BY SMT
<1>2. \A n \in Byte : W(n) = << 0, n >>
  <2> TAKE n \in Byte
  <2>1. n \in Nat /\ n < 256
    BY BelowByte
  <2>2. (n \div 65536) % 65536 = 0 /\ (n % 65536) = n
    BY <1>1, <2>1
  <2>3. W(n) = << (n \div 65536) % 65536, n % 65536 >>
    BY SMT DEF W, Half
  <2> QED
    BY ONLY <2>2, <2>3
<1>3. b \div 16 \in Byte /\ b \div 16 < 16 /\ 0 \in Byte
  BY SMT, BelowByte
<1>4. W(b) = << 0, b >> /\ W(b \div 16) = << 0, b \div 16 >> /\ W(0) = << 0, 0 >>
  BY <1>2, <1>3
<1>5. Shifted(W(b)) = << 0 \div 16, (0 % 16) * 4096 + b \div 16 >>
  BY <1>4 DEF Shifted
<1>6. 0 \div 16 = 0 /\ (0 % 16) * 4096 + b \div 16 = b \div 16
  <2>1. b \div 16 \in Nat
    BY <1>3, BelowByte
  <2> QED
    BY SMT, <2>1
<1>7. Shifted(W(b)) = W(b \div 16)
  BY ONLY <1>4, <1>5, <1>6
<1>8. W(b) \in Word
  <2>1. b \in Nat
    BY BelowByte
  <2> QED
    BY <2>1, WType
<1> QED
  BY <1>3, <1>4, <1>7, <1>8 DEF Zero

(* Shifting by a digit distributes over the exclusive or of words.         *)
LEMMA ShiftedXor ==
  ASSUME NEW a \in Word, NEW b \in Word
  PROVE  Shifted(XorWord(a, b)) = XorWord(Shifted(a), Shifted(b))
<1>1. \A x \in Word : Halved(x) \in Word /\ Shifted(x) = Halved(Halved(Halved(Halved(x))))
  BY HalvedIs, ShiftedHalved
<1>2. \A x, y \in Word : Halved(XorWord(x, y)) = XorWord(Halved(x), Halved(y)) /\ XorWord(x, y) \in Word
  BY HalvedXor, XorWordType
<1> QED
  BY ONLY <1>1, <1>2, a \in Word, b \in Word

(* The table does the division of one digit of a byte.                     *)
LEMMA DigitDivides ==
  ASSUME NEW x \in Word, NEW b \in Byte
  PROVE  DividedDigit(XorWord(x, W(b))) = XorWord(Digit(x, b % 16), W(b \div 16))
<1> DEFINE w == W(b)  y == XorWord(x, w)  v == W(b \div 16)  t == crc32_table[XorByte(x[2] % 16, b % 16) + 1]
<1>1. w = << 0, b >> /\ w \in Word /\ Shifted(w) = v /\ b \div 16 \in Byte
  BY ByteWord
<1>2. v \in Word
  BY <1>1, ByteWord
<1>3. y \in Word /\ Shifted(y) = XorWord(Shifted(x), Shifted(w))
  BY <1>1, XorWordType, ShiftedXor
<1>4. IsHalf(x[2]) /\ IsHalf(b)
  <2>1. \A n \in Nat : n < 256 => n < 65536
    BY SMT
  <2> QED
    BY WordIs, BelowByte, <2>1 DEF IsHalf
<1>5. y[2] = XorHalf(x[2], b)
  BY <1>1 DEF XorWord
<1>6. (y[2] % 16) = XorByte(x[2] % 16, b % 16) /\ XorByte(x[2] % 16, b % 16) \in 0 .. 15
  <2> DEFINE p == x[2] % 256  q == b % 256  z == XorHalf(x[2], b)
  <2>1. p \in Byte /\ q \in Byte
    BY <1>4, BytesOf
  <2>2. (z % 256) = XorByte(p, q) /\ IsHalf(z)
    BY <1>4, XorHalfIs
  <2> HIDE DEF z
  <2>3. \A n \in Nat : ((n % 256) % 16) = (n % 16) /\ (n % 16) \in 0 .. 15
    BY SMT
  <2>4. (p % 16) = (x[2] % 16) /\ (q % 16) = (b % 16) /\ (z % 16) = ((z % 256) % 16)
        /\ (x[2] % 16) \in 0 .. 15 /\ (b % 16) \in 0 .. 15
    BY <1>4, <2>2, <2>3 DEF IsHalf
  <2> HIDE DEF p, q
  <2>5. (XorByte(p, q) % 16) = XorDigit(p % 16, q % 16)
    BY <2>1, XorByteIs
  <2> DEFINE m == x[2] % 16  n == b % 16
  <2>6. m \in 0 .. 15 /\ n \in 0 .. 15 /\ (z % 16) = XorDigit(m, n)
    BY <2>2, <2>4, <2>5
  <2> HIDE DEF m, n
  <2>7. XorByte(m, n) = XorDigit(m, n) /\ XorDigit(m, n) \in 0 .. 15
    BY <2>6, LowDigit
  <2> QED
    BY <1>5, <2>6, <2>7 DEF z, m, n
<1> HIDE DEF y, w, v
<1>7. DividedDigit(y) = XorWord(crc32_table[(y[2] % 16) + 1], Shifted(y))
  BY <1>3, DividedDigitIs
<1>8. t \in Word
  BY <1>6, TableType
<1>9. crc32_table[(y[2] % 16) + 1] = t
  BY <1>6
<1>10. Digit(x, b % 16) = XorWord(t, Shifted(x))
  BY DEF Digit
<1> HIDE DEF t
<1>11. XorWord(XorWord(t, Shifted(x)), v) = XorWord(t, XorWord(Shifted(x), v))
  BY <1>2, <1>8, ShiftedType, XorWordLaws
<1> QED
  BY <1>1, <1>3, <1>7, <1>9, <1>10, <1>11 DEF y, w, v

(* update() is the division of one byte, ...                               *)
LEMMA UpdateDivided == update = Divided
<1>1. ASSUME NEW x \in Word, NEW d \in Byte
      PROVE  Digit(Digit(x, d % 16), d \div 16) = DividedDigit(DividedDigit(XorWord(x, W(d))))
  <2> DEFINE l == d % 16  h == d \div 16  z == Digit(x, l)
  <2>1. l \in 0 .. 15 /\ h \in 0 .. 15
    BY DigitsOf
  <2>2. h \in Byte /\ (h % 16) = h /\ h \div 16 = 0
    BY <2>1, BelowByte
  <2>3. z \in Word
    BY <2>1, DigitType
  <2>4. DividedDigit(XorWord(x, W(d))) = XorWord(z, W(h))
    BY DigitDivides
  <2> HIDE DEF z, l, h
  <2>5. DividedDigit(XorWord(z, W(h))) = XorWord(Digit(z, h), W(0))
    BY <2>2, <2>3, DigitDivides
  <2>6. Digit(z, h) \in Word
    BY <2>1, <2>3, DigitType
  <2>7. XorWord(Digit(z, h), W(0)) = Digit(z, h)
    BY <2>6, ByteWord, XorWordLaws
  <2> QED
    BY <2>4, <2>5, <2>7 DEF z, l, h
<1>2. update = [x \in Word |-> [d \in Byte |-> Digit(Digit(x, d % 16), d \div 16)]]
  BY DEF update
<1>3. Divided = [x \in Word |-> [d \in Byte |-> DividedDigit(DividedDigit(XorWord(x, W(d))))]]
  BY DEF Divided
<1>4. \A x \in Word : [d \in Byte |-> Digit(Digit(x, d % 16), d \div 16)]
                        = [d \in Byte |-> DividedDigit(DividedDigit(XorWord(x, W(d))))]
  BY <1>1
<1> QED
  BY <1>2, <1>3, <1>4

(* ... and so calculate() is the CRC-32, of data of any length.            *)
THEOREM CalculateIsCrc ==
  ASSUME NEW data
  PROVE  calculate(data) = Crc(data)
<1> DEFINE Run(g) == LET state[n \in 0 .. Len(data)] == IF n = 0 THEN Ones ELSE g[state[n - 1]][data[n]]
                     IN  state[Len(data)]
<1>1. Updated(data) = Run(update)
  BY DEF Updated
<1>2. Remainder(data) = Run(Divided)
  BY DEF Remainder
<1> HIDE DEF Run
<1>3. Updated(data) = Remainder(data)
  BY <1>1, <1>2, UpdateDivided
<1> QED
  BY <1>3 DEF calculate, Crc

(* Every message that is made has the CRC-32 of its body, and what         *)
(* protobuf writes of it is as long as it says and reads back as it was;   *)
(* so are the request and the answer that are its body.                    *)
THEOREM AllWellFormed == Spec => []WellFormed
<1>1. Inv => WellFormed
  <2> SUFFICES ASSUME Inv, NEW s \in Sessions
      PROVE  /\ made[s] # Clear =>
                  made[s].check_sum = Crc(made[s].body) /\ Mirrors(made[s], ProxyMsgSerialize(made[s]))
             /\ stage[s] = "asked" => MirrorsReq(ProxyConnectReqMerge(made[s].body).msg, made[s].body)
             /\ stage[s] = "answered" => MirrorsRsp(ProxyConnectRspMerge(made[s].body).msg, made[s].body)
    BY DEF WellFormed
  <2> DEFINE m == made[s]
  <2>1. Typed /\ Reached(s) /\ Linked(s)
    BY DEF Inv
  <2>2. /\ m # Clear => Made(m)
        /\ stage[s] = "asked" => Asked(m, s)
        /\ stage[s] = "answered" => Answered(m)
    BY <2>1 DEF Linked
  <2> HIDE DEF m
  <2>3. ASSUME Made(m) PROVE m["check_sum"] = Crc(m["body"]) /\ Mirrors(m, ProxyMsgSerialize(m))
    <3>1. PICK padding \in Padding : Package(m, m["cmd"], m["subcmd"], m["seq"], m["body"], padding)
      BY <2>3 DEF Made
    <3>2. /\ m["cmd"] \in Word /\ m["subcmd"] \in Word /\ m["seq"] \in Word
          /\ m["body"] \in Seq(Byte) /\ Len(m["body"]) \in Lengths
      BY <2>3 DEF Made
    <3>3. padding \in Seq(Byte) /\ Len(padding) \in Lengths
      BY PaddingIs
    <3>4. m \in MessagesOf(ProxyMsgFields) /\ Short(ProxyMsgFields, m)
      BY <3>1, <3>2, <3>3, PackageType
    <3>5. m["check_sum"] = Crc(m["body"])
      BY <3>1, CalculateIsCrc DEF Package
    <3>6. ProxyMsgByteSize(m) = Len(ProxyMsgSerialize(m))
      BY <3>4, TablesOK, ByteSizeIs DEF ProxyMsgByteSize, ProxyMsgSerialize
    <3>7. ProxyMsgMerge(ProxyMsgSerialize(m)) = Result("ended", m)
      BY <3>4, TablesOK, MergedSerialized DEF ProxyMsgMerge, ProxyMsgSerialize, ProxyMsgClear
    <3>8. Result("ended", m).msg = m
      BY DEF Result
    <3> QED
      BY <3>5, <3>6, <3>7, <3>8 DEF Mirrors
  <2>4. ASSUME stage[s] = "asked" PROVE MirrorsReq(ProxyConnectReqMerge(m["body"]).msg, m["body"])
    <3>1. m["body"] = RequestBody(s)
      BY <2>2, <2>4 DEF Asked, Package
    <3>2. s \in DOMAIN deployment.asks /\ Running(local)
      BY <2>1, <2>4 DEF Reached
    <3>3. /\ ProxyConnectReqMerge(RequestBody(s)) = Result("ended", RequestOf(s))
          /\ ProxyConnectReqByteSize(RequestOf(s)) = Len(RequestBody(s))
      BY <2>1, <3>2, RequestBodyIs
    <3>4. Result("ended", RequestOf(s)).msg = RequestOf(s)
      BY DEF Result
    <3>5. ProxyConnectReqSerialize(RequestOf(s)) = RequestBody(s)
      BY DEF RequestBody
    <3> QED
      BY <3>1, <3>3, <3>4, <3>5 DEF MirrorsReq
  <2>5. ASSUME stage[s] = "answered" PROVE MirrorsRsp(ProxyConnectRspMerge(m["body"]).msg, m["body"])
    <3>1. m["body"] = ProxyConnectRspSerialize(Answer)
      BY <2>2, <2>5 DEF Answered
    <3>2. /\ ProxyConnectRspMerge(m["body"]) = Result("ended", Answer)
          /\ ProxyConnectRspByteSize(Answer) = Len(m["body"])
      BY <3>1, AnswerRead
    <3>3. Result("ended", Answer).msg = Answer
      BY DEF Result
    <3> QED
      BY <3>1, <3>2, <3>3 DEF MirrorsRsp
  <2> QED
    BY <2>2, <2>3, <2>4, <2>5 DEF m
<1> QED
  BY <1>1, Invariant, PTL

(* While both run with codecs that do the same, tun_remote serves only     *)
(* users of its list, dials the name or the IPv6 host asked for, and the   *)
(* port of a name, and data come as sent (Session.cpp:112).                *)
THEOREM AlikeServed == Spec => [](Alike => ServedAsAsked)
<1>1. Inv => (Alike => ServedAsAsked)
  <2> SUFFICES ASSUME Inv, Alike PROVE ServedAsAsked
    OBVIOUS
  <2>1. ASSUME NEW s \in Sessions
        PROVE  /\ dialled[s] # Nobody =>
                    /\ IsUser(local.setting)
                    /\ asks(s).type = 3 => dialled[s] = [host |-> asks(s).host, port |-> asks(s).port]
                    /\ asks(s).type = 4 => dialled[s].host = to_string(asks(s).host)
               /\ delivered[s] \in {<< >>, Data}
               /\ stage[s] = "answered" => made[s].seq = W(number[s])
    <3>1. Served(s)
      BY DEF Inv
    <3>2. asks(s).type = 3 => addressOf(asks(s)) = asks(s).host /\ reqPort(s) = asks(s).port
      BY DEF addressOf, reqPort
    <3>3. asks(s).type = 4 => addressOf(asks(s)) = to_string(asks(s).host)
      BY DEF addressOf
    <3> QED
      BY <3>1, <3>2, <3>3 DEF Served
  <2> QED
    BY <2>1 DEF ServedAsAsked
<1> QED
  BY <1>1, Invariant, PTL
==============================================================================
