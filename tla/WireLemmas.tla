----------------------------- MODULE WireLemmas -----------------------------
(***************************************************************************)
(* What the operators of Wire and Streams return, and what those of        *)
(* AsioSession do to the phases of a session: the facts the proofs about   *)
(* both sessions rest on.                                                  *)
(***************************************************************************)
EXTENDS AsioSession, Streams, SequenceTheorems, FiniteSetTheorems,
        WellFoundedInduction, TLAPS

(* What a read takes off a stream, and what it leaves.                     *)
LEMMA CutType ==
  ASSUME NEW S, NEW s \in Seq(S), NEW k \in 1 .. Len(s)
  PROVE  /\ SubSeq(s, 1, k) \in Seq(S)
         /\ Len(SubSeq(s, 1, k)) = k
         /\ SubSeq(s, k + 1, Len(s)) \in Seq(S)
<1>1. Len(s) \in Nat /\ k \in Nat
  BY LenProperties
<1>2. \A i \in 1 .. Len(s) : s[i] \in S
  BY ElementOfSeq
<1> QED
  BY <1>1, <1>2, SubSeqProperties

(* A buffer grows by what a read brings.                                   *)
LEMMA BufferType ==
  ASSUME NEW S, NEW buf \in Seq(S), NEW s \in Seq(S), NEW k \in 1 .. Len(s)
  PROVE  /\ buf \o SubSeq(s, 1, k) \in Seq(S)
         /\ Len(buf \o SubSeq(s, 1, k)) = Len(buf) + k
BY CutType, ConcatProperties

(* A buffer that grew still begins where it did.                           *)
LEMMA BufferStarts ==
  ASSUME NEW S, NEW b \in Seq(S), NEW s \in Seq(S), NEW k \in 1 .. Len(s)
  PROVE  /\ b \o SubSeq(s, 1, k) # << >>
         /\ (b \o SubSeq(s, 1, k))[1] = (IF b # << >> THEN b[1] ELSE s[1])
         /\ s # << >>
<1> DEFINE x == SubSeq(s, 1, k)
<1>1. Len(b) \in Nat /\ Len(s) \in Nat /\ k \in Nat \ {0} /\ s # << >>
  BY LenProperties
<1>2. x \in Seq(S) /\ Len(x) = k /\ x[1] = s[1]
  BY <1>1, CutType, SubSeqProperties
<1> HIDE DEF x
<1>3. Len(b \o x) = Len(b) + k
  BY <1>2, ConcatProperties
<1>4. 1 \in 1 .. Len(b) + Len(x)
  BY <1>1, <1>2
<1>5. (b \o x)[1] = (IF 1 <= Len(b) THEN b[1] ELSE x[1 - Len(b)])
  BY <1>2, <1>4, ConcatProperties
<1>6. b # << >> <=> 1 <= Len(b)
  BY <1>1, EmptySeq
<1>7. CASE b = << >>
  <2>1. Len(b) = 0
    BY <1>7, EmptySeq
  <2> QED
    BY <1>1, <1>2, <1>3, <1>5, <2>1, <1>7, EmptySeq
<1>8. CASE b # << >>
  BY <1>1, <1>3, <1>5, <1>6, <1>8, EmptySeq
<1> QED
  BY <1>1, <1>7, <1>8 DEF x

(* A sequence of two.                                                      *)
LEMMA PairOf ==
  ASSUME NEW S, NEW d \in S, NEW e \in S
  PROVE  /\ Len(<< d >> \o << e >>) = 2
         /\ (<< d >> \o << e >>)[1] = d /\ (<< d >> \o << e >>)[2] = e
<1>1. << d >> \in Seq(S) /\ << e >> \in Seq(S)
  OBVIOUS
<1>2. Len(<< d >>) = 1 /\ Len(<< e >>) = 1 /\ << d >>[1] = d /\ << e >>[1] = e
  OBVIOUS
<1>3. 1 \in 1 .. 1 + 1 /\ 2 \in 1 .. 1 + 1
  OBVIOUS
<1> QED
  BY <1>1, <1>2, <1>3, ConcatProperties

(* The rest of a sequence.                                                 *)
LEMMA RestType ==
  ASSUME NEW S, NEW s \in Seq(S), NEW n \in Nat
  PROVE  SubSeq(s, n + 1, Len(s)) \in Seq(S)
<1>1. Len(s) \in Nat
  BY LenProperties
<1>2. \A i \in n + 1 .. Len(s) : s[i] \in S
  BY <1>1, ElementOfSeq
<1> QED
  BY <1>1, <1>2, SubSeqProperties

(* What a read moves from a stream to the buffer stays in their sequence.  *)
LEMMA ReadMoves ==
  ASSUME NEW S, NEW b \in Seq(S), NEW s \in Seq(S), NEW k \in 1 .. Len(s)
  PROVE  (b \o SubSeq(s, 1, k)) \o SubSeq(s, k + 1, Len(s)) = b \o s
<1> DEFINE x == SubSeq(s, 1, k)
           y == SubSeq(s, k + 1, Len(s))
<1>1. Len(s) \in Nat /\ k \in Nat /\ k \in 1 - 1 .. Len(s) /\ 1 \in 1 .. Len(s) + 1
      /\ Len(s) \in k .. Len(s)
  BY LenProperties
<1>2. x \o y = SubSeq(s, 1, Len(s))
  BY <1>1, ConcatAdjacentSubSeq
<1>3. x \o y = s
  BY <1>2, SubSeqFull
<1>4. x \in Seq(S) /\ y \in Seq(S)
  BY CutType
<1>5. ASSUME NEW u \in Seq(S), NEW w \in Seq(S)
      PROVE  (b \o u) \o w = b \o (u \o w)
  BY ConcatAssociative
<1> HIDE DEF x, y
<1>6. (b \o x) \o y = b \o (x \o y)
  BY <1>4, <1>5
<1>7. (b \o x) \o y = b \o s
  BY <1>3, <1>6
<1> QED
  BY <1>7 DEF x, y

(* What a receiver takes off a stream is behind what it received before.   *)
LEMMA ReceiveMoves ==
  ASSUME NEW S, NEW b \in Seq(S), NEW s \in Seq(S), s # << >>
  PROVE  Append(b, Head(s)) \o Tail(s) = b \o s
<1> DEFINE h == Head(s)
           t == Tail(s)
<1>1. h \in S /\ t \in Seq(S) /\ << h >> \in Seq(S)
  BY HeadTailProperties
<1>2. << h >> \o t = s
  <2>1. Len(<< h >> \o t) = Len(s)
    BY <1>1, HeadTailProperties, ConcatProperties, LenProperties
  <2>2. ASSUME NEW n \in 1 .. Len(s) PROVE (<< h >> \o t)[n] = s[n]
    BY <1>1, HeadTailProperties, ConcatProperties, LenProperties
  <2>3. << h >> \o t \in Seq(S)
    BY <1>1, ConcatProperties
  <2> QED
    BY <2>1, <2>2, <2>3, SeqEqual
<1>3. Append(b, h) = b \o << h >>
  BY <1>1, AppendIsConcat
<1>4. (b \o << h >>) \o t = b \o (<< h >> \o t)
  BY <1>1, ConcatAssociative
<1> QED
  BY <1>2, <1>3, <1>4

(* What is sent comes behind what was received and what is on its way.     *)
LEMMA SendMoves ==
  ASSUME NEW S, NEW b \in Seq(S), NEW q \in Seq(S), NEW x \in Seq(S), NEW end
  PROVE  /\ end = "up" => b \o Sent(end, q, x) = (b \o q) \o x
         /\ end # "up" => b \o Sent(end, q, x) = b \o q
<1>1. (b \o q) \o x = b \o (q \o x)
  BY ConcatAssociative
<1> QED
  BY <1>1 DEF Sent

(* Whatever follows, the first two elements stay where they are.           *)
LEMMA FrontStays ==
  ASSUME NEW S, NEW b \in Seq(S), NEW r \in Seq(S), Len(b) >= 2
  PROVE  /\ Len(b \o r) >= 2
         /\ (b \o r)[1] = b[1] /\ (b \o r)[2] = b[2]
<1>1. Len(b) \in Nat /\ Len(r) \in Nat
  BY LenProperties
<1>2. 1 \in 1 .. Len(b) + Len(r) /\ 2 \in 1 .. Len(b) + Len(r)
  BY <1>1
<1> QED
  BY <1>1, <1>2, ConcatProperties

(* Cells, messages and what they become on the link have their types.      *)
LEMMA CellType ==
  ASSUME NEW type \in CellTypes, NEW val \in Nat
  PROVE  C(type, val) \in Cell
BY DEF C, Cell

(* A sequence of one element.                                              *)
LEMMA SingletonType ==
  ASSUME NEW S, NEW e \in S
  PROVE  << e >> \in Seq(S)
OBVIOUS

(* The two kinds of message.                                               *)
LEMMA FrameType ==
  ASSUME NEW cells \in Seq(Cell)
  PROVE  ConnectMsg(cells) \in Frame /\ DataMsg(cells) \in Frame
BY DEF ConnectMsg, DataMsg, Frame

(* The pieces of a message.                                                *)
LEMMA EncodedType ==
  ASSUME NEW f \in Frame
  PROVE  Encoded(f) \in Seq(Piece)
<1>1. [f |-> f, half |-> 1] \in Piece /\ [f |-> f, half |-> 2] \in Piece
  BY DEF Piece
<1> QED
  BY <1>1 DEF Encoded

(* What async_write leaves on a connection.                                *)
LEMMA SentType ==
  ASSUME NEW S, NEW q \in Seq(S), NEW x \in Seq(S), NEW end
  PROVE  Sent(end, q, x) \in Seq(S)
BY ConcatProperties DEF Sent

(* What is left of a receive buffer.                                       *)
LEMMA AfterType ==
  ASSUME NEW b \in Seq(Piece), NEW n \in Nat
  PROVE  After(b, n) \in Seq(Piece)
<1>1. 2 * n \in Nat
  OBVIOUS
<1> QED
  BY <1>1, RestType DEF After

(* The frames of a buffer are counted in pairs of its pieces.              *)
LEMMA WholeType ==
  ASSUME NEW b \in Seq(Piece)
  PROVE  Whole(b) \in Nat /\ 2 * Whole(b) <= Len(b)
<1>1. Len(b) \in Nat
  BY LenProperties
<1> QED
  BY <1>1 DEF Whole

(* A drain loop takes off no more messages than the buffer holds, and each *)
(* of them is one.                                                         *)
LEMMA ExtractsType ==
  ASSUME NEW b \in Seq(Piece), NEW len, NEW n \in Extracts(b, len)
  PROVE  /\ n \in Nat /\ 2 * n <= Len(b)
         /\ \A i \in 1 .. n : FrameOk(b, i)
         /\ len \in Check(After(b, n))
<1>1. Len(b) \in Nat /\ Whole(b) \in Nat /\ 2 * Whole(b) <= Len(b)
  BY WholeType, LenProperties
<1>2. n \in 0 .. Whole(b)
  BY DEF Extracts
<1>3. (\A i \in 1 .. n : FrameOk(b, i)) /\ len \in Check(After(b, n))
  BY DEF Extracts
<1> QED
  BY <1>1, <1>2, <1>3

(* What check() may answer says of the buffer.                             *)
LEMMA CheckSays ==
  ASSUME NEW b
  PROVE  /\ -1 \in Check(b) => Garbled(b)
         /\ 0 \in Check(b) => Garbled(b) \/ Len(b) < 2
         /\ 2 \in Check(b) => Garbled(b) \/ ~ Len(b) < 2
BY DEF Check

(* A frame that checks is no garbled beginning.                            *)
LEMMA WholeIsFound ==
  ASSUME NEW b, FrameOk(b, 1)
  PROVE  ~ Garbled(b) /\ Intact(b, 1)
BY DEF FrameOk, Garbled

(* Garbled bytes stay what they are, whatever follows.                     *)
LEMMA GarbledStays ==
  ASSUME NEW b \in Seq(Piece), NEW x \in Seq(Piece), Garbled(b)
  PROVE  Garbled(b \o x)
<1> DEFINE c == b \o x
<1>1. b # << >> /\ ~ Intact(b, 1) /\ (Len(b) = 1 => b[1].half = 2 \/ b[1].f.sub = 0)
  BY DEF Garbled
<1>2. Len(b) \in Nat /\ Len(x) \in Nat /\ Len(b) # 0
  BY <1>1, LenProperties, EmptySeq
<1>3. /\ c \in Seq(Piece) /\ Len(c) = Len(b) + Len(x)
      /\ \A i \in 1 .. Len(b) + Len(x) : c[i] = IF i <= Len(b) THEN b[i] ELSE x[i - Len(b)]
  BY ConcatProperties
<1> HIDE DEF c
<1>4. c[1] = b[1] /\ Len(c) # 0
  BY <1>2, <1>3
<1>5. c # << >>
  BY <1>3, <1>4, EmptySeq
<1>6. 2 * 1 = 2 /\ 2 * 1 - 1 = 1
  OBVIOUS
<1> SUFFICES Garbled(c)
  BY DEF c
<1>7. CASE Len(b) = 1
  <2>1. c[1].half = 2 \/ c[1].f.sub = 0
    BY <1>1, <1>4, <1>7
  <2>2. ~ Intact(c, 1)
    BY <1>6, <2>1 DEF Intact
  <2> QED
    BY <1>5, <2>1, <2>2 DEF Garbled
<1>8. CASE Len(b) # 1
  <2>a. ASSUME NEW l \in Nat, NEW r \in Nat, l # 0, l # 1
        PROVE  l >= 2 /\ 2 \in 1 .. l + r /\ 2 <= l
    BY ONLY <2>a
  <2>0. Len(b) >= 2 /\ 2 \in 1 .. Len(b) + Len(x) /\ 2 <= Len(b)
    BY <1>2, <1>8, <2>a
  <2>1. Len(b) >= 2 /\ c[2] = b[2] /\ Len(c) >= 2 /\ Len(c) # 1
    BY ONLY <1>2, <1>3, <2>0
  <2>2. ~ Intact(c, 1)
    BY <1>1, <1>4, <1>6, <2>1 DEF Intact
  <2> QED
    BY <1>5, <2>1, <2>2 DEF Garbled
<1> QED
  BY <1>7, <1>8

(* What it finds are messages.                                             *)
LEMMA MsgType ==
  ASSUME NEW b \in Seq(Piece), NEW i \in Nat \ {0}, 2 * i <= Len(b)
  PROVE  Msg(b, i) \in Frame /\ Msg(b, i).body \in Seq(Cell)
<1>1. 2 * i \in 1 .. Len(b)
  BY LenProperties
<1>2. b[2 * i] \in Piece
  BY <1>1, ElementOfSeq
<1> QED
  BY <1>2 DEF Msg, Piece, Frame

-----------------------------------------------------------------------------
(* The streams are folds of FlattenSeq, which is defined by recursion over *)
(* its argument.  What it yields is proved by induction, as membership of  *)
(* all natural numbers in a set.                                           *)
LEMMA Induction ==
  ASSUME NEW T, 0 \in T, \A n \in Nat : n \in T => n + 1 \in T
  PROVE  \A n \in Nat : n \in T
<1> DEFINE Less == OpToRel(<, Nat)
           Out == { n \in Nat : n \notin T }
<1>1. IsWellFoundedOn(Less, Nat)
  BY NatLessThanWellFounded
<1>2. \A x, y \in Nat : << y, x >> \in Less <=> y < x
  BY DEF OpToRel
<1> HIDE DEF Less
<1>3. ASSUME Out # {} PROVE FALSE
  <2>1. PICK n \in Out : \A m \in Out : ~ << m, n >> \in Less
    BY <1>1, <1>3, WFMin
  <2>2. n \in Nat /\ n # 0 /\ n \notin T
    BY <2>1
  <2>3. n - 1 \in Nat /\ n - 1 < n /\ (n - 1) + 1 = n
    BY <2>2
  <2>4. n - 1 \in T
    BY <1>2, <2>1, <2>2, <2>3
  <2> QED
    BY <2>2, <2>3, <2>4
<1> QED
  BY <1>3

(* The function by which FlattenSeq is defined.                            *)
IsFlat(f, s, n) ==
  f = [i \in 1 .. n |-> IF i = 1 THEN s[i] ELSE f[i - 1] \o s[i]]

(* There is such a function for every length.                              *)
LEMMA FlatExists ==
  ASSUME NEW s
  PROVE  \A n \in Nat : \E f : IsFlat(f, s, n)
<1> DEFINE T == { n \in Nat : \E f : IsFlat(f, s, n) }
<1>1. 0 \in T
  <2>1. IsFlat([i \in 1 .. 0 |-> s[i]], s, 0)
    BY DEF IsFlat
  <2> QED
    BY <2>1
<1>2. ASSUME NEW n \in Nat, n \in T PROVE n + 1 \in T
  <2>1. PICK f : IsFlat(f, s, n)
    BY <1>2
  <2> DEFINE g == [i \in 1 .. n + 1 |->
                     IF i \in 1 .. n THEN f[i]
                     ELSE IF i = 1 THEN s[i] ELSE f[i - 1] \o s[i]]
  <2>2. ASSUME NEW i \in 1 .. n + 1
        PROVE  g[i] = IF i = 1 THEN s[i] ELSE g[i - 1] \o s[i]
    <3>1. CASE i \in 1 .. n
      <4>1. f[i] = IF i = 1 THEN s[i] ELSE f[i - 1] \o s[i]
        BY <2>1, <3>1 DEF IsFlat
      <4>2. i # 1 => i - 1 \in 1 .. n /\ i - 1 \in 1 .. n + 1
        BY <3>1
      <4> QED
        BY <3>1, <4>1, <4>2
    <3>2. CASE i \notin 1 .. n
      <4>1. i = n + 1
        BY <3>2
      <4>2. i # 1 => i - 1 \in 1 .. n /\ i - 1 \in 1 .. n + 1
        BY <4>1
      <4> QED
        BY <3>2, <4>2
    <3> QED
      BY <3>1, <3>2
  <2>3. g = [i \in 1 .. n + 1 |-> IF i = 1 THEN s[i] ELSE g[i - 1] \o s[i]]
    <3>1. DOMAIN g = 1 .. n + 1
      OBVIOUS
    <3> HIDE DEF g
    <3>2. \A i \in 1 .. n + 1 : g[i] = IF i = 1 THEN s[i] ELSE g[i - 1] \o s[i]
      BY <2>2
    <3>3. g = [i \in 1 .. n + 1 |-> g[i]]
      BY <3>1 DEF g
    <3> QED
      BY <3>2, <3>3
  <2> HIDE DEF g
  <2>4. IsFlat(g, s, n + 1)
    BY <2>3 DEF IsFlat
  <2> QED
    BY <2>4
<1> HIDE DEF T
<1>3. \A n \in Nat : n \in T
  BY <1>1, <1>2, Induction
<1> QED
  BY <1>3 DEF T

(* FlattenSeq is the last value of such a function.                        *)
LEMMA FlattenRecursion ==
  ASSUME NEW s, Len(s) \in Nat \ {0}
  PROVE  \E f : IsFlat(f, s, Len(s)) /\ FlattenSeq(s) = f[Len(s)]
<1> DEFINE flat == CHOOSE f : IsFlat(f, s, Len(s))
<1>1. IsFlat(flat, s, Len(s))
  BY FlatExists
<1>2. FlattenSeq(s) = flat[Len(s)]
  BY DEF FlattenSeq, IsFlat
<1> QED
  BY <1>1, <1>2

(* One step of the function.                                               *)
LEMMA FlatStep ==
  ASSUME NEW s, NEW n \in Nat, NEW f, IsFlat(f, s, n), NEW i \in Nat, i < n
  PROVE  /\ i = 0 => f[i + 1] = s[i + 1]
         /\ i # 0 => f[i + 1] = f[i] \o s[i + 1]
<1>1. i + 1 \in 1 .. n /\ (i + 1) - 1 = i /\ (i + 1 = 1 <=> i = 0)
  OBVIOUS
<1>2. f[i + 1] = IF i + 1 = 1 THEN s[i + 1] ELSE f[(i + 1) - 1] \o s[i + 1]
  BY <1>1 DEF IsFlat
<1> QED
  BY <1>1, <1>2

(* FlattenSeq one string at a time.                                        *)
LEMMA FlatType ==
  ASSUME NEW S, NEW s \in Seq(Seq(S)), NEW n \in 1 .. Len(s), NEW f, NEW m \in Nat,
         n <= m, IsFlat(f, s, m)
  PROVE  f[n] \in Seq(S)
<1> DEFINE T == { i \in Nat : i \in 1 .. n => f[i] \in Seq(S) }
<1>1. 0 \in T
  OBVIOUS
<1>2. ASSUME NEW i \in Nat, i \in T PROVE i + 1 \in T
  <2> SUFFICES ASSUME i + 1 \in 1 .. n PROVE f[i + 1] \in Seq(S)
    OBVIOUS
  <2>1. i < m /\ i + 1 \in 1 .. Len(s)
    BY LenProperties
  <2>2. (i = 0 => f[i + 1] = s[i + 1]) /\ (i # 0 => f[i + 1] = f[i] \o s[i + 1])
    BY <2>1, FlatStep
  <2>3. s[i + 1] \in Seq(S)
    BY <2>1, ElementOfSeq
  <2>4. CASE i = 0
    BY <2>2, <2>3, <2>4
  <2>5. CASE i # 0
    <3>1. f[i] \in Seq(S)
      BY <1>2, <2>5
    <3>2. f[i + 1] = f[i] \o s[i + 1]
      BY <2>2, <2>5
    <3> QED
      BY <2>3, <3>1, <3>2, ConcatProperties
  <2> QED
    BY <2>4, <2>5
<1> HIDE DEF T
<1>3. \A i \in Nat : i \in T
  BY <1>1, <1>2, Induction
<1> QED
  BY <1>3 DEF T

(* It depends only on the strings it has joined so far.                    *)
LEMMA FlatAgrees ==
  ASSUME NEW s, NEW t, NEW m \in Nat, NEW n \in Nat, m <= n,
         \A i \in 1 .. m : s[i] = t[i],
         NEW f, IsFlat(f, s, m), NEW g, IsFlat(g, t, n), m # 0
  PROVE  f[m] = g[m]
<1> DEFINE T == { i \in Nat : i \in 1 .. m => f[i] = g[i] }
<1>1. 0 \in T
  OBVIOUS
<1>2. ASSUME NEW i \in Nat, i \in T PROVE i + 1 \in T
  <2> SUFFICES ASSUME i + 1 \in 1 .. m PROVE f[i + 1] = g[i + 1]
    OBVIOUS
  <2>1. i < m /\ i < n /\ s[i + 1] = t[i + 1]
    OBVIOUS
  <2>2. (i = 0 => f[i + 1] = s[i + 1]) /\ (i # 0 => f[i + 1] = f[i] \o s[i + 1])
    BY <2>1, FlatStep
  <2>3. (i = 0 => g[i + 1] = t[i + 1]) /\ (i # 0 => g[i + 1] = g[i] \o t[i + 1])
    BY <2>1, FlatStep
  <2>4. i # 0 => f[i] = g[i]
    BY <1>2, <2>1
  <2> QED
    BY <2>1, <2>2, <2>3, <2>4
<1> HIDE DEF T
<1>3. \A i \in Nat : i \in T
  BY <1>1, <1>2, Induction
<1> QED
  BY <1>3 DEF T

(* No strings make no string.                                              *)
LEMMA FlattenEmpty == FlattenSeq(<< >>) = << >>
BY DEF FlattenSeq

(* Strings joined are a string.                                            *)
LEMMA FlattenType ==
  ASSUME NEW S, NEW s \in Seq(Seq(S))
  PROVE  FlattenSeq(s) \in Seq(S)
<1>1. CASE s = << >>
  <2>1. << >> \in Seq(S)
    OBVIOUS
  <2> QED
    BY <1>1, <2>1, FlattenEmpty
<1>2. CASE s # << >>
  <2>1. Len(s) \in Nat \ {0}
    BY <1>2, EmptySeq, LenProperties
  <2>2. PICK f : IsFlat(f, s, Len(s)) /\ FlattenSeq(s) = f[Len(s)]
    BY <2>1, FlattenRecursion
  <2> QED
    BY <2>1, <2>2, FlatType
<1> QED
  BY <1>1, <1>2

(* One string more comes last.                                             *)
LEMMA FlattenAppend ==
  ASSUME NEW S, NEW s \in Seq(Seq(S)), NEW x \in Seq(S)
  PROVE  FlattenSeq(Append(s, x)) = FlattenSeq(s) \o x
<1> DEFINE Strings == Seq(S)
           t == Append(s, x)
           n == Len(s)
<1>1. s \in Seq(Strings) /\ x \in Strings
  OBVIOUS
<1> HIDE DEF Strings
<1>2. n \in Nat /\ Len(t) = n + 1 /\ t[n + 1] = x /\ \A i \in 1 .. n : s[i] = t[i]
  BY <1>1, AppendProperties, LenProperties
<1> HIDE DEF t, n
<1>3. PICK g : IsFlat(g, t, n + 1) /\ FlattenSeq(t) = g[n + 1]
  <2>1. Len(t) \in Nat \ {0}
    BY <1>2
  <2>2. \E g : IsFlat(g, t, Len(t)) /\ FlattenSeq(t) = g[Len(t)]
    BY <2>1, FlattenRecursion
  <2> QED
    BY <1>2, <2>2
<1>4. (n = 0 => g[n + 1] = x) /\ (n # 0 => g[n + 1] = g[n] \o x)
  <2>1. n + 1 \in Nat /\ n < n + 1 /\ IsFlat(g, t, n + 1)
    BY <1>2, <1>3
  <2>2. (n = 0 => g[n + 1] = t[n + 1]) /\ (n # 0 => g[n + 1] = g[n] \o t[n + 1])
    BY <1>2, <2>1, FlatStep
  <2> QED
    BY <1>2, <2>2
<1>5. CASE s = << >>
  <2>1. n = 0
    BY <1>5 DEF n
  <2>2. FlattenSeq(t) = x
    BY <1>3, <1>4, <2>1
  <2>3. << >> \o x = x
    BY ConcatEmptySeq
  <2> QED
    BY <1>5, <2>2, <2>3, FlattenEmpty DEF t
<1>6. CASE s # << >>
  <2>1. n # 0 /\ Len(s) \in Nat \ {0}
    BY <1>1, <1>2, <1>6, EmptySeq DEF n
  <2>2. PICK f : IsFlat(f, s, n) /\ FlattenSeq(s) = f[n]
    BY <2>1, FlattenRecursion DEF n
  <2>3. f[n] = g[n]
    <3>1. /\ n \in Nat /\ n + 1 \in Nat /\ n <= n + 1 /\ n # 0
          /\ IsFlat(f, s, n) /\ IsFlat(g, t, n + 1)
      BY <1>2, <1>3, <2>1, <2>2
    <3>2. \A i \in 1 .. n : s[i] = t[i]
      BY <1>2
    <3> QED
      BY <3>1, <3>2, FlatAgrees
  <2> QED
    BY <1>2, <1>3, <1>4, <2>1, <2>2, <2>3 DEF t
<1> QED
  BY <1>5, <1>6

(* Two sequences of strings, one after the other.                          *)
LEMMA FlattenConcat ==
  ASSUME NEW S, NEW s \in Seq(Seq(S)), NEW t \in Seq(Seq(S))
  PROVE  FlattenSeq(s \o t) = FlattenSeq(s) \o FlattenSeq(t)
<1>0. ASSUME NEW a \in Seq(S), NEW b \in Seq(S), NEW c \in Seq(S)
      PROVE  (a \o b) \o c = a \o (b \o c)
  BY ConcatAssociative, SMTT(60)
<1> DEFINE Strings == Seq(S)
           T == { n \in Nat : \A u \in Seq(Strings) :
                    Len(u) = n => FlattenSeq(s \o u) = FlattenSeq(s) \o FlattenSeq(u) }
<1>1. s \in Seq(Strings) /\ t \in Seq(Strings) /\ FlattenSeq(s) \in Seq(S)
  BY FlattenType
<1>2. 0 \in T
  <2> SUFFICES ASSUME NEW u \in Seq(Strings), Len(u) = 0
               PROVE  FlattenSeq(s \o u) = FlattenSeq(s) \o FlattenSeq(u)
    OBVIOUS
  <2> HIDE DEF Strings
  <2>1. u = << >>
    BY EmptySeq
  <2>2. s \o u = s
    BY <1>1, <2>1, ConcatEmptySeq
  <2>3. FlattenSeq(s) \o << >> = FlattenSeq(s)
    BY <1>1, ConcatEmptySeq
  <2> QED
    BY <2>1, <2>2, <2>3, FlattenEmpty
<1>3. ASSUME NEW n \in Nat, n \in T PROVE n + 1 \in T
  <2> SUFFICES ASSUME NEW u \in Seq(Strings), Len(u) = n + 1
               PROVE  FlattenSeq(s \o u) = FlattenSeq(s) \o FlattenSeq(u)
    OBVIOUS
  <2>1. PICK v \in Seq(Strings), x \in Strings : u = Append(v, x)
    <3> HIDE DEF Strings
    <3>1. u # << >>
      BY EmptySeq
    <3> QED
      BY <3>1, SequenceEmptyOrAppend
  <2>2. Len(v) = n
    <3> HIDE DEF Strings
    <3> QED
      BY <2>1, AppendProperties, LenProperties
  <2>3. FlattenSeq(s \o v) = FlattenSeq(s) \o FlattenSeq(v)
    BY <1>3, <2>2
  <2>4. FlattenSeq(u) = FlattenSeq(v) \o x
    BY <2>1, FlattenAppend
  <2>5. s \o u = Append(s \o v, x) /\ s \o v \in Seq(Strings)
    <3> HIDE DEF Strings
    <3>1. << x >> \in Seq(Strings) /\ s \o v \in Seq(Strings)
      BY <1>1, ConcatProperties
    <3>2. u = v \o << x >> /\ Append(s \o v, x) = (s \o v) \o << x >>
      BY <2>1, <3>1, AppendIsConcat
    <3>3. (s \o v) \o << x >> = s \o (v \o << x >>)
      <4> DEFINE y == << x >>
      <4>1. s \in Seq(Strings) /\ v \in Seq(Strings) /\ y \in Seq(Strings)
        BY <1>1, <3>1
      <4> HIDE DEF y
      <4>2. (s \o v) \o y = s \o (v \o y)
        BY <4>1, ConcatAssociative, SMTT(30)
      <4> QED
        BY <4>2 DEF y
    <3> QED
      BY <3>1, <3>2, <3>3, Zenon
  <2>6. FlattenSeq(s \o u) = FlattenSeq(s \o v) \o x
    <3>1. FlattenSeq(Append(s \o v, x)) = FlattenSeq(s \o v) \o x
      BY <2>5, FlattenAppend
    <3> QED
      BY <2>5, <3>1
  <2>7. FlattenSeq(v) \in Seq(S) /\ x \in Seq(S)
    BY FlattenType
  <2>8. (FlattenSeq(s) \o FlattenSeq(v)) \o x = FlattenSeq(s) \o (FlattenSeq(v) \o x)
    BY <1>0, <1>1, <2>7
  <2> QED
    BY <2>3, <2>4, <2>6, <2>8
<1> HIDE DEF T
<1>4. \A n \in Nat : n \in T
  BY <1>2, <1>3, Induction
<1>5. Len(t) \in Nat
  BY LenProperties
<1> QED
  BY <1>1, <1>4, <1>5 DEF T

-----------------------------------------------------------------------------
(* What the streams have in common: g puts something in the place of every *)
(* element.                                                                *)
Yields(g, S, T) == g \in [S -> Seq(T)]
Mapped(g, s) == [i \in DOMAIN s |-> g[s[i]]]
FlatMap(g, s) == FlattenSeq(Mapped(g, s))

(* The map of a sequence that has two parts.                               *)
LEMMA MapConcat ==
  ASSUME NEW S, NEW T, NEW g, Yields(g, S, T), NEW a \in Seq(S), NEW b \in Seq(S)
  PROVE  /\ Mapped(g, a) \in Seq(Seq(T)) /\ Mapped(g, b) \in Seq(Seq(T))
         /\ Mapped(g, a \o b) = Mapped(g, a) \o Mapped(g, b)
<1> DEFINE Strings == Seq(T)
<1>0. g \in [S -> Strings]
  BY DEF Yields
<1> HIDE DEF Strings
<1>1. ASSUME NEW s \in Seq(S)
      PROVE  /\ [i \in DOMAIN s |-> g[s[i]]] \in Seq(Strings)
             /\ DOMAIN s = 1 .. Len(s) /\ Len(s) \in Nat
             /\ Len([i \in DOMAIN s |-> g[s[i]]]) = Len(s)
             /\ \A i \in 1 .. Len(s) : [j \in DOMAIN s |-> g[s[j]]][i] = g[s[i]]
  <2>1. DOMAIN s = 1 .. Len(s) /\ Len(s) \in Nat /\ \A i \in 1 .. Len(s) : s[i] \in S
    BY LenProperties, ElementOfSeq
  <2> QED
    BY <1>0, <2>1
<1> DEFINE x == [i \in DOMAIN a |-> g[a[i]]]
           y == [i \in DOMAIN b |-> g[b[i]]]
           z == [i \in DOMAIN (a \o b) |-> g[(a \o b)[i]]]
<1>2. a \o b \in Seq(S) /\ Len(a \o b) = Len(a) + Len(b)
  BY ConcatProperties
<1>3. /\ x \in Seq(Strings) /\ Len(x) = Len(a) /\ \A i \in 1 .. Len(a) : x[i] = g[a[i]]
      /\ y \in Seq(Strings) /\ Len(y) = Len(b) /\ \A i \in 1 .. Len(b) : y[i] = g[b[i]]
      /\ Len(a) \in Nat /\ Len(b) \in Nat
  BY <1>1
<1>4. /\ z \in Seq(Strings) /\ Len(z) = Len(a) + Len(b)
      /\ \A i \in 1 .. Len(a) + Len(b) : z[i] = g[(a \o b)[i]]
  <2> HIDE DEF x, y
  <2> QED
    BY <1>1, <1>2
<1> HIDE DEF x, y, z
<1>5. x \o y \in Seq(Strings) /\ Len(x \o y) = Len(x) + Len(y)
  BY <1>3, ConcatProperties
<1>6. ASSUME NEW i \in 1 .. Len(z) PROVE z[i] = (x \o y)[i]
  <2>1. i \in 1 .. Len(a) + Len(b)
    BY <1>4
  <2>2. (a \o b)[i] = IF i <= Len(a) THEN a[i] ELSE b[i - Len(a)]
    BY <2>1, ConcatProperties
  <2>3. (x \o y)[i] = IF i <= Len(x) THEN x[i] ELSE y[i - Len(x)]
    <3>1. i \in 1 .. Len(x) + Len(y)
      BY <1>3, <2>1
    <3> QED
      BY <1>3, <3>1, ConcatProperties
  <2>4. CASE i <= Len(a)
    <3>1. i \in 1 .. Len(a)
      BY <2>1, <2>4
    <3> QED
      BY <1>3, <1>4, <2>1, <2>2, <2>3, <2>4, <3>1
  <2>5. CASE ~ i <= Len(a)
    <3>1. i - Len(a) \in 1 .. Len(b)
      BY <1>3, <2>1, <2>5
    <3> QED
      BY <1>3, <1>4, <2>1, <2>2, <2>3, <2>5, <3>1
  <2> QED
    BY <2>4, <2>5
<1>7. z = x \o y
  <2>1. Len(z) = Len(x \o y)
    BY <1>3, <1>4, <1>5
  <2> QED
    BY <1>4, <1>5, <1>6, <2>1, SeqEqual
<1> QED
  BY <1>3, <1>7 DEF x, y, z, Mapped, Strings

(* A single string is what it is.                                          *)
LEMMA FlattenSingle ==
  ASSUME NEW S, NEW x \in Seq(S)
  PROVE  FlattenSeq(<< x >>) = x
<1>1. << >> \in Seq(Seq(S)) /\ Append(<< >>, x) = << x >>
  OBVIOUS
<1>2. FlattenSeq(Append(<< >>, x)) = FlattenSeq(<< >>) \o x
  BY <1>1, FlattenAppend
<1>3. << >> \o x = x
  BY ConcatEmptySeq
<1> QED
  BY <1>1, <1>2, <1>3, FlattenEmpty

(* So the strings of two parts are those of the first and the second.      *)
LEMMA FlatMapConcat ==
  ASSUME NEW S, NEW T, NEW g, Yields(g, S, T), NEW a \in Seq(S), NEW b \in Seq(S)
  PROVE  /\ FlatMap(g, a) \in Seq(T)
         /\ FlatMap(g, a \o b) = FlatMap(g, a) \o FlatMap(g, b)
<1>1. /\ Mapped(g, a) \in Seq(Seq(T)) /\ Mapped(g, b) \in Seq(Seq(T))
      /\ Mapped(g, a \o b) = Mapped(g, a) \o Mapped(g, b)
  BY MapConcat
<1>2. FlattenSeq(Mapped(g, a)) \in Seq(T)
  BY <1>1, FlattenType
<1>3. FlattenSeq(Mapped(g, a) \o Mapped(g, b))
        = FlattenSeq(Mapped(g, a)) \o FlattenSeq(Mapped(g, b))
  BY <1>1, FlattenConcat
<1> QED
  BY <1>1, <1>2, <1>3 DEF FlatMap

(* The strings of no element, and of one.                                  *)
LEMMA FlatMapShort ==
  ASSUME NEW S, NEW T, NEW g, Yields(g, S, T), NEW e \in S
  PROVE  FlatMap(g, << >>) = << >> /\ FlatMap(g, << e >>) = g[e]
<1>1. FlatMap(g, << >>) = << >>
  <2>1. [i \in DOMAIN << >> |-> g[<< >>[i]]] = << >>
    OBVIOUS
  <2> QED
    BY <2>1, FlattenEmpty DEF FlatMap, Mapped
<1>2. FlatMap(g, << e >>) = g[e]
  <2>1. [i \in DOMAIN << e >> |-> g[<< e >>[i]]] = << g[e] >>
    OBVIOUS
  <2>2. FlatMap(g, << e >>) = FlattenSeq(<< g[e] >>)
    BY <2>1 DEF FlatMap, Mapped
  <2>3. g[e] \in Seq(T)
    BY DEF Yields
  <2> QED
    BY <2>2, <2>3, FlattenSingle
<1> QED
  BY <1>1, <1>2
(* The streams one by one: what they carry is added up.                    *)
DataOf == [f \in Frame |-> IF f.sub = 2 THEN f.body ELSE << >>]
BodyOf == [f \in Frame |-> f.body]
PayloadIn == [c \in Cell |-> IF IsData(c) THEN << c >> ELSE << >>]

(* They map messages and cells to strings of cells.                        *)
LEMMA StreamsYield ==
  /\ Yields(DataOf, Frame, Cell) /\ Yields(BodyOf, Frame, Cell)
  /\ Yields(PayloadIn, Cell, Cell)
BY DEF Yields, DataOf, BodyOf, PayloadIn, Frame

(* The streams of Streams are such maps.                                   *)
LEMMA StreamsAreMaps ==
  /\ \A m \in Seq(Frame) : DataIn(m) = FlatMap(DataOf, m)
  /\ \A m \in Seq(Frame) : BodiesIn(m) = FlatMap(BodyOf, m)
  /\ \A s \in Seq(Cell) : Payload(s) = FlatMap(PayloadIn, s)
<1>1. ASSUME NEW S, NEW s \in Seq(S) PROVE \A i \in DOMAIN s : s[i] \in S
  BY ElementOfSeq, LenProperties
<1>2. ASSUME NEW m \in Seq(Frame)
      PROVE  DataIn(m) = FlatMap(DataOf, m) /\ BodiesIn(m) = FlatMap(BodyOf, m)
  <2>1. \A i \in DOMAIN m : m[i] \in Frame
    BY <1>1
  <2>2. [i \in DOMAIN m |-> IF m[i].sub = 2 THEN m[i].body ELSE << >>]
          = [i \in DOMAIN m |-> DataOf[m[i]]]
    BY <2>1 DEF DataOf
  <2>3. [i \in DOMAIN m |-> m[i].body] = [i \in DOMAIN m |-> BodyOf[m[i]]]
    BY <2>1 DEF BodyOf
  <2> QED
    BY <2>2, <2>3 DEF DataIn, BodiesIn, FlatMap, Mapped
<1>3. ASSUME NEW s \in Seq(Cell) PROVE Payload(s) = FlatMap(PayloadIn, s)
  <2>1. \A i \in DOMAIN s : s[i] \in Cell
    BY <1>1
  <2>2. [i \in DOMAIN s |-> IF IsData(s[i]) THEN << s[i] >> ELSE << >>]
          = [i \in DOMAIN s |-> PayloadIn[s[i]]]
    BY <2>1 DEF PayloadIn
  <2> QED
    BY <2>2 DEF Payload, FlatMap, Mapped
<1> QED
  BY <1>2, <1>3

(* The data in two sequences of messages, one after the other.             *)
LEMMA DataInAdds ==
  ASSUME NEW a \in Seq(Frame), NEW b \in Seq(Frame)
  PROVE  /\ DataIn(a) \in Seq(Cell)
         /\ DataIn(a \o b) = DataIn(a) \o DataIn(b)
<1>1. a \o b \in Seq(Frame)
  BY ConcatProperties
<1>2. /\ FlatMap(DataOf, a) \in Seq(Cell)
      /\ FlatMap(DataOf, a \o b) = FlatMap(DataOf, a) \o FlatMap(DataOf, b)
  <2>1. Yields(DataOf, Frame, Cell)
    BY StreamsYield
  <2> QED
    BY ONLY <2>1, a \in Seq(Frame), b \in Seq(Frame), FlatMapConcat
<1> QED
  BY <1>1, <1>2, StreamsAreMaps

(* So do their bodies add up.                                              *)
LEMMA BodiesInAdds ==
  ASSUME NEW a \in Seq(Frame), NEW b \in Seq(Frame)
  PROVE  /\ BodiesIn(a) \in Seq(Cell)
         /\ BodiesIn(a \o b) = BodiesIn(a) \o BodiesIn(b)
<1>1. a \o b \in Seq(Frame)
  BY ConcatProperties
<1>2. /\ FlatMap(BodyOf, a) \in Seq(Cell)
      /\ FlatMap(BodyOf, a \o b) = FlatMap(BodyOf, a) \o FlatMap(BodyOf, b)
  <2>1. Yields(BodyOf, Frame, Cell)
    BY StreamsYield
  <2> QED
    BY ONLY <2>1, a \in Seq(Frame), b \in Seq(Frame), FlatMapConcat
<1> QED
  BY <1>1, <1>2, StreamsAreMaps

(* And the payload of two strings of cells.                                *)
LEMMA PayloadAdds ==
  ASSUME NEW a \in Seq(Cell), NEW b \in Seq(Cell)
  PROVE  /\ Payload(a) \in Seq(Cell)
         /\ Payload(a \o b) = Payload(a) \o Payload(b)
<1>1. a \o b \in Seq(Cell)
  BY ConcatProperties
<1>2. /\ FlatMap(PayloadIn, a) \in Seq(Cell)
      /\ FlatMap(PayloadIn, a \o b) = FlatMap(PayloadIn, a) \o FlatMap(PayloadIn, b)
  <2>1. ASSUME NEW S, a \in Seq(S), b \in Seq(S), Yields(PayloadIn, S, Cell)
        PROVE  /\ FlatMap(PayloadIn, a) \in Seq(Cell)
               /\ FlatMap(PayloadIn, a \o b) = FlatMap(PayloadIn, a) \o FlatMap(PayloadIn, b)
    BY ONLY <2>1, FlatMapConcat
  <2> QED
    BY <2>1, StreamsYield
<1> QED
  BY <1>1, <1>2, StreamsAreMaps

(* The streams of nothing, of one message and of one cell.                 *)
LEMMA ShortStreams ==
  /\ DataIn(<< >>) = << >> /\ BodiesIn(<< >>) = << >> /\ Payload(<< >>) = << >>
  /\ \A f \in Frame : /\ DataIn(<< f >>) = IF f.sub = 2 THEN f.body ELSE << >>
                      /\ BodiesIn(<< f >>) = f.body
  /\ \A c \in Cell : Payload(<< c >>) = IF IsData(c) THEN << c >> ELSE << >>
<1>1. DataIn(<< >>) = << >> /\ BodiesIn(<< >>) = << >> /\ Payload(<< >>) = << >>
  BY FlattenEmpty DEF DataIn, BodiesIn, Payload
<1>2. ASSUME NEW f \in Frame
      PROVE  /\ DataIn(<< f >>) = IF f.sub = 2 THEN f.body ELSE << >>
             /\ BodiesIn(<< f >>) = f.body
  <2>1. FlatMap(DataOf, << f >>) = DataOf[f] /\ FlatMap(BodyOf, << f >>) = BodyOf[f]
    BY StreamsYield, FlatMapShort
  <2>2. << f >> \in Seq(Frame)
    OBVIOUS
  <2> QED
    BY <2>1, <2>2, StreamsAreMaps DEF DataOf, BodyOf
<1>3. ASSUME NEW c \in Cell
      PROVE  Payload(<< c >>) = IF IsData(c) THEN << c >> ELSE << >>
  <2>1. FlatMap(PayloadIn, << c >>) = PayloadIn[c]
    BY StreamsYield, FlatMapShort
  <2>2. << c >> \in Seq(Cell)
    OBVIOUS
  <2> QED
    BY <2>1, <2>2, StreamsAreMaps DEF PayloadIn
<1> QED
  BY <1>1, <1>2, <1>3

-----------------------------------------------------------------------------
(* The pieces of a stream are those of these messages, each of them whole. *)
Carries(pieces, msgs) ==
  /\ Len(pieces) = 2 * Len(msgs)
  /\ \A i \in 1 .. Len(msgs) :
       /\ pieces[2 * i - 1] = [f |-> msgs[i], half |-> 1]
       /\ pieces[2 * i] = [f |-> msgs[i], half |-> 2]

(* No pieces carry no messages.                                            *)
LEMMA CarriesNothing == Carries(<< >>, << >>)
BY DEF Carries

(* The messages whose pieces they are, as Streams reads them.              *)
LEMMA CarriesMessages ==
  ASSUME NEW p \in Seq(Piece), NEW m \in Seq(Frame), Carries(p, m)
  PROVE  Messages(p) = m
<1>1. Len(m) \in Nat /\ Whole(p) = Len(m)
  BY LenProperties DEF Carries, Whole
<1>2. ASSUME NEW i \in 1 .. Len(m) PROVE Msg(p, i) = m[i]
  <2>1. p[2 * i] = [f |-> m[i], half |-> 2]
    BY DEF Carries
  <2> QED
    BY <2>1 DEF Msg
<1>3. Messages(p) = [i \in 1 .. Len(m) |-> m[i]]
  BY <1>1, <1>2 DEF Messages
<1> QED
  BY <1>3, LenProperties

(* A message more.                                                         *)
LEMMA CarriesMore ==
  ASSUME NEW p \in Seq(Piece), NEW m \in Seq(Frame), Carries(p, m), NEW f \in Frame
  PROVE  Carries(p \o Encoded(f), Append(m, f))
<1> DEFINE e == Encoded(f)
           q == p \o e
<1>1. /\ e \in Seq(Piece) /\ Len(e) = 2
      /\ e[1] = [f |-> f, half |-> 1] /\ e[2] = [f |-> f, half |-> 2]
  BY EncodedType DEF Encoded
<1> HIDE DEF e
<1>2. Len(m) \in Nat /\ Len(p) = 2 * Len(m)
  BY LenProperties DEF Carries
<1>c. /\ Len(q) = Len(p) + Len(e)
      /\ \A j \in 1 .. Len(p) + Len(e) :
           q[j] = IF j <= Len(p) THEN p[j] ELSE e[j - Len(p)]
  BY <1>1, ConcatProperties
<1>3. Len(q) = 2 * Len(m) + 2
  BY <1>1, <1>2, <1>c
<1>4. \A j \in 1 .. 2 * Len(m) + 2 :
        q[j] = IF j <= 2 * Len(m) THEN p[j] ELSE e[j - 2 * Len(m)]
  BY <1>1, <1>2, <1>c
<1> HIDE DEF q
<1>5. /\ Len(Append(m, f)) = Len(m) + 1 /\ Append(m, f)[Len(m) + 1] = f
      /\ \A i \in 1 .. Len(m) : Append(m, f)[i] = m[i]
  BY AppendProperties
<1>6. ASSUME NEW i \in 1 .. Len(m) + 1
      PROVE  /\ q[2 * i - 1] = [f |-> Append(m, f)[i], half |-> 1]
             /\ q[2 * i] = [f |-> Append(m, f)[i], half |-> 2]
  <2>1. 2 * i - 1 \in 1 .. 2 * Len(m) + 2 /\ 2 * i \in 1 .. 2 * Len(m) + 2
    BY <1>2
  <2>2. CASE i \in 1 .. Len(m)
    <3>1. 2 * i - 1 <= 2 * Len(m) /\ 2 * i <= 2 * Len(m)
      BY <1>2, <2>2
    <3>2. q[2 * i - 1] = p[2 * i - 1] /\ q[2 * i] = p[2 * i]
      BY <1>4, <2>1, <3>1
    <3> QED
      BY <1>5, <2>2, <3>2 DEF Carries
  <2>3. CASE i = Len(m) + 1
    <3>1. /\ ~ 2 * i - 1 <= 2 * Len(m) /\ ~ 2 * i <= 2 * Len(m)
          /\ (2 * i - 1) - 2 * Len(m) = 1 /\ 2 * i - 2 * Len(m) = 2
      BY <1>2, <2>3
    <3>2. q[2 * i - 1] = e[1] /\ q[2 * i] = e[2]
      BY <1>4, <2>1, <3>1
    <3> QED
      BY <1>1, <1>5, <2>3, <3>2
  <2> QED
    BY <1>2, <2>2, <2>3
<1> QED
  BY <1>2, <1>3, <1>5, <1>6 DEF Carries, q, e

(* The first n frames of the buffer at the front of a stream are its first *)
(* n messages; the others follow.                                          *)
LEMMA CarriesCut ==
  ASSUME NEW buf \in Seq(Piece), NEW rest \in Seq(Piece), NEW m \in Seq(Frame),
         Carries(buf \o rest, m), NEW n \in Nat, 2 * n <= Len(buf)
  PROVE  /\ n <= Len(m)
         /\ \A i \in 1 .. n : Msg(buf, i) = m[i]
         /\ SubSeq(m, n + 1, Len(m)) \in Seq(Frame)
         /\ Carries(After(buf, n) \o rest, SubSeq(m, n + 1, Len(m)))
<1> DEFINE p == buf \o rest
           l == SubSeq(m, n + 1, Len(m))
           a == After(buf, n)
           q == a \o rest
<1>1. Len(buf) \in Nat /\ Len(rest) \in Nat /\ Len(m) \in Nat
      /\ Len(buf) + Len(rest) = 2 * Len(m)
  BY LenProperties, ConcatProperties DEF Carries
<1>2. \A j \in 1 .. Len(buf) + Len(rest) :
        p[j] = IF j <= Len(buf) THEN buf[j] ELSE rest[j - Len(buf)]
  BY ConcatProperties
<1>3. n <= Len(m)
  BY <1>1
<1>5. ASSUME NEW i \in 1 .. n PROVE Msg(buf, i) = m[i]
  <2>1. 2 * i \in 1 .. Len(buf) + Len(rest) /\ 2 * i <= Len(buf) /\ i \in 1 .. Len(m)
    BY <1>1, <1>3
  <2>2. p[2 * i] = buf[2 * i]
    BY <1>2, <2>1
  <2>3. p[2 * i] = [f |-> m[i], half |-> 2]
    BY <2>1 DEF Carries
  <2> QED
    BY <2>2, <2>3 DEF Msg
<1>6. l \in Seq(Frame) /\ Len(l) = Len(m) - n
      /\ \A i \in 1 .. Len(m) - n : l[i] = m[n + i]
  <2>1. \A i \in n + 1 .. Len(m) : m[i] \in Frame
    BY <1>1, ElementOfSeq
  <2>2. n + 1 \in Int /\ Len(m) \in Int
    BY <1>1
  <2> QED
    BY <1>1, <1>3, <2>1, SubSeqProperties
<1>7. a \in Seq(Piece) /\ Len(a) = Len(buf) - 2 * n
      /\ \A j \in 1 .. Len(buf) - 2 * n : a[j] = buf[2 * n + j]
  <2>1. \A i \in 2 * n + 1 .. Len(buf) : buf[i] \in Piece
    BY <1>1, ElementOfSeq
  <2>2. a = SubSeq(buf, 2 * n + 1, Len(buf))
    BY DEF After
  <2>3. 2 * n + 1 \in Int /\ Len(buf) \in Int /\ (2 * n + 1 <= Len(buf) <=> 2 * n < Len(buf))
    BY <1>1
  <2> HIDE DEF a
  <2>4. /\ a \in Seq(Piece)
        /\ Len(a) = IF 2 * n + 1 <= Len(buf) THEN Len(buf) - (2 * n + 1) + 1 ELSE 0
        /\ \A j \in 1 .. Len(buf) - (2 * n + 1) + 1 : a[j] = buf[(2 * n + 1) + j - 1]
    BY <2>1, <2>2, <2>3, SubSeqProperties
  <2>5. ASSUME NEW j \in 1 .. Len(buf) - 2 * n PROVE a[j] = buf[2 * n + j]
    <3>1. j \in 1 .. Len(buf) - (2 * n + 1) + 1 /\ (2 * n + 1) + j - 1 = 2 * n + j
      BY <1>1
    <3> QED
      BY <2>4, <3>1
  <2>6. Len(a) = Len(buf) - 2 * n
    <3>1. CASE 2 * n + 1 <= Len(buf)
      <4>1. Len(a) = Len(buf) - (2 * n + 1) + 1
        BY <2>4, <3>1
      <4> QED
        BY <1>1, <4>1
    <3>2. CASE ~ 2 * n + 1 <= Len(buf)
      <4>1. Len(a) = 0
        BY <2>4, <3>2
      <4>2. 2 * n = Len(buf)
        BY <1>1, <3>2
      <4> QED
        BY <1>1, <4>1, <4>2
    <3> QED
      BY <3>1, <3>2
  <2> QED
    BY <2>4, <2>5, <2>6
<1> HIDE DEF a, l
<1>8. Len(q) = 2 * (Len(m) - n)
  <2>1. Len(q) = Len(a) + Len(rest)
    BY <1>7, ConcatProperties
  <2> QED
    BY <1>1, <1>7, <2>1
<1>9. ASSUME NEW j \in 1 .. 2 * (Len(m) - n) PROVE q[j] = p[2 * n + j]
  <2>1. /\ j \in 1 .. Len(a) + Len(rest)
        /\ 2 * n + j \in 1 .. Len(buf) + Len(rest)
    BY <1>1, <1>3, <1>7
  <2>2. q[j] = IF j <= Len(a) THEN a[j] ELSE rest[j - Len(a)]
    BY <1>7, <2>1, ConcatProperties
  <2>3. CASE j <= Len(a)
    <3>1. j \in 1 .. Len(buf) - 2 * n /\ 2 * n + j <= Len(buf)
      BY <1>1, <1>7, <2>3
    <3> QED
      BY <1>2, <1>7, <2>1, <2>2, <2>3, <3>1
  <2>4. CASE ~ j <= Len(a)
    <3>1. ~ 2 * n + j <= Len(buf) /\ 2 * n + j - Len(buf) = j - Len(a)
      BY <1>1, <1>7, <2>4
    <3> QED
      BY <1>2, <2>1, <2>2, <2>4, <3>1
  <2> QED
    BY <2>3, <2>4
<1> HIDE DEF q, p
<1>10. ASSUME NEW i \in 1 .. Len(m) - n
       PROVE  /\ q[2 * i - 1] = [f |-> l[i], half |-> 1]
              /\ q[2 * i] = [f |-> l[i], half |-> 2]
  <2>1. /\ 2 * i - 1 \in 1 .. 2 * (Len(m) - n) /\ 2 * i \in 1 .. 2 * (Len(m) - n)
        /\ n + i \in 1 .. Len(m)
        /\ 2 * n + (2 * i - 1) = 2 * (n + i) - 1 /\ 2 * n + 2 * i = 2 * (n + i)
    BY <1>1, <1>3
  <2>2. q[2 * i - 1] = p[2 * (n + i) - 1] /\ q[2 * i] = p[2 * (n + i)]
    BY <1>9, <2>1
  <2>3. /\ p[2 * (n + i) - 1] = [f |-> m[n + i], half |-> 1]
        /\ p[2 * (n + i)] = [f |-> m[n + i], half |-> 2]
    BY <2>1 DEF Carries, p
  <2> QED
    BY <1>6, <2>2, <2>3
<1>11. Carries(q, l)
  BY <1>6, <1>8, <1>10 DEF Carries
<1> QED
  BY <1>3, <1>5, <1>6, <1>11 DEF q, l, a

(* Where a stream of messages is garbled, one of them is no frame.         *)
LEMMA CarriesGarbled ==
  ASSUME NEW b \in Seq(Piece), NEW rest \in Seq(Piece), NEW m \in Seq(Frame),
         Carries(b \o rest, m), Garbled(b)
  PROVE  1 \in 1 .. Len(m) /\ m[1].sub = 0
<1>1. Len(b) \in Nat /\ Len(rest) \in Nat /\ Len(m) \in Nat
      /\ Len(b) + Len(rest) = 2 * Len(m) /\ Len(b) # 0
  BY LenProperties, ConcatProperties, EmptySeq DEF Carries, Garbled
<1>2. \A j \in 1 .. Len(b) + Len(rest) :
        (b \o rest)[j] = IF j <= Len(b) THEN b[j] ELSE rest[j - Len(b)]
  BY ConcatProperties
<1>3. 1 \in 1 .. Len(m) /\ 2 * 1 = 2 /\ 2 * 1 - 1 = 1
  BY <1>1
<1>4. (b \o rest)[1] = [f |-> m[1], half |-> 1] /\ (b \o rest)[2] = [f |-> m[1], half |-> 2]
  BY <1>3 DEF Carries
<1>5. b[1] = [f |-> m[1], half |-> 1]
  BY <1>1, <1>2, <1>4
<1>6. CASE Len(b) = 1
  BY <1>3, <1>5, <1>6 DEF Garbled
<1>7. CASE Len(b) # 1
  <2>1. 2 <= Len(b) /\ 2 \in 1 .. Len(b) + Len(rest)
    <3>1. ASSUME NEW l \in Nat, NEW r \in Nat, l # 0, l # 1
          PROVE  2 <= l /\ 2 \in 1 .. l + r
      BY ONLY <3>1
    <3> QED
      BY <1>1, <1>7, <3>1
  <2>2. b[2] = [f |-> m[1], half |-> 2]
    BY <1>2, <1>4, <2>1
  <2>3. b[2] = [f |-> b[1].f, half |-> 2]
    BY <1>5, <2>2
  <2>4. b[1].half = 1 /\ b[1].f = m[1]
    BY <1>5
  <2>5. ~ Intact(b, 1)
    BY DEF Garbled
  <2> QED
    BY <1>3, <2>1, <2>3, <2>4, <2>5 DEF Intact
<1> QED
  BY <1>6, <1>7

(* The messages m are all among those of s.                                *)
Among(m, s) == \A i \in 1 .. Len(m) : \E j \in 1 .. Len(s) : m[i] = s[j]

(* So is what is left of them ...                                          *)
LEMMA AmongRest ==
  ASSUME NEW m \in Seq(Frame), NEW s, Among(m, s), NEW n \in Nat, n <= Len(m)
  PROVE  Among(SubSeq(m, n + 1, Len(m)), s)
<1> DEFINE r == SubSeq(m, n + 1, Len(m))
<1>1. Len(m) \in Nat
  BY LenProperties
<1>2. \A i \in n + 1 .. Len(m) : m[i] \in Frame
  BY <1>1, ElementOfSeq
<1>3. Len(r) = Len(m) - n /\ \A i \in 1 .. Len(m) - n : r[i] = m[n + i]
  <2>1. n + 1 \in Int /\ Len(m) \in Int
    BY <1>1
  <2> QED
    BY <1>1, <1>2, <2>1, SubSeqProperties
<1> HIDE DEF r
<1>4. ASSUME NEW i \in 1 .. Len(r) PROVE n + i \in 1 .. Len(m) /\ r[i] = m[n + i]
  BY <1>1, <1>3
<1>5. Among(r, s)
  BY <1>4 DEF Among
<1> QED
  BY <1>5 DEF r

(* ... and both may grow by a message.                                     *)
LEMMA AmongGrows ==
  ASSUME NEW m \in Seq(Frame), NEW s \in Seq(Frame), Among(m, s), NEW f \in Frame
  PROVE  Among(Append(m, f), Append(s, f))
<1> DEFINE n == Append(m, f)
           t == Append(s, f)
<1>1. /\ Len(m) \in Nat /\ Len(n) = Len(m) + 1 /\ n[Len(m) + 1] = f
      /\ \A i \in 1 .. Len(m) : n[i] = m[i]
  BY AppendProperties, LenProperties
<1>2. /\ Len(s) \in Nat /\ Len(t) = Len(s) + 1 /\ t[Len(s) + 1] = f
      /\ \A i \in 1 .. Len(s) : t[i] = s[i]
  BY AppendProperties, LenProperties
<1> HIDE DEF n, t
<1>3. ASSUME NEW i \in 1 .. Len(n) PROVE \E j \in 1 .. Len(t) : n[i] = t[j]
  <2>1. CASE i = Len(m) + 1
    <3>1. Len(s) + 1 \in 1 .. Len(t) /\ n[i] = t[Len(s) + 1]
      BY <1>1, <1>2, <2>1
    <3> QED
      BY <3>1
  <2>2. CASE i # Len(m) + 1
    <3>1. i \in 1 .. Len(m)
      BY <1>1, <2>2
    <3>2. PICK j \in 1 .. Len(s) : m[i] = s[j]
      BY <3>1 DEF Among
    <3>3. j \in 1 .. Len(t) /\ n[i] = t[j]
      BY <1>1, <1>2, <3>1, <3>2
    <3> QED
      BY <3>3
  <2> QED
    BY <2>1, <2>2
<1>4. Among(n, t)
  BY <1>3 DEF Among
<1> QED
  BY <1>4 DEF n, t

(* A garbled buffer at the front of such messages holds one that is none.  *)
LEMMA GarbledIsSent ==
  ASSUME NEW b \in Seq(Piece), NEW rest \in Seq(Piece), NEW m \in Seq(Frame), NEW s,
         Carries(b \o rest, m), Among(m, s), NEW n \in Nat, 2 * n <= Len(b),
         Garbled(After(b, n))
  PROVE  \E j \in 1 .. Len(s) : s[j].sub = 0
<1> DEFINE r == SubSeq(m, n + 1, Len(m))
<1>1. n <= Len(m) /\ r \in Seq(Frame) /\ Carries(After(b, n) \o rest, r)
  BY CarriesCut
<1>2. Among(r, s)
  BY <1>1, AmongRest
<1>3. After(b, n) \in Seq(Piece)
  BY AfterType
<1> HIDE DEF r
<1>4. 1 \in 1 .. Len(r) /\ r[1].sub = 0
  BY <1>1, <1>3, CarriesGarbled
<1>5. PICK j \in 1 .. Len(s) : r[1] = s[j]
  BY <1>2, <1>4 DEF Among
<1> QED
  BY <1>4, <1>5

(* Messages that are all frames leave nothing garbled.                     *)
AllFramed(m) == \A i \in 1 .. Len(m) : m[i].sub # 0

LEMMA FramedIsClean ==
  ASSUME NEW b \in Seq(Piece), NEW rest \in Seq(Piece), NEW m \in Seq(Frame),
         Carries(b \o rest, m), AllFramed(m), NEW n \in Nat, 2 * n <= Len(b)
  PROVE  ~ Garbled(After(b, n))
<1> SUFFICES ASSUME Garbled(After(b, n)) PROVE FALSE
  OBVIOUS
<1>1. Among(m, m)
  BY DEF Among
<1>2. \E j \in 1 .. Len(m) : m[j].sub = 0
  BY <1>1, GarbledIsSent
<1> QED
  BY <1>2 DEF AllFramed

LEMMA FramedGrows ==
  ASSUME NEW m \in Seq(Frame), AllFramed(m), NEW f \in Frame, f.sub # 0
  PROVE  AllFramed(Append(m, f))
<1> DEFINE r == Append(m, f)
<1>1. /\ Len(m) \in Nat /\ Len(r) = Len(m) + 1 /\ r[Len(m) + 1] = f
      /\ \A i \in 1 .. Len(m) : r[i] = m[i]
  BY AppendProperties, LenProperties
<1> HIDE DEF r
<1>2. \A i \in 1 .. Len(r) : i \in 1 .. Len(m) \/ i = Len(m) + 1
  BY <1>1
<1>3. AllFramed(r)
  BY <1>1, <1>2 DEF AllFramed
<1> QED
  BY <1>3 DEF r

(* A sequence falls into its first n elements and the rest.                *)
LEMMA Splits ==
  ASSUME NEW S, NEW s \in Seq(S), NEW n \in 0 .. Len(s)
  PROVE  /\ SubSeq(s, 1, n) \in Seq(S) /\ Len(SubSeq(s, 1, n)) = n
         /\ \A i \in 1 .. n : SubSeq(s, 1, n)[i] = s[i]
         /\ SubSeq(s, n + 1, Len(s)) \in Seq(S)
         /\ SubSeq(s, 1, n) \o SubSeq(s, n + 1, Len(s)) = s
<1>1. Len(s) \in Nat /\ n \in Nat
  BY LenProperties
<1>2. SubSeq(s, 1, n) \in Seq(S) /\ Len(SubSeq(s, 1, n)) = n
      /\ \A i \in 1 .. n : SubSeq(s, 1, n)[i] = s[i]
  <2>1. \A i \in 1 .. n : s[i] \in S
    BY <1>1, ElementOfSeq
  <2>2. 1 \in Int /\ n \in Int
    BY <1>1
  <2>3. /\ SubSeq(s, 1, n) \in Seq(S)
        /\ Len(SubSeq(s, 1, n)) = IF 1 <= n THEN n - 1 + 1 ELSE 0
        /\ \A i \in 1 .. n - 1 + 1 : SubSeq(s, 1, n)[i] = s[1 + i - 1]
    BY <2>1, <2>2, SubSeqProperties
  <2> QED
    BY <1>1, <2>3
<1>3. SubSeq(s, n + 1, Len(s)) \in Seq(S)
  BY <1>1, RestType
<1>4. SubSeq(s, 1, n) \o SubSeq(s, n + 1, Len(s)) = s
  <2>1. 1 \in 1 .. Len(s) + 1 /\ n \in 1 - 1 .. Len(s) /\ Len(s) \in n .. Len(s)
    BY <1>1
  <2>2. SubSeq(s, 1, n) \o SubSeq(s, n + 1, Len(s)) = SubSeq(s, 1, Len(s))
    BY <2>1, ConcatAdjacentSubSeq
  <2> QED
    BY <2>2, SubSeqFull
<1> QED
  BY <1>2, <1>3, <1>4

(* What a read takes out of a stream of messages: the bodies of the first  *)
(* n of them, and the others stay.                                         *)
BodiesOf(buf, n) == [i \in 1 .. n |-> Msg(buf, i).body]
DataBodiesOf(buf, n) ==
  [i \in 1 .. n |-> IF Msg(buf, i).sub = 2 THEN Msg(buf, i).body ELSE << >>]

Without(m, n) == SubSeq(m, n + 1, Len(m))
Counts(b) == { n \in Nat : 2 * n <= Len(b) }

LEMMA DrainAdds ==
  ASSUME NEW buf \in Seq(Piece), NEW rest \in Seq(Piece), NEW m \in Seq(Frame),
         Carries(buf \o rest, m), NEW n \in Counts(buf)
  PROVE  /\ Without(m, n) \in Seq(Frame)
         /\ Carries(After(buf, n) \o rest, Without(m, n))
         /\ BodiesOf(buf, n) \in Seq(Seq(Cell))
         /\ DataBodiesOf(buf, n) \in Seq(Seq(Cell))
         /\ FlattenSeq(BodiesOf(buf, n)) \o BodiesIn(Without(m, n)) = BodiesIn(m)
         /\ FlattenSeq(DataBodiesOf(buf, n)) \o DataIn(Without(m, n)) = DataIn(m)
<1> DEFINE l == SubSeq(m, 1, n)
           r == SubSeq(m, n + 1, Len(m))
<1>0. n \in Nat /\ 2 * n <= Len(buf)
  BY DEF Counts
<1>1. /\ n <= Len(m)
      /\ \A i \in 1 .. n : Msg(buf, i) = m[i]
      /\ r \in Seq(Frame)
      /\ Carries(After(buf, n) \o rest, r)
  BY <1>0, CarriesCut
<1>2. n \in 0 .. Len(m) /\ Len(m) \in Nat
  BY <1>0, <1>1, LenProperties
<1>3. /\ l \in Seq(Frame) /\ Len(l) = n
      /\ \A i \in 1 .. n : l[i] = m[i]
      /\ l \o r = m
  BY <1>2, Splits
<1> HIDE DEF l, r
<1>4. DOMAIN l = 1 .. n /\ \A i \in 1 .. n : Msg(buf, i) = l[i] /\ l[i] \in Frame
  BY <1>1, <1>3, ElementOfSeq, LenProperties
<1>5. /\ BodiesOf(buf, n) = [i \in DOMAIN l |-> l[i].body]
      /\ DataBodiesOf(buf, n)
           = [i \in DOMAIN l |-> IF l[i].sub = 2 THEN l[i].body ELSE << >>]
  BY <1>4 DEF BodiesOf, DataBodiesOf
<1>6. /\ FlattenSeq(BodiesOf(buf, n)) = BodiesIn(l)
      /\ FlattenSeq(DataBodiesOf(buf, n)) = DataIn(l)
  BY <1>5 DEF BodiesIn, DataIn
<1>7. BodiesIn(l) \o BodiesIn(r) = BodiesIn(m) /\ DataIn(l) \o DataIn(r) = DataIn(m)
  <2>1. BodiesIn(l \o r) = BodiesIn(l) \o BodiesIn(r)
    BY <1>1, <1>3, BodiesInAdds
  <2>2. DataIn(l \o r) = DataIn(l) \o DataIn(r)
    BY <1>1, <1>3, DataInAdds
  <2> QED
    BY <1>3, <2>1, <2>2
<1>8. BodiesOf(buf, n) \in Seq(Seq(Cell)) /\ DataBodiesOf(buf, n) \in Seq(Seq(Cell))
  <2>1. \A i \in 1 .. n : l[i].body \in Seq(Cell) /\ << >> \in Seq(Cell)
    BY <1>4 DEF Frame
  <2>2. \A i \in 1 .. n : /\ Msg(buf, i).body \in Seq(Cell)
                          /\ (IF Msg(buf, i).sub = 2 THEN Msg(buf, i).body ELSE << >>)
                               \in Seq(Cell)
    BY <1>4, <2>1
  <2>3. BodiesOf(buf, n) \in Seq(Seq(Cell))
    <3>1. n \in Nat /\ \A i \in 1 .. n : Msg(buf, i).body \in Seq(Cell)
      BY <1>0, <2>2
    <3> QED
      BY ONLY <3>1 DEF BodiesOf
  <2>4. DataBodiesOf(buf, n) \in Seq(Seq(Cell))
    BY <1>0, <2>2 DEF DataBodiesOf
  <2> QED
    BY <2>3, <2>4
<1> QED
  BY <1>1, <1>6, <1>7, <1>8 DEF r, Without

(* The tokens of a stream.                                                 *)
LEMMA TokensGrow ==
  ASSUME NEW n \in Nat
  PROVE  /\ Tokens(n) \in Seq(Cell) /\ Len(Tokens(n)) = n
         /\ C("data", n + 1) \in Cell
         /\ Tokens(n + 1) = Tokens(n) \o << C("data", n + 1) >>
<1>1. \A i \in Nat : C("data", i) \in Cell
  BY CellType DEF CellTypes
<1>2. ASSUME NEW k \in Nat PROVE Tokens(k) \in Seq(Cell) /\ Len(Tokens(k)) = k
  BY <1>1, <1>2 DEF Tokens
<1> DEFINE e == C("data", n + 1)
           t == Tokens(n)
           u == Tokens(n + 1)
<1>3. e \in Cell /\ t \in Seq(Cell) /\ Len(t) = n /\ u \in Seq(Cell) /\ Len(u) = n + 1
  BY <1>1, <1>2
<1>4. u[n + 1] = e /\ \A i \in 1 .. n : u[i] = t[i]
  BY DEF Tokens
<1> HIDE DEF e, t, u
<1>5. u = Append(t, e)
  BY <1>3, <1>4, AppendProperties, SeqEqual
<1>6. Append(t, e) = t \o << e >>
  BY <1>3, AppendIsConcat
<1> QED
  BY <1>3, <1>5, <1>6 DEF e, t, u

(* A stream in which nothing was sent.                                     *)
LEMMA NoTokens == Tokens(0) = << >>
BY DEF Tokens

(* The rest of a string that goes on is the rest of the whole.             *)
LEMMA RestOfConcat ==
  ASSUME NEW s \in Seq(Cell), NEW t \in Seq(Cell), NEW n \in 0 .. Len(s)
  PROVE  SubSeq(s, n + 1, Len(s)) \o t = SubSeq(s \o t, n + 1, Len(s \o t))
<1> DEFINE u == s \o t
           x == SubSeq(s, n + 1, Len(s))
           y == SubSeq(u, n + 1, Len(u))
<1>1. /\ Len(s) \in Nat /\ Len(t) \in Nat /\ u \in Seq(Cell) /\ Len(u) = Len(s) + Len(t)
      /\ \A i \in 1 .. Len(s) + Len(t) : u[i] = IF i <= Len(s) THEN s[i] ELSE t[i - Len(s)]
      /\ n \in Nat /\ n <= Len(s)
  BY ConcatProperties, LenProperties
<1> HIDE DEF u
<1>2. /\ x \in Seq(Cell) /\ Len(x) = Len(s) - n
      /\ \A i \in 1 .. Len(s) - n : x[i] = s[n + i]
  <2>1. n + 1 \in 1 .. Len(s) + 1 /\ Len(s) \in n + 1 - 1 .. Len(s)
    BY <1>1
  <2> QED
    BY <1>1, <2>1, SubSeqProperties
<1>3. /\ y \in Seq(Cell) /\ Len(y) = Len(u) - n
      /\ \A i \in 1 .. Len(u) - n : y[i] = u[n + i]
  <2>1. n + 1 \in 1 .. Len(u) + 1 /\ Len(u) \in n + 1 - 1 .. Len(u)
    BY <1>1
  <2> QED
    BY <1>1, <2>1, SubSeqProperties
<1> HIDE DEF x, y
<1>4. /\ x \o t \in Seq(Cell) /\ Len(x \o t) = Len(u) - n
      /\ \A i \in 1 .. Len(u) - n :
           (x \o t)[i] = IF i <= Len(s) - n THEN x[i] ELSE t[i - (Len(s) - n)]
  <2>1. Len(x) + Len(t) = Len(u) - n
    BY <1>1, <1>2
  <2>2. /\ x \o t \in Seq(Cell) /\ Len(x \o t) = Len(x) + Len(t)
        /\ \A i \in 1 .. Len(x) + Len(t) :
             (x \o t)[i] = IF i <= Len(x) THEN x[i] ELSE t[i - Len(x)]
    BY <1>2, ConcatProperties
  <2> QED
    BY <1>2, <2>1, <2>2
<1>5. ASSUME NEW i \in 1 .. Len(u) - n PROVE (x \o t)[i] = y[i]
  <2>1. i \in Nat /\ n + i \in 1 .. Len(s) + Len(t)
    BY <1>1
  <2>2. CASE i <= Len(s) - n
    <3>1. i \in 1 .. Len(s) - n /\ n + i <= Len(s)
      BY <1>1, <2>1, <2>2
    <3> QED
      BY <1>1, <1>2, <1>3, <1>4, <2>1, <2>2, <3>1
  <2>3. CASE ~ i <= Len(s) - n
    <3>1. ~ n + i <= Len(s) /\ n + i - Len(s) = i - (Len(s) - n)
      BY <1>1, <2>1, <2>3
    <3>2. (x \o t)[i] = t[i - (Len(s) - n)]
      BY <1>4, <2>3
    <3>3. u[n + i] = t[n + i - Len(s)]
      BY <1>1, <2>1, <3>1
    <3> QED
      BY <1>3, <3>1, <3>2, <3>3
  <2> QED
    BY <2>2, <2>3
<1>6. x \o t = y
  BY <1>3, <1>4, <1>5, SeqEqual
<1> QED
  BY <1>6 DEF u, x, y

(* Three strings one after the other.                                      *)
LEMMA Regroup ==
  ASSUME NEW a \in Seq(Cell), NEW b \in Seq(Cell), NEW c \in Seq(Cell)
  PROVE  (a \o b) \o c = a \o (b \o c) /\ a \o b \in Seq(Cell)
BY ConcatAssociative, ConcatProperties

(* Data in one message more.                                               *)
LEMMA DataInGrows ==
  ASSUME NEW m \in Seq(Frame), NEW f \in Frame
  PROVE  /\ DataIn(m) \in Seq(Cell) /\ f.body \in Seq(Cell)
         /\ Append(m, f) \in Seq(Frame)
         /\ f.sub = 1 => DataIn(Append(m, f)) = DataIn(m)
         /\ f.sub = 2 => DataIn(Append(m, f)) = DataIn(m) \o f.body
<1>1. << f >> \in Seq(Frame) /\ f.body \in Seq(Cell) /\ Append(m, f) \in Seq(Frame)
  BY AppendProperties DEF Frame
<1>2. Append(m, f) = m \o << f >>
  BY AppendIsConcat
<1>3. /\ DataIn(m \o << f >>) = DataIn(m) \o DataIn(<< f >>)
      /\ DataIn(m) \in Seq(Cell)
  BY <1>1, DataInAdds
<1>4. DataIn(<< f >>) = IF f.sub = 2 THEN f.body ELSE << >>
  BY ShortStreams
<1>5. DataIn(m) \o << >> = DataIn(m)
  BY <1>3, ConcatEmptySeq
<1>6. f.sub = 1 => DataIn(Append(m, f)) = DataIn(m)
  BY <1>2, <1>3, <1>4, <1>5
<1>7. f.sub = 2 => DataIn(Append(m, f)) = DataIn(m) \o f.body
  BY <1>2, <1>3, <1>4
<1> QED
  BY <1>1, <1>3, <1>6, <1>7

(* A token more at the end of a stream.                                    *)
LEMMA TokenSent ==
  ASSUME NEW n \in Nat, NEW p \in Seq(Cell), NEW x \in Seq(Cell), NEW s \in Seq(Cell),
         x \o s = p \o Tokens(n)
  PROVE  x \o Append(s, C("data", n + 1)) = p \o Tokens(n + 1)
<1> DEFINE c == << C("data", n + 1) >>
<1>1. C("data", n + 1) \in Cell /\ Tokens(n) \in Seq(Cell)
      /\ Tokens(n + 1) = Tokens(n) \o c
  BY TokensGrow
<1>2. c \in Seq(Cell) /\ Append(s, C("data", n + 1)) = s \o c
  BY <1>1, SingletonType, AppendIsConcat
<1> HIDE DEF c
<1>3. c \in Seq(Cell) /\ x \in Seq(Cell) /\ s \in Seq(Cell) /\ p \in Seq(Cell)
      /\ Tokens(n) \in Seq(Cell)
  BY <1>1, <1>2
<1>4. (x \o s) \o c = x \o (s \o c)
  BY ONLY <1>3, Regroup
<1>5. (p \o Tokens(n)) \o c = p \o (Tokens(n) \o c)
  BY ONLY <1>3, Regroup
<1> QED
  BY <1>1, <1>2, <1>4, <1>5

(* The beginning of a stream stays it when the stream goes on.             *)
Begins(s, t) == \E x \in Seq(Cell) : s \o x = t

(* It is a prefix in the sense of the properties.                          *)
LEMMA BeginsIsPrefix ==
  ASSUME NEW s \in Seq(Cell), NEW t \in Seq(Cell), Begins(s, t)
  PROVE  IsPrefix(s, t)
<1>1. PICK x \in Seq(Cell) : s \o x = t
  BY DEF Begins
<1>2. /\ Len(s) \in Nat /\ Len(x) \in Nat /\ Len(t) = Len(s) + Len(x)
      /\ \A i \in 1 .. Len(s) + Len(x) : t[i] = IF i <= Len(s) THEN s[i] ELSE x[i - Len(s)]
  BY <1>1, ConcatProperties, LenProperties
<1>3. Len(s) <= Len(t) /\ Len(s) \in 0 .. Len(s) /\ Len(s) \in 0 .. Len(t)
  BY <1>2
<1>4. \A i \in 1 .. Len(s) : t[i] = s[i]
  BY <1>2
<1>5. /\ SubSeq(s, 1, Len(s)) \in Seq(Cell) /\ SubSeq(t, 1, Len(s)) \in Seq(Cell)
      /\ Len(SubSeq(s, 1, Len(s))) = Len(s) /\ Len(SubSeq(t, 1, Len(s))) = Len(s)
      /\ \A i \in 1 .. Len(s) : SubSeq(s, 1, Len(s))[i] = s[i] /\ SubSeq(t, 1, Len(s))[i] = t[i]
  BY <1>3, Splits
<1>6. SubSeq(s, 1, Len(s)) = SubSeq(t, 1, Len(s))
  BY <1>4, <1>5, SeqEqual
<1> QED
  BY <1>3, <1>6 DEF IsPrefix

(* It stays one whatever comes behind.                                     *)
LEMMA BeginsGrows ==
  ASSUME NEW s \in Seq(Cell), NEW t \in Seq(Cell), NEW x \in Seq(Cell), Begins(s, t)
  PROVE  Begins(s, t \o x)
<1>1. PICK y \in Seq(Cell) : s \o y = t
  BY DEF Begins
<1>2. (s \o y) \o x = s \o (y \o x) /\ y \o x \in Seq(Cell)
  BY ConcatAssociative, ConcatProperties
<1> QED
  BY <1>1, <1>2 DEF Begins

(* A stream begins with itself, and with nothing.                          *)
LEMMA BeginsItself ==
  ASSUME NEW s \in Seq(Cell)
  PROVE  Begins(s, s) /\ Begins(<< >>, s)
<1>1. s \o << >> = s /\ << >> \o s = s /\ << >> \in Seq(Cell)
  BY ConcatEmptySeq
<1> QED
  BY <1>1 DEF Begins

(* Chunks written and not yet received, behind those received: a receive   *)
(* leaves them as they are, a write adds to the bytes they hold.           *)
LEMMA ChunksReceived ==
  ASSUME NEW a \in Seq(Seq(Cell)), NEW b \in Seq(Seq(Cell)), b # << >>
  PROVE  Append(a, Head(b)) \o Tail(b) = a \o b
<1> DEFINE Strings == Seq(Cell)
<1>1. a \in Seq(Strings) /\ b \in Seq(Strings)
  OBVIOUS
<1> HIDE DEF Strings
<1> QED
  BY <1>1, ReceiveMoves

(* What async_write adds to the chunks and to their bytes.                 *)
LEMMA ChunksSent ==
  ASSUME NEW a \in Seq(Seq(Cell)), NEW b \in Seq(Seq(Cell)), NEW x \in Seq(Seq(Cell)),
         NEW end
  PROVE  /\ FlattenSeq(a \o b) \in Seq(Cell) /\ FlattenSeq(x) \in Seq(Cell)
         /\ a \o b \in Seq(Seq(Cell))
         /\ end = "up" => /\ a \o Sent(end, b, x) = (a \o b) \o x
                          /\ FlattenSeq(a \o Sent(end, b, x))
                               = FlattenSeq(a \o b) \o FlattenSeq(x)
         /\ end # "up" => a \o Sent(end, b, x) = a \o b
<1> DEFINE Strings == Seq(Cell)
<1>1. a \in Seq(Strings) /\ b \in Seq(Strings) /\ x \in Seq(Strings)
  OBVIOUS
<1> HIDE DEF Strings
<1>2. a \o b \in Seq(Strings)
  BY <1>1, ConcatProperties
<1>3. /\ end = "up" => a \o Sent(end, b, x) = (a \o b) \o x
      /\ end # "up" => a \o Sent(end, b, x) = a \o b
  <2>1. ASSUME end = "up" PROVE a \o Sent(end, b, x) = (a \o b) \o x
    <3>1. (a \o b) \o x = a \o (b \o x)
      BY <1>1, ConcatAssociative
    <3> QED
      BY <2>1, <3>1 DEF Sent
  <2>2. ASSUME end # "up" PROVE a \o Sent(end, b, x) = a \o b
    BY <2>2 DEF Sent
  <2> QED
    BY <2>1, <2>2
<1>4. a \o b \in Seq(Seq(Cell))
  BY <1>2 DEF Strings
<1>5. FlattenSeq((a \o b) \o x) = FlattenSeq(a \o b) \o FlattenSeq(x)
  BY <1>4, FlattenConcat
<1>6. FlattenSeq(a \o b) \in Seq(Cell) /\ FlattenSeq(x) \in Seq(Cell)
  BY <1>4, FlattenType
<1> QED
  BY <1>3, <1>4, <1>5, <1>6

(* The same when the socket is open.                                       *)
LEMMA ChunksWritten ==
  ASSUME NEW a \in Seq(Seq(Cell)), NEW b \in Seq(Seq(Cell)), NEW x \in Seq(Seq(Cell))
  PROVE  /\ FlattenSeq(a \o (b \o x)) = FlattenSeq(a \o b) \o FlattenSeq(x)
         /\ FlattenSeq(a \o b) \in Seq(Cell) /\ FlattenSeq(x) \in Seq(Cell)
<1>1. Sent("up", b, x) = b \o x
  BY DEF Sent
<1>2. /\ FlattenSeq(a \o b) \in Seq(Cell) /\ FlattenSeq(x) \in Seq(Cell)
      /\ FlattenSeq(a \o Sent("up", b, x)) = FlattenSeq(a \o b) \o FlattenSeq(x)
  BY ChunksSent
<1> QED
  BY <1>1, <1>2

(* The bodies of all messages but the first, when one more is sent.        *)
Later(m) == SubSeq(m, 2, Len(m))

(* One message more is a later one unless it is the first.                 *)
LEMMA LaterGrows ==
  ASSUME NEW m \in Seq(Frame), NEW f \in Frame
  PROVE  /\ Later(m) \in Seq(Frame)
         /\ m # << >> => Later(Append(m, f)) = Append(Later(m), f)
         /\ m = << >> => Later(m) = << >> /\ Later(Append(m, f)) = << >>
<1>1. Len(m) \in Nat /\ 2 = 1 + 1
  BY LenProperties
<1>2. Later(m) \in Seq(Frame)
  <2>1. SubSeq(m, 1 + 1, Len(m)) \in Seq(Frame)
    BY RestType
  <2> QED
    BY <1>1, <2>1 DEF Later
<1>3. ASSUME m = << >> PROVE Later(m) = << >> /\ Later(Append(m, f)) = << >>
  <2>1. Len(m) = 0 /\ Append(m, f) = << f >> /\ Len(<< f >>) = 1
    BY <1>3
  <2>2. SubSeq(m, 2, 0) = << >> /\ SubSeq(<< f >>, 2, 1) = << >>
    BY SubSeqEmpty
  <2> QED
    BY <2>1, <2>2 DEF Later
<1>4. ASSUME m # << >> PROVE Later(Append(m, f)) = Append(Later(m), f)
  <2> DEFINE n == Append(m, f)
  <2>1. Len(m) \in Nat \ {0}
    BY <1>1, <1>4, EmptySeq
  <2>2. n \in Seq(Frame) /\ Len(n) = Len(m) + 1 /\ n[Len(m) + 1] = f
        /\ \A i \in 1 .. Len(m) : n[i] = m[i]
    BY AppendProperties
  <2> HIDE DEF n
  <2>3. \A i \in 2 .. Len(m) + 1 : n[i] \in Frame
    BY <2>1, <2>2, ElementOfSeq
  <2>4. \A i \in 2 .. Len(m) : m[i] \in Frame
    BY <2>1, ElementOfSeq
  <2>5. /\ SubSeq(n, 2, Len(m) + 1) \in Seq(Frame)
        /\ Len(SubSeq(n, 2, Len(m) + 1)) = Len(m)
        /\ \A i \in 1 .. Len(m) : SubSeq(n, 2, Len(m) + 1)[i] = n[i + 1]
    BY <2>1, <2>3, SubSeqProperties
  <2>6. /\ SubSeq(m, 2, Len(m)) \in Seq(Frame)
        /\ Len(SubSeq(m, 2, Len(m))) = Len(m) - 1
        /\ \A i \in 1 .. Len(m) - 1 : SubSeq(m, 2, Len(m))[i] = m[i + 1]
    <3>1. 2 \in Int /\ Len(m) \in Int
      BY <2>1
    <3>2. /\ SubSeq(m, 2, Len(m)) \in Seq(Frame)
          /\ Len(SubSeq(m, 2, Len(m))) = IF 2 <= Len(m) THEN Len(m) - 2 + 1 ELSE 0
          /\ \A i \in 1 .. Len(m) - 2 + 1 : SubSeq(m, 2, Len(m))[i] = m[2 + i - 1]
      BY <2>4, <3>1, SubSeqProperties
    <3>3. ASSUME NEW i \in 1 .. Len(m) - 1 PROVE SubSeq(m, 2, Len(m))[i] = m[i + 1]
      <4>1. i \in 1 .. Len(m) - 2 + 1 /\ 2 + i - 1 = i + 1
        BY <2>1
      <4> QED
        BY <3>2, <4>1
    <3>4. Len(SubSeq(m, 2, Len(m))) = Len(m) - 1
      <4>1. CASE 2 <= Len(m)
        <5>1. Len(SubSeq(m, 2, Len(m))) = Len(m) - 2 + 1
          BY <3>2, <4>1
        <5> QED
          BY <2>1, <5>1
      <4>2. CASE ~ 2 <= Len(m)
        <5>1. Len(m) = 1
          <6>1. \A k \in Nat \ {0} : ~ 2 <= k => k = 1
            OBVIOUS
          <6> QED
            BY <2>1, <4>2, <6>1
        <5>2. Len(SubSeq(m, 2, Len(m))) = 0
          BY <3>2, <4>2
        <5> QED
          BY <5>1, <5>2
      <4> QED
        BY <4>1, <4>2
    <3> QED
      BY <3>2, <3>3, <3>4
  <2> DEFINE x == SubSeq(n, 2, Len(m) + 1)
             y == SubSeq(m, 2, Len(m))
  <2>7. Len(y) = Len(m) - 1 /\ y \in Seq(Frame) /\ x \in Seq(Frame) /\ Len(x) = Len(m)
        /\ (\A i \in 1 .. Len(m) : x[i] = n[i + 1])
        /\ (\A i \in 1 .. Len(m) - 1 : y[i] = m[i + 1])
    BY <2>5, <2>6
  <2> HIDE DEF x, y
  <2>8. /\ Append(y, f) \in Seq(Frame) /\ Len(Append(y, f)) = Len(m)
        /\ Append(y, f)[Len(m)] = f
        /\ \A i \in 1 .. Len(m) - 1 : Append(y, f)[i] = m[i + 1]
    BY <2>1, <2>7, AppendProperties
  <2>9. \A i \in 1 .. Len(m) : x[i] = Append(y, f)[i]
    BY <2>1, <2>2, <2>7, <2>8
  <2>10. x = Append(y, f)
    BY <2>7, <2>8, <2>9, SeqEqual
  <2> QED
    BY <2>2, <2>10 DEF Later, x, y, n
<1> QED
  BY <1>2, <1>3, <1>4

(* Cells of data are their own payload.                                    *)
AllPayload(s) == \A i \in 1 .. Len(s) : IsData(s[i])

LEMMA PayloadOfData ==
  ASSUME NEW s \in Seq(Cell), AllPayload(s)
  PROVE  Payload(s) = s
<1> DEFINE T == {n \in Nat : \A z \in Seq(Cell) : Len(z) = n /\ AllPayload(z) => Payload(z) = z}
<1>1. 0 \in T
  <2>1. ASSUME NEW z \in Seq(Cell), Len(z) = 0 PROVE Payload(z) = z
    BY <2>1, EmptySeq, ShortStreams
  <2> QED
    BY <2>1
<1>2. ASSUME NEW n \in Nat, n \in T PROVE n + 1 \in T
  <2>1. ASSUME NEW z \in Seq(Cell), Len(z) = n + 1, AllPayload(z) PROVE Payload(z) = z
    <3> DEFINE x == SubSeq(z, 1, n)
               c == z[n + 1]
    <3>1. c \in Cell /\ IsData(c)
      <4>1. n + 1 \in 1 .. Len(z)
        BY <2>1
      <4> QED
        BY <2>1, <4>1, ElementOfSeq DEF AllPayload
    <3>2. x \in Seq(Cell) /\ Len(x) = n /\ \A i \in 1 .. n : x[i] = z[i]
      <4>1. 1 \in 1 .. Len(z) + 1 /\ n \in 1 - 1 .. Len(z)
        BY <2>1
      <4>2. x \in Seq(Cell) /\ Len(x) = n - 1 + 1 /\ \A i \in 1 .. n - 1 + 1 : x[i] = z[1 + i - 1]
        BY <4>1, SubSeqProperties
      <4>3. n - 1 + 1 = n /\ \A i \in 1 .. n : 1 + i - 1 = i
        OBVIOUS
      <4> QED
        BY <4>2, <4>3
    <3> HIDE DEF x, c
    <3>3. z = Append(x, c)
      <4>1. c = z[n + 1]
        BY DEF c
      <4>2. /\ Append(x, c) \in Seq(Cell) /\ Len(Append(x, c)) = n + 1
            /\ Append(x, c)[n + 1] = c /\ \A i \in 1 .. n : Append(x, c)[i] = x[i]
        BY <3>1, <3>2, AppendProperties
      <4>3. \A i \in 1 .. n + 1 : z[i] = Append(x, c)[i]
        BY <3>2, <4>1, <4>2
      <4> QED
        BY <2>1, <4>2, <4>3, SeqEqual
    <3>4. AllPayload(x)
      BY <2>1, <3>2 DEF AllPayload
    <3>5. Payload(x) = x
      BY <1>2, <3>2, <3>4
    <3>6. Payload(<< c >>) = << c >> /\ << c >> \in Seq(Cell)
      BY <3>1, ShortStreams, SingletonType
    <3>7. Payload(x \o << c >>) = Payload(x) \o Payload(<< c >>)
      BY <3>2, <3>6, PayloadAdds
    <3>8. Append(x, c) = x \o << c >>
      BY <3>1, <3>2, AppendIsConcat
    <3> QED
      BY <3>3, <3>5, <3>6, <3>7, <3>8
  <2> QED
    BY <2>1
<1>3. \A n \in Nat : n \in T
  <2> HIDE DEF T
  <2> QED
    BY <1>1, <1>2, Induction
<1>4. Len(s) \in T
  BY <1>3, LenProperties
<1> QED
  BY <1>4

(* What stands in a stream of tokens is data.                              *)
LEMMA TokensAreData ==
  ASSUME NEW n \in Nat, NEW a \in Seq(Cell), NEW b \in Seq(Cell), Begins(a \o b, Tokens(n))
  PROVE  AllPayload(b)
<1>1. PICK x \in Seq(Cell) : (a \o b) \o x = Tokens(n)
  BY DEF Begins
<1>2. /\ a \o b \in Seq(Cell) /\ Len(a \o b) = Len(a) + Len(b)
      /\ \A i \in 1 .. Len(a) + Len(b) : (a \o b)[i] = IF i <= Len(a) THEN a[i] ELSE b[i - Len(a)]
      /\ Len(a) \in Nat /\ Len(b) \in Nat /\ Len(x) \in Nat
  BY ConcatProperties, LenProperties
<1> DEFINE d == a \o b
<1>3. d \in Seq(Cell) /\ x \in Seq(Cell)
  BY <1>2
<1> HIDE DEF d
<1>4. /\ Len(d \o x) = Len(d) + Len(x)
      /\ \A i \in 1 .. Len(d) + Len(x) : (d \o x)[i] = IF i <= Len(d) THEN d[i] ELSE x[i - Len(d)]
  BY <1>3, ConcatProperties
<1>5. ASSUME NEW i \in 1 .. Len(b) PROVE IsData(b[i])
  <2> DEFINE j == Len(a) + i
  <2>1. /\ j \in 1 .. Len(a) + Len(b) /\ ~ j <= Len(a) /\ j - Len(a) = i
        /\ j \in 1 .. Len(d) + Len(x) /\ j <= Len(d)
    BY <1>2 DEF d
  <2>2. Tokens(n)[j] = b[i]
    <3> HIDE DEF j
    <3>1. d[j] = b[i]
      BY <1>2, <2>1 DEF d
    <3>2. (d \o x)[j] = d[j]
      BY <1>4, <2>1
    <3> QED
      BY <1>1, <3>1, <3>2 DEF d
  <2>3. Len(Tokens(n)) = n /\ Len(Tokens(n)) = Len(d) + Len(x)
    BY <1>1, <1>4, TokensGrow DEF d
  <2>4. j \in 1 .. n
    BY <2>1, <2>3
  <2>5. Tokens(n)[j] = C("data", j)
    <3> HIDE DEF j
    <3> QED
      BY <2>4 DEF Tokens
  <2> QED
    BY <2>2, <2>5 DEF IsData, C
<1> QED
  BY <1>5 DEF AllPayload

(* What a string that begins another begins with begins it as well.        *)
LEMMA BeginsShorter ==
  ASSUME NEW a \in Seq(Cell), NEW b \in Seq(Cell), NEW t, Begins(a \o b, t)
  PROVE  Begins(a, t)
<1>1. PICK x \in Seq(Cell) : (a \o b) \o x = t
  BY DEF Begins
<1>2. a \in Seq(Cell) /\ b \in Seq(Cell) /\ x \in Seq(Cell)
  OBVIOUS
<1>3. (a \o b) \o x = a \o (b \o x) /\ b \o x \in Seq(Cell)
  BY ONLY <1>2, Regroup
<1> QED
  BY <1>1, <1>3 DEF Begins

(* A string that goes on and still begins a stream is its first tokens.    *)
LEMMA TokensGoOn ==
  ASSUME NEW n \in Nat, NEW a \in Seq(Cell), NEW x \in Seq(Cell), x # << >>,
         Begins(a \o x, Tokens(n))
  PROVE  \E k \in Len(a) + 1 .. n : a \o x = Tokens(k)
<1> DEFINE s == a \o x
           k == Len(s)
<1>1. PICK y \in Seq(Cell) : s \o y = Tokens(n)
  BY DEF Begins
<1>2. s \in Seq(Cell) /\ k = Len(a) + Len(x) /\ k \in Nat
  BY ConcatProperties, LenProperties
<1>3. Len(a) \in Nat /\ Len(x) \in Nat /\ Len(x) # 0 /\ Len(y) \in Nat
  BY LenProperties, EmptySeq
<1> HIDE DEF s
<1>4. /\ Len(s \o y) = Len(s) + Len(y)
      /\ \A i \in 1 .. Len(s) + Len(y) : (s \o y)[i] = IF i <= Len(s) THEN s[i] ELSE y[i - Len(s)]
  <2>1. s \in Seq(Cell) /\ y \in Seq(Cell)
    BY <1>2
  <2> QED
    BY ONLY <2>1, ConcatProperties
<1> HIDE DEF k
<1>5. Len(Tokens(n)) = n /\ Tokens(k) \in Seq(Cell) /\ Len(Tokens(k)) = k
  BY <1>2, TokensGrow
<1>6. k <= n
  <2>1. n = Len(s) + Len(y)
    BY <1>1, <1>4, <1>5
  <2> QED
    BY <1>3, <2>1 DEF k
<1>7. \A i \in 1 .. k : s[i] = Tokens(k)[i]
  <2> SUFFICES ASSUME NEW i \in 1 .. k PROVE s[i] = Tokens(k)[i]
    OBVIOUS
  <2>1. i \in 1 .. Len(s) + Len(y) /\ i <= Len(s) /\ i \in 1 .. n
    BY <1>2, <1>3, <1>6 DEF k
  <2>2. Tokens(n)[i] = s[i]
    BY <1>1, <1>4, <2>1
  <2>3. Tokens(n)[i] = C("data", i) /\ Tokens(k)[i] = C("data", i)
    BY <2>1 DEF Tokens
  <2> QED
    BY <2>2, <2>3
<1>8. s = Tokens(k)
  <2>1. Len(s) = Len(Tokens(k)) /\ Len(s) = k
    BY <1>5 DEF k
  <2> QED
    BY <1>2, <1>5, <1>7, <2>1, SeqEqual
<1>9. k \in Len(a) + 1 .. n
  BY <1>2, <1>3, <1>6
<1> QED
  BY <1>8, <1>9 DEF s

-----------------------------------------------------------------------------
(***************************************************************************)
(* The control of a session, tun_local's or tun_remote's: an invariant     *)
(* that tells the phases of its life apart and ties the operations in      *)
(* progress to the state of the two sockets in each, and what each way a   *)
(* handler can end does to it.                                             *)
(*                                                                         *)
(* Both sessions have the same phases.  They differ in their handlers:     *)
(* S is the set of the set-up handlers, A those of them that run before    *)
(* rsock_ is connected, U and D the handlers of the two directions of the  *)
(* pipe.                                                                   *)
(***************************************************************************)
Apart(S, A, U, D) ==
  /\ A \subseteq S
  /\ S \cap U = {} /\ S \cap D = {} /\ U \cap D = {}

(* One operation of the set-up is in progress and nothing else.            *)
SettingUp(S, A) ==
  /\ \E op \in S : /\ pend = {op}
                   /\ rsock = IF op \in A THEN "new" ELSE "up"
  /\ queued = {}
  /\ sock = "up"
  /\ terminated = FALSE

(* One operation of each direction is in progress.                         *)
Piping(U, D) ==
  /\ \E u \in U, d \in D : pend = {u, d}
  /\ queued = {}
  /\ sock = "up" /\ rsock = "up"
  /\ terminated = FALSE

(* After shutdown(): what is left of the two directions runs out.          *)
Closing(U, D) ==
  /\ pend \subseteq U \cup D
  /\ \A x, y \in pend \cap U : x = y
  /\ \A x, y \in pend \cap D : x = y
  /\ queued \subseteq pend
  /\ sock = "closed" /\ rsock = "closed"
  /\ terminated = FALSE

(* The session is destroyed, or the process is gone.                       *)
Gone ==
  /\ pend = {} /\ queued = {}
  /\ sock = "closed" /\ rsock \in {"new", "closed"}
  /\ terminated \in BOOLEAN

Phases(S, A, U, D) ==
  SettingUp(S, A) \/ Piping(U, D) \/ Closing(U, D) \/ Gone

-----------------------------------------------------------------------------
(* A set-up handler that runs does so in the set-up phase.                 *)
LEMMA SetupAlone ==
  ASSUME NEW S, NEW A, NEW U, NEW D, Apart(S, A, U, D), Phases(S, A, U, D),
         NEW op \in S, op \in pend
  PROVE  /\ SettingUp(S, A) /\ pend = {op} /\ queued = {} /\ sock = "up"
         /\ rsock = IF op \in A THEN "new" ELSE "up"
         /\ terminated = FALSE
BY DEF Apart, Phases, SettingUp, Piping, Closing, Gone

(* A set-up operation is followed by another.                              *)
LEMMA SetupStarts ==
  ASSUME NEW S, NEW A, NEW U, NEW D, Apart(S, A, U, D), Phases(S, A, U, D),
         NEW op \in S, NEW new \in S, op \in pend, op \in A <=> new \in A,
         Start(op, {new})
  PROVE  Phases(S, A, U, D)'
<1>1. pend' = {new} /\ queued' = {} /\ UNCHANGED << sock, rsock, terminated >>
  BY SetupAlone DEF Start
<1>2. SettingUp(S, A)'
  BY <1>1, SetupAlone DEF SettingUp
<1> QED
  BY <1>2 DEF Phases

(* The set-up ends with one operation in each direction.                   *)
LEMMA PipeStarts ==
  ASSUME NEW S, NEW A, NEW U, NEW D, Apart(S, A, U, D), Phases(S, A, U, D),
         NEW op \in S \ A, op \in pend, NEW u \in U, NEW d \in D,
         Start(op, {u, d})
  PROVE  Phases(S, A, U, D)'
<1>1. pend' = {u, d} /\ queued' = {} /\ UNCHANGED << sock, rsock, terminated >>
  BY SetupAlone DEF Start
<1>2. Piping(U, D)'
  BY <1>1, SetupAlone DEF Piping
<1> QED
  BY <1>2 DEF Phases

(* rsock_ is connected.                                                    *)
LEMMA LinkConnects ==
  ASSUME NEW S, NEW A, NEW U, NEW D, Apart(S, A, U, D), Phases(S, A, U, D),
         NEW op \in A, NEW new \in S \ A, op \in pend,
         Connected(op, new)
  PROVE  Phases(S, A, U, D)'
<1>1. op \in S
  BY DEF Apart
<1>2. pend' = {new} /\ rsock' = "up" /\ UNCHANGED << queued, sock, terminated >>
  BY <1>1, SetupAlone DEF Connected
<1>3. SettingUp(S, A)'
  BY <1>1, <1>2, SetupAlone DEF SettingUp
<1> QED
  BY <1>3 DEF Phases

(* A set-up handler that starts nothing leaves no operation.               *)
LEMMA SetupReturns ==
  ASSUME NEW S, NEW A, NEW U, NEW D, Apart(S, A, U, D), Phases(S, A, U, D),
         NEW op \in S, op \in pend, Return(op)
  PROVE  Phases(S, A, U, D)'
<1>1. /\ pend' = {} /\ queued' = {} /\ terminated' = FALSE
      /\ sock' = Close(sock) /\ rsock' = Close(rsock)
  BY SetupAlone DEF Return, CloseBoth
<1>2. Gone'
  BY <1>1, SetupAlone DEF Gone, Close
<1> QED
  BY <1>2 DEF Phases

(* An exception leaves nothing of the session, whichever handler throws.   *)
LEMMA Throws ==
  ASSUME NEW S, NEW A, NEW U, NEW D, Apart(S, A, U, D), Phases(S, A, U, D),
         NEW op, op \in pend, Throw
  PROVE  Phases(S, A, U, D)'
<1>1. /\ pend' = {} /\ queued' = {} /\ terminated' = TRUE
      /\ sock' = Close(sock) /\ rsock' = Close(rsock)
  BY DEF Throw, CloseBoth
<1>2. sock \in {"up", "closed"} /\ rsock \in Ends
  BY DEF Phases, SettingUp, Piping, Closing, Gone, Ends
<1>3. Gone'
  BY <1>1, <1>2 DEF Gone, Close, Ends
<1> QED
  BY <1>3 DEF Phases

(* An operation of a direction is followed by one of the same direction.   *)
LEMMA PipeGoesOn ==
  ASSUME NEW S, NEW A, NEW U, NEW D, Apart(S, A, U, D), Phases(S, A, U, D),
         NEW op \in U \cup D, NEW new \in U \cup D, op \in U <=> new \in U,
         op \in pend, Start(op, {new})
  PROVE  Phases(S, A, U, D)'
<1>1. /\ pend' = (pend \ {op}) \cup {new} /\ queued' = queued \ {op}
      /\ UNCHANGED << sock, rsock, terminated >>
  BY DEF Start
<1>2. U \cap D = {}
  BY DEF Apart
<1>3. CASE Piping(U, D)
  <2>1. PICK u \in U, d \in D : pend = {u, d}
    BY <1>3 DEF Piping
  <2>2. \E x \in U, y \in D : pend' = {x, y}
    <3>1. CASE op = u
      <4>1. new \in U /\ pend' = {new, d}
        BY <1>1, <1>2, <2>1, <3>1
      <4> QED
        BY <4>1
    <3>2. CASE op = d
      <4>1. new \in D /\ pend' = {u, new}
        BY <1>1, <1>2, <2>1, <3>2
      <4> QED
        BY <4>1
    <3> QED
      BY <2>1, <3>1, <3>2
  <2>3. Piping(U, D)'
    BY <1>1, <1>3, <2>2 DEF Piping
  <2> QED
    BY <2>3 DEF Phases
<1>4. CASE Closing(U, D)
  <2>1. Closing(U, D)'
    BY <1>1, <1>2, <1>4 DEF Closing
  <2> QED
    BY <2>1 DEF Phases
<1>5. ~ SettingUp(S, A) /\ ~ Gone
  BY DEF SettingUp, Gone, Apart
<1> QED
  BY <1>3, <1>4, <1>5 DEF Phases

(* shutdown(), whatever is queued then.                                    *)
LEMMA ShutsDown ==
  ASSUME NEW S, NEW A, NEW U, NEW D, Apart(S, A, U, D), Phases(S, A, U, D),
         NEW op, op \in pend, NEW done, Shutdown(op, done)
  PROVE  Phases(S, A, U, D)'
<1>1. /\ pend' = pend \ {op}
      /\ queued' \subseteq pend'
      /\ terminated' = terminated
      /\ sock' = Close(sock) /\ rsock' = Close(rsock)
  BY DEF Shutdown, CloseBoth
<1>2. CASE SettingUp(S, A)
  <2>1. pend' = {} /\ queued' = {} /\ terminated' = FALSE
    BY <1>1, <1>2 DEF SettingUp
  <2>2. sock' = "closed" /\ rsock' \in {"new", "closed"}
    BY <1>1, <1>2 DEF SettingUp, Close
  <2>3. Gone'
    BY <2>1, <2>2 DEF Gone
  <2> QED
    BY <2>3 DEF Phases
<1>3. CASE Piping(U, D)
  <2>1. PICK u \in U, d \in D : pend = {u, d}
    BY <1>3 DEF Piping
  <2>2. u \notin D /\ d \notin U
    BY DEF Apart
  <2>3. Closing(U, D)'
    BY <1>1, <1>3, <2>1, <2>2 DEF Closing, Piping, Close
  <2> QED
    BY <2>3 DEF Phases
<1>4. CASE Closing(U, D)
  <2>1. Closing(U, D)'
    BY <1>1, <1>4 DEF Closing, Close
  <2> QED
    BY <2>1 DEF Phases
<1> QED
  BY <1>2, <1>3, <1>4 DEF Phases, Gone

(* No step of its neighbours disturbs the control of a session.            *)
LEMMA PhasesStutter ==
  ASSUME NEW S, NEW A, NEW U, NEW D, Phases(S, A, U, D), UNCHANGED control
  PROVE  Phases(S, A, U, D)'
BY DEF control, Phases, SettingUp, Piping, Closing, Gone

-----------------------------------------------------------------------------
(* What the phases say of the operations in progress.                      *)

LEMMA PhasesType ==
  ASSUME NEW S, NEW A, NEW U, NEW D, Phases(S, A, U, D)
  PROVE  /\ pend \subseteq S \cup U \cup D
         /\ queued \subseteq pend
         /\ sock \in Ends /\ rsock \in Ends
         /\ terminated \in BOOLEAN
BY DEF Phases, SettingUp, Piping, Closing, Gone, Ends

(* A set whose members are all equal has at most one.                      *)
LEMMA AtMostOne ==
  ASSUME NEW T, \A x, y \in T : x = y
  PROVE  Cardinality(T) <= 1
<1>1. CASE T = {}
  BY <1>1, FS_EmptySet
<1>2. CASE T # {}
  <2>1. PICK x \in T : TRUE
    BY <1>2
  <2>2. T = {x}
    BY <2>1
  <2>3. Cardinality({x}) = 1
    BY FS_Singleton
  <2> QED
    BY <2>2, <2>3
<1> QED
  BY <1>1, <1>2

LEMMA PhasesNoOverlap ==
  ASSUME NEW S, NEW A, NEW U, NEW D, Apart(S, A, U, D), Phases(S, A, U, D)
  PROVE  /\ pend \cap S # {} => Cardinality(pend) = 1
         /\ Cardinality(pend \cap U) <= 1
         /\ Cardinality(pend \cap D) <= 1
<1>1. ASSUME pend \cap S # {} PROVE Cardinality(pend) = 1
  <2>1. PICK op \in S : pend = {op}
    BY <1>1, SetupAlone
  <2> QED
    BY <2>1, FS_Singleton
<1>2. /\ \A x, y \in pend \cap U : x = y
      /\ \A x, y \in pend \cap D : x = y
  BY DEF Apart, Phases, SettingUp, Piping, Closing, Gone
<1> QED
  BY <1>1, <1>2, AtMostOne

LEMMA PhasesNoDeadDirection ==
  ASSUME NEW S, NEW A, NEW U, NEW D, Phases(S, A, U, D),
         sock = "up" \/ rsock = "up"
  PROVE  pend \cap S # {} \/ (pend \cap U # {} /\ pend \cap D # {})
BY DEF Phases, SettingUp, Piping, Closing, Gone

(* Only before rsock_ is connected does an exception leave it so.          *)
LEMMA AskingThrows ==
  ASSUME NEW S, NEW A, NEW U, NEW D, Apart(S, A, U, D), Phases(S, A, U, D),
         NEW op \in A, op \in pend, Throw
  PROVE  rsock' = "new"
<1>1. op \in S
  BY DEF Apart
<1>2. rsock = "new"
  BY <1>1, SetupAlone
<1> QED
  BY <1>2 DEF Throw, CloseBoth, Close

(* The process that is gone does nothing.                                  *)
LEMMA TerminatedIsStill ==
  ASSUME NEW S, NEW A, NEW U, NEW D, Phases(S, A, U, D), terminated
  PROVE  pend = {}
BY DEF Phases, SettingUp, Piping, Closing, Gone
=============================================================================
