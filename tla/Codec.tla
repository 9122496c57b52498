------------------------------- MODULE Codec --------------------------------
(***************************************************************************)
(* The codecs, on strings as sequences of bytes, and CodecFacade, which    *)
(* applies a list of them with one key.                                    *)
(***************************************************************************)
EXTENDS Words

-----------------------------------------------------------------------------
(* None, Xor and Reverse.                                                  *)
None(raw) == raw

Xor(raw) == [i \in DOMAIN raw |-> 255 - raw[i]]

(* The size of the segments hangs on the key up to its first zero byte; it *)
(* is reduced at once, because 512 divides the width of the hash.          *)
getSegSize(key) ==
  LET hash[n \in 0 .. Len(key)] ==
        IF n = 0 THEN 0
        ELSE IF \E i \in 1 .. n : key[i] = 0 THEN hash[n - 1]
        ELSE (31 * hash[n - 1] + key[n]) % 512 IN
  IF hash[Len(key)] = 0 THEN 512 ELSE hash[Len(key)]

(* Mutant: the segment behind the last whole one is left alone.            *)
ReverseSegmentsWhole(raw, key) ==
  LET size == getSegSize(key) IN
  [i \in DOMAIN raw |->
     LET begin == ((i - 1) \div size) * size IN
     IF begin + size > Len(raw) THEN raw[i] ELSE raw[begin + begin + size + 1 - i]]

(* Every segment is reversed, the last one as far as it goes.              *)
ReverseSegments(raw, key) ==
  LET size == getSegSize(key) IN
  [i \in DOMAIN raw |->
     LET begin == ((i - 1) \div size) * size
         end == IF begin + size > Len(raw) THEN Len(raw) ELSE begin + size IN
     raw[begin + end + 1 - i]]

-----------------------------------------------------------------------------
(* Rc4.  The state is set up from the key again for every message.         *)
Swap(m, i, j) == [m EXCEPT ![i] = m[j], ![j] = m[i]]

(* The key over and over, for 256 bytes; an empty one is its terminator.   *)
cycled(key) == [i \in Byte |-> IF key = << >> THEN 0 ELSE key[(i % Len(key)) + 1]]

(* One step for each place i of the permutation; j is carried along.       *)
Mixing == [i : Byte, j : Byte, m : [Byte -> Byte]]

MixedAt(s, bytes) ==
  LET j == (s.j + s.m[s.i] + bytes[s.i]) % 256 IN
  [i |-> (s.i + 1) % 256, j |-> j, m |-> Swap(s.m, s.i, j)]

(* 2^n steps are twice half as many.                                       *)
Mixed(bytes) ==
  LET mixed[n \in 0 .. 8] ==
        [s \in Mixing |-> IF n = 0 THEN MixedAt(s, bytes) ELSE mixed[n - 1][mixed[n - 1][s]]]
  IN mixed[8][[i |-> 0, j |-> 0, m |-> [i \in Byte |-> i]]].m

(* Mutant: the state is set up without the key.                            *)
rc4_setupKeyless(key) == Mixed([i \in Byte |-> 0])

rc4_setup(key) == Mixed(cycled(key))

(* One step for each byte of data: the n-th.                               *)
Mixes(s, n, byte) ==
  LET x == n % 256
      y == (s.y + s.m[x]) % 256
      m == Swap(s.m, x, y) IN
  [s EXCEPT !.y = y, !.m = m, !.out = Append(@, XorByte(byte, m[(m[x] + m[y]) % 256]))]

rc4_crypt(m, data) ==
  LET after[n \in 0 .. Len(data)] ==
        IF n = 0 THEN [y |-> 0, m |-> m, out |-> << >>] ELSE Mixes(after[n - 1], n, data[n])
  IN after[Len(data)].out

Rc4(raw, key) == rc4_crypt(rc4_setup(key), raw)

-----------------------------------------------------------------------------
(* Chacha20: the state is words 0 to 15, the counter in 12 and 13.         *)
pack4(a, i) == << a[i + 4] * 256 + a[i + 3], a[i + 2] * 256 + a[i + 1] >>

unpack4(w) == << w[2] % 256, w[2] \div 256, w[1] % 256, w[1] \div 256 >>

(* The words of "expand 32-byte k".                                        *)
Magic == << << 24944, 30821 >>, << 13088, 25710 >>, << 31074, 11570 >>, << 27424, 25972 >> >>

Chacha20Block(key, nonce, counter) ==
  [i \in 0 .. 15 |->
     CASE i <= 3 -> Magic[i + 1]
       [] i \in 4 .. 11 -> pack4(key, 4 * (i - 4))
       [] i = 12 -> counter
       [] i = 13 -> W(0)
       [] i >= 14 -> pack4(nonce, 4 * (i - 14))]

QuarterRound(x, q) ==
  LET a1 == Plus(x[q[1]], x[q[2]])
      d1 == Swapped(XorWord(x[q[4]], a1))
      c1 == Plus(x[q[3]], d1)
      b1 == Rotated(XorWord(x[q[2]], c1), 4096)
      a2 == Plus(a1, b1)
      d2 == Rotated(XorWord(d1, a2), 256)
      c2 == Plus(c1, d2) IN
  [x EXCEPT ![q[1]] = a2, ![q[2]] = Rotated(XorWord(b1, c2), 128), ![q[3]] = c2, ![q[4]] = d2]

Rounds == << << 0, 4, 8, 12 >>, << 1, 5, 9, 13 >>, << 2, 6, 10, 14 >>, << 3, 7, 11, 15 >>,
             << 0, 5, 10, 15 >>, << 1, 6, 11, 12 >>, << 2, 7, 8, 13 >>, << 3, 4, 9, 14 >> >>

(* Ten times all of them.                                                  *)
DoubleRounds(state) ==
  LET after[n \in 0 .. 80] ==
        IF n = 0 THEN state ELSE QuarterRound(after[n - 1], Rounds[((n - 1) % 8) + 1])
  IN after[80]

(* The 64 bytes of the next block.                                         *)
Sums(mixed, state) == [i \in 0 .. 15 |-> Plus(mixed[i], state[i])]
Unpacked(word) == [j \in 1 .. 64 |-> unpack4(word[(j - 1) \div 4])[((j - 1) % 4) + 1]]

next(state) == Unpacked(Sums(DoubleRounds(state), state))

Counted(state) ==
  LET low == Plus(state[12], W(1)) IN
  [state EXCEPT ![12] = low, ![13] = IF low = W(0) THEN Plus(@, W(1)) ELSE @]

NextBlock(s) == [state |-> Counted(s.state), keystream |-> s.keystream \o next(s.state)]

Keystream(state, blocks) ==
  LET after[n \in 0 .. blocks] ==
        IF n = 0 THEN [state |-> state, keystream |-> << >>] ELSE NextBlock(after[n - 1])
  IN after[blocks].keystream

XorBytes(bytes, keystream) == [i \in DOMAIN bytes |-> XorByte(bytes[i], keystream[i])]

crypt(state, bytes) == XorBytes(bytes, Keystream(state, (Len(bytes) + 63) \div 64))

(* memcpy takes 32 and 8 bytes from where the key begins, and so from what *)
(* lies behind a shorter one: its terminator, then whatever is in memory.  *)
realKey(key, behind) == SubSeq(Append(key, 0) \o behind, 1, 32)

Chacha20(raw, key, behind) ==
  LET bytes == realKey(key, behind) IN
  crypt(Chacha20Block(bytes, SubSeq(bytes, 1, 8), W(Len(key))), raw)

-----------------------------------------------------------------------------
(* CodecFacade: its key, what lies behind it in memory, the codecs it      *)
(* knows and the list of those it applies.                                 *)
init(key, behind) ==
  [key |-> key, behind |-> behind, list |-> << >>,
   all |-> {"xor", "chacha20", "reverse", "none", "rc4"}]

addCodec(facade, name) ==
  IF name \in facade.all THEN [facade EXCEPT !.list = Append(@, name)] ELSE facade

(* Every codec is its own inverse, and decode() of each is what encode()   *)
(* does, with the codecs in reverse.                                       *)
Crypted(facade, name, raw) ==
  CASE name = "none" -> None(raw)
    [] name = "xor" -> Xor(raw)
    [] name = "reverse" -> ReverseSegments(raw, facade.key)
    [] name = "rc4" -> Rc4(raw, facade.key)
    [] name = "chacha20" -> Chacha20(raw, facade.key, facade.behind)

encode(facade, raw) ==
  LET last == Len(facade.list)
      after[n \in 0 .. last] ==
        IF n = 0 THEN raw ELSE Crypted(facade, facade.list[n], after[n - 1])
  IN after[last]

decode(facade, raw) ==
  LET last == Len(facade.list)
      after[n \in 0 .. last] ==
        IF n = 0 THEN raw ELSE Crypted(facade, facade.list[last + 1 - n], after[n - 1])
  IN after[last]
=============================================================================
