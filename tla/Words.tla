------------------------------- MODULE Words --------------------------------
(***************************************************************************)
(* uint32_t and bytes.  A word is the pair of its halves, high half first, *)
(* because the tools count in 32 bits with a sign.                         *)
(***************************************************************************)
EXTENDS Naturals, SequencesExt

Byte == 0 .. 255
Half == 65536
Word == (0 .. Half - 1) \X (0 .. Half - 1)

(* The word of a number.                                                   *)
W(n) == << (n \div Half) % Half, n % Half >>

(* Exclusive or of two hexadecimal digits, a bit at a time; two bytes at a *)
(* time are looked up by their digits.                                     *)
XorDigit(a, b) ==
  LET Bit(p) == p * ((a \div p + b \div p) % 2) IN Bit(1) + Bit(2) + Bit(4) + Bit(8)

Xors == [a \in 0 .. 15 |-> [b \in 0 .. 15 |-> XorDigit(a, b)]]

XorByte(a, b) == Xors[a \div 16][b \div 16] * 16 + Xors[a % 16][b % 16]

XorHalf(a, b) == XorByte(a \div 256, b \div 256) * 256 + XorByte(a % 256, b % 256)

XorWord(a, b) == << XorHalf(a[1], b[1]), XorHalf(a[2], b[2]) >>

Complement(a) == << Half - 1 - a[1], Half - 1 - a[2] >>

Plus(a, b) ==
  << (a[1] + b[1] + (a[2] + b[2]) \div Half) % Half, (a[2] + b[2]) % Half >>

(* Shifted right by a hexadecimal digit.                                   *)
Shifted(a) == << a[1] \div 16, (a[1] % 16) * 4096 + a[2] \div 16 >>

(* Rotated left by less than 16 bits, those of the power of two p, and by  *)
(* 16.                                                                     *)
Rotated(a, p) ==
  << ((a[1] * p) % Half) + (a[2] \div (Half \div p)),
     ((a[2] * p) % Half) + (a[1] \div (Half \div p)) >>
Swapped(a) == << a[2], a[1] >>
=============================================================================
