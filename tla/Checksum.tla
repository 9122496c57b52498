------------------------------ MODULE Checksum ------------------------------
(* CRC32, four bits at a time with a table, as utils/CRC32.cpp has it.     *)
EXTENDS Words

crc32_table ==
  << << 0, 0 >>, << 7607, 4196 >>, << 15214, 8392 >>, << 9945, 12460 >>,
     << 30428, 16784 >>, << 27499, 20980 >>, << 19890, 24920 >>, << 20485, 28988 >>,
     << 60856, 33568 >>, << 61455, 37700 >>, << 54998, 41960 >>, << 52065, 45964 >>,
     << 39780, 49840 >>, << 34515, 53972 >>, << 40970, 57976 >>, << 48573, 61980 >> >>

(* One half of a byte goes into the low digit of the state.                *)
Digit(state, d) == XorWord(crc32_table[XorByte(state[2] % 16, d) + 1], Shifted(state))

(* Mutant: the high half of a byte is left out.                            *)
updateLow == [state \in Word |-> [data \in Byte |-> Digit(state, data % 16)]]

(* Both halves of a byte, the low one first.                               *)
update ==
  [state \in Word |-> [data \in Byte |-> Digit(Digit(state, data % 16), data \div 16)]]

(* calculate(): from all ones, and complemented at the end.                *)
Ones == << Half - 1, Half - 1 >>

Updated(data) ==
  LET state[n \in 0 .. Len(data)] == IF n = 0 THEN Ones ELSE update[state[n - 1]][data[n]]
  IN state[Len(data)]

calculate(data) == Complement(Updated(data))

-----------------------------------------------------------------------------
(* The reference: the division by the polynomial, a bit at a time.         *)
Polynomial == << 60856, 33568 >>  \* EDB88320, the lowest power first

Halved(a) == << a[1] \div 2, (a[1] % 2) * 32768 + a[2] \div 2 >>

(* Divided by a bit, a digit and the byte d.                               *)
DividedBit(a) == IF a[2] % 2 = 1 THEN XorWord(Halved(a), Polynomial) ELSE Halved(a)
DividedDigit(a) == DividedBit(DividedBit(DividedBit(DividedBit(a))))
Divided ==
  [a \in Word |-> [d \in Byte |-> DividedDigit(DividedDigit(XorWord(a, W(d))))]]

Remainder(data) ==
  LET state[n \in 0 .. Len(data)] ==
        IF n = 0 THEN Ones ELSE Divided[state[n - 1]][data[n]]
  IN state[Len(data)]

Crc(data) == Complement(Remainder(data))
=============================================================================
