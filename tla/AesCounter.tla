------------------------------- MODULE AesCounter -------------------------------
(***************************************************************************)
(* aes256::sum_w128: the counter of a block is the start counter plus a    *)
(* number derived from the number of the block, byte by byte from the last *)
(* byte to the first.  The number is shifted by sizeof(uint8_t), one bit,  *)
(* from byte to byte, and a carry that comes in causes none.               *)
(***************************************************************************)
EXTENDS Integers

CONSTANTS Dim, Width      \* DIM_ARRAY, the bytes of a block; bits of a byte

ASSUME SizeAssumption == Dim \in Nat \ {0, 1} /\ Width \in Nat \ {0} /\ Dim <= 2^Width

Byte == 0..(2^Width - 1)

\* Mutant of Digit: the number is not shifted.
DigitSame(n, i) == n % 2^Width

\* What is left of the block number when byte i is summed.
Digit(n, i) == (n \div 2^(Dim - i)) % 2^Width

Carries(s, n, i) == i < Dim /\ s[i + 1] + Digit(n, i + 1) >= 2^Width

SumW128(s, n) ==
  [i \in 1..Dim |->
     (s[i] + Digit(n, i) + IF Carries(s, n, i) THEN 1 ELSE 0) % 2^Width]

\* The block numbers that sum_w128 tells apart.
Period == 2^(Width + Dim - 1)
=============================================================================
