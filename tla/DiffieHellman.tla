------------------------------ MODULE DiffieHellman ------------------------------
(***************************************************************************)
(* diffie_hellman (src/source/src/diffie_hellman.cpp): keys are strings of *)
(* hexadecimal digits, a fixed number of them for each number below Q, and *)
(* every number is an exchange of its own.  A string is the sequence of    *)
(* the values of its digits.  The code has Q = 2^32 - 5, Alpha = 2, 16     *)
(* digits of 4 bits, 8 of them for a number and 8 numbers for a key.       *)
(***************************************************************************)
EXTENDS Integers, SequencesExt

CONSTANTS
  Q, Alpha,
  DigitBits,     \* BIT_FOR_HEX
  Chars,         \* NUMBER_CHAR_TO_READ
  Words          \* CYCLES_256BITS

ASSUME PrimeAssumption ==
  /\ Q \in Nat \ {0, 1, 2} /\ \A d \in 2..(Q - 1) : Q % d # 0
  /\ Alpha \in 2..(Q - 1)
  /\ DigitBits \in Nat \ {0} /\ Chars \in Nat \ {0} /\ Words \in Nat \ {0}
  /\ Q < 2^(DigitBits * Chars)

WordBits == DigitBits * Chars
HexDigit == 0..(2^DigitBits - 1)

\* int64_t(log2(x) + 1), and 0 for 0, where the code's is undefined.
BitLength(x) == CHOOSE n \in 0..WordBits : x < 2^n /\ (n > 0 => x >= 2^(n - 1))

\* auxiliary: the bits of X, the lowest first.
Auxiliary(X) == [k \in 1..BitLength(X) |-> (X \div 2^(k - 1)) % 2]

\* tmp is squared for every bit, from the highest on, and multiplied for a one.
CalcExpMod(Y, X) ==
  LET n == BitLength(X)
      tmp[k \in 0..n] ==
        IF k = 0 THEN 1
        ELSE IF Auxiliary(X)[n + 1 - k] = 1 THEN (((tmp[k - 1] * tmp[k - 1]) % Q) * Y) % Q
        ELSE (tmp[k - 1] * tmp[k - 1]) % Q
  IN  tmp[n]

\* std::hex: no zeros in front.
Hex(x) ==
  LET n == (BitLength(x) + DigitBits - 1) \div DigitBits
  IN  [k \in 1..n |-> (x \div 2^(DigitBits * (n - k))) % 2^DigitBits]

\* Mutant of Zeros: log2 without the one.
ZerosLog(x) == (WordBits - (BitLength(x) - 1)) \div DigitBits

\* The zeros that hex32bit_append_to_string puts in front.
Zeros(x) == (WordBits - BitLength(x)) \div DigitBits

Word32(x) == [k \in 1..Zeros(x) |-> 0] \o Hex(x)

\* Mutant of FromString: the digits are read from the last one.
FromStringLow(s, index) ==
  LET tmp[k \in 0..Chars] ==
        IF k = 0 THEN 0 ELSE tmp[k - 1] * 2^DigitBits + s[(index + 1) * Chars + 1 - k]
  IN  tmp[Chars]

\* uint32bit_from_string: the number at index, from 0.
FromString(s, index) ==
  LET tmp[k \in 0..Chars] ==
        IF k = 0 THEN 0 ELSE tmp[k - 1] * 2^DigitBits + s[index * Chars + k]
  IN  tmp[Chars]

KeyOf(numbers) == FlattenSeq([k \in DOMAIN numbers |-> Word32(numbers[k])])

\* halfkey_generator_256bits, for the private numbers drawn.
PublicNumbers(drawn) == [k \in DOMAIN drawn |-> CalcExpMod(Alpha, drawn[k])]

\* key_generator_from_halfkey_256bits
SharedNumbers(priv, pub) ==
  [k \in 1..Words |-> CalcExpMod(FromString(pub, k - 1), FromString(priv, k - 1))]
=============================================================================
