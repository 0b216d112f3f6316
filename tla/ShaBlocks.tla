------------------------------ MODULE ShaBlocks ------------------------------
(***************************************************************************)
(* Block arithmetic of class sha256 (src/source/src/sha256.cpp): how many  *)
(* 64-byte blocks a message of `size' bytes needs, how many of them point  *)
(* straight into the input, and what every block must hold.                *)
(*                                                                         *)
(* A block is abstracted to the set of parts stored in it, each a pair     *)
(* <<kind, number>>:                                                       *)
(*   <<"input", k>>   the 64 bytes of input from offset 64*k               *)
(*   <<"copy", n>>    the last n bytes of the input, zeros behind them     *)
(*   <<"one", p>>     the padding bit, first bit of byte p                 *)
(*   <<"zeros", n>>   n zero bytes                                         *)
(*   <<"length", b>>  the message length in bits, in the last 8 bytes      *)
(***************************************************************************)
EXTENDS Integers, Sequences, FiniteSets

BlockBytes == 64    \* _SIZE_WORKSPACE_FILLED_WITH_MESSAGE * sizeof(uint32_t)

Bits(size) == size * 8

\* Mutant of NeedExtra: the boundary is one off.
NeedExtraStrict(size) == Bits(size) % 512 > 448

\* The length field does not fit behind the last bytes of the input.
NeedExtra(size) == Bits(size) % 512 >= 448

ZerosForPadding(size) ==
  IF NeedExtra(size) THEN 1024 - ((Bits(size) % 512) + 65)
                     ELSE 512 - (65 + (Bits(size) % 512))

Cycles(size) == (Bits(size) + 1 + ZerosForPadding(size) + 64) \div 512

\* Mutant of FullBlocks: the extra block is taken for one of the input.
FullBlocksNoExtra(size) == Cycles(size) - 1

\* `max' of prepare_message: the blocks that are read in place.
FullBlocks(size) == Cycles(size) - (IF NeedExtra(size) THEN 2 ELSE 1)

(***************************************************************************)
(* The byte of the block prepare_padding puts the padding bit into, as its *)
(* arithmetic on the number of zeros computes it.  With an extra block it  *)
(* picks the word 14 or 15 and a byte in it; without, it walks back from   *)
(* byte 56 while more than 8 zero bits are left.                           *)
(***************************************************************************)
MarkByteExtra(size) ==
  LET z == ZerosForPadding(size) % 64
  IN  IF z >= 32 THEN 14 * 4 + (4 - (((z - 32) \div 8) + 1))
                 ELSE 15 * 4 + (4 - ((z \div 8) + 1))

\* Mutant of MarkBytePlain: the last --idx is forgotten.
MarkBytePlainLong(size) == 56 - ((ZerosForPadding(size) - 1) \div 8)

MarkBytePlain(size) ==
  LET steps == IF ZerosForPadding(size) > 8
               THEN (ZerosForPadding(size) - 1) \div 8 ELSE 0
  IN  56 - steps - 1

MarkByte(size) == IF NeedExtra(size) THEN MarkByteExtra(size)
                                     ELSE MarkBytePlain(size)

(***************************************************************************)
(* What FIPS 180-4 asks of the k-th of the blocks of a padded message: the *)
(* input in order, one 1 bit behind it, zeros, and the length at the end   *)
(* of the last block.                                                      *)
(***************************************************************************)
FipsBlockCount(size) == (size + 8) \div 64 + 1

FipsBlock(size, k) ==
  CASE k <= size \div 64 -> {<<"input", k - 1>>}
    [] k = size \div 64 + 1 /\ k < FipsBlockCount(size) ->
         {<<"copy", size % 64>>, <<"one", size % 64>>}
    [] k = size \div 64 + 1 /\ k = FipsBlockCount(size) ->
         {<<"copy", size % 64>>, <<"one", size % 64>>, <<"length", size * 8>>}
    [] OTHER -> {<<"zeros", 56>>, <<"length", size * 8>>}

FipsMessage(size) == [k \in 1..FipsBlockCount(size) |-> FipsBlock(size, k)]
=============================================================================
