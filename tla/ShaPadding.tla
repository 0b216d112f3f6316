------------------------------ MODULE ShaPadding ------------------------------
(***************************************************************************)
(* The bytes that prepare_message and prepare_padding                      *)
(* (src/source/src/sha256.cpp) put into the blocks, one thread only: what  *)
(* ShaPipeline abstracts to parts of a block is spelled out here, with     *)
(* the loop that walks back over the zeros and the bit arithmetic that     *)
(* finds the place of the padding bit.                                     *)
(*                                                                         *)
(* A byte is <<"input", j>>, the j-th byte of the message; <<"value", v>>, *)
(* a number; <<"length", s>>, the low byte of the length in bits shifted   *)
(* right by s; <<"junk", 0>>, a byte of new[] memory nobody wrote; or      *)
(* <<"mixed", 0>>, a byte that had something else or-ed into it.           *)
(***************************************************************************)
EXTENDS ShaBlocks

CONSTANT Sizes     \* the sizes in bytes of the inputs

ASSUME SizesAssumption == Sizes \subseteq Nat \ {0}

VARIABLES
  size,    \* _sizes_bytes_input
  pc,      \* where the producer is
  i,       \* the loop counter of prepare_message
  read,    \* _bytes_already_reads
  buf,     \* the heap bytes of the last block
  idx,     \* the loop counter of prepare_padding
  z,       \* tmp_number_of_zeros_for_padding
  blocks   \* the blocks handed to the consumer

vars == <<size, pc, i, read, buf, idx, z, blocks>>

Offsets == 0..(BlockBytes - 1)
LengthAt == BlockBytes - 8

Zero == <<"value", 0>>
Junk == <<"junk", 0>>

\* b |= 1 << n
SetBit(b, n) ==
  CASE b[1] = "value" /\ (b[2] \div 2^n) % 2 = 0 -> <<"value", b[2] + 2^n>>
    [] b[1] = "value" /\ (b[2] \div 2^n) % 2 = 1 -> b
    [] OTHER -> <<"mixed", 0>>

Init ==
  /\ size \in Sizes
  /\ pc = "full" /\ i = 0 /\ read = 0
  /\ buf = [j \in Offsets |-> Junk]
  /\ idx = 0 /\ z = 0
  /\ blocks = <<>>

\* A block of the list that points into the input.
ReadFull ==
  /\ pc = "full" /\ i < FullBlocks(size)
  /\ blocks' = Append(blocks, [j \in Offsets |-> <<"input", BlockBytes * i + j>>])
  /\ read' = read + BlockBytes
  /\ i' = i + 1
  /\ UNCHANGED <<size, pc, buf, idx, z>>

\* The tail: `coutdown' bytes of input, then zeros to the end of the block.
CopyTail ==
  /\ pc = "full" /\ i >= FullBlocks(size)
  /\ buf' = [j \in Offsets |-> IF j < size - read
                               THEN <<"input", BlockBytes * i + j>> ELSE Zero]
  /\ pc' = "pad"
  /\ UNCHANGED <<size, i, read, idx, z, blocks>>

\* The padding bit behind the input, then a new block of 56 zero bytes.
PadExtra ==
  /\ pc = "pad" /\ NeedExtra(size)
  /\ blocks' = Append(blocks, [buf EXCEPT ![MarkByteExtra(size)] =
                                 SetBit(@, ZerosForPadding(size) % 8)])
  /\ buf' = [j \in Offsets |-> IF j < LengthAt THEN Zero ELSE Junk]
  /\ pc' = "length"
  /\ UNCHANGED <<size, i, read, idx, z>>

StartWalk ==
  /\ pc = "pad" /\ ~NeedExtra(size)
  /\ idx' = LengthAt
  /\ z' = ZerosForPadding(size)
  /\ pc' = "walk"
  /\ UNCHANGED <<size, i, read, buf, blocks>>

\* One turn of the loop: clear the byte before.
WalkBack ==
  /\ pc = "walk" /\ z > 8
  /\ buf' = [buf EXCEPT ![idx - 1] = Zero]
  /\ idx' = idx - 1
  /\ z' = z - 8
  /\ UNCHANGED <<size, pc, i, read, blocks>>

PlaceBit ==
  /\ pc = "walk" /\ z <= 8
  /\ IF idx > 0
     THEN /\ buf' = [buf EXCEPT ![idx - 1] = SetBit(@, z)]
          /\ idx' = idx - 1
     ELSE UNCHANGED <<buf, idx>>
  /\ pc' = "length"
  /\ UNCHANGED <<size, i, read, z, blocks>>

\* Mutant of WriteLength: the two words of the length are swapped.
WriteLengthSwapped ==
  /\ pc = "length"
  /\ blocks' = Append(blocks, [j \in Offsets |->
       CASE j \in 60..63 -> <<"length", 8 * (63 - j) + 32>>
         [] j \in 56..59 -> <<"length", 8 * (59 - j)>>
         [] OTHER        -> buf[j]])
  /\ pc' = "done"
  /\ UNCHANGED <<size, i, read, buf, idx, z>>

\* The eight bytes of the length, most significant first.
WriteLength ==
  /\ pc = "length"
  /\ blocks' = Append(blocks, [j \in Offsets |->
       CASE j \in 60..63 -> <<"length", 8 * (63 - j)>>
         [] j \in 56..59 -> <<"length", 8 * (59 - j) + 32>>
         [] OTHER        -> buf[j]])
  /\ pc' = "done"
  /\ UNCHANGED <<size, i, read, buf, idx, z>>

Done == pc = "done" /\ UNCHANGED vars

Next == ReadFull \/ CopyTail \/ PadExtra \/ StartWalk \/ WalkBack
        \/ PlaceBit \/ WriteLength \/ Done

Spec == Init /\ [][Next]_vars /\ WF_vars(Next)

-----------------------------------------------------------------------------
(***************************************************************************)
(* FIPS 180-4, section 5.1.1, byte by byte: the n-th byte of the padded    *)
(* message.                                                                *)
(***************************************************************************)
FipsByte(n) ==
  LET total == BlockBytes * FipsBlockCount(size)
  IN  CASE n < size      -> <<"input", n>>
        [] n = size      -> <<"value", 128>>
        [] n >= total - 8 -> <<"length", 8 * (total - 1 - n)>>
        [] OTHER         -> Zero

(***************************************************************************)
(* The blocks that prepare_message and prepare_padding hand over are the   *)
(* padded message of the standard, for lengths on both sides of every      *)
(* boundary of the arithmetic.                                             *)
(***************************************************************************)
PaddedAsFips ==
  pc = "done" =>
    blocks = [k \in 1..FipsBlockCount(size) |->
                [j \in Offsets |-> FipsByte(BlockBytes * (k - 1) + j)]]

(***************************************************************************)
(* The loop ends at the byte that ShaBlocks computes in closed form: the   *)
(* abstraction of ShaPipeline is the code's.                               *)
(***************************************************************************)
WalkEndsAtMark ==
  pc = "length" /\ ~NeedExtra(size) => idx = MarkByte(size)
=============================================================================
