--------------------------- MODULE ShaPaddingProofs ---------------------------
(***************************************************************************)
(* The bytes that prepare_message and prepare_padding hand over           *)
(* (ShaPadding) are the padded message of the standard, for every size of  *)
(* the input.                                                              *)
(***************************************************************************)
EXTENDS ShaPadding, SequenceTheorems, TLAPS

-----------------------------------------------------------------------------
(* Block arithmetic. *)

(***************************************************************************)
(* An input is its full blocks and a rest of less than one block.          *)
(***************************************************************************)
LEMMA Split ==
  ASSUME NEW n \in Nat
  PROVE  \E q \in Nat, r \in 0..63 :
           /\ n = 64 * q + r
           /\ n \div 64 = q /\ n % 64 = r
           /\ Bits(n) % 512 = 8 * r
<1> DEFINE q == n \div 64
           r == n % 64
<1>1. q \in Nat /\ r \in 0..63 /\ n = 64 * q + r
  OBVIOUS
<1>2. (8 * n) % 512 = 8 * r
  BY <1>1
<1>3. QED BY <1>1, <1>2 DEF Bits

(***************************************************************************)
(* prepare_message reads in place the blocks that lie in the input, and    *)
(* start_read folds as many blocks as the padded message has.              *)
(***************************************************************************)
LEMMA BlockCounts ==
  ASSUME NEW n \in Nat
  PROVE  /\ NeedExtra(n) <=> n % 64 >= 56
         /\ FullBlocks(n) = n \div 64
         /\ FullBlocks(n) \in Nat
         /\ Cycles(n) = FullBlocks(n) + (IF NeedExtra(n) THEN 2 ELSE 1)
         /\ Cycles(n) \in Nat
         /\ FipsBlockCount(n) = Cycles(n)
<1>1. PICK q \in Nat, r \in 0..63 :
           /\ n = 64 * q + r
           /\ n \div 64 = q /\ n % 64 = r
           /\ Bits(n) % 512 = 8 * r
  BY Split
<1>2. NeedExtra(n) <=> r >= 56
  BY <1>1 DEF NeedExtra
<1>3. CASE r >= 56
  <2>1. ZerosForPadding(n) = 959 - 8 * r
    BY <1>1, <1>2, <1>3 DEF ZerosForPadding
  <2>2. Cycles(n) = q + 2
    BY <1>1, <2>1 DEF Cycles, Bits
  <2>3. FipsBlockCount(n) = q + 2
    BY <1>1, <1>3 DEF FipsBlockCount
  <2>4. QED BY <1>1, <1>2, <1>3, <2>2, <2>3 DEF FullBlocks
<1>4. CASE r < 56
  <2>1. ZerosForPadding(n) = 447 - 8 * r
    BY <1>1, <1>2, <1>4 DEF ZerosForPadding
  <2>2. Cycles(n) = q + 1
    BY <1>1, <2>1 DEF Cycles, Bits
  <2>3. FipsBlockCount(n) = q + 1
    BY <1>1, <1>4 DEF FipsBlockCount
  <2>4. QED BY <1>1, <1>2, <1>4, <2>2, <2>3 DEF FullBlocks
<1>5. QED BY <1>1, <1>3, <1>4

(***************************************************************************)
(* The arithmetic of prepare_padding finds the first byte behind the       *)
(* input, in the block with room for the length and in the one without.    *)
(***************************************************************************)
THEOREM MarkBehindInput ==
  ASSUME NEW n \in Nat
  PROVE  MarkByte(n) = n % 64
<1>1. PICK q \in Nat, r \in 0..63 :
           /\ n = 64 * q + r
           /\ n \div 64 = q /\ n % 64 = r
           /\ Bits(n) % 512 = 8 * r
  BY Split
<1>2. NeedExtra(n) <=> r >= 56
  BY <1>1 DEF NeedExtra
<1>3. CASE r >= 56
  <2>1. ZerosForPadding(n) = 959 - 8 * r
    BY <1>1, <1>2, <1>3 DEF ZerosForPadding
  <2>2. ZerosForPadding(n) % 64 = 511 - 8 * r
    BY <1>1, <1>3, <2>1
  <2>3. MarkByteExtra(n) = r
    BY <1>1, <1>3, <2>2 DEF MarkByteExtra
  <2>4. QED BY <1>1, <1>2, <1>3, <2>3 DEF MarkByte
<1>4. CASE r < 56
  <2>1. ZerosForPadding(n) = 447 - 8 * r
    BY <1>1, <1>2, <1>4 DEF ZerosForPadding
  <2>2. MarkBytePlain(n) = r
    <3>1. CASE r = 55
      BY <2>1, <3>1 DEF MarkBytePlain
    <3>2. CASE r < 55
      <4>1. (447 - 8 * r) - 1 = 8 * (55 - r) + 6
        OBVIOUS
      <4>2. (ZerosForPadding(n) - 1) \div 8 = 55 - r
        BY <1>1, <2>1, <3>2
      <4>3. QED BY <1>1, <2>1, <3>2, <4>2 DEF MarkBytePlain
    <3>3. QED BY <1>4, <3>1, <3>2
  <2>3. QED BY <1>1, <1>2, <1>4, <2>2 DEF MarkByte
<1>5. QED BY <1>1, <1>3, <1>4

-----------------------------------------------------------------------------
(* The inductive invariant. *)

AnyByte == {"input", "value", "length", "junk", "mixed"} \X Nat

AnyBlock == [Offsets -> AnyByte]

\* Blocks of the input before the m-th are handed over.
InputBlocks(m) == \A k \in 1..m : \A j \in Offsets : blocks[k][j] = <<"input", BlockBytes * (k - 1) + j>>

\* Where the rest of the input starts, and how long it is.
Rest == size % BlockBytes
RestAt == BlockBytes * FullBlocks(size)

\* A block with the rest of the input, and what stands behind it.
TailOf(b, mark) ==
  \A j \in Offsets : /\ j < Rest => b[j] = <<"input", RestAt + j>>
                     /\ j = Rest => b[j] = mark
                     /\ j > Rest => b[j] = Zero

Mark == <<"value", 128>>

\* The loop has cleared what is behind idx; while it runs a whole number of bytes and the
\* seven bits behind the padding bit are left to it.
WalkInv ==
  /\ ~NeedExtra(size)
  /\ idx \in (Rest + 1)..LengthAt
  /\ z = 8 * (idx - 1 - Rest) + 7

ExtraInv ==
  /\ Len(blocks) = FullBlocks(size) + 1
  /\ TailOf(blocks[FullBlocks(size) + 1], Mark)
  /\ \A j \in Offsets : j < LengthAt => buf[j] = Zero

PlainInv ==
  /\ Len(blocks) = FullBlocks(size)
  /\ idx = Rest
  /\ TailOf(buf, Mark)

\* What the producer has done so far.
IInv ==
  /\ size \in Nat \ {0}
  /\ pc \in {"full", "pad", "walk", "length", "done"}
  /\ blocks \in Seq(AnyBlock)
  /\ buf \in AnyBlock
  /\ pc = "full" =>
       i \in 0..FullBlocks(size) /\ read = BlockBytes * i /\ Len(blocks) = i /\ InputBlocks(i)
  /\ pc # "full" => InputBlocks(FullBlocks(size))
  /\ pc \in {"pad", "walk"} => Len(blocks) = FullBlocks(size) /\ TailOf(buf, Zero)
  /\ pc = "walk" => WalkInv
  /\ pc = "length" => IF NeedExtra(size) THEN ExtraInv ELSE PlainInv
  /\ PaddedAsFips

-----------------------------------------------------------------------------

\* The numbers of a block.
LEMMA Sizes64 == Offsets = 0..63 /\ LengthAt = 56 /\ BlockBytes = 64
BY DEF Offsets, LengthAt, BlockBytes

\* The rest of the input is shorter than a block, and the zeros fill it up to the length.
LEMMA RestIs ==
  ASSUME size \in Nat \ {0}
  PROVE  /\ Rest \in 0..63 /\ FullBlocks(size) \in Nat /\ RestAt \in Nat
         /\ size = RestAt + Rest
         /\ NeedExtra(size) <=> Rest >= 56
         /\ NeedExtra(size) => ZerosForPadding(size) % 8 = 7 /\ MarkByteExtra(size) = Rest
         /\ ~NeedExtra(size) => ZerosForPadding(size) = 8 * (55 - Rest) + 7
                                /\ MarkByte(size) = Rest
         /\ FipsBlockCount(size) = FullBlocks(size) + (IF NeedExtra(size) THEN 2 ELSE 1)
<1>0. size \in Nat
  OBVIOUS
<1>1. PICK q \in Nat, r \in 0..63 :
           /\ size = 64 * q + r
           /\ size \div 64 = q /\ size % 64 = r
           /\ Bits(size) % 512 = 8 * r
  BY <1>0, Split
<1>2. /\ NeedExtra(size) <=> r >= 56
      /\ FullBlocks(size) = q
      /\ FipsBlockCount(size) = FullBlocks(size) + (IF NeedExtra(size) THEN 2 ELSE 1)
  <2>1. /\ NeedExtra(size) <=> size % 64 >= 56
        /\ FullBlocks(size) = size \div 64
        /\ Cycles(size) = FullBlocks(size) + (IF NeedExtra(size) THEN 2 ELSE 1)
        /\ FipsBlockCount(size) = Cycles(size)
    BY <1>0, BlockCounts
  <2> QED
    BY <1>1, <2>1
<1>3. MarkByte(size) = r
  BY <1>0, <1>1, MarkBehindInput
<1>4. Rest = r /\ RestAt = 64 * q
  BY <1>1, <1>2 DEF Rest, RestAt, BlockBytes
<1>5. ASSUME NeedExtra(size) PROVE ZerosForPadding(size) % 8 = 7
  <2>1. ZerosForPadding(size) = 8 * (119 - r) + 7
    BY <1>1, <1>5 DEF ZerosForPadding
  <2>2. 119 - r \in Nat
    BY <1>1
  <2> QED
    BY <2>1, <2>2
<1>6. ASSUME ~NeedExtra(size) PROVE ZerosForPadding(size) = 8 * (55 - r) + 7
  BY <1>1, <1>6 DEF ZerosForPadding
<1> QED
  BY <1>1, <1>2, <1>3, <1>4, <1>5, <1>6 DEF MarkByte

\* The padding bit makes 128 of a zero.
LEMMA MarkIs == SetBit(Zero, 7) = Mark
<1>1. 2^7 = 128
  OBVIOUS
<1> QED
  BY <1>1 DEF SetBit, Zero, Mark

\* A block is handed over.
LEMMA Handed ==
  ASSUME NEW s \in Seq(AnyBlock), NEW b \in AnyBlock
  PROVE  /\ Append(s, b) \in Seq(AnyBlock) /\ Len(s) \in Nat
         /\ Len(Append(s, b)) = Len(s) + 1
         /\ Append(s, b)[Len(s) + 1] = b
         /\ \A k \in 1..Len(s) : Append(s, b)[k] = s[k]
BY AppendProperties

\* Kinds of bytes.
LEMMA Kinds ==
  /\ Zero \in AnyByte /\ Junk \in AnyByte /\ Mark \in AnyByte
  /\ \A n \in Nat : <<"input", n>> \in AnyByte /\ <<"length", n>> \in AnyByte
BY DEF Zero, Junk, Mark, AnyByte

-----------------------------------------------------------------------------

\* A full block of the input.
LEMMA ReadFullIInv == ASSUME IInv, ReadFull PROVE IInv'
<1> DEFINE b == [j \in Offsets |-> <<"input", BlockBytes * i + j>>]
<1>1. /\ size \in Nat \ {0} /\ FullBlocks(size) \in Nat /\ i \in Nat /\ i < FullBlocks(size)
      /\ read = BlockBytes * i /\ Len(blocks) = i /\ InputBlocks(i) /\ blocks \in Seq(AnyBlock)
      /\ buf \in AnyBlock /\ pc = "full"
  BY RestIs DEF IInv, ReadFull
<1>2. /\ blocks' = Append(blocks, b) /\ read' = read + BlockBytes /\ i' = i + 1
      /\ size' = size /\ pc' = pc /\ buf' = buf
  BY DEF ReadFull
<1>3. b \in AnyBlock
  <2>1. \A j \in Offsets : BlockBytes * i + j \in Nat
    BY <1>1 DEF Offsets, BlockBytes
  <2> QED
    BY <2>1, Kinds DEF AnyBlock
<1>4. \A j \in Offsets : b[j] = <<"input", BlockBytes * ((i + 1) - 1) + j>>
  BY <1>1
<1> HIDE DEF b
<1>5. /\ blocks' \in Seq(AnyBlock) /\ Len(blocks') = i + 1 /\ blocks'[i + 1] = b
      /\ \A k \in 1..i : blocks'[k] = blocks[k]
  BY <1>1, <1>2, <1>3, Handed
<1>a. PICK m \in Nat : m = i + 1
  BY <1>1
<1>6. InputBlocks(m)'
  <2>1. \A k \in 1..(i + 1) : \A j \in Offsets :
          blocks'[k][j] = <<"input", BlockBytes * (k - 1) + j>>
    <3> TAKE k \in 1..(i + 1)
    <3> TAKE j \in Offsets
    <3>1. CASE k \in 1..i
      BY <1>1, <1>5, <3>1 DEF InputBlocks
    <3>2. CASE k = i + 1
      BY <1>4, <1>5, <3>2
    <3> QED
      BY <1>1, <3>1, <3>2
  <2> QED
    BY <1>a, <2>1 DEF InputBlocks
<1> QED
  BY <1>1, <1>2, <1>5, <1>6, <1>a DEF IInv, PaddedAsFips, InputBlocks, BlockBytes

\* The rest of the input, and zeros.
LEMMA CopyTailIInv == ASSUME IInv, CopyTail PROVE IInv'
<1>1. /\ size \in Nat \ {0} /\ FullBlocks(size) \in Nat /\ i = FullBlocks(size)
      /\ read = RestAt /\ Len(blocks) = i /\ InputBlocks(i) /\ blocks \in Seq(AnyBlock)
      /\ RestAt \in Nat /\ size = RestAt + Rest /\ Rest \in 0..63
      /\ BlockBytes * i = RestAt
  BY RestIs DEF IInv, CopyTail, RestAt
<1>2. /\ buf' = [j \in Offsets |-> IF j < size - read
                                   THEN <<"input", BlockBytes * i + j>> ELSE Zero]
      /\ pc' = "pad" /\ size' = size /\ blocks' = blocks
  BY DEF CopyTail
<1>3. size - read = Rest
  BY <1>1
<1>4. buf' = [j \in Offsets |-> IF j < Rest THEN <<"input", RestAt + j>> ELSE Zero]
  BY <1>1, <1>2, <1>3
<1>5. buf' \in AnyBlock
  <2>1. \A j \in Offsets : RestAt + j \in Nat
    BY <1>1 DEF Offsets, BlockBytes
  <2> QED
    BY <1>4, <2>1, Kinds DEF AnyBlock
<1>6. TailOf(buf, Zero)'
  <2>1. \A j \in Offsets : /\ j < Rest => buf'[j] = <<"input", RestAt + j>>
                           /\ j = Rest => buf'[j] = Zero
                           /\ j > Rest => buf'[j] = Zero
    <3> TAKE j \in Offsets
    <3>1. j \in Int /\ Rest \in Int
      BY <1>1, Sizes64
    <3>2. buf'[j] = IF j < Rest THEN <<"input", RestAt + j>> ELSE Zero
      BY <1>4
    <3> QED
      BY <3>1, <3>2
  <2>2. Rest' = Rest /\ RestAt' = RestAt
    BY <1>2 DEF Rest, RestAt
  <2> QED
    BY <2>1, <2>2 DEF TailOf
<1> QED
  BY <1>1, <1>2, <1>5, <1>6 DEF IInv, InputBlocks, PaddedAsFips

\* The padding bit, in the block without the length.
LEMMA PadExtraIInv == ASSUME IInv, PadExtra PROVE IInv'
<1> DEFINE q == FullBlocks(size)
           b == [buf EXCEPT ![Rest] = Mark]
<1>1. /\ size \in Nat \ {0} /\ q \in Nat /\ Len(blocks) = q /\ InputBlocks(q)
      /\ blocks \in Seq(AnyBlock) /\ buf \in AnyBlock /\ TailOf(buf, Zero) /\ NeedExtra(size)
      /\ Rest \in Offsets /\ MarkByteExtra(size) = Rest /\ ZerosForPadding(size) % 8 = 7
  BY RestIs DEF IInv, PadExtra, Offsets, BlockBytes
<1>2. /\ blocks' = Append(blocks, [buf EXCEPT ![MarkByteExtra(size)] =
                                     SetBit(@, ZerosForPadding(size) % 8)])
      /\ buf' = [j \in Offsets |-> IF j < LengthAt THEN Zero ELSE Junk]
      /\ pc' = "length" /\ size' = size
  BY DEF PadExtra
<1>3. buf[Rest] = Zero
  BY <1>1 DEF TailOf
<1>4. blocks' = Append(blocks, b)
  BY <1>1, <1>2, <1>3, MarkIs DEF AnyBlock
<1>5. b \in AnyBlock /\ TailOf(b, Mark)
  <2>1. b \in AnyBlock
    BY <1>1, Kinds DEF AnyBlock
  <2>2. b[Rest] = Mark /\ \A j \in Offsets : j # Rest => b[j] = buf[j]
    BY <1>1 DEF AnyBlock
  <2>3. Rest \in 0..63 /\ Offsets = 0..63
    BY <1>1, Sizes64
  <2> HIDE DEF b
  <2>4. TailOf(b, Mark)
    <3> SUFFICES ASSUME NEW j \in Offsets
                 PROVE  /\ j < Rest => b[j] = <<"input", RestAt + j>>
                        /\ j = Rest => b[j] = Mark
                        /\ j > Rest => b[j] = Zero
      BY DEF TailOf
    <3>1. /\ j < Rest => buf[j] = <<"input", RestAt + j>>
          /\ j > Rest => buf[j] = Zero
      BY <1>1 DEF TailOf
    <3> QED
      BY <2>2, <2>3, <3>1
  <2> QED
    BY <2>1, <2>4
<1>6. buf' \in AnyBlock /\ \A j \in Offsets : j < LengthAt => buf'[j] = Zero
  BY <1>2, Kinds DEF AnyBlock
<1> HIDE DEF b
<1>7. /\ blocks' \in Seq(AnyBlock) /\ Len(blocks') = q + 1 /\ blocks'[q + 1] = b
      /\ \A k \in 1..q : blocks'[k] = blocks[k]
  BY <1>1, <1>4, <1>5, Handed
<1>8. InputBlocks(q)'
  BY <1>1, <1>2, <1>7 DEF InputBlocks
<1>9. ExtraInv'
  BY <1>2, <1>5, <1>6, <1>7 DEF ExtraInv, TailOf, Rest, RestAt
<1> QED
  BY <1>1, <1>2, <1>6, <1>7, <1>8, <1>9 DEF IInv, PaddedAsFips

\* The loop starts in front of the length.
LEMMA StartWalkIInv == ASSUME IInv, StartWalk PROVE IInv'
<1>1. /\ size \in Nat \ {0} /\ ~NeedExtra(size) /\ Rest \in 0..63
      /\ NeedExtra(size) <=> Rest >= 56
      /\ ZerosForPadding(size) = 8 * (55 - Rest) + 7
      /\ Len(blocks) = FullBlocks(size) /\ TailOf(buf, Zero) /\ InputBlocks(FullBlocks(size))
  BY RestIs DEF IInv, StartWalk
<1>2. /\ idx' = LengthAt /\ z' = ZerosForPadding(size) /\ pc' = "walk"
      /\ size' = size /\ buf' = buf /\ blocks' = blocks
  BY DEF StartWalk
<1>3. WalkInv'
  BY <1>1, <1>2 DEF WalkInv, Rest, LengthAt, BlockBytes
<1> QED
  BY <1>1, <1>2, <1>3 DEF IInv, PaddedAsFips, TailOf, Rest, RestAt, InputBlocks

\* One byte back, which is zero already.
LEMMA WalkBackIInv == ASSUME IInv, WalkBack PROVE IInv'
<1>1. /\ size \in Nat \ {0} /\ Rest \in 0..63 /\ WalkInv /\ z > 8
      /\ Len(blocks) = FullBlocks(size) /\ TailOf(buf, Zero) /\ InputBlocks(FullBlocks(size))
      /\ buf \in AnyBlock /\ pc = "walk"
  BY RestIs DEF IInv, WalkBack
<1>2. /\ buf' = [buf EXCEPT ![idx - 1] = Zero] /\ idx' = idx - 1 /\ z' = z - 8
      /\ size' = size /\ pc' = pc /\ blocks' = blocks
  BY DEF WalkBack
<1>3. idx \in Int /\ idx - 1 \in (Rest + 1)..LengthAt
  BY <1>1 DEF WalkInv, LengthAt, BlockBytes
<1>4. WalkInv'
  <2>1. ~NeedExtra(size)' /\ Rest' = Rest
    BY <1>1, <1>2 DEF WalkInv, Rest
  <2>2. z' = 8 * (idx' - 1 - Rest) + 7 /\ idx' \in (Rest + 1)..LengthAt'
    BY <1>1, <1>2, <1>3 DEF WalkInv, LengthAt
  <2> QED
    BY <2>1, <2>2 DEF WalkInv
<1>5. idx - 1 \in Offsets /\ buf[idx - 1] = Zero
  <2>1. idx - 1 \in 0..63 /\ idx - 1 > Rest
    BY <1>1, <1>3, Sizes64
  <2> QED
    BY <1>1, <2>1, Sizes64 DEF TailOf
<1>6. buf' = buf
  BY <1>1, <1>2, <1>5 DEF AnyBlock
<1> QED
  BY <1>1, <1>2, <1>4, <1>6 DEF IInv, PaddedAsFips, TailOf, Rest, RestAt, InputBlocks

\* The padding bit, in the block of the length.
LEMMA PlaceBitIInv == ASSUME IInv, PlaceBit PROVE IInv'
<1>1. /\ size \in Nat \ {0} /\ Rest \in 0..63 /\ WalkInv /\ z <= 8
      /\ Len(blocks) = FullBlocks(size) /\ TailOf(buf, Zero) /\ InputBlocks(FullBlocks(size))
      /\ buf \in AnyBlock /\ blocks \in Seq(AnyBlock)
  BY RestIs DEF IInv, PlaceBit
<1>2. idx = Rest + 1 /\ z = 7 /\ idx > 0 /\ idx - 1 = Rest /\ Rest \in Offsets
  BY <1>1 DEF WalkInv, LengthAt, BlockBytes, Offsets
<1>3. buf[Rest] = Zero
  BY <1>1, <1>2 DEF TailOf
<1>4. /\ buf' = [buf EXCEPT ![Rest] = Mark] /\ idx' = Rest
      /\ pc' = "length" /\ size' = size /\ blocks' = blocks
  BY <1>1, <1>2, <1>3, MarkIs DEF PlaceBit, AnyBlock
<1>5. buf' \in AnyBlock
  BY <1>1, <1>2, <1>4, Kinds DEF AnyBlock
<1>a. buf'[Rest] = Mark /\ \A j \in Offsets : j # Rest => buf'[j] = buf[j]
  BY <1>1, <1>2, <1>4 DEF AnyBlock
<1>6. \A j \in Offsets : /\ j < Rest => buf'[j] = <<"input", RestAt + j>>
                         /\ j = Rest => buf'[j] = Mark
                         /\ j > Rest => buf'[j] = Zero
  <2> TAKE j \in Offsets
  <2>1. /\ j < Rest => buf[j] = <<"input", RestAt + j>>
        /\ j > Rest => buf[j] = Zero
    BY <1>1 DEF TailOf
  <2>2. j \in Int /\ Rest \in Int
    BY <1>1, Sizes64
  <2>3. j # Rest => buf'[j] = buf[j]
    BY <1>a
  <2> QED
    BY <1>a, <2>1, <2>2, <2>3
<1>7. PlainInv'
  BY <1>1, <1>4, <1>6 DEF PlainInv, TailOf, Rest, RestAt
<1>8. ~NeedExtra(size)'
  BY <1>1, <1>4 DEF WalkInv
<1> QED
  BY <1>1, <1>4, <1>5, <1>7, <1>8 DEF IInv, PaddedAsFips, InputBlocks

\* The eight bytes of the length.
Long(j) == <<"length", 8 * (63 - j)>>

\* What the standard asks of a block of the input, of the block with its rest and of the
\* one behind it.
LEMMA FipsOf ==
  ASSUME size \in Nat \ {0}, NEW j \in Offsets
  PROVE  /\ \A k \in 1..FullBlocks(size) :
              FipsByte(64 * (k - 1) + j) = <<"input", 64 * (k - 1) + j>>
         /\ j < Rest => FipsByte(RestAt + j) = <<"input", RestAt + j>>
         /\ j = Rest => FipsByte(RestAt + j) = Mark
         /\ j > Rest /\ (NeedExtra(size) \/ j < 56) => FipsByte(RestAt + j) = Zero
         /\ ~NeedExtra(size) /\ j >= 56 => FipsByte(RestAt + j) = Long(j)
         /\ NeedExtra(size) /\ j < 56 => FipsByte(RestAt + 64 + j) = Zero
         /\ NeedExtra(size) /\ j >= 56 => FipsByte(RestAt + 64 + j) = Long(j)
<1>1. PICK q \in Nat, r \in 0..63 :
        /\ q = FullBlocks(size) /\ r = Rest /\ RestAt = 64 * q /\ size = 64 * q + r
        /\ NeedExtra(size) <=> r >= 56
        /\ r >= 56 => FipsBlockCount(size) = q + 2
        /\ r < 56 => FipsBlockCount(size) = q + 1
  <2>1. /\ FullBlocks(size) \in Nat /\ Rest \in 0..63 /\ RestAt = 64 * FullBlocks(size)
        /\ size = 64 * FullBlocks(size) + Rest
        /\ NeedExtra(size) <=> Rest >= 56
        /\ Rest >= 56 => FipsBlockCount(size) = FullBlocks(size) + 2
        /\ Rest < 56 => FipsBlockCount(size) = FullBlocks(size) + 1
    BY RestIs DEF RestAt, BlockBytes
  <2> QED
    BY <2>1
<1>2. PICK n \in Nat : n = 64 * FipsBlockCount(size)
  BY <1>1
<1>3. /\ r >= 56 => n = 64 * q + 128
      /\ r < 56 => n = 64 * q + 64
  BY <1>1, <1>2
<1>4. \A m \in Nat :
        /\ m < size => FipsByte(m) = <<"input", m>>
        /\ m = size => FipsByte(m) = Mark
        /\ m > size /\ m < n - 8 => FipsByte(m) = Zero
        /\ m > size /\ m >= n - 8 => FipsByte(m) = <<"length", 8 * (n - 1 - m)>>
  <2> TAKE m \in Nat
  <2>1. FipsByte(m) = CASE m < size   -> <<"input", m>>
                        [] m = size   -> Mark
                        [] m >= n - 8 -> <<"length", 8 * (n - 1 - m)>>
                        [] OTHER      -> Zero
    BY <1>2 DEF FipsByte, BlockBytes, Mark
  <2>2. m \in Int /\ size \in Int /\ n \in Int /\ size < n - 8
    BY <1>1, <1>3
  <2>3. CASE m < size
    BY <2>1, <2>2, <2>3
  <2>4. CASE m = size
    BY <2>1, <2>2, <2>4
  <2>5. CASE m > size /\ m >= n - 8
    BY <2>1, <2>2, <2>5
  <2>6. CASE m > size /\ m < n - 8
    BY <2>1, <2>2, <2>6
  <2> QED
    BY <2>2, <2>3, <2>4, <2>5, <2>6
<1>5. j \in 0..63
  BY Sizes64
<1>6. \A k \in 1..q : 64 * (k - 1) + j \in Nat /\ 64 * (k - 1) + j < size
  BY <1>1, <1>5
<1>7. \A k \in 1..FullBlocks(size) : FipsByte(64 * (k - 1) + j) = <<"input", 64 * (k - 1) + j>>
  BY <1>1, <1>4, <1>6
<1>8. PICK m \in Nat : m = RestAt + j
  BY <1>1, <1>5
<1>9. /\ j < r => m < size
      /\ j = r => m = size
      /\ j > r => m > size
      /\ j > r /\ (r >= 56 \/ j < 56) => m < n - 8
      /\ r < 56 /\ j >= 56 => m > size /\ m >= n - 8 /\ 8 * (n - 1 - m) = 8 * (63 - j)
  <2>1. m = 64 * q + j /\ size = 64 * q + r
    BY <1>1, <1>8
  <2> QED
    BY <1>3, <1>5, <2>1
<1>10. PICK l \in Nat : l = RestAt + 64 + j
  BY <1>1, <1>5
<1>11. r >= 56 => /\ l > size
                  /\ j < 56 => l < n - 8
                  /\ j >= 56 => l >= n - 8 /\ 8 * (n - 1 - l) = 8 * (63 - j)
  <2>1. l = 64 * q + 64 + j /\ size = 64 * q + r
    BY <1>1, <1>10
  <2> QED
    BY <1>3, <1>5, <2>1
<1>12. /\ j < r => FipsByte(m) = <<"input", m>>
       /\ j = r => FipsByte(m) = Mark
       /\ j > r /\ (r >= 56 \/ j < 56) => FipsByte(m) = Zero
       /\ r < 56 /\ j >= 56 => FipsByte(m) = Long(j)
  BY <1>4, <1>9 DEF Long
<1>13. /\ r >= 56 /\ j < 56 => FipsByte(l) = Zero
       /\ r >= 56 /\ j >= 56 => FipsByte(l) = Long(j)
  BY <1>4, <1>11 DEF Long
<1>14. ~NeedExtra(size) => r < 56
  BY <1>1
<1> QED
  BY <1>1, <1>7, <1>8, <1>10, <1>12, <1>13, <1>14

\* The length completes the padded message.
LEMMA WriteLengthIInv == ASSUME IInv, WriteLength PROVE IInv'
<1> DEFINE b == [j \in Offsets |-> IF j >= 56 THEN Long(j) ELSE buf[j]]
<1>1. /\ size \in Nat \ {0} /\ InputBlocks(FullBlocks(size)) /\ blocks \in Seq(AnyBlock)
      /\ buf \in AnyBlock /\ (NeedExtra(size) => ExtraInv) /\ (~NeedExtra(size) => PlainInv)
  BY DEF IInv, WriteLength
<1>a. PICK q \in Nat, n \in Nat, r \in 0..63 :
        /\ q = FullBlocks(size) /\ n = FipsBlockCount(size) /\ r = Rest /\ RestAt = 64 * q
        /\ NeedExtra(size) <=> r >= 56
        /\ NeedExtra(size) => n = q + 2
        /\ ~NeedExtra(size) => n = q + 1
  <2>1. /\ FullBlocks(size) \in Nat /\ FipsBlockCount(size) \in Nat /\ Rest \in 0..63
        /\ RestAt = 64 * FullBlocks(size)
        /\ NeedExtra(size) <=> Rest >= 56
        /\ NeedExtra(size) => FipsBlockCount(size) = FullBlocks(size) + 2
        /\ ~NeedExtra(size) => FipsBlockCount(size) = FullBlocks(size) + 1
    BY <1>1, RestIs DEF RestAt, BlockBytes
  <2> QED
    BY <2>1
<1>2. /\ blocks' = Append(blocks, [j \in Offsets |->
           CASE j \in 60..63 -> <<"length", 8 * (63 - j)>>
             [] j \in 56..59 -> <<"length", 8 * (59 - j) + 32>>
             [] OTHER        -> buf[j]])
      /\ pc' = "done" /\ size' = size /\ buf' = buf
  BY DEF WriteLength
<1>3. b = [j \in Offsets |->
           CASE j \in 60..63 -> <<"length", 8 * (63 - j)>>
             [] j \in 56..59 -> <<"length", 8 * (59 - j) + 32>>
             [] OTHER        -> buf[j]]
  <2>1. ASSUME NEW j \in Offsets
        PROVE  (IF j >= 56 THEN Long(j) ELSE buf[j])
                 = (CASE j \in 60..63 -> <<"length", 8 * (63 - j)>>
                      [] j \in 56..59 -> <<"length", 8 * (59 - j) + 32>>
                      [] OTHER        -> buf[j])
    <3>1. j \in Int /\ j \in 0..63
      BY Sizes64
    <3>2. CASE j \in 60..63
      BY <3>1, <3>2 DEF Long
    <3>3. CASE j \in 56..59
      <4>1. 8 * (59 - j) + 32 = 8 * (63 - j)
        BY <3>1
      <4> QED
        BY <3>1, <3>3, <4>1 DEF Long
    <3>4. CASE j < 56
      BY <3>1, <3>4
    <3> QED
      BY <3>1, <3>2, <3>3, <3>4
  <2> QED
    BY <2>1
<1>4. b \in AnyBlock
  <2>1. \A j \in Offsets : 8 * (63 - j) \in Nat
    BY Sizes64
  <2> QED
    BY <1>1, <2>1, Kinds DEF AnyBlock, Long
<1>5. \A j \in Offsets : (j >= 56 => b[j] = Long(j)) /\ (j < 56 => b[j] = buf[j])
  <2> TAKE j \in Offsets
  <2>1. j \in Int
    BY Sizes64
  <2> QED
    BY <2>1
<1> HIDE DEF b
<1>6. blocks' = Append(blocks, b)
  BY <1>2, <1>3
<1>7. Len(blocks) = n - 1
  BY <1>1, <1>a DEF ExtraInv, PlainInv
<1>8. /\ blocks' \in Seq(AnyBlock) /\ Len(blocks') = n /\ blocks'[n] = b
      /\ \A k \in 1..(n - 1) : blocks'[k] = blocks[k]
  <2>1. /\ blocks' \in Seq(AnyBlock) /\ Len(blocks') = Len(blocks) + 1
        /\ blocks'[Len(blocks) + 1] = b
        /\ \A k \in 1..Len(blocks) : blocks'[k] = blocks[k]
    BY <1>1, <1>4, <1>6, Handed
  <2>2. (n - 1) + 1 = n
    BY <1>a
  <2> QED
    BY <1>7, <2>1, <2>2
<1>9. \A k \in 1..q : \A j \in Offsets : blocks'[k][j] = <<"input", 64 * (k - 1) + j>>
  <2>1. \A k \in 1..q : blocks'[k] = blocks[k]
    BY <1>a, <1>8
  <2> QED
    BY <1>1, <1>a, <2>1 DEF InputBlocks, BlockBytes
<1>10. ASSUME NEW k \in 1..n, NEW j \in Offsets
       PROVE  blocks'[k][j] = FipsByte(64 * (k - 1) + j)
  <2>1. /\ \A m \in 1..q : FipsByte(64 * (m - 1) + j) = <<"input", 64 * (m - 1) + j>>
        /\ j < r => FipsByte(RestAt + j) = <<"input", RestAt + j>>
        /\ j = r => FipsByte(RestAt + j) = Mark
        /\ j > r /\ (NeedExtra(size) \/ j < 56) => FipsByte(RestAt + j) = Zero
        /\ ~NeedExtra(size) /\ j >= 56 => FipsByte(RestAt + j) = Long(j)
        /\ NeedExtra(size) /\ j < 56 => FipsByte(RestAt + 64 + j) = Zero
        /\ NeedExtra(size) /\ j >= 56 => FipsByte(RestAt + 64 + j) = Long(j)
    BY <1>1, <1>a, FipsOf
  <2>2. j \in 0..63 /\ j \in Int
    BY Sizes64
  <2>3. CASE k \in 1..q
    BY <1>9, <2>1, <2>3
  <2>4. CASE k = q + 1 /\ NeedExtra(size)
    <3>1. blocks'[k] = blocks[k] /\ TailOf(blocks[k], Mark)
      BY <1>1, <1>8, <1>a, <2>4 DEF ExtraInv
    <3>2. 64 * (k - 1) + j = RestAt + j
      BY <1>a, <2>2, <2>4
    <3>3. /\ j < r => blocks[k][j] = <<"input", RestAt + j>>
          /\ j = r => blocks[k][j] = Mark
          /\ j > r => blocks[k][j] = Zero
      BY <1>a, <3>1 DEF TailOf
    <3>4. j < r \/ j = r \/ j > r
      BY <1>a, <2>2
    <3> QED
      BY <2>1, <2>4, <3>1, <3>2, <3>3, <3>4
  <2>5. CASE k = q + 2 /\ NeedExtra(size)
    <3>1. blocks'[k] = b /\ 64 * (k - 1) + j = RestAt + 64 + j
      BY <1>8, <1>a, <2>2, <2>5
    <3>2. j < 56 => buf[j] = Zero
      BY <1>1, <2>5, Sizes64 DEF ExtraInv
    <3>3. j < 56 \/ j >= 56
      BY <2>2
    <3> QED
      BY <1>5, <2>1, <2>5, <3>1, <3>2, <3>3
  <2>6. CASE k = q + 1 /\ ~NeedExtra(size)
    <3>1. blocks'[k] = b /\ 64 * (k - 1) + j = RestAt + j
      BY <1>8, <1>a, <2>2, <2>6
    <3>2. /\ j < r => buf[j] = <<"input", RestAt + j>>
          /\ j = r => buf[j] = Mark
          /\ j > r => buf[j] = Zero
      BY <1>1, <1>a, <2>6 DEF PlainInv, TailOf
    <3>3. (j >= 56 \/ j < r \/ j = r \/ j > r) /\ (j < r => j < 56) /\ (j = r => j < 56)
          /\ (j < 56 \/ j >= 56)
      BY <1>a, <2>2, <2>6
    <3> QED
      BY <1>5, <2>1, <2>6, <3>1, <3>2, <3>3
  <2> QED
    BY <1>a, <2>3, <2>4, <2>5, <2>6
<1>11. blocks' = [k \in 1..n |-> [j \in Offsets |-> FipsByte(64 * (k - 1) + j)]]
  <2>1. blocks' = [k \in 1..n |-> blocks'[k]]
    BY <1>8
  <2>2. \A k \in 1..n : blocks'[k] = [j \in Offsets |-> blocks'[k][j]]
    <3>1. \A k \in 1..n : blocks'[k] \in AnyBlock
      BY <1>8
    <3> QED
      BY <3>1 DEF AnyBlock
  <2> QED
    BY <1>10, <2>1, <2>2
<1>12. PaddedAsFips'
  <2>1. \A m : FipsByte(m)' = FipsByte(m)
    BY <1>2 DEF FipsByte
  <2>2. n = FipsBlockCount(size') /\ BlockBytes = 64
    BY <1>2, <1>a, Sizes64
  <2> QED
    BY <1>11, <2>1, <2>2 DEF PaddedAsFips
<1>13. InputBlocks(q)'
  BY <1>9, Sizes64 DEF InputBlocks
<1> QED
  BY <1>1, <1>2, <1>8, <1>12, <1>13, <1>a DEF IInv

\* The inductive invariant.  (prepare_message, prepare_padding)
THEOREM Invariance == Spec => []IInv
<1>1. Init => IInv
  <2> SUFFICES ASSUME Init PROVE IInv
    OBVIOUS
  <2>1. size \in Nat \ {0} /\ pc = "full" /\ i = 0 /\ read = 0 /\ blocks = <<>>
    BY SizesAssumption DEF Init
  <2>2. FullBlocks(size) \in Nat
    BY <2>1, RestIs
  <2>3. buf \in AnyBlock
    BY Kinds DEF Init, AnyBlock
  <2> QED
    BY <2>1, <2>2, <2>3 DEF IInv, InputBlocks, PaddedAsFips, BlockBytes
<1>2. IInv /\ [Next]_vars => IInv'
  <2> SUFFICES ASSUME IInv, [Next]_vars PROVE IInv'
    OBVIOUS
  <2>1. CASE UNCHANGED vars
    BY <2>1 DEF vars, IInv, InputBlocks, TailOf, Rest, RestAt, WalkInv, ExtraInv, PlainInv,
                PaddedAsFips, FipsByte
  <2> QED
    BY <2>1, ReadFullIInv, CopyTailIInv, PadExtraIInv, StartWalkIInv, WalkBackIInv, PlaceBitIInv,
       WriteLengthIInv DEF Next, Done
<1> QED
  BY <1>1, <1>2, PTL DEF Spec

\* The blocks that are handed over are the padded message of the standard, byte by byte.
\* (prepare_message, prepare_padding)
THEOREM PaddedAlways == Spec => []PaddedAsFips
<1>1. IInv => PaddedAsFips
  BY DEF IInv
<1> QED
  BY <1>1, Invariance, PTL

\* The loop that walks back over the zeros ends at the byte that ShaBlocks computes in
\* closed form.  (prepare_padding)
THEOREM WalkEndsAlways == Spec => []WalkEndsAtMark
<1>1. IInv => WalkEndsAtMark
  BY RestIs DEF IInv, WalkEndsAtMark, PlainInv
<1> QED
  BY <1>1, Invariance, PTL
=============================================================================
