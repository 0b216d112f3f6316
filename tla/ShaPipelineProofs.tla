-------------------------- MODULE ShaPipelineProofs --------------------------
(***************************************************************************)
(* Proofs about ShaPipeline, for every set of input sizes and every limit. *)
(***************************************************************************)
EXTENDS ShaPipeline, SequenceTheorems, TLAPS

-----------------------------------------------------------------------------
(* Block arithmetic. *)

(***************************************************************************)
(* An input is its full blocks and a rest of less than one block.          *)
(***************************************************************************)
LEMMA Split ==
  ASSUME NEW n \in Nat
  PROVE  \E q \in Nat, r \in 0..63 :
           /\ n = 64 * q + r
           /\ n \div 64 = q /\ n % 64 = r
           /\ Bits(n) % 512 = 8 * r
<1> DEFINE q == n \div 64
           r == n % 64
<1>1. q \in Nat /\ r \in 0..63 /\ n = 64 * q + r
  OBVIOUS
<1>2. (8 * n) % 512 = 8 * r
  BY <1>1
<1>3. QED BY <1>1, <1>2 DEF Bits

(***************************************************************************)
(* prepare_message reads in place the blocks that lie in the input, and    *)
(* start_read folds as many blocks as the padded message has.              *)
(***************************************************************************)
LEMMA BlockCounts ==
  ASSUME NEW n \in Nat
  PROVE  /\ NeedExtra(n) <=> n % 64 >= 56
         /\ FullBlocks(n) = n \div 64
         /\ FullBlocks(n) \in Nat
         /\ Cycles(n) = FullBlocks(n) + (IF NeedExtra(n) THEN 2 ELSE 1)
         /\ Cycles(n) \in Nat
         /\ FipsBlockCount(n) = Cycles(n)
<1>1. PICK q \in Nat, r \in 0..63 :
           /\ n = 64 * q + r
           /\ n \div 64 = q /\ n % 64 = r
           /\ Bits(n) % 512 = 8 * r
  BY Split
<1>2. NeedExtra(n) <=> r >= 56
  BY <1>1 DEF NeedExtra
<1>3. CASE r >= 56
  <2>1. ZerosForPadding(n) = 959 - 8 * r
    BY <1>1, <1>2, <1>3 DEF ZerosForPadding
  <2>2. Cycles(n) = q + 2
    BY <1>1, <2>1 DEF Cycles, Bits
  <2>3. FipsBlockCount(n) = q + 2
    BY <1>1, <1>3 DEF FipsBlockCount
  <2>4. QED BY <1>1, <1>2, <1>3, <2>2, <2>3 DEF FullBlocks
<1>4. CASE r < 56
  <2>1. ZerosForPadding(n) = 447 - 8 * r
    BY <1>1, <1>2, <1>4 DEF ZerosForPadding
  <2>2. Cycles(n) = q + 1
    BY <1>1, <2>1 DEF Cycles, Bits
  <2>3. FipsBlockCount(n) = q + 1
    BY <1>1, <1>4 DEF FipsBlockCount
  <2>4. QED BY <1>1, <1>2, <1>4, <2>2, <2>3 DEF FullBlocks
<1>5. QED BY <1>1, <1>3, <1>4

(***************************************************************************)
(* The arithmetic of prepare_padding finds the first byte behind the       *)
(* input, in the block with room for the length and in the one without.    *)
(***************************************************************************)
LEMMA MarkBehindInput ==
  ASSUME NEW n \in Nat
  PROVE  MarkByte(n) = n % 64
<1>1. PICK q \in Nat, r \in 0..63 :
           /\ n = 64 * q + r
           /\ n \div 64 = q /\ n % 64 = r
           /\ Bits(n) % 512 = 8 * r
  BY Split
<1>2. NeedExtra(n) <=> r >= 56
  BY <1>1 DEF NeedExtra
<1>3. CASE r >= 56
  <2>1. ZerosForPadding(n) = 959 - 8 * r
    BY <1>1, <1>2, <1>3 DEF ZerosForPadding
  <2>2. ZerosForPadding(n) % 64 = 511 - 8 * r
    BY <1>1, <1>3, <2>1
  <2>3. MarkByteExtra(n) = r
    BY <1>1, <1>3, <2>2 DEF MarkByteExtra
  <2>4. QED BY <1>1, <1>2, <1>3, <2>3 DEF MarkByte
<1>4. CASE r < 56
  <2>1. ZerosForPadding(n) = 447 - 8 * r
    BY <1>1, <1>2, <1>4 DEF ZerosForPadding
  <2>2. MarkBytePlain(n) = r
    <3>1. CASE r = 55
      BY <2>1, <3>1 DEF MarkBytePlain
    <3>2. CASE r < 55
      <4>1. (447 - 8 * r) - 1 = 8 * (55 - r) + 6
        OBVIOUS
      <4>2. (ZerosForPadding(n) - 1) \div 8 = 55 - r
        BY <1>1, <2>1, <3>2
      <4>3. QED BY <1>1, <2>1, <3>2, <4>2 DEF MarkBytePlain
    <3>3. QED BY <1>4, <3>1, <3>2
  <2>3. QED BY <1>1, <1>2, <1>4, <2>2 DEF MarkByte
<1>5. QED BY <1>1, <1>3, <1>4

-----------------------------------------------------------------------------
(* The inductive invariant. *)

\* The producer is filling the last message of the list, which is not ready.
Filling == pPc \in {"fill", "pad", "flag", "mark"}

\* The producer uses the last message of the list.
Owning == Filling \/ pPc = "release"

\* The consumer has found the front message ready.
Reading == cPc \in {"read", "pop", "popping"}

(***************************************************************************)
(* The inductive invariant.  Its heart is MessagesInv: every message of    *)
(* the list but the one being filled is ready and complete, and the one    *)
(* being filled is the last.                                               *)
(***************************************************************************)

\* Which threads run, as seen from compute_hash.
CallerInv ==
  /\ caller = "idle" => pPc = "off" /\ cPc = "off" /\ hash = <<>>
  /\ caller = "joining" => size # 0 /\ pPc # "off" /\ cPc # "off"
  /\ caller = "returned" =>
       \/ pPc = "done" /\ cPc = "done"
       \/ size = 0 /\ pPc = "off" /\ cPc = "off" /\ hash = FipsMessage(0)

\* Which block the producer is at.
ProducerInv ==
  /\ pPc = "off" => stage = "full" /\ i = 0
  /\ stage = "full" =>
       /\ pPc \notin {"pad", "done"}
       /\ i <= FullBlocks(size)
       /\ pPc \notin {"off", "check"} => i < FullBlocks(size)
       /\ made = i + (IF Owning THEN 1 ELSE 0)
       /\ bytesRead = 64 * (IF pPc \in {"flag", "mark", "release"} THEN i + 1 ELSE i)
  /\ stage = "tail" =>
       /\ pPc \notin {"off", "check", "size"}
       /\ pPc = "done" => ~NeedExtra(size)
       /\ i = FullBlocks(size)
       /\ made = i + (IF Owning \/ pPc = "done" THEN 1 ELSE 0)
       /\ bytesRead = 64 * i
  /\ stage = "extra" =>
       /\ pPc \notin {"off", "check", "size", "pad"}
       /\ NeedExtra(size)
       /\ i = FullBlocks(size)
       /\ made = i + (IF Owning \/ pPc = "done" THEN 2 ELSE 1)

\* Who holds the list mutex.
MutexInv ==
  /\ listMtx = "producer" <=> pPc \in {"size", "pushing"}
  /\ listMtx = "consumer" <=> cPc \in {"size", "popping"}

\* The k-th message of the list: who may touch it, and what is in it.
MessageInv(k) ==
  /\ list[k].id = idx + k
  /\ list[k].ready <=> ~(Filling /\ k = Len(list))
  /\ list[k].heap <=> /\ idx + k > FullBlocks(size)
                      /\ ~(pPc = "fill" /\ k = Len(list))
  /\ list[k].mtx = "producer" <=> pPc \in {"mark", "release"} /\ k = Len(list)
  /\ list[k].mtx = "consumer" <=> cPc = "flag" /\ k = 1
  /\ ~(pPc \in {"fill", "pad"} /\ k = Len(list)) =>
       list[k].parts = FipsBlock(size, idx + k)
  /\ pPc = "pad" /\ k = Len(list) => list[k].parts = {<<"copy", size % 64>>}

MessagesInv ==
  /\ made = idx + Len(list)
  /\ Owning => Len(list) > 0
  /\ \A k \in 1..Len(list) : MessageInv(k)

\* What the consumer knows of the front message, and what it has folded.
ConsumerInv ==
  /\ cPc \in {"ctrl", "flag"} \/ Reading => Len(list) > 0
  /\ Reading => list[1].ready /\ list[1].mtx = "free"
  /\ idx <= Cycles(size)
  /\ cPc \notin {"off", "check", "done"} => idx < Cycles(size)
  /\ cPc = "off" => idx = 0
  /\ cPc = "done" => idx = Cycles(size)
  /\ cPc # "off" => Len(hash) = idx + (IF cPc \in {"pop", "popping"} THEN 1 ELSE 0)
  /\ \A k \in 1..Len(hash) : hash[k] = FipsBlock(size, k)

\* The blocks allocated for padding.
HeapInv ==
  onHeap = {n \in 1..made : /\ n > idx /\ n > FullBlocks(size)
                            /\ ~(n = made /\ pPc = "fill")}

IInv == TypeOK /\ CallerInv /\ ProducerInv /\ MutexInv /\ MessagesInv
        /\ ConsumerInv /\ HeapInv

-----------------------------------------------------------------------------
(***************************************************************************)
(* The list operations, element by element.                                *)
(***************************************************************************)
LEMMA NewNodeType ==
  ASSUME NEW n \in Nat
  PROVE  NewNode(n + 1) \in Node
BY DEF NewNode, Node, Holders, Threads

\* The elements of a list with one more behind it.
LEMMA AppendAt ==
  ASSUME NEW S, NEW s \in Seq(S), NEW x \in S
  PROVE  /\ Append(s, x) \in Seq(S)
         /\ Len(Append(s, x)) = Len(s) + 1
         /\ \A k \in 1..Len(s) : Append(s, x)[k] = s[k]
         /\ Append(s, x)[Len(s) + 1] = x
OBVIOUS

\* The elements of a list without its first.
LEMMA TailAt ==
  ASSUME NEW S, NEW s \in Seq(S), Len(s) > 0
  PROVE  /\ Tail(s) \in Seq(S)
         /\ Len(Tail(s)) = Len(s) - 1
         /\ \A k \in 1..(Len(s) - 1) : Tail(s)[k] = s[k + 1]
OBVIOUS

\* The elements of a list with one of them changed.
LEMMA ExceptAt ==
  ASSUME NEW S, NEW s \in Seq(S), NEW x \in S, NEW j \in 1..Len(s)
  PROVE  /\ [s EXCEPT ![j] = x] \in Seq(S)
         /\ Len([s EXCEPT ![j] = x]) = Len(s)
         /\ \A k \in 1..Len(s) :
              [s EXCEPT ![j] = x][k] = IF k = j THEN x ELSE s[k]
BY ExceptSeq

\* safe_t_push_back: the new message is the last, unflagged and the producer's.
LEMMA PushBackStep ==
  ASSUME IInv, PushBack
  PROVE  IInv'
<1> USE DEF ProducerStep, mainVars, consumerVars, Filling, Owning, Reading
<1>0. FullBlocks(size) \in Nat
  BY BlockCounts, SizesAssumption DEF IInv, TypeOK
<1>1. /\ list' \in Seq(Node)
      /\ Len(list') = Len(list) + 1
      /\ \A k \in 1..Len(list) : list'[k] = list[k]
      /\ list'[Len(list) + 1] = NewNode(made + 1)
  BY AppendAt, NewNodeType DEF IInv, TypeOK, PushBack
<1>2. TypeOK'
  BY <1>1 DEF IInv, TypeOK, PushBack, ProducerPcs, Holders
<1>3. CallerInv'
  BY DEF IInv, CallerInv, PushBack
<1>4. ProducerInv'
  BY DEF IInv, TypeOK, ProducerInv, PushBack
<1>5. MutexInv'
  BY DEF IInv, MutexInv, PushBack
<1>6. MessagesInv'
  <2>1. made' = idx' + Len(list') /\ Len(list') > 0
    BY <1>1 DEF IInv, TypeOK, MessagesInv, PushBack
  <2> SUFFICES ASSUME NEW k \in 1..Len(list')
               PROVE  MessageInv(k)'
    BY <2>1 DEF MessagesInv
  <2>2. CASE k = Len(list) + 1
    <3>1. list'[k] = NewNode(made + 1) /\ k = Len(list') /\ idx' + k = made + 1
      BY <1>1, <2>2 DEF IInv, TypeOK, MessagesInv, PushBack
    <3>2. QED BY <3>1 DEF NewNode, IInv, TypeOK, PushBack, MessageInv, ConsumerInv
  <2>3. CASE k # Len(list) + 1
    <3>1. k \in 1..Len(list) /\ list'[k] = list[k] /\ k # Len(list')
      BY <1>1, <2>3 DEF IInv, TypeOK
    <3>2. QED BY <3>1 DEF IInv, MessagesInv, MessageInv, PushBack
  <2>4. QED BY <2>2, <2>3
<1>7. ConsumerInv'
  BY <1>1 DEF IInv, TypeOK, ConsumerInv, PushBack
<1>8. HeapInv'
  BY DEF IInv, TypeOK, HeapInv, MessagesInv, PushBack
<1>9. QED BY <1>2, <1>3, <1>4, <1>5, <1>6, <1>7, <1>8 DEF IInv

(***************************************************************************)
(* What each block of a padded message holds, by its number.               *)
(***************************************************************************)
LEMMA FipsBlocks ==
  ASSUME NEW n \in Nat
  PROVE  /\ \A k \in 1..FullBlocks(n) : FipsBlock(n, k) = {<<"input", k - 1>>}
         /\ ~NeedExtra(n) => FipsBlock(n, FullBlocks(n) + 1) =
              {<<"copy", n % 64>>, <<"one", MarkByte(n)>>, <<"length", Bits(n)>>}
         /\ NeedExtra(n) => FipsBlock(n, FullBlocks(n) + 1) =
              {<<"copy", n % 64>>, <<"one", MarkByte(n)>>}
         /\ NeedExtra(n) => FipsBlock(n, FullBlocks(n) + 2) =
              {<<"zeros", 56>>, <<"length", Bits(n)>>}
<1> DEFINE q == n \div 64
<1>1. /\ q \in Nat /\ FullBlocks(n) = q
      /\ FipsBlockCount(n) = IF NeedExtra(n) THEN q + 2 ELSE q + 1
  BY BlockCounts
<1>2. MarkByte(n) = n % 64 /\ Bits(n) = n * 8
  BY MarkBehindInput DEF Bits
<1>3. \A k \in 1..q : FipsBlock(n, k) = {<<"input", k - 1>>}
  BY <1>1 DEF FipsBlock
<1>4. ~NeedExtra(n) => FipsBlock(n, q + 1) =
        {<<"copy", n % 64>>, <<"one", n % 64>>, <<"length", n * 8>>}
  BY <1>1 DEF FipsBlock
<1>5. NeedExtra(n) => FipsBlock(n, q + 1) = {<<"copy", n % 64>>, <<"one", n % 64>>}
  BY <1>1 DEF FipsBlock
<1>6. NeedExtra(n) => FipsBlock(n, q + 2) = {<<"zeros", 56>>, <<"length", n * 8>>}
  BY <1>1 DEF FipsBlock
<1>7. QED BY <1>1, <1>2, <1>3, <1>4, <1>5, <1>6

-----------------------------------------------------------------------------
(***************************************************************************)
(* The steps that leave the list as it is.                                 *)
(***************************************************************************)

\* compute_hash starts both threads on an empty list.
LEMMA StartThreadsStep ==
  ASSUME IInv, StartThreads
  PROVE  IInv'
<1> USE DEF ProducerStep, ConsumerStep, mainVars, producerVars, consumerVars,
            Filling, Owning, Reading
<1>0. FullBlocks(size) \in Nat /\ Cycles(size) \in Nat
  BY BlockCounts, SizesAssumption DEF IInv, TypeOK
<1>1. TypeOK'
  BY DEF IInv, TypeOK, StartThreads, ProducerPcs, ConsumerPcs, Holders, Threads
<1>2. CallerInv'
  BY DEF IInv, CallerInv, StartThreads
<1>3. ProducerInv'
  BY <1>0 DEF IInv, TypeOK, ProducerInv, CallerInv, StartThreads
<1>4. MutexInv'
  BY DEF IInv, MutexInv, CallerInv, StartThreads
<1>5. MessagesInv'
  BY DEF IInv, TypeOK, MessagesInv, MessageInv, CallerInv, StartThreads
<1>6. ConsumerInv'
  BY <1>0 DEF IInv, TypeOK, ConsumerInv, CallerInv, StartThreads
<1>7. HeapInv'
  BY DEF IInv, HeapInv, CallerInv, StartThreads
<1>8. QED BY <1>1, <1>2, <1>3, <1>4, <1>5, <1>6, <1>7 DEF IInv

\* compute_hash returns when both threads are done.
LEMMA JoinThreadsStep ==
  ASSUME IInv, JoinThreads
  PROVE  IInv'
<1> USE DEF ProducerStep, ConsumerStep, mainVars, producerVars, consumerVars,
            Filling, Owning, Reading
<1>0. FullBlocks(size) \in Nat /\ Cycles(size) \in Nat
  BY BlockCounts, SizesAssumption DEF IInv, TypeOK
<1>1. TypeOK'
  BY DEF IInv, TypeOK, JoinThreads, ProducerPcs, ConsumerPcs, Holders, Threads
<1>2. CallerInv'
  BY DEF IInv, CallerInv, JoinThreads
<1>3. ProducerInv'
  BY <1>0 DEF IInv, TypeOK, ProducerInv, CallerInv, JoinThreads
<1>4. MutexInv'
  BY DEF IInv, MutexInv, JoinThreads
<1>5. MessagesInv'
  BY DEF IInv, TypeOK, MessagesInv, MessageInv, MutexInv, JoinThreads
<1>6. ConsumerInv'
  BY <1>0 DEF IInv, TypeOK, ConsumerInv, CallerInv, JoinThreads
<1>7. HeapInv'
  BY DEF IInv, HeapInv, JoinThreads
<1>8. QED BY <1>1, <1>2, <1>3, <1>4, <1>5, <1>6, <1>7 DEF IInv

\* The producer takes the mutex to read the size of the list.
LEMMA LockSizeStep ==
  ASSUME IInv, LockSize
  PROVE  IInv'
<1> USE DEF ProducerStep, ConsumerStep, mainVars, producerVars, consumerVars,
            Filling, Owning, Reading
<1>0. FullBlocks(size) \in Nat /\ Cycles(size) \in Nat
  BY BlockCounts, SizesAssumption DEF IInv, TypeOK
<1>1. TypeOK'
  BY DEF IInv, TypeOK, LockSize, ProducerPcs, ConsumerPcs, Holders, Threads
<1>2. CallerInv'
  BY DEF IInv, CallerInv, LockSize
<1>3. ProducerInv'
  BY <1>0 DEF IInv, TypeOK, ProducerInv, CallerInv, LockSize
<1>4. MutexInv'
  BY DEF IInv, MutexInv, LockSize
<1>5. MessagesInv'
  BY DEF IInv, TypeOK, MessagesInv, MessageInv, MutexInv, LockSize
<1>6. ConsumerInv'
  BY <1>0 DEF IInv, TypeOK, ConsumerInv, CallerInv, LockSize
<1>7. HeapInv'
  BY DEF IInv, HeapInv, LockSize
<1>8. QED BY <1>1, <1>2, <1>3, <1>4, <1>5, <1>6, <1>7 DEF IInv

\* The producer compares the size with the limit.
LEMMA ReadSizeStep ==
  ASSUME IInv, ReadSize
  PROVE  IInv'
<1> USE DEF ProducerStep, ConsumerStep, mainVars, producerVars, consumerVars,
            Filling, Owning, Reading
<1>0. FullBlocks(size) \in Nat /\ Cycles(size) \in Nat
  BY BlockCounts, SizesAssumption DEF IInv, TypeOK
<1>1. TypeOK'
  BY DEF IInv, TypeOK, ReadSize, ProducerPcs, ConsumerPcs, Holders, Threads
<1>2. CallerInv'
  BY DEF IInv, CallerInv, ReadSize
<1>3. ProducerInv'
  BY <1>0 DEF IInv, TypeOK, ProducerInv, CallerInv, ReadSize
<1>4. MutexInv'
  BY DEF IInv, MutexInv, ReadSize
<1>5. MessagesInv'
  BY DEF IInv, TypeOK, MessagesInv, MessageInv, MutexInv, ReadSize
<1>6. ConsumerInv'
  BY <1>0 DEF IInv, TypeOK, ConsumerInv, CallerInv, ReadSize
<1>7. HeapInv'
  BY DEF IInv, HeapInv, ReadSize
<1>8. QED BY <1>1, <1>2, <1>3, <1>4, <1>5, <1>6, <1>7 DEF IInv

\* The producer has read every whole block.
LEMMA EndLoopStep ==
  ASSUME IInv, EndLoop
  PROVE  IInv'
<1> USE DEF ProducerStep, ConsumerStep, mainVars, producerVars, consumerVars,
            Filling, Owning, Reading
<1>0. FullBlocks(size) \in Nat /\ Cycles(size) \in Nat
  BY BlockCounts, SizesAssumption DEF IInv, TypeOK
<1>1. TypeOK'
  BY DEF IInv, TypeOK, EndLoop, ProducerPcs, ConsumerPcs, Holders, Threads
<1>2. CallerInv'
  BY DEF IInv, CallerInv, EndLoop
<1>3. ProducerInv'
  BY <1>0 DEF IInv, TypeOK, ProducerInv, CallerInv, EndLoop
<1>4. MutexInv'
  BY DEF IInv, MutexInv, EndLoop
<1>5. MessagesInv'
  BY DEF IInv, TypeOK, MessagesInv, MessageInv, MutexInv, EndLoop
<1>6. ConsumerInv'
  BY <1>0 DEF IInv, TypeOK, ConsumerInv, CallerInv, EndLoop
<1>7. HeapInv'
  BY DEF IInv, HeapInv, EndLoop
<1>8. QED BY <1>1, <1>2, <1>3, <1>4, <1>5, <1>6, <1>7 DEF IInv

\* The producer takes the mutex to push a message.
LEMMA LockPushStep ==
  ASSUME IInv, LockPush
  PROVE  IInv'
<1> USE DEF ProducerStep, ConsumerStep, mainVars, producerVars, consumerVars,
            Filling, Owning, Reading
<1>0. FullBlocks(size) \in Nat /\ Cycles(size) \in Nat
  BY BlockCounts, SizesAssumption DEF IInv, TypeOK
<1>1. TypeOK'
  BY DEF IInv, TypeOK, LockPush, ProducerPcs, ConsumerPcs, Holders, Threads
<1>2. CallerInv'
  BY DEF IInv, CallerInv, LockPush
<1>3. ProducerInv'
  BY <1>0 DEF IInv, TypeOK, ProducerInv, CallerInv, LockPush
<1>4. MutexInv'
  BY DEF IInv, MutexInv, LockPush
<1>5. MessagesInv'
  BY DEF IInv, TypeOK, MessagesInv, MessageInv, MutexInv, LockPush
<1>6. ConsumerInv'
  BY <1>0 DEF IInv, TypeOK, ConsumerInv, CallerInv, LockPush
<1>7. HeapInv'
  BY DEF IInv, HeapInv, LockPush
<1>8. QED BY <1>1, <1>2, <1>3, <1>4, <1>5, <1>6, <1>7 DEF IInv

\* The consumer takes the mutex to look at the list.
LEMMA LockLookStep ==
  ASSUME IInv, LockLook
  PROVE  IInv'
<1> USE DEF ProducerStep, ConsumerStep, mainVars, producerVars, consumerVars,
            Filling, Owning, Reading
<1>0. FullBlocks(size) \in Nat /\ Cycles(size) \in Nat
  BY BlockCounts, SizesAssumption DEF IInv, TypeOK
<1>1. TypeOK'
  BY DEF IInv, TypeOK, LockLook, ProducerPcs, ConsumerPcs, Holders, Threads
<1>2. CallerInv'
  BY DEF IInv, CallerInv, LockLook
<1>3. ProducerInv'
  BY <1>0 DEF IInv, TypeOK, ProducerInv, CallerInv, LockLook
<1>4. MutexInv'
  BY DEF IInv, MutexInv, LockLook
<1>5. MessagesInv'
  BY DEF IInv, TypeOK, MessagesInv, MessageInv, MutexInv, LockLook
<1>6. ConsumerInv'
  BY <1>0 DEF IInv, TypeOK, ConsumerInv, CallerInv, LockLook
<1>7. HeapInv'
  BY DEF IInv, HeapInv, LockLook
<1>8. QED BY <1>1, <1>2, <1>3, <1>4, <1>5, <1>6, <1>7 DEF IInv

(***************************************************************************)
(* Why a block with another one behind it needs no look at its flag: the   *)
(* producer only ever works on the last one.                               *)
(***************************************************************************)
LEMMA FrontBehindBack ==
  ASSUME IInv, Len(list) > 1, cPc # "flag"
  PROVE  list[1].ready /\ list[1].mtx = "free"
<1>1. 1 \in 1..Len(list) /\ list[1] \in Node /\ 1 # Len(list)
  BY DEF IInv, TypeOK
<1>2. MessageInv(1)
  BY <1>1 DEF IInv, MessagesInv
<1>3. QED BY <1>1, <1>2 DEF MessageInv, Node, Holders, Threads

\* The consumer sees whether there is no message, one, or more.
LEMMA LookStep ==
  ASSUME IInv, Look
  PROVE  IInv'
<1> USE DEF ProducerStep, ConsumerStep, mainVars, producerVars, consumerVars,
            Filling, Owning, Reading
<1>0. FullBlocks(size) \in Nat /\ Cycles(size) \in Nat
  BY BlockCounts, SizesAssumption DEF IInv, TypeOK
<1>1. TypeOK'
  BY DEF IInv, TypeOK, Look, ProducerPcs, ConsumerPcs, Holders, Threads
<1>2. CallerInv'
  BY DEF IInv, CallerInv, Look
<1>3. ProducerInv'
  BY <1>0 DEF IInv, TypeOK, ProducerInv, CallerInv, Look
<1>4. MutexInv'
  BY DEF IInv, MutexInv, Look
<1>5. MessagesInv'
  BY DEF IInv, TypeOK, MessagesInv, MessageInv, MutexInv, Look
<1>6. ConsumerInv'
  <2>1. Len(list) \in Nat /\ cPc = "size"
    BY DEF IInv, TypeOK, Look
  <2>2. CASE Len(list) = 0
    BY <2>1, <2>2 DEF IInv, ConsumerInv, Look
  <2>3. CASE Len(list) = 1
    BY <2>1, <2>3 DEF IInv, ConsumerInv, Look
  <2>4. CASE Len(list) # 0 /\ Len(list) # 1
    <3>1. cPc' = "read"
      BY <2>4, Zenon DEF Look
    <3>2. list' = list /\ idx' = idx /\ hash' = hash /\ size' = size
      BY DEF Look
    <3>3. list[1].ready /\ list[1].mtx = "free" /\ Len(list) > 0
      BY <2>1, <2>4, FrontBehindBack
    <3>4. QED BY <2>1, <3>1, <3>2, <3>3 DEF IInv, ConsumerInv
  <2>5. QED BY <2>1, <2>2, <2>3, <2>4
<1>7. HeapInv'
  BY DEF IInv, HeapInv, Look
<1>8. QED BY <1>1, <1>2, <1>3, <1>4, <1>5, <1>6, <1>7 DEF IInv

\* The consumer takes the mutex to pop the message it has read.
LEMMA LockPopStep ==
  ASSUME IInv, LockPop
  PROVE  IInv'
<1> USE DEF ProducerStep, ConsumerStep, mainVars, producerVars, consumerVars,
            Filling, Owning, Reading
<1>0. FullBlocks(size) \in Nat /\ Cycles(size) \in Nat
  BY BlockCounts, SizesAssumption DEF IInv, TypeOK
<1>1. TypeOK'
  BY DEF IInv, TypeOK, LockPop, ProducerPcs, ConsumerPcs, Holders, Threads
<1>2. CallerInv'
  BY DEF IInv, CallerInv, LockPop
<1>3. ProducerInv'
  BY <1>0 DEF IInv, TypeOK, ProducerInv, CallerInv, LockPop
<1>4. MutexInv'
  BY DEF IInv, MutexInv, LockPop
<1>5. MessagesInv'
  BY DEF IInv, TypeOK, MessagesInv, MessageInv, MutexInv, LockPop
<1>6. ConsumerInv'
  BY <1>0 DEF IInv, TypeOK, ConsumerInv, CallerInv, LockPop
<1>7. HeapInv'
  BY DEF IInv, HeapInv, LockPop
<1>8. QED BY <1>1, <1>2, <1>3, <1>4, <1>5, <1>6, <1>7 DEF IInv

\* The consumer has read as many blocks as there are.
LEMMA EndReadStep ==
  ASSUME IInv, EndRead
  PROVE  IInv'
<1> USE DEF ProducerStep, ConsumerStep, mainVars, producerVars, consumerVars,
            Filling, Owning, Reading
<1>0. FullBlocks(size) \in Nat /\ Cycles(size) \in Nat
  BY BlockCounts, SizesAssumption DEF IInv, TypeOK
<1>1. TypeOK'
  BY DEF IInv, TypeOK, EndRead, ProducerPcs, ConsumerPcs, Holders, Threads
<1>2. CallerInv'
  BY DEF IInv, CallerInv, EndRead
<1>3. ProducerInv'
  BY <1>0 DEF IInv, TypeOK, ProducerInv, CallerInv, EndRead
<1>4. MutexInv'
  BY DEF IInv, MutexInv, EndRead
<1>5. MessagesInv'
  BY DEF IInv, TypeOK, MessagesInv, MessageInv, MutexInv, EndRead
<1>6. ConsumerInv'
  BY <1>0 DEF IInv, TypeOK, ConsumerInv, CallerInv, EndRead
<1>7. HeapInv'
  BY DEF IInv, HeapInv, EndRead
<1>8. QED BY <1>1, <1>2, <1>3, <1>4, <1>5, <1>6, <1>7 DEF IInv
\* An empty input is digested without threads.
LEMMA ComputeEmptyStep ==
  ASSUME IInv, ComputeEmpty
  PROVE  IInv'
<1> USE DEF producerVars, Filling, Owning, Reading
<1>0. FipsMessage(0) \in Seq(SUBSET Parts)
  <2>1. FipsBlockCount(0) = 1
    BY DEF FipsBlockCount
  <2>2. FipsBlock(0, 1) \in SUBSET Parts
    BY <2>1 DEF FipsBlock, Parts, PartKinds
  <2>3. QED BY <2>1, <2>2 DEF FipsMessage
<1>1. TypeOK'
  BY <1>0 DEF IInv, TypeOK, ComputeEmpty
<1>2. CallerInv'
  BY DEF IInv, CallerInv, ComputeEmpty
<1>3. ProducerInv' /\ MutexInv'
  BY DEF IInv, ProducerInv, MutexInv, ComputeEmpty
<1>4. MessagesInv' /\ HeapInv'
  BY DEF IInv, MessagesInv, MessageInv, HeapInv, ComputeEmpty
<1>5. ConsumerInv'
  <2>1. \A k \in 1..Len(FipsMessage(0)) : FipsMessage(0)[k] = FipsBlock(0, k)
    BY DEF FipsMessage, FipsBlockCount
  <2>2. QED BY <2>1 DEF IInv, ConsumerInv, CallerInv, ComputeEmpty
<1>6. QED BY <1>1, <1>2, <1>3, <1>4, <1>5 DEF IInv

\* read_data: the front block is folded into the digest.
LEMMA ReadDataStep ==
  ASSUME IInv, ReadData
  PROVE  IInv'
<1> USE DEF ConsumerStep, mainVars, producerVars, Filling, Owning, Reading
<1>1. /\ 1 \in 1..Len(list) /\ list[1] \in Node /\ MessageInv(1)
      /\ list[1].ready
  BY DEF IInv, TypeOK, MessagesInv, ConsumerInv, ReadData
<1>2. list[1].parts = FipsBlock(size, idx + 1) /\ list[1].parts \in SUBSET Parts
  BY <1>1 DEF MessageInv, Node
<1>3. /\ hash' \in Seq(SUBSET Parts) /\ Len(hash') = Len(hash) + 1
      /\ \A k \in 1..Len(hash) : hash'[k] = hash[k]
      /\ hash'[Len(hash) + 1] = FipsBlock(size, idx + 1)
  BY <1>2, AppendAt DEF IInv, TypeOK, ReadData, Front
<1>4. TypeOK'
  BY <1>3 DEF IInv, TypeOK, ReadData, ConsumerPcs
<1>5. CallerInv'
  BY DEF IInv, CallerInv, ReadData
<1>6. ProducerInv' /\ MutexInv'
  BY DEF IInv, ProducerInv, MutexInv, ReadData
<1>7. MessagesInv' /\ HeapInv'
  BY DEF IInv, MessagesInv, MessageInv, HeapInv, ReadData
<1>8. ConsumerInv'
  <2>1. Len(hash) = idx /\ idx \in Nat
    BY DEF IInv, TypeOK, ConsumerInv, ReadData
  <2>2. \A k \in 1..Len(hash') : hash'[k] = FipsBlock(size, k)
    BY <1>3, <2>1 DEF IInv, ConsumerInv
  <2>3. QED BY <1>3, <2>1, <2>2 DEF IInv, TypeOK, ConsumerInv, ReadData
<1>9. QED BY <1>4, <1>5, <1>6, <1>7, <1>8 DEF IInv

-----------------------------------------------------------------------------
(***************************************************************************)
(* The steps of the producer on the last message.                          *)
(***************************************************************************)
LEMMA BackInList ==
  ASSUME IInv, list # <<>>
  PROVE  /\ Len(list) \in 1..Len(list) /\ Back = list[Len(list)]
         /\ Back \in Node /\ Back.id = made /\ MessageInv(Len(list))
<1>1. Len(list) \in 1..Len(list) /\ list[Len(list)] \in Node
  <2>1. list \in Seq(Node)
    BY DEF IInv, TypeOK
  <2>2. QED BY <2>1, EmptySeq
<1>2. MessageInv(Len(list))
  BY <1>1 DEF IInv, MessagesInv
<1>3. QED BY <1>1, <1>2 DEF IInv, TypeOK, MessagesInv, MessageInv, Back

\* What every such step leaves alone: the other messages and their number.
LEMMA UpdateBackAt ==
  ASSUME IInv, list # <<>>, NEW node \in Node, list' = UpdateBack(node)
  PROVE  /\ list' \in Seq(Node) /\ Len(list') = Len(list) /\ list' # <<>>
         /\ list'[Len(list)] = node
         /\ \A k \in 1..Len(list) : k # Len(list) => list'[k] = list[k]
BY BackInList, ExceptAt DEF IInv, TypeOK, UpdateBack

\* A whole block of the input is copied into the last message.
LEMMA FillFullStep ==
  ASSUME IInv, FillFull
  PROVE  IInv'
<1> USE DEF ProducerStep, mainVars, consumerVars, Filling, Owning, Reading
<1> DEFINE node == [Back EXCEPT !.parts = {<<"input", i>>}]
<1>1. /\ Len(list) \in 1..Len(list) /\ Back = list[Len(list)]
      /\ Back \in Node /\ Back.id = made /\ MessageInv(Len(list))
      /\ FullBlocks(size) \in Nat /\ size \in Nat
  BY BackInList, BlockCounts, SizesAssumption DEF FillFull, IInv, TypeOK
<1>2. i \in Nat /\ made = i + 1 /\ made \in 1..FullBlocks(size)
  BY <1>1 DEF IInv, TypeOK, ProducerInv, FillFull
<1>3. node \in Node
  <2>1. {<<"input", i>>} \in SUBSET Parts
    BY <1>2 DEF Parts, PartKinds
  <2>2. QED BY <1>1, <2>1 DEF Node
<1>4. /\ node.id = made
      /\ node.ready = Back.ready /\ node.heap = Back.heap /\ node.mtx = Back.mtx
      /\ node.parts = {<<"input", i>>}
  BY <1>1 DEF Node, MessageInv, FillFull
<1>a. node.parts = FipsBlock(size, made)
  BY <1>1, <1>2, <1>4, FipsBlocks
<1> HIDE DEF node
<1>5. /\ list' \in Seq(Node) /\ Len(list') = Len(list) /\ list' # <<>>
      /\ list'[Len(list)] = node
      /\ \A k \in 1..Len(list) : k # Len(list) => list'[k] = list[k]
  BY <1>3, UpdateBackAt DEF FillFull, node
<1>6. TypeOK'
  BY <1>1, <1>5 DEF IInv, TypeOK, FillFull, ProducerPcs, BlockBytes
<1>7. CallerInv'
  BY DEF IInv, CallerInv, FillFull
<1>8. ProducerInv'
  BY <1>1 DEF IInv, TypeOK, ProducerInv, FillFull, BlockBytes
<1>9. MutexInv'
  BY DEF IInv, MutexInv, FillFull
<1>10. MessagesInv'
  <2> SUFFICES ASSUME NEW k \in 1..Len(list')
               PROVE  MessageInv(k)'
    BY <1>5 DEF IInv, TypeOK, MessagesInv, FillFull
  <2>1. CASE k = Len(list)
    <3>1. list'[k] = node /\ k = Len(list') /\ idx' + k = made
      BY <1>5, <2>1 DEF IInv, TypeOK, MessagesInv, FillFull
    <3>2. made > FullBlocks(size) <=> stage # "full"
      BY <1>1 DEF IInv, TypeOK, ProducerInv, FillFull
    <3>3. QED BY <1>1, <1>4, <1>a, <2>1, <3>1, <3>2
              DEF IInv, TypeOK, ProducerInv, ConsumerInv, MessageInv, FillFull
  <2>2. CASE k # Len(list)
    <3>1. list'[k] = list[k] /\ k \in 1..Len(list) /\ MessageInv(k)
      BY <1>5, <2>2 DEF IInv, MessagesInv
    <3>2. QED BY <1>5, <2>2, <3>1 DEF MessageInv, FillFull
  <2>3. QED BY <2>1, <2>2
<1>11. ConsumerInv'
  <2>1. ~Back.ready \/ Back.mtx = "producer"
    BY <1>1 DEF MessageInv, FillFull
  <2>2. Reading => Len(list) # 1
    BY <1>1, <2>1 DEF IInv, ConsumerInv
  <2>3. Reading => list'[1] = list[1]
    BY <1>1, <1>5, <2>2
  <2>4. QED BY <1>5, <2>3 DEF IInv, TypeOK, ConsumerInv, FillFull
<1>12. HeapInv'
  BY <1>1 DEF IInv, TypeOK, HeapInv, MessagesInv, ProducerInv, FillFull
<1>13. QED BY <1>6, <1>7, <1>8, <1>9, <1>10, <1>11, <1>12 DEF IInv

\* The rest of the input is copied into the last message.
LEMMA FillTailStep ==
  ASSUME IInv, FillTail
  PROVE  IInv'
<1> USE DEF ProducerStep, mainVars, consumerVars, Filling, Owning, Reading
<1> DEFINE node == [Back EXCEPT !.heap = TRUE,
                 !.parts = {<<"copy", size - bytesRead>>}]
<1>1. /\ Len(list) \in 1..Len(list) /\ Back = list[Len(list)]
      /\ Back \in Node /\ Back.id = made /\ MessageInv(Len(list))
      /\ FullBlocks(size) \in Nat /\ size \in Nat
  BY BackInList, BlockCounts, SizesAssumption DEF FillTail, IInv, TypeOK
<1>2. size - bytesRead = size % 64 /\ size % 64 \in Nat
  BY <1>1, BlockCounts DEF IInv, TypeOK, ProducerInv, FillTail
<1>3. node \in Node
  <2>1. {<<"copy", size - bytesRead>>} \in SUBSET Parts
    BY <1>2 DEF Parts, PartKinds
  <2>2. QED BY <1>1, <2>1 DEF Node
<1>4. /\ node.id = made
      /\ node.ready = Back.ready /\ node.heap = TRUE /\ node.mtx = Back.mtx
      /\ node.parts = {<<"copy", size - bytesRead>>}
  BY <1>1 DEF Node, MessageInv, FillTail
<1> HIDE DEF node
<1>5. /\ list' \in Seq(Node) /\ Len(list') = Len(list) /\ list' # <<>>
      /\ list'[Len(list)] = node
      /\ \A k \in 1..Len(list) : k # Len(list) => list'[k] = list[k]
  BY <1>3, UpdateBackAt DEF FillTail, node
<1>6. TypeOK'
  BY <1>1, <1>5 DEF IInv, TypeOK, FillTail, ProducerPcs, BlockBytes
<1>7. CallerInv'
  BY DEF IInv, CallerInv, FillTail
<1>8. ProducerInv'
  BY <1>1 DEF IInv, TypeOK, ProducerInv, FillTail, BlockBytes
<1>9. MutexInv'
  BY DEF IInv, MutexInv, FillTail
<1>10. MessagesInv'
  <2> SUFFICES ASSUME NEW k \in 1..Len(list')
               PROVE  MessageInv(k)'
    BY <1>5 DEF IInv, TypeOK, MessagesInv, FillTail
  <2>1. CASE k = Len(list)
    <3>1. list'[k] = node /\ k = Len(list') /\ idx' + k = made
      BY <1>5, <2>1 DEF IInv, TypeOK, MessagesInv, FillTail
    <3>2. made > FullBlocks(size) <=> stage # "full"
      BY <1>1 DEF IInv, TypeOK, ProducerInv, FillTail
    <3>3. QED BY <1>1, <1>4, <1>2, <2>1, <3>1, <3>2
              DEF IInv, TypeOK, ProducerInv, ConsumerInv, MessageInv, FillTail
  <2>2. CASE k # Len(list)
    <3>1. list'[k] = list[k] /\ k \in 1..Len(list) /\ MessageInv(k)
      BY <1>5, <2>2 DEF IInv, MessagesInv
    <3>2. QED BY <1>5, <2>2, <3>1 DEF MessageInv, FillTail
  <2>3. QED BY <2>1, <2>2
<1>11. ConsumerInv'
  <2>1. ~Back.ready \/ Back.mtx = "producer"
    BY <1>1 DEF MessageInv, FillTail
  <2>2. Reading => Len(list) # 1
    BY <1>1, <2>1 DEF IInv, ConsumerInv
  <2>3. Reading => list'[1] = list[1]
    BY <1>1, <1>5, <2>2
  <2>4. QED BY <1>5, <2>3 DEF IInv, TypeOK, ConsumerInv, FillTail
<1>12. HeapInv'
  BY <1>1 DEF IInv, TypeOK, HeapInv, MessagesInv, ProducerInv, FillTail
<1>13. QED BY <1>6, <1>7, <1>8, <1>9, <1>10, <1>11, <1>12 DEF IInv

\* prepare_padding on the message with the rest.
LEMMA PadTailStep ==
  ASSUME IInv, PadTail
  PROVE  IInv'
<1> USE DEF ProducerStep, mainVars, consumerVars, Filling, Owning, Reading
<1> DEFINE node == [Back EXCEPT !.parts =
                 @ \union {<<"one", MarkByte(size)>>}
                   \union (IF NeedExtra(size) THEN {}
                                              ELSE {<<"length", Bits(size)>>})]
<1>1. /\ Len(list) \in 1..Len(list) /\ Back = list[Len(list)]
      /\ Back \in Node /\ Back.id = made /\ MessageInv(Len(list))
      /\ FullBlocks(size) \in Nat /\ size \in Nat
  BY BackInList, BlockCounts, SizesAssumption DEF PadTail, IInv, TypeOK
<1>2. MarkByte(size) \in Nat /\ Bits(size) \in Nat
  BY <1>1, MarkBehindInput DEF Bits
<1>3. node \in Node
  <2>1. Back.parts \union {<<"one", MarkByte(size)>>}
          \union (IF NeedExtra(size) THEN {} ELSE {<<"length", Bits(size)>>}) \in SUBSET Parts
    BY <1>1, <1>2 DEF Parts, PartKinds, Node
  <2>2. QED BY <1>1, <2>1 DEF Node
<1>4. /\ node.id = made
      /\ node.ready = Back.ready /\ node.heap = Back.heap /\ node.mtx = Back.mtx
      /\ node.parts = Back.parts \union {<<"one", MarkByte(size)>>}
                       \union (IF NeedExtra(size) THEN {}
                                                  ELSE {<<"length", Bits(size)>>})
  BY <1>1 DEF Node, MessageInv, PadTail
<1>a. node.parts = FipsBlock(size, made)
  <2>1. made = FullBlocks(size) + 1
    BY <1>1 DEF IInv, ProducerInv, TypeOK, PadTail
  <2>2. Back.parts = {<<"copy", size % 64>>}
    BY <1>1 DEF MessageInv, PadTail
  <2>3. QED BY <1>1, <1>4, <2>1, <2>2, FipsBlocks
<1> HIDE DEF node
<1>5. /\ list' \in Seq(Node) /\ Len(list') = Len(list) /\ list' # <<>>
      /\ list'[Len(list)] = node
      /\ \A k \in 1..Len(list) : k # Len(list) => list'[k] = list[k]
  BY <1>3, UpdateBackAt DEF PadTail, node
<1>6. TypeOK'
  BY <1>1, <1>5 DEF IInv, TypeOK, PadTail, ProducerPcs, BlockBytes
<1>7. CallerInv'
  BY DEF IInv, CallerInv, PadTail
<1>8. ProducerInv'
  BY <1>1 DEF IInv, TypeOK, ProducerInv, PadTail, BlockBytes
<1>9. MutexInv'
  BY DEF IInv, MutexInv, PadTail
<1>10. MessagesInv'
  <2> SUFFICES ASSUME NEW k \in 1..Len(list')
               PROVE  MessageInv(k)'
    BY <1>5 DEF IInv, TypeOK, MessagesInv, PadTail
  <2>1. CASE k = Len(list)
    <3>1. list'[k] = node /\ k = Len(list') /\ idx' + k = made
      BY <1>5, <2>1 DEF IInv, TypeOK, MessagesInv, PadTail
    <3>2. made > FullBlocks(size) <=> stage # "full"
      BY <1>1 DEF IInv, TypeOK, ProducerInv, PadTail
    <3>3. QED BY <1>1, <1>4, <1>a, <2>1, <3>1, <3>2
              DEF IInv, TypeOK, ProducerInv, ConsumerInv, MessageInv, PadTail
  <2>2. CASE k # Len(list)
    <3>1. list'[k] = list[k] /\ k \in 1..Len(list) /\ MessageInv(k)
      BY <1>5, <2>2 DEF IInv, MessagesInv
    <3>2. QED BY <1>5, <2>2, <3>1 DEF MessageInv, PadTail
  <2>3. QED BY <2>1, <2>2
<1>11. ConsumerInv'
  <2>1. ~Back.ready \/ Back.mtx = "producer"
    BY <1>1 DEF MessageInv, PadTail
  <2>2. Reading => Len(list) # 1
    BY <1>1, <2>1 DEF IInv, ConsumerInv
  <2>3. Reading => list'[1] = list[1]
    BY <1>1, <1>5, <2>2
  <2>4. QED BY <1>5, <2>3 DEF IInv, TypeOK, ConsumerInv, PadTail
<1>12. HeapInv'
  BY <1>1 DEF IInv, TypeOK, HeapInv, MessagesInv, ProducerInv, PadTail
<1>13. QED BY <1>6, <1>7, <1>8, <1>9, <1>10, <1>11, <1>12 DEF IInv

\* The further message of 56 zeros and the length.
LEMMA FillExtraStep ==
  ASSUME IInv, FillExtra
  PROVE  IInv'
<1> USE DEF ProducerStep, mainVars, consumerVars, Filling, Owning, Reading
<1> DEFINE node == [Back EXCEPT !.heap = TRUE,
                 !.parts = {<<"zeros", 56>>, <<"length", Bits(size)>>}]
<1>1. /\ Len(list) \in 1..Len(list) /\ Back = list[Len(list)]
      /\ Back \in Node /\ Back.id = made /\ MessageInv(Len(list))
      /\ FullBlocks(size) \in Nat /\ size \in Nat
  BY BackInList, BlockCounts, SizesAssumption DEF FillExtra, IInv, TypeOK
<1>2. Bits(size) \in Nat
  BY <1>1 DEF Bits
<1>3. node \in Node
  <2>1. {<<"zeros", 56>>, <<"length", Bits(size)>>} \in SUBSET Parts
    BY <1>2 DEF Parts, PartKinds
  <2>2. QED BY <1>1, <2>1 DEF Node
<1>4. /\ node.id = made
      /\ node.ready = Back.ready /\ node.heap = TRUE /\ node.mtx = Back.mtx
      /\ node.parts = {<<"zeros", 56>>, <<"length", Bits(size)>>}
  BY <1>1 DEF Node, MessageInv, FillExtra
<1>a. node.parts = FipsBlock(size, made)
  BY <1>1, <1>4, FipsBlocks DEF IInv, TypeOK, ProducerInv, FillExtra
<1> HIDE DEF node
<1>5. /\ list' \in Seq(Node) /\ Len(list') = Len(list) /\ list' # <<>>
      /\ list'[Len(list)] = node
      /\ \A k \in 1..Len(list) : k # Len(list) => list'[k] = list[k]
  BY <1>3, UpdateBackAt DEF FillExtra, node
<1>6. TypeOK'
  BY <1>1, <1>5 DEF IInv, TypeOK, FillExtra, ProducerPcs, BlockBytes
<1>7. CallerInv'
  BY DEF IInv, CallerInv, FillExtra
<1>8. ProducerInv'
  BY <1>1 DEF IInv, TypeOK, ProducerInv, FillExtra, BlockBytes
<1>9. MutexInv'
  BY DEF IInv, MutexInv, FillExtra
<1>10. MessagesInv'
  <2> SUFFICES ASSUME NEW k \in 1..Len(list')
               PROVE  MessageInv(k)'
    BY <1>5 DEF IInv, TypeOK, MessagesInv, FillExtra
  <2>1. CASE k = Len(list)
    <3>1. list'[k] = node /\ k = Len(list') /\ idx' + k = made
      BY <1>5, <2>1 DEF IInv, TypeOK, MessagesInv, FillExtra
    <3>2. made > FullBlocks(size) <=> stage # "full"
      BY <1>1 DEF IInv, TypeOK, ProducerInv, FillExtra
    <3>3. QED BY <1>1, <1>4, <1>a, <2>1, <3>1, <3>2
              DEF IInv, TypeOK, ProducerInv, ConsumerInv, MessageInv, FillExtra
  <2>2. CASE k # Len(list)
    <3>1. list'[k] = list[k] /\ k \in 1..Len(list) /\ MessageInv(k)
      BY <1>5, <2>2 DEF IInv, MessagesInv
    <3>2. QED BY <1>5, <2>2, <3>1 DEF MessageInv, FillExtra
  <2>3. QED BY <2>1, <2>2
<1>11. ConsumerInv'
  <2>1. ~Back.ready \/ Back.mtx = "producer"
    BY <1>1 DEF MessageInv, FillExtra
  <2>2. Reading => Len(list) # 1
    BY <1>1, <2>1 DEF IInv, ConsumerInv
  <2>3. Reading => list'[1] = list[1]
    BY <1>1, <1>5, <2>2
  <2>4. QED BY <1>5, <2>3 DEF IInv, TypeOK, ConsumerInv, FillExtra
<1>12. HeapInv'
  BY <1>1 DEF IInv, TypeOK, HeapInv, MessagesInv, ProducerInv, FillExtra
<1>13. QED BY <1>6, <1>7, <1>8, <1>9, <1>10, <1>11, <1>12 DEF IInv

\* The producer takes the mutex inside the last message.
LEMMA LockBackStep ==
  ASSUME IInv, LockBack
  PROVE  IInv'
<1> USE DEF ProducerStep, mainVars, consumerVars, Filling, Owning, Reading
<1> DEFINE node == [Back EXCEPT !.mtx = "producer"]
<1>1. /\ Len(list) \in 1..Len(list) /\ Back = list[Len(list)]
      /\ Back \in Node /\ Back.id = made /\ MessageInv(Len(list))
      /\ FullBlocks(size) \in Nat /\ size \in Nat
  BY BackInList, BlockCounts, SizesAssumption DEF LockBack, IInv, TypeOK
<1>3. node \in Node
  BY <1>1 DEF Node, Holders, Threads
<1>4. /\ node.id = made
      /\ node.ready = Back.ready /\ node.heap = Back.heap /\ node.mtx = "producer"
      /\ node.parts = Back.parts
  BY <1>1 DEF Node, MessageInv, LockBack
<1> HIDE DEF node
<1>5. /\ list' \in Seq(Node) /\ Len(list') = Len(list) /\ list' # <<>>
      /\ list'[Len(list)] = node
      /\ \A k \in 1..Len(list) : k # Len(list) => list'[k] = list[k]
  BY <1>3, UpdateBackAt DEF LockBack, node
<1>6. TypeOK'
  BY <1>1, <1>5 DEF IInv, TypeOK, LockBack, ProducerPcs, BlockBytes
<1>7. CallerInv'
  BY DEF IInv, CallerInv, LockBack
<1>8. ProducerInv'
  BY <1>1 DEF IInv, TypeOK, ProducerInv, LockBack, BlockBytes
<1>9. MutexInv'
  BY DEF IInv, MutexInv, LockBack
<1>10. MessagesInv'
  <2> SUFFICES ASSUME NEW k \in 1..Len(list')
               PROVE  MessageInv(k)'
    BY <1>5 DEF IInv, TypeOK, MessagesInv, LockBack
  <2>1. CASE k = Len(list)
    <3>1. list'[k] = node /\ k = Len(list') /\ idx' + k = made
      BY <1>5, <2>1 DEF IInv, TypeOK, MessagesInv, LockBack
    <3>2. made > FullBlocks(size) <=> stage # "full"
      BY <1>1 DEF IInv, TypeOK, ProducerInv, LockBack
    <3>3. QED BY <1>1, <1>4, <2>1, <3>1, <3>2
              DEF IInv, TypeOK, ProducerInv, ConsumerInv, MessageInv, LockBack
  <2>2. CASE k # Len(list)
    <3>1. list'[k] = list[k] /\ k \in 1..Len(list) /\ MessageInv(k)
      BY <1>5, <2>2 DEF IInv, MessagesInv
    <3>2. QED BY <1>5, <2>2, <3>1 DEF MessageInv, LockBack
  <2>3. QED BY <2>1, <2>2
<1>11. ConsumerInv'
  <2>1. ~Back.ready \/ Back.mtx = "producer"
    BY <1>1 DEF MessageInv, LockBack
  <2>2. Reading => Len(list) # 1
    BY <1>1, <2>1 DEF IInv, ConsumerInv
  <2>3. Reading => list'[1] = list[1]
    BY <1>1, <1>5, <2>2
  <2>4. QED BY <1>5, <2>3 DEF IInv, TypeOK, ConsumerInv, LockBack
<1>12. HeapInv'
  BY <1>1 DEF IInv, TypeOK, HeapInv, MessagesInv, ProducerInv, LockBack
<1>13. QED BY <1>6, <1>7, <1>8, <1>9, <1>10, <1>11, <1>12 DEF IInv

\* The producer flags the last message, which is complete.
LEMMA MarkReadyStep ==
  ASSUME IInv, MarkReady
  PROVE  IInv'
<1> USE DEF ProducerStep, mainVars, consumerVars, Filling, Owning, Reading
<1> DEFINE node == [Back EXCEPT !.ready = TRUE]
<1>1. /\ Len(list) \in 1..Len(list) /\ Back = list[Len(list)]
      /\ Back \in Node /\ Back.id = made /\ MessageInv(Len(list))
      /\ FullBlocks(size) \in Nat /\ size \in Nat
  BY BackInList, BlockCounts, SizesAssumption DEF MarkReady, IInv, TypeOK
<1>3. node \in Node
  BY <1>1 DEF Node, Holders, Threads
<1>4. /\ node.id = made
      /\ node.ready = TRUE /\ node.heap = Back.heap /\ node.mtx = Back.mtx
      /\ node.parts = Back.parts
  BY <1>1 DEF Node, MessageInv, MarkReady
<1> HIDE DEF node
<1>5. /\ list' \in Seq(Node) /\ Len(list') = Len(list) /\ list' # <<>>
      /\ list'[Len(list)] = node
      /\ \A k \in 1..Len(list) : k # Len(list) => list'[k] = list[k]
  BY <1>3, UpdateBackAt DEF MarkReady, node
<1>6. TypeOK'
  BY <1>1, <1>5 DEF IInv, TypeOK, MarkReady, ProducerPcs, BlockBytes
<1>7. CallerInv'
  BY DEF IInv, CallerInv, MarkReady
<1>8. ProducerInv'
  BY <1>1 DEF IInv, TypeOK, ProducerInv, MarkReady, BlockBytes
<1>9. MutexInv'
  BY DEF IInv, MutexInv, MarkReady
<1>10. MessagesInv'
  <2> SUFFICES ASSUME NEW k \in 1..Len(list')
               PROVE  MessageInv(k)'
    BY <1>5 DEF IInv, TypeOK, MessagesInv, MarkReady
  <2>1. CASE k = Len(list)
    <3>1. list'[k] = node /\ k = Len(list') /\ idx' + k = made
      BY <1>5, <2>1 DEF IInv, TypeOK, MessagesInv, MarkReady
    <3>2. made > FullBlocks(size) <=> stage # "full"
      BY <1>1 DEF IInv, TypeOK, ProducerInv, MarkReady
    <3>3. QED BY <1>1, <1>4, <2>1, <3>1, <3>2
              DEF IInv, TypeOK, ProducerInv, ConsumerInv, MessageInv, MarkReady
  <2>2. CASE k # Len(list)
    <3>1. list'[k] = list[k] /\ k \in 1..Len(list) /\ MessageInv(k)
      BY <1>5, <2>2 DEF IInv, MessagesInv
    <3>2. QED BY <1>5, <2>2, <3>1 DEF MessageInv, MarkReady
  <2>3. QED BY <2>1, <2>2
<1>11. ConsumerInv'
  <2>1. ~Back.ready \/ Back.mtx = "producer"
    BY <1>1 DEF MessageInv, MarkReady
  <2>2. Reading => Len(list) # 1
    BY <1>1, <2>1 DEF IInv, ConsumerInv
  <2>3. Reading => list'[1] = list[1]
    BY <1>1, <1>5, <2>2
  <2>4. QED BY <1>5, <2>3 DEF IInv, TypeOK, ConsumerInv, MarkReady
<1>12. HeapInv'
  BY <1>1 DEF IInv, TypeOK, HeapInv, MessagesInv, ProducerInv, MarkReady
<1>13. QED BY <1>6, <1>7, <1>8, <1>9, <1>10, <1>11, <1>12 DEF IInv

\* The producer releases the mutex inside the last message.
LEMMA ReleaseBackStep ==
  ASSUME IInv, ReleaseBack
  PROVE  IInv'
<1> USE DEF ProducerStep, mainVars, consumerVars, Filling, Owning, Reading
<1> DEFINE node == [Back EXCEPT !.mtx = "free"]
<1>1. /\ Len(list) \in 1..Len(list) /\ Back = list[Len(list)]
      /\ Back \in Node /\ Back.id = made /\ MessageInv(Len(list))
      /\ FullBlocks(size) \in Nat /\ size \in Nat
  BY BackInList, BlockCounts, SizesAssumption DEF ReleaseBack, IInv, TypeOK
<1>3. node \in Node
  BY <1>1 DEF Node, Holders, Threads
<1>4. /\ node.id = made
      /\ node.ready = Back.ready /\ node.heap = Back.heap /\ node.mtx = "free"
      /\ node.parts = Back.parts
  BY <1>1 DEF Node, MessageInv, ReleaseBack
<1> HIDE DEF node
<1>5. /\ list' \in Seq(Node) /\ Len(list') = Len(list) /\ list' # <<>>
      /\ list'[Len(list)] = node
      /\ \A k \in 1..Len(list) : k # Len(list) => list'[k] = list[k]
  BY <1>3, UpdateBackAt DEF ReleaseBack, node
<1>6. TypeOK'
  BY <1>1, <1>5 DEF IInv, TypeOK, ReleaseBack, ProducerPcs, BlockBytes
<1>7. CallerInv'
  BY DEF IInv, CallerInv, ReleaseBack
<1>8. ProducerInv'
  BY <1>1 DEF IInv, TypeOK, ProducerInv, ReleaseBack, BlockBytes
<1>9. MutexInv'
  BY DEF IInv, MutexInv, ReleaseBack
<1>10. MessagesInv'
  <2> SUFFICES ASSUME NEW k \in 1..Len(list')
               PROVE  MessageInv(k)'
    BY <1>5 DEF IInv, TypeOK, MessagesInv, ReleaseBack
  <2>1. CASE k = Len(list)
    <3>1. list'[k] = node /\ k = Len(list') /\ idx' + k = made
      BY <1>5, <2>1 DEF IInv, TypeOK, MessagesInv, ReleaseBack
    <3>2. made > FullBlocks(size) <=> stage # "full"
      BY <1>1 DEF IInv, TypeOK, ProducerInv, ReleaseBack
    <3>3. QED BY <1>1, <1>4, <2>1, <3>1, <3>2
              DEF IInv, TypeOK, ProducerInv, ConsumerInv, MessageInv, ReleaseBack
  <2>2. CASE k # Len(list)
    <3>1. list'[k] = list[k] /\ k \in 1..Len(list) /\ MessageInv(k)
      BY <1>5, <2>2 DEF IInv, MessagesInv
    <3>2. QED BY <1>5, <2>2, <3>1 DEF MessageInv, ReleaseBack
  <2>3. QED BY <2>1, <2>2
<1>11. ConsumerInv'
  <2>1. ~Back.ready \/ Back.mtx = "producer"
    BY <1>1 DEF MessageInv, ReleaseBack
  <2>2. Reading => Len(list) # 1
    BY <1>1, <2>1 DEF IInv, ConsumerInv
  <2>3. Reading => list'[1] = list[1]
    BY <1>1, <1>5, <2>2
  <2>4. QED BY <1>5, <2>3 DEF IInv, TypeOK, ConsumerInv, ReleaseBack
<1>12. HeapInv'
  BY <1>1 DEF IInv, TypeOK, HeapInv, MessagesInv, ProducerInv, ReleaseBack
<1>13. QED BY <1>6, <1>7, <1>8, <1>9, <1>10, <1>11, <1>12 DEF IInv

-----------------------------------------------------------------------------
(***************************************************************************)
(* The steps of the consumer on the first message.                         *)
(***************************************************************************)
LEMMA FrontInList ==
  ASSUME IInv, list # <<>>
  PROVE  /\ 1 \in 1..Len(list) /\ Front = list[1]
         /\ Front \in Node /\ MessageInv(1)
<1>1. 1 \in 1..Len(list) /\ list[1] \in Node
  <2>1. list \in Seq(Node)
    BY DEF IInv, TypeOK
  <2>2. QED BY <2>1, EmptySeq
<1>2. QED BY <1>1 DEF IInv, MessagesInv, Front

\* The elements of a list whose first is changed.
LEMMA UpdateFrontAt ==
  ASSUME IInv, list # <<>>, NEW node \in Node, list' = UpdateFront(node)
  PROVE  /\ list' \in Seq(Node) /\ Len(list') = Len(list) /\ list' # <<>>
         /\ list'[1] = node
         /\ \A k \in 1..Len(list) : k # 1 => list'[k] = list[k]
BY FrontInList, ExceptAt DEF IInv, TypeOK, UpdateFront

\* The consumer takes the mutex inside the first message.
LEMMA LockFrontStep ==
  ASSUME IInv, LockFront
  PROVE  IInv'
<1> USE DEF ConsumerStep, mainVars, producerVars, Filling, Owning, Reading
<1> DEFINE node == [Front EXCEPT !.mtx = "consumer"]
<1>1. /\ 1 \in 1..Len(list) /\ Front = list[1]
      /\ Front \in Node /\ MessageInv(1)
  BY FrontInList DEF LockFront
<1>2. node \in Node
  BY <1>1 DEF Node, Holders, Threads
<1>3. /\ node.id = Front.id /\ node.ready = Front.ready
      /\ node.heap = Front.heap /\ node.parts = Front.parts
      /\ node.mtx = "consumer"
  BY <1>1 DEF Node
<1> HIDE DEF node
<1>4. /\ list' \in Seq(Node) /\ Len(list') = Len(list) /\ list' # <<>>
      /\ list'[1] = node
      /\ \A k \in 1..Len(list) : k # 1 => list'[k] = list[k]
  BY <1>2, UpdateFrontAt DEF LockFront, node
<1>5. TypeOK'
  BY <1>4 DEF IInv, TypeOK, LockFront, ConsumerPcs
<1>6. CallerInv'
  BY DEF IInv, CallerInv, LockFront
<1>7. ProducerInv' /\ MutexInv'
  BY DEF IInv, ProducerInv, MutexInv, LockFront
<1>8. MessagesInv'
  <2> SUFFICES ASSUME NEW k \in 1..Len(list')
               PROVE  MessageInv(k)'
    BY <1>4 DEF IInv, TypeOK, MessagesInv, LockFront
  <2>1. CASE k = 1
    BY <1>1, <1>3, <1>4, <2>1 DEF MessageInv, LockFront
  <2>2. CASE k # 1
    <3>1. list'[k] = list[k] /\ k \in 1..Len(list) /\ MessageInv(k)
      BY <1>4, <2>2 DEF IInv, MessagesInv
    <3>2. QED BY <1>4, <2>2, <3>1 DEF MessageInv, LockFront
  <2>3. QED BY <2>1, <2>2
<1>9. ConsumerInv'
  BY <1>1, <1>3, <1>4 DEF IInv, TypeOK, ConsumerInv, LockFront
<1>10. HeapInv'
  BY DEF IInv, HeapInv, LockFront
<1>11. QED BY <1>5, <1>6, <1>7, <1>8, <1>9, <1>10 DEF IInv

\* The consumer reads the flag of the first message.
LEMMA CtrlFrontStep ==
  ASSUME IInv, CtrlFront
  PROVE  IInv'
<1> USE DEF ConsumerStep, mainVars, producerVars, Filling, Owning, Reading
<1> DEFINE node == [Front EXCEPT !.mtx = "free"]
<1>1. /\ 1 \in 1..Len(list) /\ Front = list[1]
      /\ Front \in Node /\ MessageInv(1)
  BY FrontInList DEF CtrlFront
<1>2. node \in Node
  BY <1>1 DEF Node, Holders, Threads
<1>3. /\ node.id = Front.id /\ node.ready = Front.ready
      /\ node.heap = Front.heap /\ node.parts = Front.parts
      /\ node.mtx = "free"
  BY <1>1 DEF Node
<1> HIDE DEF node
<1>4. /\ list' \in Seq(Node) /\ Len(list') = Len(list) /\ list' # <<>>
      /\ list'[1] = node
      /\ \A k \in 1..Len(list) : k # 1 => list'[k] = list[k]
  BY <1>2, UpdateFrontAt DEF CtrlFront, node
<1>5. TypeOK'
  BY <1>4 DEF IInv, TypeOK, CtrlFront, ConsumerPcs
<1>6. CallerInv'
  BY DEF IInv, CallerInv, CtrlFront
<1>7. ProducerInv' /\ MutexInv'
  BY DEF IInv, ProducerInv, MutexInv, CtrlFront
<1>8. MessagesInv'
  <2> SUFFICES ASSUME NEW k \in 1..Len(list')
               PROVE  MessageInv(k)'
    BY <1>4 DEF IInv, TypeOK, MessagesInv, CtrlFront
  <2>1. CASE k = 1
    BY <1>1, <1>3, <1>4, <2>1 DEF MessageInv, CtrlFront
  <2>2. CASE k # 1
    <3>1. list'[k] = list[k] /\ k \in 1..Len(list) /\ MessageInv(k)
      BY <1>4, <2>2 DEF IInv, MessagesInv
    <3>2. QED BY <1>4, <2>2, <3>1 DEF MessageInv, CtrlFront
  <2>3. QED BY <2>1, <2>2
<1>9. ConsumerInv'
  BY <1>1, <1>3, <1>4 DEF IInv, TypeOK, ConsumerInv, CtrlFront
<1>10. HeapInv'
  BY DEF IInv, HeapInv, CtrlFront
<1>11. QED BY <1>5, <1>6, <1>7, <1>8, <1>9, <1>10 DEF IInv

\* safe_t_pop_front: the first message leaves, with its padding block.
LEMMA PopFrontStep ==
  ASSUME IInv, PopFront
  PROVE  IInv'
<1> USE DEF ConsumerStep, mainVars, producerVars, Filling, Owning, Reading
<1>1. /\ 1 \in 1..Len(list) /\ Front = list[1]
      /\ Front \in Node /\ MessageInv(1)
      /\ FullBlocks(size) \in Nat /\ Cycles(size) \in Nat
  BY FrontInList, BlockCounts, SizesAssumption DEF PopFront, IInv, TypeOK
<1>2. /\ list' \in Seq(Node) /\ Len(list') = Len(list) - 1
      /\ \A k \in 1..Len(list') : list'[k] = list[k + 1]
  BY <1>1, TailAt DEF IInv, TypeOK, PopFront
\* The front message is complete, so the producer is at another one.
<1>3. Owning => Len(list) > 1
  <2>1. list[1].ready /\ list[1].mtx = "free"
    BY DEF IInv, ConsumerInv, PopFront
  <2>2. Owning => ~Back.ready \/ Back.mtx = "producer"
    BY BackInList DEF MessageInv, PopFront
  <2>3. list[1] # Back => Len(list) > 1
    BY <1>1, BackInList DEF PopFront
  <2>4. QED BY <2>1, <2>2, <2>3
<1>4. TypeOK'
  <2>1. onHeap' \subseteq Nat
    BY DEF IInv, TypeOK, PopFront
  <2>2. QED BY <1>2, <2>1 DEF IInv, TypeOK, PopFront, ConsumerPcs, Holders
<1>5. CallerInv'
  BY DEF IInv, CallerInv, PopFront
<1>6. ProducerInv' /\ MutexInv'
  BY DEF IInv, ProducerInv, MutexInv, PopFront
<1>7. MessagesInv'
  <2>1. made' = idx' + Len(list') /\ (Owning' => Len(list') > 0)
    BY <1>1, <1>2, <1>3 DEF IInv, TypeOK, MessagesInv, PopFront
  <2> SUFFICES ASSUME NEW k \in 1..Len(list')
               PROVE  MessageInv(k)'
    BY <2>1 DEF MessagesInv
  <2>2. /\ k + 1 \in 1..Len(list) /\ list'[k] = list[k + 1]
        /\ k + 1 # 1 /\ (k = Len(list') <=> k + 1 = Len(list))
        /\ idx' + k = idx + (k + 1)
    BY <1>1, <1>2 DEF IInv, TypeOK, PopFront
  <2>3. MessageInv(k + 1)
    BY <2>2 DEF IInv, MessagesInv
  <2>4. QED BY <2>2, <2>3 DEF MessageInv, PopFront
<1>8. ConsumerInv'
  BY <1>1, <1>2 DEF IInv, TypeOK, ConsumerInv, PopFront
<1>9. HeapInv'
  <2>1. Front.heap <=> idx + 1 > FullBlocks(size)
    <3>1. pPc = "fill" => 2 \in DOMAIN list
      BY <1>1, <1>3 DEF IInv, TypeOK
    <3>2. QED BY <1>1, <3>1 DEF MessageInv
  <2>2. Front.id = idx + 1 /\ idx \in Nat /\ made \in Nat
    BY <1>1 DEF MessageInv, IInv, TypeOK
  <2>3. pPc = "fill" => made # idx + 1
    BY <1>1, <1>3 DEF IInv, TypeOK, MessagesInv
  <2>4. made >= idx + 1
    BY <1>1 DEF IInv, TypeOK, MessagesInv
  <2>5. QED BY <1>1, <2>1, <2>2, <2>3, <2>4 DEF IInv, HeapInv, PopFront
<1>10. QED BY <1>4, <1>5, <1>6, <1>7, <1>8, <1>9 DEF IInv

-----------------------------------------------------------------------------
\* The object starts with an empty list and no threads.
LEMMA InitIInv == Init => IInv
<1> SUFFICES ASSUME Init PROVE IInv
  OBVIOUS
<1>1. size \in Nat /\ FullBlocks(size) \in Nat /\ Cycles(size) \in Nat
  BY BlockCounts, SizesAssumption DEF Init
<1>2. TypeOK
  <2>1. list \in Seq(Node) /\ hash \in Seq(SUBSET Parts)
    BY EmptySeq DEF Init
  <2>2. QED BY <2>1 DEF Init, TypeOK, ProducerPcs, ConsumerPcs, Holders
<1>3. QED BY <1>1, <1>2
     DEF Init, IInv, TypeOK, CallerInv, ProducerInv, MutexInv, MessagesInv,
         MessageInv, ConsumerInv, HeapInv, Filling, Owning, Reading

\* Nothing happens, and nothing changes.
LEMMA StutterIInv ==
  ASSUME IInv, UNCHANGED vars
  PROVE  IInv'
BY DEF vars, mainVars, producerVars, consumerVars, IInv, TypeOK, CallerInv,
       ProducerInv, MutexInv, MessagesInv, MessageInv, ConsumerInv, HeapInv,
       Filling, Owning, Reading

\* Every step of a thread keeps the invariant.
LEMMA NextIInv == IInv /\ [Next]_vars => IInv'
<1> SUFFICES ASSUME IInv, [Next]_vars PROVE IInv'
  OBVIOUS
<1>1. CASE Caller
  BY <1>1, ComputeEmptyStep, StartThreadsStep, JoinThreadsStep DEF Caller
<1>2. CASE Producer
  BY <1>2, LockSizeStep, ReadSizeStep, EndLoopStep, LockPushStep, PushBackStep,
     FillFullStep, FillTailStep, PadTailStep, FillExtraStep, LockBackStep,
     MarkReadyStep, ReleaseBackStep DEF Producer
<1>3. CASE Consumer
  BY <1>3, LockLookStep, LookStep, LockFrontStep, CtrlFrontStep, ReadDataStep,
     LockPopStep, PopFrontStep, EndReadStep DEF Consumer
<1>4. CASE UNCHANGED vars
  BY <1>4, StutterIInv
<1>5. QED BY <1>1, <1>2, <1>3, <1>4 DEF Next, Returned

\* The control of both threads and the list belong together in every interleaving.
\* (compute_hash, prepare_message, start_read)
THEOREM Invariance == Spec => []IInv
BY InitIInv, NextIInv, PTL DEF Spec

(***************************************************************************)
(* The control, counters, list and digest of compute_hash keep their       *)
(* types, whatever the threads' interleaving.                              *)
(***************************************************************************)
THEOREM TypeCorrect == Spec => []TypeOK
<1>1. IInv => TypeOK
  BY DEF IInv
<1>2. QED BY <1>1, Invariance, PTL

(***************************************************************************)
(* What start_read has folded into the digest is always a prefix of the    *)
(* padded message of FIPS 180-4, whatever the threads' interleaving.       *)
(***************************************************************************)
THEOREM DigestCorrect == Spec => []DigestInOrder
<1>1. IInv => DigestInOrder
  <2> SUFFICES ASSUME IInv PROVE DigestInOrder
    OBVIOUS
  <2>1. /\ size \in Nat /\ FipsBlockCount(size) = Cycles(size)
        /\ Cycles(size) \in Nat /\ Cycles(0) = 1
    BY BlockCounts, SizesAssumption
       DEF IInv, TypeOK, Cycles, Bits, ZerosForPadding, NeedExtra
  <2>2. hash = [k \in 1..Len(hash) |-> hash[k]]
    BY DEF IInv, TypeOK
  <2>3. hash = [k \in 1..Len(hash) |-> FipsBlock(size, k)]
    BY <2>2 DEF IInv, ConsumerInv
  <2>4. Len(hash) <= FipsBlockCount(size)
    <3>1. CASE cPc = "off"
      <4>1. hash = <<>> \/ (size = 0 /\ hash = FipsMessage(0))
        BY <3>1 DEF IInv, CallerInv, TypeOK
      <4>2. QED BY <2>1, <4>1 DEF FipsMessage
    <3>2. CASE cPc # "off"
      BY <2>1, <3>2 DEF IInv, TypeOK, ConsumerInv
    <3>3. QED BY <3>1, <3>2
  <2>5. QED BY <2>3, <2>4 DEF DigestInOrder
<1>2. QED BY <1>1, Invariance, PTL

-----------------------------------------------------------------------------
(* What the inductive invariant gives: no data race, bounded memory, every  *)
(* padding block freed, and ShaDigest implemented.                          *)

(***************************************************************************)
(* When both threads use a message, they use different ones.               *)
(***************************************************************************)
LEMMA ApartWhenReading ==
  ASSUME IInv, Owning, Reading
  PROVE  Len(list) > 1 /\ FirstId # LastId /\ SecondId # 0
<1>1. list # <<>>
  BY EmptySeq DEF IInv, TypeOK, MessagesInv
<1>2. /\ 1 \in 1..Len(list) /\ list[1].ready /\ list[1].mtx = "free"
      /\ list[1].id = idx + 1 /\ idx \in Nat /\ made \in Nat
  BY <1>1, FrontInList DEF IInv, TypeOK, ConsumerInv, MessageInv
<1>3. ~Back.ready \/ Back.mtx = "producer"
  BY <1>1, BackInList DEF MessageInv, Owning, Filling
<1>4. Len(list) > 1
  BY <1>1, <1>2, <1>3, BackInList
<1>5. FirstId = idx + 1 /\ LastId = idx + Len(list)
  BY <1>1, <1>2, BackInList DEF FirstId, LastId, Front, IInv, TypeOK, MessagesInv
<1>6. 2 \in 1..Len(list)
  BY <1>4 DEF IInv, TypeOK
<1>7. SecondId = idx + 2
  BY <1>4, <1>6 DEF SecondId, IInv, MessagesInv, MessageInv
<1>8. QED BY <1>2, <1>4, <1>5, <1>7 DEF IInv, TypeOK

\* While both threads hold the mutex inside a message, it is not the same one.
LEMMA ApartWhenLocking ==
  ASSUME IInv, pPc \in {"mark", "release"}, cPc = "flag"
  PROVE  FirstId # LastId
<1>1. list # <<>>
  BY EmptySeq DEF IInv, TypeOK, ConsumerInv
<1>2. Back.mtx = "producer" /\ Back.id = made /\ made \in Nat
  BY <1>1, BackInList DEF MessageInv, IInv, TypeOK
<1>3. Front.mtx = "consumer" /\ Front.id = idx + 1 /\ idx \in Nat
  BY <1>1, FrontInList DEF MessageInv, IInv, TypeOK
<1>4. Len(list) > 1
  BY <1>1, <1>2, <1>3, FrontInList, BackInList
<1>5. made = idx + Len(list)
  BY DEF IInv, MessagesInv
<1>6. QED BY <1>1, <1>2, <1>3, <1>4, <1>5 DEF FirstId, LastId, IInv, TypeOK

\* A cell of a message is not a cell of the header of the list.
LEMMA NodesAreNotTheHeader ==
  ASSUME IInv, list # <<>>
  PROVE  FirstId # 0 /\ LastId # 0
BY FrontInList, BackInList DEF FirstId, LastId, Node

\* A thread that uses front() or back() finds the list not empty.
LEMMA UsedListNotEmpty ==
  ASSUME IInv
  PROVE  /\ Owning => list # <<>>
         /\ cPc \in {"ctrl", "flag"} \/ Reading => list # <<>>
BY EmptySeq DEF IInv, TypeOK, MessagesInv, ConsumerInv

(***************************************************************************)
(* The unlocked uses of front(), back() and the messages never collide:    *)
(* prepare_message and start_read are free of data races, for every input, *)
(* every limit and every interleaving.                                     *)
(***************************************************************************)
THEOREM RaceFree == Spec => []NoDataRace
<1>1. IInv => NoDataRace
  <2> SUFFICES ASSUME IInv PROVE NoDataRace
    OBVIOUS
  <2> DEFINE InUse == cPc \in {"ctrl", "flag", "read", "pop", "popping"}
  <2>1. ~(pPc \in {"size", "pushing"} /\ cPc \in {"size", "popping"})
    BY DEF IInv, MutexInv
  <2>2. InUse => list # <<>> /\ FirstId # 0 /\ LastId # 0
    BY UsedListNotEmpty, NodesAreNotTheHeader DEF Reading
  <2>3. Owning => list # <<>> /\ LastId # 0
    BY UsedListNotEmpty, NodesAreNotTheHeader
  <2>4. Owning /\ Reading => FirstId # LastId /\ SecondId # 0
    BY ApartWhenReading
  <2>5. pPc \in {"mark", "release"} /\ cPc = "flag" => FirstId # LastId
    BY ApartWhenLocking
  <2>6. pPc \in ProducerPcs /\ cPc \in ConsumerPcs
    BY DEF IInv, TypeOK
  <2>7. ProducerWrites \intersect (ConsumerReads \union ConsumerWrites) = {}
    <3>1. CASE pPc = "pushing"
      <4>1. ProducerWrites = {<<0, "prev">>, <<LastId, "next">>, <<0, "count">>}
        BY <3>1 DEF ProducerWrites
      <4>2. CASE InUse
        BY <2>1, <2>2, <3>1, <4>1, <4>2 DEF ConsumerReads, ConsumerWrites
      <4>3. CASE ~InUse
        BY <2>1, <2>6, <3>1, <4>1, <4>3
           DEF ConsumerReads, ConsumerWrites, ConsumerPcs
      <4>4. QED BY <4>2, <4>3
    <3>2. CASE pPc \in {"fill", "pad"}
      <4>1. ProducerWrites = {<<LastId, "data">>}
        BY <3>2 DEF ProducerWrites
      <4>2. QED BY <2>2, <2>3, <2>4, <2>6, <3>2, <4>1
                DEF ConsumerReads, ConsumerWrites, ConsumerPcs, Owning, Filling,
                    Reading, Fields
    <3>3. CASE pPc = "mark"
      <4>1. ProducerWrites = {<<LastId, "ready">>}
        BY <3>3 DEF ProducerWrites
      <4>2. QED BY <2>2, <2>3, <2>4, <2>5, <2>6, <3>3, <4>1
                DEF ConsumerReads, ConsumerWrites, ConsumerPcs, Owning, Filling,
                    Reading, Fields
    <3>4. CASE pPc \notin {"pushing", "fill", "pad", "mark"}
      BY <2>6, <3>4 DEF ProducerWrites, ProducerPcs
    <3>5. QED BY <3>1, <3>2, <3>3, <3>4
  <2>8. ConsumerWrites \intersect ProducerReads = {}
    <3>1. CASE cPc = "read"
      <4>1. ConsumerWrites = {<<FirstId, "work">>}
        BY <3>1 DEF ConsumerWrites
      <4>2. QED BY <2>6, <4>1 DEF ProducerReads, ProducerPcs
    <3>2. CASE cPc = "popping"
      <4>1. ConsumerWrites = {<<0, "next">>, <<0, "count">>, <<SecondId, "prev">>}
                             \union ({FirstId} \X Fields)
        BY <3>2 DEF ConsumerWrites
      <4>2. CASE Owning
        BY <2>2, <2>4, <3>2, <4>1, <4>2
           DEF ProducerReads, Owning, Filling, Reading, Fields
      <4>3. CASE ~Owning
        BY <2>1, <2>6, <3>2, <4>3
           DEF ProducerReads, ProducerPcs, Owning, Filling
      <4>4. QED BY <4>2, <4>3
    <3>3. CASE cPc \notin {"read", "popping"}
      BY <2>6, <3>3 DEF ConsumerWrites, ConsumerPcs
    <3>4. QED BY <3>1, <3>2, <3>3
  <2>9. QED BY <2>7, <2>8 DEF NoDataRace
<1>2. QED BY <1>1, Invariance, PTL

-----------------------------------------------------------------------------
(***************************************************************************)
(* The bound of the list is inductive once it says at which push the       *)
(* producer is: the test of the limit is stale as soon as it is made, but  *)
(* the consumer can only make the list shorter.                            *)
(***************************************************************************)
BoundInv ==
  LET grown == CASE stage = "full"  -> IF pPc \in {"push", "pushing"} THEN 0 ELSE 1
                 [] stage = "tail"  -> IF pPc \in {"push", "pushing"} THEN 1 ELSE 2
                 [] stage = "extra" -> IF pPc \in {"push", "pushing"} THEN 2 ELSE 3
  IN  Len(list) <= Limit + grown

(***************************************************************************)
(* However slow start_read is, the list is at most three messages longer   *)
(* than its limit.                                                         *)
(***************************************************************************)
THEOREM Bounded == Spec => []ListBounded
<1>1. Init => BoundInv
  BY LimitAssumption DEF Init, BoundInv
<1>2. IInv /\ IInv' /\ BoundInv /\ [Next]_vars => BoundInv'
  <2> SUFFICES ASSUME IInv, IInv', BoundInv, [Next]_vars PROVE BoundInv'
    OBVIOUS
  <2> USE DEF BoundInv, mainVars, producerVars, consumerVars, ProducerStep, ConsumerStep
  <2>1. /\ Len(list) \in Nat /\ Len(list') \in Nat /\ Limit \in Nat
        /\ stage \in {"full", "tail", "extra"} /\ list \in Seq(Node)
    BY LimitAssumption DEF IInv, TypeOK
  <2>2. CASE Caller
    BY <2>1, <2>2 DEF Caller, ComputeEmpty, StartThreads, JoinThreads, IInv, CallerInv
  <2>3. CASE LockSize \/ ReadSize \/ EndLoop \/ LockPush
    BY <2>1, <2>3 DEF LockSize, ReadSize, EndLoop, LockPush, IInv, ProducerInv
  <2>4. CASE PushBack
    <3>1. Len(list') = Len(list) + 1
      BY <2>4, AppendAt, NewNodeType DEF PushBack, IInv, TypeOK
    <3>2. QED BY <2>1, <2>4, <3>1 DEF PushBack
  <2>5. CASE FillFull \/ FillTail \/ PadTail \/ FillExtra \/ LockBack \/ MarkReady
    <3>1. Len(list') = Len(list)
      BY <2>1, <2>5
         DEF FillFull, FillTail, PadTail, FillExtra, LockBack, MarkReady, UpdateBack
    <3>2. QED BY <2>1, <2>5, <3>1
              DEF FillFull, FillTail, PadTail, FillExtra, LockBack, MarkReady
  <2>6. CASE ReleaseBack
    <3>1. Len(list') = Len(list)
      BY <2>1, <2>6 DEF ReleaseBack, UpdateBack
    <3>2. QED BY <2>1, <2>6, <3>1 DEF ReleaseBack
  <2>7. CASE LockLook \/ Look \/ ReadData \/ LockPop \/ EndRead
    BY <2>1, <2>7 DEF LockLook, Look, ReadData, LockPop, EndRead
  <2>8. CASE LockFront \/ CtrlFront
    <3>1. Len(list') = Len(list)
      BY <2>1, <2>8 DEF LockFront, CtrlFront, UpdateFront
    <3>2. QED BY <2>1, <2>8, <3>1 DEF LockFront, CtrlFront
  <2>9. CASE PopFront
    <3>1. Len(list') <= Len(list)
      BY <2>1, <2>9, TailAt, FrontInList DEF PopFront
    <3>2. QED BY <2>1, <2>9, <3>1 DEF PopFront
  <2>10. CASE UNCHANGED vars
    BY <2>1, <2>10 DEF vars
  <2>11. QED BY <2>2, <2>3, <2>4, <2>5, <2>6, <2>7, <2>8, <2>9, <2>10
             DEF Next, Producer, Consumer, Returned
<1>3. IInv /\ BoundInv => ListBounded
  BY LimitAssumption DEF BoundInv, ListBounded, IInv, TypeOK
<1>4. QED BY <1>1, <1>2, <1>3, Invariance, PTL DEF Spec

-----------------------------------------------------------------------------
(***************************************************************************)
(* When compute_hash has returned, as many messages were popped as pushed. *)
(***************************************************************************)
LEMMA NothingLeft ==
  ASSUME IInv, caller = "returned"
  PROVE  list = <<>> /\ onHeap = {}
<1>1. /\ FullBlocks(size) \in Nat
      /\ Cycles(size) = FullBlocks(size) + (IF NeedExtra(size) THEN 2 ELSE 1)
  BY BlockCounts, SizesAssumption DEF IInv, TypeOK, FullBlocks
<1>2. made = idx
  <2>1. CASE pPc = "done" /\ cPc = "done"
    BY <1>1, <2>1 DEF IInv, TypeOK, ProducerInv, ConsumerInv, Owning, Filling
  <2>2. CASE pPc = "off" /\ cPc = "off"
    BY <1>1, <2>2 DEF IInv, TypeOK, ProducerInv, ConsumerInv, Owning, Filling
  <2>3. QED BY <2>1, <2>2 DEF IInv, CallerInv
<1>3. Len(list) = 0
  BY <1>2 DEF IInv, TypeOK, MessagesInv
<1>4. onHeap = {}
  BY <1>2 DEF IInv, TypeOK, HeapInv
<1>5. QED BY <1>3, <1>4, EmptySeq DEF IInv, TypeOK

(***************************************************************************)
(* Every padding block is owned by a message of the list and is deleted    *)
(* with it: no leak and no second delete, on either length of padding.     *)
(***************************************************************************)
THEOREM HeapOwned == Spec => []PaddingOwned
<1>1. IInv => PaddingOwned
  <2> SUFFICES ASSUME IInv PROVE PaddingOwned
    OBVIOUS
  <2> DEFINE owners == {j \in DOMAIN list : list[j].heap}
  <2>1. /\ FullBlocks(size) \in Nat /\ idx \in Nat /\ made \in Nat
        /\ Len(list) \in Nat /\ DOMAIN list = 1..Len(list)
        /\ made = idx + Len(list)
    BY BlockCounts, SizesAssumption DEF IInv, TypeOK, MessagesInv
  <2>2. \A k \in 1..Len(list) :
          /\ list[k].id = idx + k
          /\ list[k].heap <=> idx + k > FullBlocks(size)
                               /\ ~(pPc = "fill" /\ k = Len(list))
    BY DEF IInv, MessagesInv, MessageInv
  <2>3. \A n : n \in onHeap => n \in {list[k].id : k \in owners}
    <3> SUFFICES ASSUME NEW n \in onHeap
                 PROVE  \E k \in owners : list[k].id = n
      OBVIOUS
    <3>1. n \in 1..made /\ n > idx /\ n > FullBlocks(size)
          /\ ~(n = made /\ pPc = "fill")
      BY DEF IInv, HeapInv
    <3>2. n - idx \in 1..Len(list) /\ idx + (n - idx) = n
      BY <2>1, <3>1
    <3>3. n - idx \in owners /\ list[n - idx].id = n
      BY <2>1, <2>2, <3>1, <3>2
    <3>4. QED BY <3>3
  <2>4. \A k \in owners : list[k].id \in onHeap
    <3> SUFFICES ASSUME NEW k \in owners PROVE list[k].id \in onHeap
      OBVIOUS
    <3>1. k \in 1..Len(list) /\ list[k].id = idx + k /\ idx + k > FullBlocks(size)
          /\ ~(pPc = "fill" /\ k = Len(list))
      BY <2>1, <2>2
    <3>2. QED BY <2>1, <3>1 DEF IInv, HeapInv
  <2>5. onHeap = {list[k].id : k \in owners}
    BY <2>3, <2>4
  <2>6. caller = "returned" => list = <<>> /\ onHeap = {}
    BY NothingLeft
  <2>7. QED BY <2>5, <2>6 DEF PaddingOwned
<1>2. QED BY <1>1, Invariance, PTL

-----------------------------------------------------------------------------
\* ShaDigest and ShaPipeline read the same definitions of the padded message.
LEMMA SameMessage ==
  ASSUME NEW n
  PROVE  /\ Abstract!FipsBlockCount(n) = FipsBlockCount(n)
         /\ \A k : Abstract!FipsBlock(n, k) = FipsBlock(n, k)
         /\ Abstract!FipsMessage(n) = FipsMessage(n)
<1>1. Abstract!FipsBlockCount(n) = FipsBlockCount(n)
  BY DEF FipsBlockCount, Abstract!FipsBlockCount
<1>2. \A k : Abstract!FipsBlock(n, k) = FipsBlock(n, k)
  BY <1>1, Zenon DEF FipsBlock, Abstract!FipsBlock
<1>3. QED BY <1>1, <1>2 DEF FipsMessage, Abstract!FipsMessage

(***************************************************************************)
(* compute_hash implements ShaDigest: a block is folded in when read_data  *)
(* reads it, the digest is delivered when the threads are joined, and      *)
(* every other step of the threads is invisible.  (The fairness half of    *)
(* ImplementsDigest is only model-checked.)                                *)
(***************************************************************************)
THEOREM DigestSafety == Spec => Abstract!AbsSpec
<1> USE DEF Abstract!absVars, mainVars, producerVars, consumerVars,
            ProducerStep, ConsumerStep
<1>1. Init => Abstract!AbsInit
  BY DEF Init, Abstract!AbsInit
<1>2. IInv /\ IInv' /\ [Next]_vars => [Abstract!AbsNext]_(Abstract!absVars)
  <2> SUFFICES ASSUME IInv, IInv', [Next]_vars
               PROVE  [Abstract!AbsNext]_(Abstract!absVars)
    OBVIOUS
  <2>1. /\ size \in Nat /\ FipsBlockCount(size) = Cycles(size)
        /\ Cycles(size) \in Nat
    BY BlockCounts, SizesAssumption DEF IInv, TypeOK
  <2>2. CASE ComputeEmpty
    BY <2>2, SameMessage DEF ComputeEmpty, Abstract!AbsNext, Abstract!Deliver
  <2>3. CASE StartThreads
    BY <2>3 DEF StartThreads
  <2>4. CASE JoinThreads
    <3>1. Len(hash) = FipsBlockCount(size)
      BY <2>1, <2>4 DEF JoinThreads, IInv, TypeOK, ConsumerInv
    <3>2. hash = [k \in 1..Len(hash) |-> hash[k]]
      BY DEF IInv, TypeOK
    <3>3. hash = FipsMessage(size)
      BY <3>1, <3>2 DEF IInv, ConsumerInv, FipsMessage
    <3>4. QED BY <2>4, <3>3, SameMessage DEF JoinThreads, Abstract!AbsNext, Abstract!Deliver
  <2>5. CASE Producer
    BY <2>5 DEF Producer, LockSize, ReadSize, EndLoop, LockPush, PushBack,
                FillFull, FillTail, PadTail, FillExtra, LockBack, MarkReady,
                ReleaseBack
  <2>6. CASE ReadData
    <3>1. caller = "joining" /\ Len(hash) = idx /\ idx < FipsBlockCount(size)
      BY <2>1, <2>6 DEF ReadData, IInv, TypeOK, CallerInv, ConsumerInv
    <3>2. 1 \in 1..Len(list) /\ list[1].ready
      BY <2>6 DEF ReadData, IInv, TypeOK, ConsumerInv, Reading
    <3>3. Front.parts = FipsBlock(size, Len(hash) + 1)
      BY <3>1, <3>2 DEF Front, IInv, MessagesInv, MessageInv, Filling
    <3>4. QED BY <2>6, <3>1, <3>3, SameMessage
              DEF ReadData, Abstract!AbsNext, Abstract!Absorb
  <2>7. CASE LockLook \/ Look \/ LockFront \/ CtrlFront \/ LockPop \/ PopFront
             \/ EndRead
    BY <2>7 DEF LockLook, Look, LockFront, CtrlFront, LockPop, PopFront, EndRead
  <2>8. CASE UNCHANGED vars
    BY <2>8 DEF vars
  <2>9. QED BY <2>2, <2>3, <2>4, <2>5, <2>6, <2>7, <2>8
            DEF Next, Caller, Consumer, Returned
<1>3. QED BY <1>1, <1>2, Invariance, PTL DEF Spec, Abstract!AbsSpec
=============================================================================
