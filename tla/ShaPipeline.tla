----------------------------- MODULE ShaPipeline -----------------------------
(***************************************************************************)
(* sha256::compute_hash: the caller starts two threads, prepare_message    *)
(* (the producer of blocks) and start_read (their consumer), which share   *)
(* std::list<message> _workspace, and joins both.                          *)
(*                                                                         *)
(* Every lock acquisition, the body of every critical section and every    *)
(* access outside one is a step.  size(), push_back and pop_front run      *)
(* under _flag_mtx_list_p; front(), back() and the contents of a message   *)
(* are used with no lock at all, except for the flag _has_00_15_read,      *)
(* which the mutex of its message protects.                                *)
(***************************************************************************)
EXTENDS ShaBlocks

CONSTANTS Sizes,    \* the sizes in bytes of the inputs
          Limit     \* SIZE_1GB_MESSAGE_LIST

ASSUME SizesAssumption == Sizes \subseteq Nat
\* The static_assert of the constructor also rules out 0; nothing here needs it.
ASSUME LimitAssumption == Limit \in Nat

VARIABLES
  size,        \* _sizes_bytes_input
  caller,      \* control of compute_hash: "idle", "joining", "returned"
  pPc,         \* control of prepare_message
  stage,       \* which push_back of the producer is under way
  i,           \* its loop counter
  bytesRead,   \* _bytes_already_reads
  cPc,         \* control of start_read
  idx,         \* its loop counter
  list,        \* _workspace, front first
  made,        \* how many messages were pushed (names the nodes)
  listMtx,     \* holder of _flag_mtx_list_p
  hash,        \* the blocks folded into _hash_result, in order
  onHeap,      \* nodes whose 64 bytes are allocated with new[] and not deleted
  isCalc       \* _hash_is_already_calc

mainVars     == <<size, caller, isCalc>>
producerVars == <<pPc, stage, i, bytesRead, made>>
consumerVars == <<cPc, idx, hash>>
vars == <<mainVars, producerVars, consumerVars, list, listMtx, onHeap>>

Threads == {"producer", "consumer"}
Holders == Threads \union {"free"}

PartKinds == {"input", "copy", "one", "zeros", "length"}
Parts     == PartKinds \X Nat

Node == [id : Nat \ {0}, parts : SUBSET Parts, heap : BOOLEAN,
         ready : BOOLEAN, mtx : Holders]

NewNode(n) ==
  [id |-> n, parts |-> {}, heap |-> FALSE, ready |-> FALSE, mtx |-> "free"]

Front == list[1]
Back  == list[Len(list)]

UpdateBack(node)  == [list EXCEPT ![Len(list)] = node]
UpdateFront(node) == [list EXCEPT ![1] = node]

ProducerPcs == {"off", "check", "size", "push", "pushing", "fill", "pad",
                "flag", "mark", "release", "done"}
ConsumerPcs == {"off", "check", "size", "ctrl", "flag", "read", "pop",
                "popping", "done"}

TypeOK ==
  /\ size \in Sizes
  /\ caller \in {"idle", "joining", "returned"}
  /\ pPc \in ProducerPcs
  /\ stage \in {"full", "tail", "extra"}
  /\ i \in Nat
  /\ bytesRead \in Nat
  /\ cPc \in ConsumerPcs
  /\ idx \in Nat
  /\ list \in Seq(Node)
  /\ made \in Nat
  /\ listMtx \in Holders
  /\ hash \in Seq(SUBSET Parts)
  /\ onHeap \subseteq Nat
  /\ isCalc \in BOOLEAN

Init ==
  /\ size \in Sizes
  /\ caller = "idle" /\ isCalc = FALSE
  /\ pPc = "off" /\ stage = "full" /\ i = 0 /\ bytesRead = 0 /\ made = 0
  /\ cPc = "off" /\ idx = 0 /\ hash = <<>>
  /\ list = <<>> /\ listMtx = "free" /\ onHeap = {}

-----------------------------------------------------------------------------
(***************************************************************************)
(* compute_hash.  An empty input takes no thread: the digest is stored     *)
(* from a constant, which is the digest of the one block of an empty       *)
(* message, and _hash_is_already_calc is left as it was.                   *)
(***************************************************************************)
ComputeEmpty ==
  /\ caller = "idle" /\ size = 0
  /\ caller' = "returned"
  /\ hash' = FipsMessage(0)
  /\ UNCHANGED <<size, isCalc, producerVars, cPc, idx, list, listMtx, onHeap>>

StartThreads ==
  /\ caller = "idle" /\ size # 0
  /\ caller' = "joining"
  /\ pPc' = "check" /\ cPc' = "check"
  /\ UNCHANGED <<size, isCalc, stage, i, bytesRead, made, idx, hash, list,
                 listMtx, onHeap>>

JoinThreads ==
  /\ caller = "joining" /\ pPc = "done" /\ cPc = "done"
  /\ caller' = "returned"
  /\ isCalc' = TRUE
  /\ UNCHANGED <<size, producerVars, consumerVars, list, listMtx, onHeap>>

-----------------------------------------------------------------------------
(***************************************************************************)
(* prepare_message and prepare_padding: the producer.                      *)
(***************************************************************************)

\* Common frame of the producer's steps.
ProducerStep == UNCHANGED <<mainVars, consumerVars>>

\* for (i = 0; i < max; ++i): take the list mutex to read the size.
LockSize ==
  /\ pPc = "check" /\ i < FullBlocks(size) /\ listMtx = "free"
  /\ listMtx' = "producer"
  /\ pPc' = "size"
  /\ ProducerStep
  /\ UNCHANGED <<stage, i, bytesRead, made, list, onHeap>>

\* Mutant of ReadSize: the limit is never tested.
ReadSizeUnlimited ==
  /\ pPc = "size"
  /\ listMtx' = "free"
  /\ pPc' = "push"
  /\ ProducerStep
  /\ UNCHANGED <<stage, i, bytesRead, made, list, onHeap>>

\* size() > limit: --i and continue, so the next turn tests the same block.
ReadSize ==
  /\ pPc = "size"
  /\ listMtx' = "free"
  /\ pPc' = IF Len(list) > Limit THEN "check" ELSE "push"
  /\ ProducerStep
  /\ UNCHANGED <<stage, i, bytesRead, made, list, onHeap>>

\* The loop is over; the tail block is pushed with no look at the limit.
EndLoop ==
  /\ pPc = "check" /\ i >= FullBlocks(size)
  /\ pPc' = "push" /\ stage' = "tail"
  /\ ProducerStep
  /\ UNCHANGED <<i, bytesRead, made, list, listMtx, onHeap>>

LockPush ==
  /\ pPc = "push" /\ listMtx = "free"
  /\ listMtx' = "producer"
  /\ pPc' = "pushing"
  /\ ProducerStep
  /\ UNCHANGED <<stage, i, bytesRead, made, list, onHeap>>

PushBack ==
  /\ pPc = "pushing"
  /\ list' = Append(list, NewNode(made + 1))
  /\ made' = made + 1
  /\ listMtx' = "free"
  /\ pPc' = "fill"
  /\ ProducerStep
  /\ UNCHANGED <<stage, i, bytesRead, onHeap>>

\* A full block is a pointer into the input.
FillFull ==
  /\ pPc = "fill" /\ stage = "full" /\ list # <<>>
  /\ list' = UpdateBack([Back EXCEPT !.parts = {<<"input", i>>}])
  /\ bytesRead' = bytesRead + BlockBytes
  /\ pPc' = "flag"
  /\ ProducerStep
  /\ UNCHANGED <<stage, i, made, listMtx, onHeap>>

\* The tail block is a copy of what is left of the input, filled with zeros.
\* `coutdown' narrows the difference of two uint64_t to uint32_t; the difference
\* is the input's last size % 64 bytes (DigestInOrder), so nothing is lost.
FillTail ==
  /\ pPc = "fill" /\ stage = "tail" /\ list # <<>>
  /\ list' = UpdateBack([Back EXCEPT !.heap = TRUE,
               !.parts = {<<"copy", size - bytesRead>>}])
  /\ onHeap' = onHeap \union {Back.id}
  /\ pPc' = "pad"
  /\ ProducerStep
  /\ UNCHANGED <<stage, i, bytesRead, made, listMtx>>

\* prepare_padding on the tail block, up to its unlock_back.
PadTail ==
  /\ pPc = "pad" /\ list # <<>>
  /\ list' = UpdateBack([Back EXCEPT !.parts =
               @ \union {<<"one", MarkByte(size)>>}
                 \union (IF NeedExtra(size) THEN {}
                                            ELSE {<<"length", Bits(size)>>})])
  /\ pPc' = "flag"
  /\ ProducerStep
  /\ UNCHANGED <<stage, i, bytesRead, made, listMtx, onHeap>>

\* Mutant of FillExtra: _has_00_15_to_heap is forgotten.
FillExtraNotOwned ==
  /\ pPc = "fill" /\ stage = "extra" /\ list # <<>>
  /\ list' = UpdateBack([Back EXCEPT
               !.parts = {<<"zeros", 56>>, <<"length", Bits(size)>>}])
  /\ onHeap' = onHeap \union {Back.id}
  /\ pPc' = "flag"
  /\ ProducerStep
  /\ UNCHANGED <<stage, i, bytesRead, made, listMtx>>

\* The extra block: 56 zero bytes and the length.
FillExtra ==
  /\ pPc = "fill" /\ stage = "extra" /\ list # <<>>
  /\ list' = UpdateBack([Back EXCEPT !.heap = TRUE,
               !.parts = {<<"zeros", 56>>, <<"length", Bits(size)>>}])
  /\ onHeap' = onHeap \union {Back.id}
  /\ pPc' = "flag"
  /\ ProducerStep
  /\ UNCHANGED <<stage, i, bytesRead, made, listMtx>>

\* unlock_back: lock the mutex of back(), set its flag, unlock.
LockBack ==
  /\ pPc = "flag" /\ list # <<>> /\ Back.mtx = "free"
  /\ list' = UpdateBack([Back EXCEPT !.mtx = "producer"])
  /\ pPc' = "mark"
  /\ ProducerStep
  /\ UNCHANGED <<stage, i, bytesRead, made, listMtx, onHeap>>

\* Mutant of MarkReady: the extra block is never marked.
MarkReadyButExtra ==
  /\ pPc = "mark" /\ list # <<>>
  /\ list' = UpdateBack([Back EXCEPT !.ready = stage # "extra"])
  /\ pPc' = "release"
  /\ ProducerStep
  /\ UNCHANGED <<stage, i, bytesRead, made, listMtx, onHeap>>

MarkReady ==
  /\ pPc = "mark" /\ list # <<>>
  /\ list' = UpdateBack([Back EXCEPT !.ready = TRUE])
  /\ pPc' = "release"
  /\ ProducerStep
  /\ UNCHANGED <<stage, i, bytesRead, made, listMtx, onHeap>>

\* The lock_guard of unlock_back ends; the producer goes on to its next block.
ReleaseBack ==
  /\ pPc = "release" /\ list # <<>>
  /\ list' = UpdateBack([Back EXCEPT !.mtx = "free"])
  /\ \/ /\ stage = "full"
        /\ i' = i + 1 /\ pPc' = "check" /\ UNCHANGED stage
     \/ /\ stage = "tail" /\ NeedExtra(size)
        /\ stage' = "extra" /\ pPc' = "push" /\ UNCHANGED i
     \/ /\ stage = "extra" \/ (stage = "tail" /\ ~NeedExtra(size))
        /\ pPc' = "done" /\ UNCHANGED <<stage, i>>
  /\ ProducerStep
  /\ UNCHANGED <<bytesRead, made, listMtx, onHeap>>

Producer ==
  \/ LockSize \/ ReadSize \/ EndLoop
  \/ LockPush \/ PushBack
  \/ FillFull \/ FillTail \/ PadTail \/ FillExtra
  \/ LockBack \/ MarkReady \/ ReleaseBack

-----------------------------------------------------------------------------
(***************************************************************************)
(* start_read and read_data: the consumer.                                 *)
(***************************************************************************)
ConsumerStep == UNCHANGED <<mainVars, producerVars>>

\* Mutant of Look: a lone block is read with no look at its flag.
LookNoFlag ==
  /\ cPc = "size"
  /\ listMtx' = "free"
  /\ cPc' = IF Len(list) = 0 THEN "check" ELSE "read"
  /\ ConsumerStep
  /\ UNCHANGED <<idx, hash, list, onHeap>>

LockLook ==
  /\ cPc = "check" /\ idx < Cycles(size) /\ listMtx = "free"
  /\ listMtx' = "consumer"
  /\ cPc' = "size"
  /\ ConsumerStep
  /\ UNCHANGED <<idx, hash, list, onHeap>>

\* switch (safe_t_get_size()): 0 tries again, 1 waits for the flag of the
\* block, and a block with another one behind it is read with no wait.
Look ==
  /\ cPc = "size"
  /\ listMtx' = "free"
  /\ cPc' = CASE Len(list) = 0 -> "check"
              [] Len(list) = 1 -> "ctrl"
              [] OTHER -> "read"
  /\ ConsumerStep
  /\ UNCHANGED <<idx, hash, list, onHeap>>

\* ctrl_front: lock the mutex of front(), read its flag, unlock.
LockFront ==
  /\ cPc = "ctrl" /\ list # <<>> /\ Front.mtx = "free"
  /\ list' = UpdateFront([Front EXCEPT !.mtx = "consumer"])
  /\ cPc' = "flag"
  /\ ConsumerStep
  /\ UNCHANGED <<idx, hash, listMtx, onHeap>>

\* Mutant of CtrlFront: the flag is not waited for.
CtrlFrontOnce ==
  /\ cPc = "flag" /\ list # <<>>
  /\ list' = UpdateFront([Front EXCEPT !.mtx = "free"])
  /\ cPc' = "read"
  /\ ConsumerStep
  /\ UNCHANGED <<idx, hash, listMtx, onHeap>>

CtrlFront ==
  /\ cPc = "flag" /\ list # <<>>
  /\ list' = UpdateFront([Front EXCEPT !.mtx = "free"])
  /\ cPc' = IF Front.ready THEN "read" ELSE "ctrl"
  /\ ConsumerStep
  /\ UNCHANGED <<idx, hash, listMtx, onHeap>>

\* read_data: fold the front block into the hash with no lock held.
ReadData ==
  /\ cPc = "read" /\ list # <<>>
  /\ hash' = Append(hash, Front.parts)
  /\ cPc' = "pop"
  /\ ConsumerStep
  /\ UNCHANGED <<idx, list, listMtx, onHeap>>

LockPop ==
  /\ cPc = "pop" /\ listMtx = "free"
  /\ listMtx' = "consumer"
  /\ cPc' = "popping"
  /\ ConsumerStep
  /\ UNCHANGED <<idx, hash, list, onHeap>>

\* pop_front destroys the message, which deletes its bytes when it owns them.
PopFront ==
  /\ cPc = "popping" /\ list # <<>>
  /\ onHeap' = IF Front.heap THEN onHeap \ {Front.id} ELSE onHeap
  /\ list' = Tail(list)
  /\ listMtx' = "free"
  /\ idx' = idx + 1
  /\ cPc' = "check"
  /\ ConsumerStep
  /\ UNCHANGED hash

EndRead ==
  /\ cPc = "check" /\ idx >= Cycles(size)
  /\ cPc' = "done"
  /\ ConsumerStep
  /\ UNCHANGED <<idx, hash, list, listMtx, onHeap>>

Consumer ==
  \/ LockLook \/ Look
  \/ LockFront \/ CtrlFront
  \/ ReadData \/ LockPop \/ PopFront
  \/ EndRead

Caller == ComputeEmpty \/ StartThreads \/ JoinThreads

\* The caller has its digest: nothing more happens.
Returned == caller = "returned" /\ UNCHANGED vars

Next == Caller \/ Producer \/ Consumer \/ Returned

Spec == Init /\ [][Next]_vars

(***************************************************************************)
(* The scheduler runs every thread that can run (WF), and a thread that    *)
(* keeps waiting for a mutex the other one keeps giving back gets it (SF): *)
(* both threads spin through the list mutex, so weak fairness alone lets   *)
(* one of them take it for ever.                                           *)
(***************************************************************************)
Fairness ==
  /\ WF_vars(Caller)
  /\ WF_vars(Producer) /\ WF_vars(Consumer)
  /\ SF_vars(LockSize) /\ SF_vars(LockPush) /\ SF_vars(LockBack)
  /\ SF_vars(LockLook) /\ SF_vars(LockPop)

FairSpec == Spec /\ Fairness

-----------------------------------------------------------------------------
(***************************************************************************)
(* Memory accesses.  A cell is <<node, field>>; node 0 is the header of    *)
(* the std::list, whose "next" is the front and whose "prev" is the back,  *)
(* and "count" its size.  push_back links a node behind the last one,      *)
(* pop_front unlinks the first one and destroys all its fields.  What the  *)
(* next step of a thread reads and writes follows from its control.        *)
(***************************************************************************)
Fields == {"next", "prev", "mutex", "ready", "data", "work"}

LastId   == IF list = <<>> THEN 0 ELSE Back.id
FirstId  == IF list = <<>> THEN 0 ELSE Front.id
SecondId == IF Len(list) > 1 THEN list[2].id ELSE 0

ProducerReads ==
  CASE pPc = "size"    -> {<<0, "count">>}
    [] pPc = "pushing" -> {<<0, "prev">>, <<0, "count">>}
    [] pPc \in {"fill", "pad"} -> {<<0, "prev">>}
    [] pPc \in {"flag", "mark", "release"} ->
         {<<0, "prev">>, <<LastId, "mutex">>}
    [] OTHER -> {}

ProducerWrites ==
  CASE pPc = "pushing" -> {<<0, "prev">>, <<LastId, "next">>, <<0, "count">>}
    [] pPc \in {"fill", "pad"} -> {<<LastId, "data">>}
    [] pPc = "mark" -> {<<LastId, "ready">>}
    [] OTHER -> {}

ConsumerReads ==
  CASE cPc = "size" -> {<<0, "count">>}
    [] cPc = "ctrl" -> {<<0, "next">>, <<FirstId, "mutex">>}
    [] cPc = "flag" -> {<<0, "next">>, <<FirstId, "mutex">>, <<FirstId, "ready">>}
    [] cPc = "read" -> {<<0, "next">>, <<FirstId, "data">>}
    [] cPc = "popping" -> {<<0, "next">>, <<0, "count">>}
    [] OTHER -> {}

ConsumerWrites ==
  CASE cPc = "read" -> {<<FirstId, "work">>}
    [] cPc = "popping" -> {<<0, "next">>, <<0, "count">>, <<SecondId, "prev">>}
                          \union ({FirstId} \X Fields)
    [] OTHER -> {}

(***************************************************************************)
(* front(), back() and the contents of the messages are used outside the   *)
(* list mutex.  That is only right if the two threads never touch the same *)
(* link, flag, mutex or data at once with one of them writing: the         *)
(* consumer must stay away from the message the producer is filling, and   *)
(* must not destroy it, or its mutex, under the producer's hands.          *)
(***************************************************************************)
NoDataRace ==
  /\ ProducerWrites \intersect (ConsumerReads \union ConsumerWrites) = {}
  /\ ConsumerWrites \intersect ProducerReads = {}

(***************************************************************************)
(* What has been folded into _hash_result at any moment is a prefix of the *)
(* padded message, complete blocks only, in order, none twice, although    *)
(* start_read looks at the flag of a block only when it is alone.          *)
(***************************************************************************)
DigestInOrder ==
  /\ Len(hash) <= FipsBlockCount(size)
  /\ hash = [k \in 1..Len(hash) |-> FipsBlock(size, k)]

(***************************************************************************)
(* The list stays bounded: prepare_message tests the size before it pushes *)
(* and the test lets one message over the limit; the tail and the extra    *)
(* block are pushed with no test.                                          *)
(***************************************************************************)
ListBounded ==
  Len(list) <= Limit + (CASE stage = "full"  -> 1
                          [] stage = "tail"  -> 2
                          [] stage = "extra" -> 3)

(***************************************************************************)
(* The 64 bytes allocated for a padding block belong to its message: while *)
(* it is in the list they are there, when it was popped they are deleted.  *)
(* So compute_hash returns with an empty list and no memory lost.          *)
(***************************************************************************)
PaddingOwned ==
  /\ onHeap = {list[k].id : k \in {j \in DOMAIN list : list[j].heap}}
  /\ caller = "returned" => list = <<>> /\ onHeap = {}

(***************************************************************************)
(* Both spin loops end: compute_hash returns.                              *)
(***************************************************************************)
Termination == <>(caller = "returned")

(***************************************************************************)
(* compute_hash does what ShaDigest promises, safety and liveness.         *)
(***************************************************************************)
Abstract == INSTANCE ShaDigest WITH digest <- hash,
                                    returned <- (caller = "returned")

ImplementsDigest == Abstract!AbsFairSpec
=============================================================================
