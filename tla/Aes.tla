---------------------------------- MODULE Aes ----------------------------------
(***************************************************************************)
(* An aes256 object (src/source/src/aes256.cpp) and its caller, who loads  *)
(* a file, encrypts or decrypts it, saves the result and loads that again, *)
(* as MyFrame::button_calc_aes256 and the unit test do.                    *)
(*                                                                         *)
(* The object works in the caller's buffer.  encrypt and decrypt run one   *)
(* thread for every whole block, and encrypt one more for final_pad, the   *)
(* padded copy of the bytes behind the whole blocks.  A thread xors its    *)
(* block with the cipher of its own counter (AesCounter): the AES rounds   *)
(* are abstracted to the constant BlockOf, one to one for each key.        *)
(***************************************************************************)
EXTENDS AesCounter, Sequences, FiniteSets

CONSTANTS
  ByteXor,    \* exclusive or of two bytes
  Keys,       \* keys
  Counters,   \* start values of the counter
  StartOf,    \* the one that the constructor derives from a key
  BlockOf,    \* the rounds: a block for each key and counter
  Inputs,     \* contents of the file that is loaded first
  MaxOps      \* bound: operations after the first load

Block == [1..Dim -> Byte]

ASSUME XorAssumption ==
  /\ ByteXor \in [Byte \X Byte -> Byte]
  /\ \A a, b \in Byte : ByteXor[<<ByteXor[<<a, b>>], b>>] = a
ASSUME InputsAssumption == \A x \in Inputs : x \in Seq(Byte) /\ x # <<>>
ASSUME KeyAssumption ==
  /\ Keys # {}
  /\ Counters \subseteq Block /\ StartOf \in [Keys -> Counters]
  /\ BlockOf \in [Keys \X Block -> Block]
  /\ \A k \in Keys : \A c, d \in Block : BlockOf[<<k, c>>] = BlockOf[<<k, d>>] => c = d
ASSUME BoundAssumption == MaxOps \in Nat

VARIABLES
  buf,     \* the caller's buffer, payload points to it
  key,     \* _subkeys, as the key they are expanded from
  ctr,     \* start_counter
  len,     \* length_payload
  cms,     \* value_CMS
  pad,     \* final_pad
  enc,     \* i_have_encrypt (i_have_decrypt is its negation once one was called)
  pc,      \* what the caller's thread is doing
  done,    \* for each thread of the running operation the bytes it has xored
  file,    \* the file saved last
  plain,   \* history: the contents and the key of the first load
  story    \* history: the operations since then

object  == <<key, ctr, len, cms, pad, enc>>
vars    == <<buf, object, pc, done, file, plain, story>>

-----------------------------------------------------------------------------
\* Mutant of Missing: a whole block is added to a file of whole blocks.
MissingNoMod(x) == Dim - (Len(x) % Dim)

(***************************************************************************)
(* The constructor: the bytes behind the last whole block go to final_pad, *)
(* filled up with the number of bytes that are missing.  When none is,     *)
(* final_pad is not set, and nothing reads it before decrypt sets it.      *)
(***************************************************************************)
Missing(x) == (Dim - (Len(x) % Dim)) % Dim
Whole(x)   == Len(x) - (Len(x) % Dim)
PadOf(x)   ==
  [i \in 1..Dim |-> IF i <= Len(x) % Dim THEN x[Whole(x) + i] ELSE Missing(x)]

Construct(x, k) ==
  /\ buf' = x /\ key' = k /\ ctr' = StartOf[k]
  /\ len' = Whole(x) /\ cms' = Missing(x)
  /\ pad' = IF Missing(x) = 0 THEN [i \in 1..Dim |-> 0] ELSE PadOf(x)
  /\ enc' = FALSE

Idle == pc = "idle"

\* The caller does op: a bound on the operations after the first load.
Does(op) == Len(story) < MaxOps /\ story' = Append(story, op)

\* No object yet.
Init ==
  /\ buf = <<>> /\ key = (CHOOSE k \in Keys : TRUE) /\ ctr = StartOf[key]
  /\ len = 0 /\ cms = 0 /\ pad = [i \in 1..Dim |-> 0] /\ enc = FALSE
  /\ pc = "none" /\ done = <<>>
  /\ file = <<>> /\ plain = [data |-> <<>>, key |-> key] /\ story = <<>>

\* The caller's first file, or another one when it is done or was ended by a
\* read outside the buffer.
Load(x, k) ==
  /\ pc = "none" \/ (pc \in {"idle", "crashed"} /\ story # <<>>)
  /\ Construct(x, k)
  /\ pc' = "idle" /\ file' = <<>>
  /\ plain' = [data |-> x, key |-> k] /\ story' = <<>>
  /\ UNCHANGED done

-----------------------------------------------------------------------------
(***************************************************************************)
(* encrypt and decrypt start their threads one after the other, while the  *)
(* first ones already run, and then wait for all of them.                  *)
(***************************************************************************)
Blocks  == IF len < Dim THEN 0 ELSE len \div Dim
Threads == Blocks + IF pc = "encrypt" /\ cms # 0 THEN 1 ELSE 0

\* Mutant of KeyStream: the number of the block is not added to the counter.
KeyStreamSame(n) == BlockOf[<<key, SumW128(ctr, 0)>>]

\* thread_aes_create: what block number n is xored with.
KeyStream(n) == BlockOf[<<key, SumW128(ctr, n)>>]

Start(op) ==
  /\ Idle /\ Does(op)
  /\ pc' = op /\ done' = <<>>
  /\ UNCHANGED <<buf, object, file, plain>>

Spawn ==
  /\ pc \in {"encrypt", "decrypt"} /\ Len(done) < Threads
  /\ done' = Append(done, 0)
  /\ UNCHANGED <<buf, object, pc, file, plain, story>>

\* Thread n xors the next byte of its block.
XorByte(n) ==
  LET i == done[n] + 1
  IN  /\ i <= Dim
      /\ done' = [done EXCEPT ![n] = i]
      /\ IF n <= Blocks
         THEN /\ buf' = [buf EXCEPT ![(n - 1) * Dim + i] = ByteXor[<<@, KeyStream(n - 1)[i]>>]]
              /\ UNCHANGED pad
         ELSE /\ pad' = [pad EXCEPT ![i] = ByteXor[<<@, KeyStream(n - 1)[i]>>]]
              /\ UNCHANGED buf
      /\ UNCHANGED <<key, ctr, len, cms, enc, pc, file, plain, story>>

Joined == Len(done) = Threads /\ \A n \in DOMAIN done : done[n] = Dim

\* The end of encrypt.
Encrypted ==
  /\ pc = "encrypt" /\ Joined
  /\ enc' = TRUE /\ pc' = "idle"
  /\ UNCHANGED <<buf, key, ctr, len, cms, pad, done, file, plain, story>>

(***************************************************************************)
(* The end of decrypt: bytes at the end of payload that all hold their own *)
(* number are taken for padding.  The search may leave the buffer at its   *)
(* front; the copy into final_pad may leave it at its end.  What is read   *)
(* there is arbitrary, and the read may end the program.                   *)
(***************************************************************************)
\* Mutant of IsPadding: one byte too many is compared.
IsPaddingLong(p) ==
  p \in 1..(Dim - 1) /\ \A j \in 0..p : len - j \in DOMAIN buf => buf[len - j] = p

IsPadding(p) ==
  p \in 1..(Dim - 1) /\ \A j \in 0..(p - 1) : len - j \in DOMAIN buf => buf[len - j] = p

SearchLeaves ==
  \/ len < 1
  \/ len >= 1 /\ buf[len] \in (len + 1)..(Dim - 1) /\ \A j \in 1..len : buf[j] = buf[len]

Guesses ==
  IF SearchLeaves THEN {0} \union {p \in 1..(Dim - 1) : IsPadding(p)}
  ELSE IF IsPadding(buf[len]) THEN {buf[len]} ELSE {0}

\* The bytes of final_pad that are copied from outside the buffer.
Outside(l, c) == {i \in 1..(Dim - c) : l + i \notin DOMAIN buf}

\* Mutant of Decrypted: final_pad is not made again.
DecryptedOldPad(p) ==
  /\ pc = "decrypt" /\ Joined
  /\ p \in Guesses
  /\ cms' = IF p = 0 THEN cms ELSE p
  /\ len' = len - p
  /\ enc' = FALSE /\ pc' = "idle"
  /\ UNCHANGED <<buf, key, ctr, pad, done, file, plain, story>>

Decrypted(p) ==
  /\ pc = "decrypt" /\ Joined
  /\ p \in Guesses
  /\ cms' = IF p = 0 THEN cms ELSE p
  /\ len' = len - p
  /\ IF cms' = 0 THEN UNCHANGED pad
     ELSE \E outside \in [Outside(len', cms') -> Byte] :
            pad' = [i \in 1..Dim |->
                      IF i > Dim - cms' THEN cms'
                      ELSE IF i \in DOMAIN outside THEN outside[i]
                      ELSE buf[len' + i]]
  /\ enc' = FALSE /\ pc' = "idle"
  /\ UNCHANGED <<buf, key, ctr, done, file, plain, story>>

DecryptCrashes(p) ==
  /\ pc = "decrypt" /\ Joined
  /\ p \in Guesses
  /\ \/ SearchLeaves
     \/ LET c == IF p = 0 THEN cms ELSE p
        IN  c # 0 /\ Outside(len - p, c) # {}
  /\ pc' = "crashed"
  /\ UNCHANGED <<buf, object, done, file, plain, story>>

-----------------------------------------------------------------------------
FinalBlockSize ==
  IF enc THEN (IF cms = 0 THEN 0 ELSE Dim) ELSE Dim - cms

FinalBlock == IF cms = 0 THEN <<>> ELSE SubSeq(pad, 1, FinalBlockSize)

\* What button_calc_aes256 saves.  A payload without bytes is no piece to write:
\* its file_pointer is null, and the save fails when the file is already truncated.
Save ==
  /\ Idle /\ Does("save")
  /\ file' = IF len <= 0 THEN <<>> ELSE SubSeq(buf, 1, len) \o FinalBlock
  /\ UNCHANGED <<buf, object, pc, done, plain>>

\* A new object for the saved file, with the same key or another one.
Reload(k) ==
  /\ Idle /\ file # <<>> /\ Does("reload")
  /\ UNCHANGED <<pc, done, file, plain>>
  /\ Construct(file, k)

\* The caller goes on with a copy: start_counter and the two flags are not
\* copied, neither by the constructors nor by the assignments.
Copy ==
  /\ Idle /\ Does("copy")
  /\ ctr' \in Counters /\ enc' \in BOOLEAN
  /\ UNCHANGED <<buf, key, len, cms, pad, pc, done, file, plain>>

Next ==
  \/ \E x \in Inputs, k \in Keys : Load(x, k)
  \/ \E op \in {"encrypt", "decrypt"} : Start(op)
  \/ Spawn
  \/ \E n \in DOMAIN done : XorByte(n)
  \/ Encrypted
  \/ \E p \in 0..(Dim - 1) : Decrypted(p) \/ DecryptCrashes(p)
  \/ Save
  \/ \E k \in Keys : Reload(k)
  \/ Copy

Spec == Init /\ [][Next]_vars

-----------------------------------------------------------------------------
TypeOK ==
  /\ buf \in Seq(Byte) /\ key \in Keys /\ ctr \in Counters
  /\ len \in Int /\ len <= Len(buf)
  /\ cms \in 0..(Dim - 1) /\ pad \in Block /\ enc \in BOOLEAN
  /\ pc \in {"none", "idle", "encrypt", "decrypt", "crashed"}
  /\ done \in Seq(0..Dim)
  /\ file \in Seq(Byte)
  /\ plain \in [data : Inputs \union {<<>>}, key : Keys]
  /\ story \in Seq({"encrypt", "decrypt", "save", "reload", "copy"})

\* The reference: PKCS#7 padding unless the length is a multiple of the
\* block's, and counter mode.
Padded(x) ==
  LET m == CHOOSE n \in 0..(Dim - 1) : (Len(x) + n) % Dim = 0
  IN  x \o [j \in 1..m |-> m]

Cipher(x, k) ==
  [i \in DOMAIN Padded(x) |->
     ByteXor[<<Padded(x)[i],
               BlockOf[<<k, SumW128(StartOf[k], (i - 1) \div Dim)>>][((i - 1) % Dim) + 1]>>]]

\* The whole blocks of x end like a padding.
EndsLikePadding(x) ==
  \E p \in 1..(Dim - 1) : \A j \in 0..(p - 1) : x[Whole(x) - j] = p

Aligned(x) == Len(x) % Dim = 0
Told(s)    == Idle /\ story = s

(***************************************************************************)
(* What is saved after encrypt is the padded file in counter mode, with    *)
(* every interleaving of the threads: each byte is xored once, with its    *)
(* own byte of the key stream.  Of a file shorter than a block nothing is  *)
(* saved: an empty file is left (button_calc_aes256).                      *)
(***************************************************************************)
CipherSaved ==
  Told(<<"encrypt", "save">>) =>
    file = IF Whole(plain.data) = 0 THEN <<>> ELSE Cipher(plain.data, plain.key)

\* The counters of the first Period blocks (2^23 of 16 bytes) are different, whatever
\* the start counter and the carries: sum_w128 is not an addition, but one to one.
AllFresh ==
  \A s \in Block : Cardinality({SumW128(s, n) : n \in 0..(Period - 1)}) = Period

\* When an encryption starts, no two blocks of a file of up to Period blocks will be
\* xored with the same bytes of the key stream.  (sum_w128 for each thread of encrypt)
CountersFresh == pc = "encrypt" => AllFresh

(***************************************************************************)
(* A second object with the same key finds the file again at the front of  *)
(* its payload; when the file was padded it also finds the length of it.   *)
(***************************************************************************)
RoundTrip ==
  Told(<<"encrypt", "save", "reload", "decrypt">>) /\ key = plain.key =>
    /\ SubSeq(buf, 1, Len(plain.data)) = plain.data
    /\ ~Aligned(plain.data) => len = Len(plain.data)

(***************************************************************************)
(* The same object can decrypt in place, and encrypt again to the same     *)
(* file (test A and test B of tests_unit.cpp), unless it has no whole      *)
(* block or decrypt takes the end of them for a padding.                   *)
(***************************************************************************)
InPlace ==
  /\ Told(<<"encrypt", "decrypt">>) => buf = plain.data
  /\ Told(<<"encrypt", "decrypt", "encrypt", "save">>)
       /\ Whole(plain.data) # 0 /\ ~EndsLikePadding(plain.data) =>
       file = Cipher(plain.data, plain.key)

(***************************************************************************)
(* aes256_sample.cpp:53-58: payload and final block of the object that     *)
(* decrypted, concatenated (what the program saves), are the input.        *)
(***************************************************************************)
SavedIsInput ==
  Told(<<"encrypt", "save", "reload", "decrypt", "save">>) /\ key = plain.key
    /\ ~Aligned(plain.data) => file = plain.data
=============================================================================
