--------------------------------- MODULE Base64 ---------------------------------
(***************************************************************************)
(* base64_encode and base64_decode (src/source/src/base64.cpp).  A text is *)
(* the sequence of its bytes; letters are their ASCII codes, because the   *)
(* decoder tells the letters apart by ranges of codes.                     *)
(***************************************************************************)
EXTENDS Integers, SequencesExt

\* The base64_standards.
STD == 0      \* RFC4648_STD, ends in + /
URL == 1      \* RFC4648_URL, ends in - _
IMAP == 2     \* RFC3501_STD, ends in + ,

Null == <<-1>>     \* nullptr
Junk == -2         \* a byte of new uint8_t[] that nobody wrote
Pad  == 61         \* '='

-----------------------------------------------------------------------------
\* translater__[v]
Letter(mode, v) ==
  CASE v \in 0..25  -> v + 65
    [] v \in 26..51 -> v + 71
    [] v \in 52..61 -> v - 4
    [] v = 62 -> IF mode = URL THEN 45 ELSE 43
    [] v = 63 -> IF mode = STD THEN 47 ELSE IF mode = URL THEN 95 ELSE 44

EncSize(n) == IF n = 0 THEN 0 ELSE ((n + 2) \div 3) * 4

\* One byte of the input: the last number of the output gets its missing bits
\* and becomes a letter, what is left of the byte starts the next one.
EncodeByte(mode, out, i, byte) ==
  LET Finish(bits) == [out EXCEPT ![Len(out)] = Letter(mode, @ + bits)]
  IN  CASE i % 3 = 0 -> out \o <<Letter(mode, byte \div 4), (byte % 4) * 16>>
        [] i % 3 = 1 -> Append(Finish(byte \div 16), (byte % 16) * 4)
        [] i % 3 = 2 -> Append(Finish(byte \div 64), Letter(mode, byte % 64))

\* The letters of the input, before the padding.
Letters(mode, in) ==
  LET out[i \in 0..Len(in)] ==
        IF i = 0 THEN <<>> ELSE EncodeByte(mode, out[i - 1], i - 1, in[i])
  IN  out[Len(in)]

\* Mutant of Padding: two of them behind every group that is not whole.
PaddingTwo(n) == IF n % 3 = 0 THEN <<>> ELSE <<Pad, Pad>>

Padding(n) == CASE n % 3 = 0 -> <<>> [] n % 3 = 1 -> <<Pad, Pad>> [] n % 3 = 2 -> <<Pad>>

Encode(mode, in) ==
  LET all == Letters(mode, in)
  IN  CASE in = <<>> -> Null
        [] in # <<>> /\ Len(in) % 3 = 0 -> all
        [] Len(in) % 3 # 0 -> [all EXCEPT ![Len(all)] = Letter(mode, @)] \o Padding(Len(in))

-----------------------------------------------------------------------------
(***************************************************************************)
(* conversion__: the ranges of the letters are tried first, and everything *)
(* from '0' on that is in none of them is refused.  That holds for '='     *)
(* and for '_', too, whose own tests are below and never reached.          *)
(***************************************************************************)
Conversion(c) ==
  CASE c >= 97 -> IF c > 122 THEN -1 ELSE c - 71
    [] c \in 65..96 -> IF c > 90 THEN -1 ELSE c - 65
    [] c \in 48..64 -> IF c > 57 THEN -1 ELSE c + 4
    [] c \in {43, 45} -> 62
    [] c \in {44, 47} -> 63
    [] OTHER -> -1

\* concat01, concat02, concat03
Concat(k, v, w) ==
  CASE k = 1 -> v * 4 + w \div 16
    [] k = 2 -> (v % 16) * 16 + w \div 4
    [] k = 3 -> (v % 4) * 64 + w

\* base64_dec_size, by the last character that is no padding.
DecSize(in) ==
  IF in = <<>> \/ in[1] = Pad THEN 0
  ELSE LET letters == CHOOSE n \in 1..Len(in) :
                        in[n] # Pad /\ \A j \in (n + 1)..Len(in) : in[j] = Pad
       IN  CASE letters % 4 = 0 -> (letters \div 4) * 3
             [] letters % 4 = 3 -> ((letters + 1) \div 4) * 3 - 1
             [] letters % 4 = 2 -> ((letters + 2) \div 4) * 3 - 2
             [] letters % 4 = 1 -> -1

\* The groups that the loop decodes; one more follows unless they are all.
Groups(in) == DecSize(in) \div 3

\* conversion__ of the k-th character of group g.  One behind the input is
\* read, too, but what it is decides nothing.
Value(in, g, k) ==
  IF 4 * g + k \in DOMAIN in THEN Conversion(in[4 * g + k]) ELSE -1

\* Mutant of LastGroup: the number of bytes is not looked at.
LastGroupWhole(in) ==
  LET v(k) == Value(in, Groups(in), k)
  IN  <<Concat(1, v(1), v(2)), IF v(3) < 0 THEN Junk ELSE Concat(2, v(2), v(3))>>

\* The bytes of the last group.  An invalid third letter ends it early.
LastGroup(in) ==
  LET v(k) == Value(in, Groups(in), k)
  IN  CASE DecSize(in) % 3 = 0 -> <<>>
        [] DecSize(in) % 3 = 1 -> <<Concat(1, v(1), v(2))>>
        [] OTHER -> <<Concat(1, v(1), v(2)),
                      IF v(3) < 0 THEN Junk ELSE Concat(2, v(2), v(3))>>

\* The letters whose conversion must not fail.
Checked(in) ==
  ((0..(Groups(in) - 1)) \X (1..4))
    \cup (IF DecSize(in) % 3 = 0 THEN {} ELSE {Groups(in)} \X {1, 2})

Decode(in) ==
  IF DecSize(in) < 1 \/ \E p \in Checked(in) : Value(in, p[1], p[2]) < 0 THEN Null
  ELSE [j \in 1..(3 * Groups(in)) |->
          LET g == (j - 1) \div 3
              k == ((j - 1) % 3) + 1
          IN  Concat(k, Value(in, g, k), Value(in, g, k + 1))]
       \o LastGroup(in)

\* The last group is read to its end also when the input is not padded.
ReadsBehind(in) ==
  /\ DecSize(in) > 0 /\ DecSize(in) % 3 # 0
  /\ Value(in, Groups(in), 1) >= 0 /\ Value(in, Groups(in), 2) >= 0
  /\ \A p \in Checked(in) : Value(in, p[1], p[2]) >= 0
  /\ Len(in) < 4 * (Groups(in) + 1)

-----------------------------------------------------------------------------
(***************************************************************************)
(* The reference, RFC 4648 section 4: 24 bits at a time, as one number.    *)
(***************************************************************************)
Word(in, g) ==
  LET byte(k) == IF 3 * g + k \in DOMAIN in THEN in[3 * g + k] ELSE 0
  IN  byte(1) * 65536 + byte(2) * 256 + byte(3)

RfcEncode(mode, in) ==
  [j \in 1..EncSize(Len(in)) |->
     IF 6 * (j - 1) >= 8 * Len(in) THEN Pad
     ELSE Letter(mode, (Word(in, (j - 1) \div 4) \div 64^(3 - ((j - 1) % 4))) % 64)]
=============================================================================
