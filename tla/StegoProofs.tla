------------------------------ MODULE StegoProofs ------------------------------
(***************************************************************************)
(* What hide_file (Stego) writes stands in the image where seek_file looks *)
(* for it, and seek_file finds it there, for every image that is wider     *)
(* than the header and every file.                                         *)
(***************************************************************************)
EXTENDS Stego, DataLemmas

-----------------------------------------------------------------------------
(* Numbers and their bits. *)

\* The powers of two that bits need.
LEMMA Powers ==
  ASSUME NEW n \in 0..29
  PROVE  2^n \in Nat \ {0} /\ 2^(n + 1) = 2 * 2^n /\ 2^(n + 1) = 2^n * 2
<1>1. n \in Nat
  OBVIOUS
<1>2. 2^n \in Nat /\ 2^n > 0 /\ 2^(n + 1) = 2 * 2^n
  BY <1>1, Power, PowerStep
<1>. QED
  BY <1>2

\* A bit is zero or one.
LEMMA BitIs ==
  ASSUME NEW v \in Nat, NEW j \in Nat
  PROVE  Bit(v, j) \in {0, 1}
<1>1. CASE j > 29
  BY <1>1 DEF Bit
<1>2. CASE j <= 29
  <2>0. j \in 0..29
    BY <1>2
  <2>1. 2^j \in Nat \ {0}
    BY <2>0, Powers
  <2>2. v \div 2^j \in Nat
    BY <2>1
  <2>3. (v \div 2^j) % 2 \in {0, 1}
    BY <2>2
  <2>. QED
    BY <1>2, <2>3 DEF Bit
<1>. QED
  BY <1>1, <1>2

\* Numbers of K bits that have the same bits are the same.
LEMMA SameBits ==
  ASSUME NEW K \in 0..30, NEW top \in Nat \ {0}, top = 2^K,
         NEW v \in 0..(top - 1), NEW w \in 0..(top - 1),
         \A j \in 0..(K - 1) : Bit(v, j) = Bit(w, j)
  PROVE  v = w
<1> DEFINE S == {n \in 0..K : v \div 2^n = w \div 2^n}
<1>1. K \in S
  <2>1. v \div top = 0 /\ w \div top = 0
    OBVIOUS
  <2>. QED
    BY <2>1
<1>2. S \subseteq Nat
  OBVIOUS
<1>3. PICK n \in S : \A m \in S : n <= m
  BY <1>1, <1>2, Least
<1>4. n \in 0..K /\ v \div 2^n = w \div 2^n
  OBVIOUS
<1>5. CASE n = 0
  <2>1. 2^0 = 1
    OBVIOUS
  <2>2. v \div 1 = w \div 1
    BY <1>4, <1>5, <2>1
  <2>. QED
    BY <2>2
<1>6. CASE n # 0
  <2>1. PICK k \in 0..29 : n = k + 1 /\ k \in 0..(K - 1)
    BY <1>4, <1>6
  <2>2. 2^k \in Nat \ {0} /\ 2^n = 2^k * 2
    BY <2>1, Powers
  <2>3. PICK q \in Nat \ {0} : q = 2^k
    BY <2>2
  <2>4. (v \div q) \div 2 = (w \div q) \div 2
    <3>1. v \div (q * 2) = w \div (q * 2)
      BY <1>4, <2>2, <2>3
    <3>2. v \in Nat /\ w \in Nat /\ 2 \in Nat \ {0}
      OBVIOUS
    <3>3. v \div (q * 2) = (v \div q) \div 2
      BY <3>2, Twice
    <3>4. w \div (q * 2) = (w \div q) \div 2
      BY <3>2, Twice
    <3>. QED
      BY <3>1, <3>3, <3>4
  <2>5. (v \div q) % 2 = (w \div q) % 2
    BY <2>1, <2>3 DEF Bit
  <2>6. v \div q \in Nat /\ w \div q \in Nat
    BY <2>3
  <2>7. v \div q = w \div q
    BY <2>4, <2>5, <2>6
  <2>8. k \in S
    BY <2>1, <2>3, <2>7
  <2>9. n <= k
    BY <1>3, <2>8
  <2>. QED
    BY <2>1, <2>9
<1>. QED
  BY <1>5, <1>6

\* Half of a number has its bits but the last.
LEMMA HalfBits ==
  ASSUME NEW p \in Nat, Bit(p \div 2, 29) = 0, NEW j \in 0..29
  PROVE  Bit(p \div 2, j) = Bit(p, j + 1)
<1>1. CASE j < 29
  <2>1. 2^j \in Nat \ {0} /\ 2^(j + 1) = 2 * 2^j
    BY Powers
  <2>2. PICK q \in Nat \ {0} : q = 2^j
    BY <2>1
  <2>3. p \div (2 * q) = (p \div 2) \div q
    <3>1. 2 \in Nat \ {0}
      OBVIOUS
    <3>. QED
      BY <2>2, <3>1, Twice
  <2>4. Bit(p \div 2, j) = ((p \div 2) \div q) % 2
    BY <1>1, <2>2 DEF Bit
  <2>5. Bit(p, j + 1) = (p \div (2 * q)) % 2
    BY <1>1, <2>1, <2>2 DEF Bit
  <2>. QED
    BY <2>3, <2>4, <2>5
<1>2. CASE j = 29
  BY <1>2 DEF Bit
<1>. QED
  BY <1>1, <1>2
-----------------------------------------------------------------------------
(* The image that hide_file leaves. *)

\* The first colour of the last byte, and the bit that belongs into a colour.
Start == 64 + 8 * (Payload - 1)
Hidden(c) == IF c < 64 THEN SizeBit(c) ELSE FileBit(c - 64)

\* The first n colours are written, and the others as they were.
Filled(n) ==
  \A c \in DOMAIN img : /\ c < n => img[c] = Hidden(c)
                        /\ c >= n => img[c] = Old

\* What is true of the colours from the last byte on: it may go a little too far.
Kept ==
  \A c \in DOMAIN img : /\ c < Start => img[c] = Hidden(c)
                        /\ c > Start + 9 => img[c] = Old

HideInv == row = 0 /\ col = 0 /\ cursor = 0 /\ bits = 0 /\ Filled(0)

\* A header pixel is three bits, and the header ends in the first row.
HeaderInv ==
  /\ Fits(Payload) /\ row = 0 /\ cursor = bits /\ bits = 3 * col
  /\ col \in 0..21 /\ Filled(bits)

\* The pixel and the cursor of the file agree.
DataInv ==
  /\ Fits(Payload) /\ col \in 0..(image.cols - 1)
  /\ 3 * Here = 64 + cursor /\ cursor <= 8 * (Payload - 1) + 2
  /\ Filled(64 + cursor)

\* The pixel is never before the last byte and never in front of the cursor; the
\* column may stand behind the row for one pixel.
LastInv ==
  /\ Fits(Payload) /\ choose \in 0..8 /\ col \in 0..image.cols
  /\ 3 * Here >= Start /\ 3 * Here + (choose % 3) <= 64 + cursor
  /\ cursor <= 8 * (Payload - 1) + 2 + choose
  /\ Kept

WrittenInv == Fits(Payload) /\ Kept

\* What each phase of the call has done to the image.
Phases ==
  /\ pc # "narrow"
  /\ pc \in {"hide", "refused"} => HideInv
  /\ pc = "header" => HeaderInv
  /\ pc = "data" => DataInv
  /\ pc = "last" => LastInv
  /\ WrittenImage => WrittenInv

TypeInv ==
  /\ image \in [rows : Nat \ {0}, cols : Nat \ {0}] /\ 3 * Pixels <= MaxInt
  /\ file \in [data : Nat \ {0}, name : Nat \ {0}]
  /\ row \in Nat /\ col \in Nat /\ cursor \in Nat
  /\ DOMAIN img = 0..(3 * Pixels - 1)

IInv == TypeInv /\ (Regular => Phases)

-----------------------------------------------------------------------------

\* A file has a length, and no bit of it is stored in front of the 64 of the size.
LEMMA PayloadType ==
  ASSUME TypeInv
  PROVE  Payload \in Nat /\ Payload >= 3 /\ Pixels \in Nat /\ Start \in Nat
<1>1. file.data \in Nat /\ file.data >= 1 /\ file.name \in Nat /\ file.name >= 1
  BY DEF TypeInv
<1>2. MaxName \in Nat /\ MaxName >= 1
  BY MaxNameAssumption
<1>3. StoredName \in Nat /\ StoredName >= 1
  BY <1>1, <1>2 DEF StoredName
<1>4. image.rows \in Nat /\ image.cols \in Nat
  BY DEF TypeInv
<1>5. Pixels \in Nat
  BY <1>4 DEF Pixels
<1>6. Payload \in Nat /\ Payload >= 3
  BY <1>1, <1>3 DEF Payload
<1>. QED
  BY <1>5, <1>6 DEF Start

\* The pixel is a number, and the next one is one more, within and behind a row.
LEMMA NextHere ==
  ASSUME TypeInv, NextPixel, UNCHANGED image, col \in 0..(image.cols - 1)
  PROVE  Here \in Nat /\ Here' = Here + 1 /\ row' \in Nat /\ col' \in 0..(image.cols - 1)
<1>1. image.cols \in Nat /\ row \in Nat /\ col \in Nat
  BY DEF TypeInv
<1>2. PICK n \in Nat : n = row * image.cols
  BY <1>1
<1>3. (row + 1) * image.cols = n + image.cols
  BY <1>1, <1>2
<1>. QED
  BY <1>1, <1>2, <1>3 DEF NextPixel, Here

\* What the three colours of a pixel become, and the colours elsewhere.
LEMMA PixelHidden ==
  ASSUME NEW next, HidePixel(next), Here \in Nat
  PROVE  /\ DOMAIN img' = DOMAIN img
         /\ \A c \in DOMAIN img :
              /\ c \in 3 * Here..(3 * Here + 2) => img'[c] = next[c - 3 * Here]
              /\ c \notin 3 * Here..(3 * Here + 2) => img'[c] = img[c]
BY DEF HidePixel, Hide, Colour

\* The pixel with the last bit of the length.
LEMMA BoundaryHidden ==
  ASSUME Boundary, Here \in Nat
  PROVE  /\ DOMAIN img' = DOMAIN img
         /\ \A c \in DOMAIN img :
              /\ c = 3 * Here => img'[c] = SizeBit(63)
              /\ c = 3 * Here + 1 => img'[c] = FileBit(0)
              /\ c = 3 * Here + 2 => img'[c] = FileBit(1)
              /\ c \notin 3 * Here..(3 * Here + 2) => img'[c] = img[c]
BY DEF Boundary, Hide, Colour

\* A colour of the last byte.
LEMMA LastHidden ==
  ASSUME LastColour, Here \in Nat
  PROVE  /\ DOMAIN img' = DOMAIN img
         /\ \A c \in DOMAIN img :
              c # 3 * Here + (choose % 3) => img'[c] = img[c]
BY DEF LastColour, Hide, Colour

\* A step keeps the image's shape and the file, and with them every length.
LEMMA Same ==
  ASSUME UNCHANGED <<image, file>>
  PROVE  /\ Payload' = Payload /\ Pixels' = Pixels /\ Start' = Start
         /\ Fits(Payload)' <=> Fits(Payload)
         /\ Regular' <=> Regular
         /\ \A c : Hidden(c)' = Hidden(c)
<1>1. StoredName' = StoredName
  BY DEF StoredName
<1>2. Payload' = Payload
  BY <1>1 DEF Payload
<1>3. Pixels' = Pixels
  BY DEF Pixels
<1>4. Start' = Start
  BY <1>2 DEF Start
<1>5. Fits(Payload)' <=> Fits(Payload)
  BY <1>2, <1>3 DEF Fits
<1>6. \A c : Hidden(c)' = Hidden(c)
  BY <1>2 DEF Hidden, FileBit, SizeBit
<1>. QED
  BY <1>2, <1>3, <1>4, <1>5, <1>6 DEF Regular

\* Every step keeps the type.
LEMMA TypeStep ==
  ASSUME TypeInv, Next
  PROVE  TypeInv' /\ UNCHANGED <<image, file>>
<1>1. UNCHANGED <<image, file>>
  BY DEF Next, Refuse, StartHide, HeaderPixel, NarrowRow, Boundary, DataPixel, LastByte,
         LastColour, Written, SeekTiny, SeekHeader, SeekLength, ReadPixel, ReadLast, ReadAll,
         ReadName
<1>2. DOMAIN img' = DOMAIN img
  BY DEF Next, Refuse, StartHide, HeaderPixel, NarrowRow, Boundary, DataPixel, LastByte,
         LastColour, Written, SeekTiny, SeekHeader, SeekLength, ReadPixel, ReadLast, ReadAll,
         ReadName, Hide, HidePixel
<1>3. row' \in Nat /\ col' \in Nat /\ cursor' \in Nat
  <2>. row \in Nat /\ col \in Nat /\ cursor \in Nat
    BY DEF TypeInv
  <2>. QED
    BY DEF Next, Refuse, StartHide, HeaderPixel, NarrowRow, Boundary, DataPixel, LastByte,
         LastColour, Written, SeekTiny, SeekHeader, SeekLength, ReadPixel, ReadLast, ReadAll,
         ReadName, HidePixel, NextPixel
<1>. QED
  BY <1>1, <1>2, <1>3, Same DEF TypeInv

\* Where the pixel is, is a number.
LEMMA HereType ==
  ASSUME TypeInv
  PROVE  Here \in Nat
<1>1. image.cols \in Nat /\ row \in Nat /\ col \in Nat
  BY DEF TypeInv
<1>2. row * image.cols \in Nat
  BY <1>1
<1>. QED
  BY <1>1, <1>2 DEF Here

\* A pixel of the header: three more bits of the length.
LEMMA HeaderStep ==
  ASSUME TypeInv, pc = "header", HeaderInv, HeaderPixel
  PROVE  HeaderInv' /\ pc' = "header"
<1>1. /\ row = 0 /\ cursor = bits /\ bits = 3 * col /\ col \in 0..21 /\ bits < 63
      /\ row' = 0 /\ col' = col + 1 /\ bits' = bits + 3 /\ cursor' = cursor + 3
  BY DEF HeaderInv, HeaderPixel, HidePixel
<1>2. col' \in 0..21 /\ bits' = 3 * col' /\ cursor' = bits'
  BY <1>1
<1>3. Here = col
  <2>1. image.cols \in Nat
    BY DEF TypeInv
  <2>. QED
    BY <1>1, <2>1 DEF Here
<1>4. HidePixel([k \in 0..2 |-> SizeBit(cursor + k)]) /\ UNCHANGED <<image, file>>
  BY DEF HeaderPixel
<1>5. \A c \in DOMAIN img : /\ c < bits' => img'[c] = Hidden(c)
                            /\ c >= bits' => img'[c] = Old
  <2>. TAKE c \in DOMAIN img
  <2>1. c \in Int
    BY PayloadType DEF TypeInv
  <2>2. /\ c < bits => img[c] = Hidden(c)
        /\ c >= bits => img[c] = Old
    BY DEF HeaderInv, Filled
  <2>3. /\ c \in bits..(bits + 2) => img'[c] = [k \in 0..2 |-> SizeBit(cursor + k)][c - bits]
        /\ c \notin bits..(bits + 2) => img'[c] = img[c]
    BY <1>1, <1>3, <1>4, HereType, PixelHidden
  <2>4. CASE c \in bits..(bits + 2)
    <3>1. c - bits \in 0..2 /\ cursor + (c - bits) = c
      BY <1>1, <2>1, <2>4
    <3>2. img'[c] = SizeBit(c)
      BY <2>3, <2>4, <3>1
    <3>3. c < 64 /\ c < bits' /\ ~ (c >= bits')
      BY <1>1, <2>1, <2>4
    <3>. QED
      BY <3>2, <3>3 DEF Hidden
  <2>5. CASE c \notin bits..(bits + 2)
    <3>1. c < bits \/ c > bits + 2
      BY <1>1, <2>1, <2>5
    <3>. QED
      BY <1>1, <2>1, <2>2, <2>3, <2>5, <3>1
  <2>. QED
    BY <2>4, <2>5
<1>6. DOMAIN img' = DOMAIN img
  BY <1>4, HereType, PixelHidden
<1>7. \A c : Hidden(c)' = Hidden(c)
  BY <1>4, Same
<1>8. Filled(bits)'
  BY <1>5, <1>6, <1>7 DEF Filled
<1>9. Fits(Payload)' /\ pc' = "header"
  BY <1>4, Same DEF HeaderInv, HeaderPixel
<1>. QED
  BY <1>1, <1>2, <1>8, <1>9 DEF HeaderInv

\* The pixel between the length and the file.
LEMMA BoundaryStep ==
  ASSUME TypeInv, Regular, pc = "header", HeaderInv, Boundary
  PROVE  DataInv' /\ pc' = "data"
<1>1. /\ row = 0 /\ cursor = 63 /\ bits = 63 /\ col = 21
      /\ cursor' = 2 /\ pc' = "data" /\ UNCHANGED <<image, file>>
  BY DEF HeaderInv, Boundary
<1>2. image.cols \in Nat /\ image.cols >= 22
  BY DEF TypeInv, Regular
<1>3. Here = 21
  BY <1>1, <1>2 DEF Here
<1>4. col' \in 0..(image'.cols - 1) /\ Here' = 22
  BY <1>1, <1>2 DEF Here, Boundary
<1>5. Payload \in Nat /\ Payload >= 3
  BY PayloadType
<1>6. Filled(66)'
  <2>. SUFFICES ASSUME NEW c \in DOMAIN img
                PROVE  /\ c < 66 => img'[c] = Hidden(c)
                       /\ c >= 66 => img'[c] = Old
    BY <1>1, HereType, BoundaryHidden, Same DEF Filled
  <2>1. c \in Int
    BY PayloadType DEF TypeInv
  <2>2. /\ c < 63 => img[c] = Hidden(c)
        /\ c >= 63 => img[c] = Old
    BY <1>1 DEF HeaderInv, Filled
  <2>3. /\ c = 63 => img'[c] = SizeBit(63)
        /\ c = 64 => img'[c] = FileBit(0)
        /\ c = 65 => img'[c] = FileBit(1)
        /\ c \notin 63..65 => img'[c] = img[c]
    BY <1>3, HereType, BoundaryHidden
  <2>4. c < 63 \/ c = 63 \/ c = 64 \/ c = 65 \/ c > 65
    BY <2>1
  <2>. QED
    BY <2>1, <2>2, <2>3, <2>4 DEF Hidden
<1>7. 3 * Here' = 64 + cursor' /\ cursor' <= 8 * (Payload - 1) + 2 /\ 64 + cursor' = 66
  BY <1>1, <1>4, <1>5
<1>8. Fits(Payload)' /\ Payload' = Payload
  BY <1>1, Same DEF HeaderInv
<1>9. Filled(64 + cursor)'
  BY <1>6, <1>7 DEF Filled
<1>. QED
  BY <1>1, <1>4, <1>7, <1>8, <1>9 DEF DataInv

\* A pixel of the file: three more of its bits, and the next pixel.
LEMMA DataStep ==
  ASSUME TypeInv, pc = "data", DataInv, DataPixel
  PROVE  DataInv' /\ pc' = "data"
<1>1. /\ HidePixel([k \in 0..2 |-> FileBit(cursor + k)]) /\ NextPixel
      /\ UNCHANGED <<image, file, pc>> /\ cursor' = cursor + 3
  BY DEF DataPixel, HidePixel
<1>2. /\ Payload \in Nat /\ Payload >= 3 /\ cursor \in Nat /\ Here \in Nat
      /\ col \in 0..(image.cols - 1) /\ 3 * Here = 64 + cursor
      /\ cursor <= 8 * (Payload - 1) + 2
  BY PayloadType, HereType DEF TypeInv, DataInv
<1>3. Here' = Here + 1 /\ col' \in 0..(image.cols - 1)
  BY <1>1, <1>2, NextHere
<1>4. PICK p \in Nat : p = Payload
  BY <1>2
<1>5. cursor \div 8 # p - 1
  BY <1>4 DEF DataPixel
<1>6. cursor < 8 * (p - 1)
  BY <1>2, <1>4, <1>5
<1>7. cursor' <= 8 * (Payload - 1) + 2 /\ 3 * Here' = 64 + cursor'
  BY <1>1, <1>2, <1>3, <1>4, <1>6
<1>8. \A c \in DOMAIN img : /\ c < 64 + cursor' => img'[c] = Hidden(c)
                            /\ c >= 64 + cursor' => img'[c] = Old
  <2>. TAKE c \in DOMAIN img
  <2>1. c \in Int
    BY PayloadType DEF TypeInv
  <2>2. /\ c < 64 + cursor => img[c] = Hidden(c)
        /\ c >= 64 + cursor => img[c] = Old
    BY DEF DataInv, Filled
  <2>3. /\ c \in (64 + cursor)..(64 + cursor + 2) =>
             img'[c] = [k \in 0..2 |-> FileBit(cursor + k)][c - (64 + cursor)]
        /\ c \notin (64 + cursor)..(64 + cursor + 2) => img'[c] = img[c]
    BY <1>1, <1>2, PixelHidden
  <2>4. CASE c \in (64 + cursor)..(64 + cursor + 2)
    <3>1. c - (64 + cursor) \in 0..2 /\ cursor + (c - (64 + cursor)) = c - 64
      BY <1>2, <2>1, <2>4
    <3>2. img'[c] = FileBit(c - 64)
      BY <2>3, <2>4, <3>1
    <3>3. ~ (c < 64) /\ c < 64 + cursor' /\ ~ (c >= 64 + cursor')
      BY <1>1, <1>2, <2>1, <2>4
    <3>. QED
      BY <3>2, <3>3 DEF Hidden
  <2>5. CASE c \notin (64 + cursor)..(64 + cursor + 2)
    <3>1. c < 64 + cursor \/ c > 64 + cursor + 2
      BY <1>2, <2>1, <2>5
    <3>. QED
      BY <1>1, <1>2, <2>1, <2>2, <2>3, <2>5, <3>1
  <2>. QED
    BY <2>4, <2>5
<1>9. DOMAIN img' = DOMAIN img
  BY <1>1, <1>2, PixelHidden
<1>10. \A c : Hidden(c)' = Hidden(c)
  BY <1>1, Same
<1>11. Filled(64 + cursor)'
  BY <1>8, <1>9, <1>10 DEF Filled
<1>12. Fits(Payload)' /\ Payload' = Payload
  BY <1>1, Same DEF DataInv
<1>. QED
  BY <1>1, <1>3, <1>7, <1>11, <1>12 DEF DataInv

\* The first pixel of the last byte: the cursor is in it, by two bits at most.
LEMMA LastByteStep ==
  ASSUME TypeInv, pc = "data", DataInv, LastByte
  PROVE  LastInv' /\ pc' = "last"
<1>1. /\ UNCHANGED <<image, file>> /\ UNCHANGED <<img, row, col, cursor>>
      /\ pc' = "last" /\ choose' = 0
  BY DEF LastByte
<1>2. /\ Payload \in Nat /\ Payload >= 3 /\ cursor \in Nat /\ Here \in Nat
      /\ image.cols \in Nat /\ col \in 0..(image.cols - 1) /\ 3 * Here = 64 + cursor
      /\ cursor <= 8 * (Payload - 1) + 2
  BY PayloadType, HereType DEF TypeInv, DataInv
<1>3. PICK p \in Nat : p = Payload
  BY <1>2
<1>4. cursor \div 8 = p - 1
  BY <1>3 DEF LastByte
<1>5. cursor >= 8 * (p - 1)
  BY <1>2, <1>3, <1>4
<1>6. Start = 64 + 8 * (p - 1)
  BY <1>3 DEF Start
<1>7. Kept
  <2>. SUFFICES ASSUME NEW c \in DOMAIN img
                PROVE  /\ c < Start => img[c] = Hidden(c)
                       /\ c > Start + 9 => img[c] = Old
    BY DEF Kept
  <2>1. c \in Int
    BY PayloadType DEF TypeInv
  <2>2. /\ c < 64 + cursor => img[c] = Hidden(c)
        /\ c >= 64 + cursor => img[c] = Old
    BY DEF DataInv, Filled
  <2>. QED
    BY <1>2, <1>3, <1>5, <1>6, <2>1, <2>2
<1>8. Kept'
  BY <1>1, <1>7, Same DEF Kept
<1>9. Here' = Here /\ Fits(Payload)' /\ Payload' = Payload /\ Start' = Start
  BY <1>1, Same DEF DataInv, Here
<1>10. col' \in 0..image'.cols /\ choose' \in 0..8
  BY <1>1, <1>2
<1>11. 3 * Here >= Start /\ 3 * Here + (0 % 3) <= 64 + cursor
  BY <1>2, <1>3, <1>5, <1>6
<1>12. cursor <= 8 * (Payload - 1) + 2 + 0
  BY <1>2
<1>. QED
  BY <1>1, <1>8, <1>9, <1>10, <1>11, <1>12 DEF LastInv

\* One of the eight colours of the last byte.
LEMMA LastColourStep ==
  ASSUME TypeInv, pc = "last", LastInv, LastColour
  PROVE  LastInv' /\ pc' = "last"
<1>1. /\ UNCHANGED <<image, file>> /\ pc' = "last" /\ choose < 8
      /\ choose' = choose + 1 /\ cursor' = cursor + 1
  BY DEF LastColour
<1>2. /\ Payload \in Nat /\ Payload >= 3 /\ cursor \in Nat /\ Here \in Nat
      /\ image.cols \in Nat /\ col \in 0..image.cols /\ row \in Nat /\ choose \in 0..8
      /\ 3 * Here >= Start /\ 3 * Here + (choose % 3) <= 64 + cursor
      /\ cursor <= 8 * (Payload - 1) + 2 + choose /\ image.cols >= 1
  BY PayloadType, HereType DEF TypeInv, LastInv
<1>3. PICK p \in Nat : p = Payload
  BY <1>2
<1>4. Start = 64 + 8 * (p - 1)
  BY <1>3 DEF Start
<1>5. PICK m \in 0..2 : m = choose % 3
  BY <1>2
<1>6. \A c \in DOMAIN img : /\ c < Start => img'[c] = Hidden(c)
                            /\ c > Start + 9 => img'[c] = Old
  <2>. TAKE c \in DOMAIN img
  <2>1. c \in Int
    BY PayloadType DEF TypeInv
  <2>2. /\ c < Start => img[c] = Hidden(c)
        /\ c > Start + 9 => img[c] = Old
    BY DEF LastInv, Kept
  <2>3. c # 3 * Here + m => img'[c] = img[c]
    BY <1>2, <1>5, LastHidden
  <2>4. c < Start => c # 3 * Here + m
    BY <1>2, <1>4, <1>5, <2>1
  <2>5. c > Start + 9 => c # 3 * Here + m
    BY <1>1, <1>2, <1>3, <1>4, <1>5, <2>1
  <2>. QED
    BY <2>2, <2>3, <2>4, <2>5
<1>7. DOMAIN img' = DOMAIN img
  BY <1>2, LastHidden
<1>8. Kept'
  <2>1. Start' = Start /\ \A c : Hidden(c)' = Hidden(c)
    BY <1>1, Same
  <2>. QED
    BY <1>6, <1>7, <2>1 DEF Kept
<1>9. /\ m # 2 => Here' = Here /\ col' = col
      /\ m = 2 => Here' \in {Here, Here + 1} /\ col' \in 0..image.cols
  <2>1. m # 2 => row' = row /\ col' = col
    BY <1>5 DEF LastColour
  <2>2. m = 2 /\ col < image.cols => row' = row /\ col' = col + 1
    BY <1>5 DEF LastColour
  <2>3. m = 2 /\ ~ (col < image.cols) => row' = row + 1 /\ col' = 0
    BY <1>5 DEF LastColour
  <2>4. PICK n \in Nat : n = row * image.cols
    BY <1>2
  <2>5. (row + 1) * image.cols = n + image.cols
    BY <1>2, <2>4
  <2>6. Here = n + col
    BY <2>4 DEF Here
  <2>7. m # 2 => Here' = Here /\ col' = col
    BY <1>1, <2>1 DEF Here
  <2>8. m = 2 /\ col < image.cols => Here' = Here + 1 /\ col' \in 0..image.cols
    BY <1>1, <1>2, <2>2, <2>4, <2>6 DEF Here
  <2>9. m = 2 /\ ~ (col < image.cols) => Here' = Here /\ col' \in 0..image.cols
    <3>. SUFFICES ASSUME m = 2, ~ (col < image.cols)
                  PROVE  Here' = Here /\ col' \in 0..image.cols
      OBVIOUS
    <3>1. row' = row + 1 /\ col' = 0 /\ image' = image /\ col = image.cols
      BY <1>1, <1>2, <2>3
    <3>2. Here' = (row + 1) * image.cols + 0
      BY <3>1 DEF Here
    <3>. QED
      BY <1>2, <2>4, <2>5, <2>6, <3>1, <3>2
  <2>. QED
    BY <2>7, <2>8, <2>9
<1>10. /\ m # 2 => choose' % 3 = m + 1
       /\ m = 2 => choose' % 3 = 0
  BY <1>1, <1>2, <1>5
<1>11. 3 * Here' >= Start /\ 3 * Here' + (choose' % 3) <= 64 + cursor'
  BY <1>1, <1>2, <1>4, <1>5, <1>9, <1>10
<1>12. cursor' <= 8 * (Payload - 1) + 2 + choose' /\ choose' \in 0..8 /\ col' \in 0..image'.cols
  BY <1>1, <1>2, <1>3, <1>5, <1>9
<1>13. Fits(Payload)' /\ Payload' = Payload /\ Start' = Start
  BY <1>1, Same DEF LastInv
<1>. QED
  BY <1>1, <1>8, <1>11, <1>12, <1>13 DEF LastInv

\* The rows never end before the last byte.
LEMMA RowsSuffice ==
  ASSUME TypeInv, pc = "data", DataInv
  PROVE  row # image.rows
<1>. SUFFICES ASSUME row = image.rows PROVE FALSE
  OBVIOUS
<1>1. /\ Fits(Payload) /\ col \in 0..(image.cols - 1)
      /\ 3 * Here = 64 + cursor /\ cursor <= 8 * (Payload - 1) + 2
  BY DEF DataInv
<1>2. Here = Pixels + col
  BY DEF Here, Pixels
<1>3. Payload \in Nat /\ Pixels \in Nat /\ cursor \in Nat /\ image.cols \in Nat
  BY PayloadType DEF TypeInv
<1>4. 8 * (8 + Payload) <= 3 * Pixels
  BY <1>1 DEF Fits
<1>. QED
  BY <1>1, <1>2, <1>3, <1>4

\* The image is written behind the last byte only: the rows never end before it.
LEMMA WrittenStep ==
  ASSUME TypeInv, Phases, Written
  PROVE  WrittenInv' /\ pc' = "seek"
<1>1. UNCHANGED <<image, file, img>> /\ pc' = "seek"
  BY DEF Written
<1>2. ~ (pc = "data" /\ row = image.rows)
  BY RowsSuffice DEF Phases
<1>3. LastInv
  BY <1>2 DEF Written, Phases
<1>4. Kept'
  <2>1. Start' = Start /\ \A c : Hidden(c)' = Hidden(c)
    BY <1>1, Same
  <2>. QED
    BY <1>1, <1>3, <2>1 DEF LastInv, Kept
<1>. QED
  BY <1>1, <1>3, <1>4, Same DEF LastInv, WrittenInv

\* The header of an image that is wide enough starts at the first pixel.
LEMMA StartStep ==
  ASSUME TypeInv, Regular, HideInv, StartHide
  PROVE  HeaderInv' /\ pc' = "header"
<1>1. UNCHANGED <<image, file, img, row, col, cursor, bits>> /\ Fits(Payload)
  BY DEF StartHide
<1>2. pc' = "header"
  <2>1. image.cols \in Nat
    BY DEF TypeInv
  <2>. QED
    BY <2>1 DEF StartHide, Regular, Narrow
<1>3. Filled(0)'
  <2>1. \A c : Hidden(c)' = Hidden(c)
    BY <1>1, Same
  <2>. QED
    BY <1>1, <2>1 DEF HideInv, Filled
<1>4. row' = 0 /\ col' = 0 /\ cursor' = 0 /\ bits' = 0
  BY <1>1 DEF HideInv
<1>5. Fits(Payload)'
  BY <1>1, Same
<1>6. Filled(bits)'
  BY <1>3, <1>4 DEF Filled
<1>. QED
  BY <1>2, <1>4, <1>5, <1>6 DEF HeaderInv

Seeking == SeekTiny \/ SeekHeader \/ SeekLength \/ ReadPixel \/ ReadLast \/ ReadAll \/ ReadName

\* seek_file reads an image that was written, and leaves it alone.
LEMMA SeekStep ==
  ASSUME WrittenInv, Seeking
  PROVE  WrittenInv' /\ WrittenImage /\ pc' \notin {"hide", "refused", "narrow", "header", "data", "last"}
<1>1. UNCHANGED <<image, file, img>>
  BY DEF Seeking, SeekTiny, SeekHeader, SeekLength, ReadPixel, ReadLast, ReadAll, ReadName
<1>2. Kept'
  <2>1. Start' = Start /\ \A c : Hidden(c)' = Hidden(c)
    BY <1>1, Same
  <2>. QED
    BY <1>1, <2>1 DEF WrittenInv, Kept
<1>3. WrittenImage /\ pc' \notin {"hide", "refused", "narrow", "header", "data", "last"}
  BY DEF Seeking, SeekTiny, SeekHeader, SeekLength, ReadPixel, ReadLast, ReadAll, ReadName,
         WrittenImage
<1>. QED
  BY <1>1, <1>2, <1>3, Same DEF WrittenInv

\* A call that is refused leaves the image as it is.
LEMMA RefuseStep ==
  ASSUME HideInv, Refuse
  PROVE  HideInv' /\ pc' = "refused"
<1>1. UNCHANGED <<image, file, img, row, col, cursor, bits>> /\ pc' = "refused"
  BY DEF Refuse
<1>2. \A c : Hidden(c)' = Hidden(c)
  BY <1>1, Same
<1>. QED
  BY <1>1, <1>2 DEF HideInv, Filled

\* A step of an image that is wide enough leaves every phase as it should be.
LEMMA PhasesStep ==
  ASSUME TypeInv, Regular, Phases, Next
  PROVE  Phases'
<1>1. CASE Refuse
  <2>1. HideInv' /\ pc' = "refused"
    BY <1>1, RefuseStep DEF Refuse, Phases
  <2>. QED
    BY <2>1 DEF Phases, WrittenImage
<1>2. CASE StartHide
  <2>1. HeaderInv' /\ pc' = "header"
    BY <1>2, StartStep DEF StartHide, Phases
  <2>. QED
    BY <2>1 DEF Phases, WrittenImage
<1>3. CASE HeaderPixel
  <2>1. HeaderInv' /\ pc' = "header"
    BY <1>3, HeaderStep DEF HeaderPixel, Phases
  <2>. QED
    BY <2>1 DEF Phases, WrittenImage
<1>4. CASE NarrowRow
  BY <1>4 DEF NarrowRow, Phases
<1>5. CASE Boundary
  <2>1. DataInv' /\ pc' = "data"
    BY <1>5, BoundaryStep DEF Boundary, Phases
  <2>. QED
    BY <2>1 DEF Phases, WrittenImage
<1>6. CASE DataPixel
  <2>1. DataInv' /\ pc' = "data"
    BY <1>6, DataStep DEF DataPixel, Phases
  <2>. QED
    BY <2>1 DEF Phases, WrittenImage
<1>7. CASE LastByte
  <2>1. LastInv' /\ pc' = "last"
    BY <1>7, LastByteStep DEF LastByte, Phases
  <2>. QED
    BY <2>1 DEF Phases, WrittenImage
<1>8. CASE LastColour
  <2>1. LastInv' /\ pc' = "last"
    BY <1>8, LastColourStep DEF LastColour, Phases
  <2>. QED
    BY <2>1 DEF Phases, WrittenImage
<1>9. CASE Written
  <2>1. WrittenInv' /\ pc' = "seek"
    BY <1>9, WrittenStep
  <2>. QED
    BY <2>1 DEF Phases, WrittenImage
<1>10. CASE Seeking
  <2>1. WrittenImage
    BY <1>10 DEF Seeking, SeekTiny, SeekHeader, SeekLength, ReadPixel, ReadLast, ReadAll,
                 ReadName, WrittenImage
  <2>2. WrittenInv' /\ pc' \notin {"hide", "refused", "narrow", "header", "data", "last"}
    BY <1>10, <2>1, SeekStep DEF Phases
  <2>. QED
    BY <2>2 DEF Phases
<1>. QED
  BY <1>1, <1>2, <1>3, <1>4, <1>5, <1>6, <1>7, <1>8, <1>9, <1>10 DEF Next, Seeking

-----------------------------------------------------------------------------

\* The invariant that the image follows, for every set of images and files.
\* (hide_file: header, boundary, data and last byte; seek_file)
THEOREM Invariance == Spec => []IInv
<1>1. Init => IInv
  <2>. SUFFICES ASSUME Init PROVE IInv
    OBVIOUS
  <2>1. image \in [rows : Nat \ {0}, cols : Nat \ {0}] /\ file \in [data : Nat \ {0}, name : Nat \ {0}]
    BY ImagesAssumption, FilesAssumption DEF Init
  <2>6. 3 * Pixels <= MaxInt
    BY ProductAssumption DEF Init, Pixels
  <2>2. DOMAIN img = 0..(3 * Pixels - 1)
    BY DEF Init
  <2>3. TypeInv
    BY <2>1, <2>2, <2>6 DEF TypeInv, Init
  <2>4. \A c \in DOMAIN img : c \in Int /\ c >= 0 /\ img[c] = Old
    BY <2>2, <2>3, PayloadType DEF Init
  <2>5. HideInv
    BY <2>4 DEF Init, HideInv, Filled
  <2>. QED
    BY <2>3, <2>5 DEF IInv, Phases, WrittenImage, Init
<1>2. IInv /\ [Next]_vars => IInv'
  <2>1. ASSUME IInv, Next PROVE IInv'
    <3>1. TypeInv' /\ UNCHANGED <<image, file>>
      BY <2>1, TypeStep DEF IInv
    <3>2. Regular' <=> Regular
      BY <3>1, Same
    <3>. QED
      BY <2>1, <3>1, <3>2, PhasesStep DEF IInv
  <2>2. ASSUME IInv, UNCHANGED vars PROVE IInv'
    <3>1. /\ image' = image /\ file' = file /\ pc' = pc /\ img' = img /\ row' = row
          /\ col' = col /\ cursor' = cursor /\ bits' = bits /\ choose' = choose
      BY <2>2 DEF vars
    <3>2. Payload' = Payload /\ Pixels' = Pixels /\ Start' = Start /\ (Regular' <=> Regular)
      BY <3>1, Same
    <3>3. (Fits(Payload)' <=> Fits(Payload)) /\ Here' = Here
      BY <3>1, Same DEF Here
    <3>4. \A c : Hidden(c)' = Hidden(c)
      BY <3>1, Same
    <3>5. TypeInv'
      BY <2>2, <3>1, <3>2 DEF IInv, TypeInv
    <3>6. Kept' <=> Kept
      BY <3>1, <3>2, <3>4 DEF Kept
    <3>7. (HideInv' <=> HideInv) /\ (HeaderInv' <=> HeaderInv) /\ (DataInv' <=> DataInv)
      BY <3>1, <3>2, <3>3, <3>4 DEF HideInv, HeaderInv, DataInv, Filled
    <3>8. (LastInv' <=> LastInv) /\ (WrittenInv' <=> WrittenInv)
      BY <3>1, <3>2, <3>3, <3>6 DEF LastInv, WrittenInv
    <3>. QED
      BY <2>2, <3>1, <3>2, <3>5, <3>7, <3>8 DEF IInv, Phases, WrittenImage
  <2>. QED
    BY <2>1, <2>2
<1>. QED
  BY <1>1, <1>2, PTL DEF Spec

\* In every image that is written, however it is shaped beyond the header's pixels and
\* whatever the lengths of the file and its name, the size and every byte but the last
\* stand one behind the other, and the colours behind are untouched.  (hide_file)
THEOREM BytesInPlaceAlways == Spec => []BytesInPlace
<1>1. IInv => BytesInPlace
  <2>. SUFFICES ASSUME IInv, WrittenImage, Regular
                PROVE  /\ \A k \in 0..63 : img[k] = SizeBit(k)
                       /\ \A k \in 0..(8 * (Payload - 1) - 1) : img[64 + k] = FileBit(k)
                       /\ \A c \in DOMAIN img : c > 64 + 8 * Payload + 1 => img[c] = Old
    BY DEF BytesInPlace
  <2>1. /\ Payload \in Nat /\ Payload >= 3 /\ Pixels \in Nat
        /\ Start = 64 + 8 * (Payload - 1)
        /\ DOMAIN img = 0..(3 * Pixels - 1) /\ 8 * (8 + Payload) <= 3 * Pixels
    BY PayloadType DEF IInv, TypeInv, Phases, WrittenInv, Fits, Start
  <2>2. \A c \in DOMAIN img : /\ c < Start => img[c] = Hidden(c)
                              /\ c > Start + 9 => img[c] = Old
    BY DEF IInv, Phases, WrittenInv, Kept
  <2>3. ASSUME NEW k \in 0..63 PROVE img[k] = SizeBit(k)
    <3>1. k \in DOMAIN img /\ k < Start /\ k < 64
      BY <2>1, <2>3
    <3>. QED
      BY <2>2, <3>1 DEF Hidden
  <2>4. ASSUME NEW k \in 0..(8 * (Payload - 1) - 1) PROVE img[64 + k] = FileBit(k)
    <3>1. 64 + k \in DOMAIN img /\ 64 + k < Start /\ ~ (64 + k < 64) /\ (64 + k) - 64 = k
      BY <2>1, <2>4
    <3>2. img[64 + k] = Hidden(64 + k)
      BY <2>2, <3>1
    <3>3. Hidden(64 + k) = FileBit((64 + k) - 64)
      BY <3>1 DEF Hidden
    <3>. QED
      BY <3>1, <3>2, <3>3
  <2>5. ASSUME NEW c \in DOMAIN img, c > 64 + 8 * Payload + 1 PROVE img[c] = Old
    <3>1. c > Start + 9
      BY <2>1, <2>5
    <3>. QED
      BY <2>2, <3>1
  <2>. QED
    BY <2>3, <2>4, <2>5
<1>. QED
  BY <1>1, Invariance, PTL
-----------------------------------------------------------------------------
(* What the bits of an image can be read as. *)

\* A bit that is read alone is the bit of the number that was stored.
LEMMA OneBit ==
  ASSUME NEW b, NEW v \in Nat, NEW j \in Nat, Value(b) = {Bit(v, j)}
  PROVE  OrOf({b}) = {Bit(v, j)}
<1>1. CASE Bit(v, j) = 1
  BY <1>1 DEF OrOf
<1>2. CASE Bit(v, j) = 0
  BY <1>2 DEF OrOf
<1>. QED
  BY <1>1, <1>2, BitIs

\* No image has room for a length of more bits than Bit and Numbers have.
LEMMA SmallLengths ==
  ASSUME TypeInv, Fits(Payload)
  PROVE  /\ 2^30 \in Nat \ {0} /\ 2^29 \in Nat \ {0}
         /\ Payload \div 2 \in 0..(2^29 - 1) /\ Payload \div 2 \in 0..(2^30 - 1)
         /\ 0..Pixels \subseteq 0..(2^30 - 1)
<1>1. 3 * Pixels <= 2147483647 /\ 8 * (8 + Payload) <= 3 * Pixels
  BY SMT DEF TypeInv, Fits, MaxInt
<1>2. Payload \in Nat /\ Pixels \in Nat
  BY PayloadType
<1>3. PICK p \in Nat, x \in Nat : p = Payload /\ x = Pixels
  BY <1>2
<1>4. 3 * x <= 2147483647 /\ 8 * (8 + p) <= 3 * x
  BY <1>1, <1>3, SMT
<1>5. p \div 2 \in 0..(2^29 - 1) /\ p \div 2 \in 0..(2^30 - 1)
  BY <1>4, SMT
<1>6. x <= 2^30 - 1 /\ 2^30 \in Nat \ {0} /\ 2^29 \in Nat \ {0}
  BY <1>4, SMT
<1>7. ASSUME NEW i \in 0..x PROVE i \in 0..(2^30 - 1)
  BY <1>4, SMT
<1>. QED
  BY <1>3, <1>5, <1>6, <1>7

\* A bit of the length is read as it was stored.
LEMMA SizeTold ==
  ASSUME TypeInv, NEW k \in 0..63
  PROVE  OrOf({SizeBit(k)}) = {Bit(Payload, 63 - k)}
<1>1. Value(SizeBit(k)) = {Bit(Payload, 63 - k)}
  BY DEF Value, SizeBit
<1>2. 63 - k \in Nat /\ Payload \in Nat
  BY PayloadType
<1>. QED
  BY <1>1, <1>2, OneBit

\* The length that seek_file reads is the one that hide_file stored.
LEMMA LengthTold ==
  ASSUME TypeInv, Fits(Payload), NEW m \in 0..Pixels, NEW low,
         \A k \in 0..62 : Bit(m, 62 - k) \in OrOf({SizeBit(k)}),
         low \in OrOf({SizeBit(63)})
  PROVE  2 * m + low = Payload
<1>1. Payload \in Nat /\ Pixels \in Nat
  BY PayloadType
<1>3. low = Bit(Payload, 0)
  <2>1. 63 \in 0..63 /\ 63 - 63 = 0
    OBVIOUS
  <2>2. OrOf({SizeBit(63)}) = {Bit(Payload, 63 - 63)}
    BY <2>1, SizeTold
  <2>. QED
    BY <2>1, <2>2
<1>4. Bit(Payload, 0) = Payload % 2
  <2>1. 2^0 = 1
    OBVIOUS
  <2>2. Payload \div 1 = Payload
    BY <1>1
  <2>. QED
    BY <2>1, <2>2 DEF Bit
<1> DEFINE h == Payload \div 2
<1>5. h \in Nat
  BY <1>1
<1>6. Bit(h, 29) = 0
  <2>1. h \in 0..(2^29 - 1) /\ 2^29 \in Nat \ {0}
    BY SmallLengths
  <2> HIDE DEF h
  <2>2. PICK q \in Nat \ {0} : q = 2^29
    BY <2>1
  <2>3. h \div q = 0
    BY <2>1, <2>2
  <2>. QED
    BY <2>2, <2>3 DEF Bit
<1>7. \A j \in 0..29 : Bit(m, j) = Bit(h, j)
  <2>. TAKE j \in 0..29
  <2>1. PICK k \in 0..62 : k \in 0..63 /\ 62 - k = j /\ 63 - k = j + 1
    <3>1. 62 - j \in 0..62 /\ 62 - j \in 0..63 /\ 62 - (62 - j) = j /\ 63 - (62 - j) = j + 1
      OBVIOUS
    <3>. QED
      BY <3>1
  <2>2. Bit(m, j) = Bit(Payload, j + 1)
    <3>1. Bit(m, 62 - k) \in OrOf({SizeBit(k)})
      OBVIOUS
    <3>2. OrOf({SizeBit(k)}) = {Bit(Payload, 63 - k)}
      BY <2>1, SizeTold
    <3>. QED
      BY <2>1, <3>1, <3>2
  <2>3. Bit(h, j) = Bit(Payload, j + 1)
    BY <1>1, <1>6, HalfBits
  <2>. QED
    BY <2>2, <2>3
<1> HIDE DEF h
<1>8. m = h
  <2>1. 2^30 \in Nat \ {0} /\ h \in 0..(2^30 - 1) /\ 0..Pixels \subseteq 0..(2^30 - 1)
    BY SmallLengths DEF h
  <2>2. PICK top \in Nat \ {0} : top = 2^30
    BY <2>1
  <2>3. 0..Pixels \subseteq 0..(top - 1) /\ h \in 0..(top - 1)
    BY <2>1, <2>2
  <2>5. m \in 0..(top - 1) /\ 30 \in 0..30
    BY <2>3
  <2>6. PICK K : K = 30 /\ top = 2^K
    BY <2>2, Zenon
  <2>7. K \in 0..30 /\ \A j \in 0..(K - 1) : Bit(m, j) = Bit(h, j)
    BY <1>7, <2>6
  <2>. QED
    BY <2>3, <2>5, <2>6, <2>7, SameBits
<1>. QED
  BY <1>1, <1>3, <1>4, <1>8 DEF h

\* The length of the name that seek_file reads is the one that hide_file stored.
LEMMA NameTold ==
  ASSUME TypeInv, NEW n \in 0..255,
         \A k \in (8 * (Payload - 1))..(8 * Payload - 1) :
           Bit(n, 8 * Payload - 1 - k) \in OrOf({FileBit(k)})
  PROVE  n = StoredName
<1>1. Payload \in Nat /\ Payload >= 3
  BY PayloadType
<1>2. StoredName \in 0..255
  <2>1. file.name \in Nat /\ MaxName \in 1..255
    BY MaxNameAssumption DEF TypeInv
  <2>. QED
    BY <2>1 DEF StoredName
<1>3. \A j \in 0..7 : Bit(n, j) = Bit(StoredName, j)
  <2>. TAKE j \in 0..7
  <2>1. PICK p \in Nat : p = Payload /\ p >= 3
    BY <1>1
  <2>2. PICK k \in Nat : k = 8 * (p - 1) + (7 - j)
    BY <2>1
  <2>3. /\ k \in (8 * (p - 1))..(8 * p - 1) /\ 8 * p - 1 - k = j
        /\ k % 8 = 7 - j /\ 7 - (k % 8) = j /\ k < 8 * p /\ k >= 8 * (p - 1)
    BY <2>1, <2>2
  <2>4. Bit(n, j) \in OrOf({FileBit(k)})
    BY <2>1, <2>3
  <2>5. FileBit(k) = <<"file", k>>
    BY <2>1, <2>3 DEF FileBit
  <2>6. Value(<<"file", k>>) = {Bit(StoredName, j)}
    BY <2>1, <2>3 DEF Value
  <2>7. OrOf({FileBit(k)}) = {Bit(StoredName, j)}
    <3>1. j \in Nat /\ StoredName \in Nat
      BY <1>2
    <3>2. OrOf({<<"file", k>>}) = {Bit(StoredName, j)}
      BY <2>6, <3>1, OneBit
    <3>. QED
      BY <2>5, <3>2
  <2>. QED
    BY <2>4, <2>7
<1>4. 2^8 = 256
  OBVIOUS
<1>5. PICK top \in Nat \ {0} : top = 2^8 /\ top = 256
  BY <1>4
<1>6. n \in 0..(top - 1) /\ StoredName \in 0..(top - 1) /\ 8 \in 0..30
  BY <1>2, <1>5
<1>7. \A j \in 0..(8 - 1) : Bit(n, j) = Bit(StoredName, j)
  BY <1>3
<1>. QED
  BY <1>5, <1>6, <1>7, SameBits

-----------------------------------------------------------------------------
(* What seek_file finds in a plain image. *)

\* The two cases that seek_file does not read as they were written are left out.
Plain == Regular /\ ~Wraps /\ Payload % 3 # 0

\* The last byte is written straight on from where the pixels of the file end.
LastExact ==
  /\ 3 * Here + (choose % 3) = 64 + cursor /\ cursor = 3 * LastStart - 64 + choose
  /\ choose \in 0..8 /\ col <= image.cols - 2 + (choose \div 3)
  /\ Filled(64 + cursor)

\* The image has every bit in its place.
Whole == \A c \in 0..(64 + 8 * Payload - 1) : img[c] = Hidden(c)

\* The bits of the length that are read are at the front.
HeaderRead ==
  /\ bits \in 0..63 /\ 3 * Here = bits /\ col < image.cols
  /\ DOMAIN out = 0..63
  /\ \A k \in 0..63 : k < bits => out[k] = {SizeBit(k)}

\* The bits of the file that are read are at the front, and the others of the byte that
\* has begun are clear.
FileRead ==
  /\ size = Payload /\ bits \in 2..(8 * Payload) /\ 3 * Here = 64 + bits /\ col < image.cols
  /\ DOMAIN out = 0..(8 * Payload - 1)
  /\ \A k \in DOMAIN out :
       /\ k < bits => out[k] = {FileBit(k)}
       /\ k >= bits /\ k \div 8 = (bits - 1) \div 8 => out[k] = {}

AllRead ==
  /\ size = Payload /\ DOMAIN out = 0..(8 * Payload - 1)
  /\ \A k \in DOMAIN out : out[k] = {FileBit(k)}

\* What each phase has done, in a plain image.
Stages ==
  /\ pc = "last" => LastExact
  /\ WrittenImage => Whole
  /\ pc = "seek" => HeaderRead
  /\ pc = "read" => FileRead
  /\ pc = "name" => AllRead
  /\ pc = "sought" => Recovered
  /\ pc # "none"
  /\ Payload % 3 = 2 => outside = {}

StagesInv == Plain => Stages

\* The first pixel of the last byte, by the remainder of the bytes.
LEMMA PlainFacts ==
  ASSUME TypeInv, Plain
  PROVE  /\ Payload % 3 = 1 => 3 * LastStart = Start + 2
         /\ Payload % 3 = 2 => 3 * LastStart = Start
         /\ Payload % 3 \in {1, 2} /\ LastStart \in Nat
<1>1. PICK p \in Nat : p = Payload
  BY PayloadType
<1>2. p % 3 \in {1, 2}
  BY <1>1 DEF Plain
<1>3. LastStart = (64 + 8 * (p - 1) + 2) \div 3 /\ Start = 64 + 8 * (p - 1)
  BY <1>1 DEF LastStart, Start
<1>4. PICK q \in Nat, r \in 0..2 : r = p % 3 /\ p = 3 * q + r
  <2>1. p \in Nat /\ 3 \in Nat \ {0} /\ 3 - 1 = 2
    OBVIOUS
  <2>. QED
    BY <2>1, Division
<1>5. r = 1 \/ r = 2
  BY <1>2, <1>4
<1>6. CASE r = 1
  <2>1. (64 + 8 * (p - 1) + 2) \div 3 = 8 * q + 22
    BY <1>4, <1>6
  <2>. QED
    BY <1>1, <1>3, <1>4, <1>6, <2>1
<1>7. CASE r = 2
  <2>1. (64 + 8 * (p - 1) + 2) \div 3 = 8 * q + 24
    BY <1>4, <1>7
  <2>. QED
    BY <1>1, <1>3, <1>4, <1>7, <2>1
<1>. QED
  BY <1>1, <1>2, <1>4, <1>5, <1>6, <1>7

\* Whether an image is plain does not change.
LEMMA SamePlain ==
  ASSUME UNCHANGED <<image, file>>
  PROVE  (Plain' <=> Plain) /\ LastStart' = LastStart
<1>1. Payload' = Payload /\ (Regular' <=> Regular)
  BY Same
<1>2. LastStart' = LastStart
  BY <1>1 DEF LastStart
<1>. QED
  BY <1>1, <1>2 DEF Plain, Wraps

\* Colours of the image that get bits of the length or the file are in order.
LEMMA Clean ==
  ASSUME NEW new, Hide(new), \A c \in DOMAIN new : Inside(c) /\ new[c] # Junk
  PROVE  outside' = outside
BY DEF Hide

\* A bit of the length or the file is not what is behind the buffer.
LEMMA NotJunk ==
  ASSUME NEW k \in Int
  PROVE  SizeBit(k) # Junk /\ (k < 8 * Payload => FileBit(k) # Junk)
BY DEF SizeBit, FileBit, Junk

\* The colours of the length, and of the file, are in an image that has room for them.
LEMMA Room ==
  ASSUME TypeInv, Fits(Payload), NEW c \in 0..(64 + 8 * Payload - 1)
  PROVE  Inside(c) /\ c \in DOMAIN img
<1>1. Payload \in Nat /\ Pixels \in Nat /\ 8 * (8 + Payload) <= 3 * Pixels
  BY PayloadType DEF Fits
<1>2. c \in 0..(3 * Pixels - 1)
  BY <1>1
<1>. QED
  BY <1>2 DEF Inside, TypeInv

\* The pixels of the header, of the file and between them are written inside.
LEMMA PixelsInside ==
  ASSUME TypeInv, Regular, Phases, HeaderPixel \/ Boundary \/ DataPixel
  PROVE  outside' = outside
<1>0. Payload \in Nat /\ Payload >= 3 /\ Here \in Nat
  BY PayloadType, HereType
<1>1. CASE HeaderPixel
  <2>1. /\ HeaderInv /\ bits < 63 /\ cursor = bits /\ bits = 3 * col /\ col \in 0..21 /\ row = 0
        /\ Hide([c \in Colour(0)..Colour(2) |-> [k \in 0..2 |-> SizeBit(cursor + k)][c - Colour(0)]])
    BY <1>1 DEF HeaderPixel, HidePixel, Phases, HeaderInv
  <2>2. image.cols \in Nat
    BY DEF TypeInv
  <2>3. Colour(0) = 3 * col /\ Colour(2) = 3 * col + 2 /\ col <= 20
    BY <2>1, <2>2 DEF Colour, Here
  <2>4. ASSUME NEW c \in Colour(0)..Colour(2)
        PROVE  Inside(c) /\ [k \in 0..2 |-> SizeBit(cursor + k)][c - Colour(0)] # Junk
    <3>1. c \in 0..(64 + 8 * Payload - 1) /\ c - Colour(0) \in 0..2
      BY <1>0, <2>1, <2>3
    <3>2. Inside(c)
      BY <2>1, <3>1, Room DEF HeaderInv
    <3>3. cursor + (c - Colour(0)) \in Int
      BY <2>1, <2>3, <3>1
    <3>4. SizeBit(cursor + (c - Colour(0))) # Junk
      BY <3>3, NotJunk
    <3>. QED
      BY <3>1, <3>2, <3>4
  <2>. QED
    BY <2>1, <2>4, Clean
<1>2. CASE Boundary
  <2>1. /\ HeaderInv /\ bits = 63 /\ bits = 3 * col /\ col \in 0..21 /\ row = 0
        /\ Hide([c \in Colour(0)..Colour(2) |->
                  IF c = Colour(0) THEN SizeBit(63) ELSE FileBit(c - Colour(1))])
    BY <1>2 DEF Boundary, Phases, HeaderInv
  <2>2. image.cols \in Nat
    BY DEF TypeInv
  <2>3. Colour(0) = 63 /\ Colour(1) = 64 /\ Colour(2) = 65
    BY <2>1, <2>2 DEF Colour, Here
  <2>4. ASSUME NEW c \in Colour(0)..Colour(2)
        PROVE  Inside(c) /\ (IF c = Colour(0) THEN SizeBit(63) ELSE FileBit(c - Colour(1))) # Junk
    <3>1. c \in 0..(64 + 8 * Payload - 1) /\ (c # Colour(0) => c - Colour(1) \in 0..1)
      BY <1>0, <2>3
    <3>2. Inside(c)
      BY <2>1, <3>1, Room DEF HeaderInv
    <3>3. SizeBit(63) # Junk /\ (c # Colour(0) => FileBit(c - Colour(1)) # Junk)
      BY <1>0, <3>1, NotJunk
    <3>. QED
      BY <3>2, <3>3
  <2>. QED
    BY <2>1, <2>4, Clean
<1>3. CASE DataPixel
  <2>1. /\ DataInv /\ cursor \div 8 # Payload - 1 /\ 3 * Here = 64 + cursor
        /\ cursor <= 8 * (Payload - 1) + 2 /\ cursor \in Nat
        /\ Hide([c \in Colour(0)..Colour(2) |-> [k \in 0..2 |-> FileBit(cursor + k)][c - Colour(0)]])
    BY <1>3 DEF DataPixel, HidePixel, Phases, DataInv, TypeInv
  <2>2. cursor < 8 * (Payload - 1)
    BY <1>0, <2>1
  <2>3. Colour(0) = 64 + cursor /\ Colour(2) = 64 + cursor + 2
    BY <1>0, <2>1 DEF Colour
  <2>4. ASSUME NEW c \in Colour(0)..Colour(2)
        PROVE  Inside(c) /\ [k \in 0..2 |-> FileBit(cursor + k)][c - Colour(0)] # Junk
    <3>1. c \in 0..(64 + 8 * Payload - 1) /\ c - Colour(0) \in 0..2
      BY <1>0, <2>1, <2>2, <2>3
    <3>2. Inside(c)
      BY <2>1, <3>1, Room DEF DataInv
    <3>3. cursor + (c - Colour(0)) \in Int /\ cursor + (c - Colour(0)) < 8 * Payload
      BY <1>0, <2>1, <2>2, <2>3, <3>1
    <3>4. FileBit(cursor + (c - Colour(0))) # Junk
      BY <3>3, NotJunk
    <3>. QED
      BY <3>1, <3>2, <3>4
  <2>. QED
    BY <2>1, <2>4, Clean
<1>. QED
  BY <1>1, <1>2, <1>3

\* The last byte starts at its pixel, and two pixels of its row follow.
LEMMA LastByteExact ==
  ASSUME TypeInv, Plain, Phases, LastByte
  PROVE  LastExact' /\ pc' = "last"
<1>1. /\ UNCHANGED <<image, file>> /\ UNCHANGED <<img, row, col, cursor>>
      /\ pc' = "last" /\ choose' = 0 /\ pc = "data"
  BY DEF LastByte
<1>2. /\ Payload \in Nat /\ Payload >= 3 /\ cursor \in Nat /\ Here \in Nat
      /\ image.cols \in Nat \ {0} /\ row \in Nat /\ col \in 0..(image.cols - 1)
      /\ 3 * Here = 64 + cursor /\ cursor <= 8 * (Payload - 1) + 2
  BY <1>1, PayloadType, HereType DEF TypeInv, Phases, DataInv
<1>3. PICK p \in Nat, h \in Nat, c \in Nat : p = Payload /\ h = Here /\ c = cursor
  BY <1>2
<1>4. c \div 8 = p - 1
  BY <1>3 DEF LastByte
<1>5. c >= 8 * (p - 1) /\ 3 * h = 64 + c /\ c <= 8 * (p - 1) + 2
  BY <1>2, <1>3, <1>4
<1>6. (64 + 8 * (p - 1) + 2) \div 3 = h
  BY <1>5
<1>7. LastStart = Here
  BY <1>3, <1>6 DEF LastStart
<1>8. LastStart % image.cols = col
  <2>1. PICK w \in Nat \ {0} : w = image.cols
    BY <1>2
  <2>2. h = row * w + col
    BY <1>3, <2>1 DEF Here
  <2>3. row * w = w * row /\ w * row \in Nat
    BY <1>2, <2>1
  <2>4. h - w * row \in 0..(w - 1)
    BY <1>2, <2>1, <2>2, <2>3
  <2>5. h % w = h - w * row
    BY <1>2, <2>4, OnlyQuotient
  <2>6. h % w = col
    BY <1>2, <2>1, <2>2, <2>3, <2>5
  <2>. QED
    BY <1>3, <1>7, <2>1, <2>6
<1>9. col <= image.cols - 2
  <2>1. col # image.cols - 1
    BY <1>8 DEF Plain, Wraps
  <2>. QED
    BY <1>2, <2>1
<1>10. Filled(64 + cursor)'
  <2>1. Filled(64 + cursor)
    BY <1>1 DEF Phases, DataInv
  <2>2. \A d : Hidden(d)' = Hidden(d)
    BY <1>1, Same
  <2>. QED
    BY <1>1, <2>1, <2>2 DEF Filled
<1>11. /\ Here' = Here /\ LastStart' = LastStart /\ image' = image
       /\ cursor' = cursor /\ col' = col
  BY <1>1, SamePlain DEF Here
<1>12. choose' % 3 = 0 /\ choose' \div 3 = 0
  BY <1>1
<1>13. 3 * Here + 0 = 64 + cursor /\ cursor = 3 * LastStart - 64 + 0
  BY <1>2, <1>7
<1>. QED
  BY <1>1, <1>2, <1>9, <1>10, <1>11, <1>12, <1>13 DEF LastExact

\* A colour of the last byte is the next one, and the pixel follows.
LEMMA LastColourExact ==
  ASSUME TypeInv, Plain, Phases, Stages, LastColour
  PROVE  LastExact' /\ pc' = "last" /\ (Payload % 3 = 2 => outside' = outside)
<1>1. /\ UNCHANGED <<image, file>> /\ pc = "last" /\ pc' = "last" /\ choose < 8
      /\ choose' = choose + 1 /\ cursor' = cursor + 1
      /\ Hide([c \in {Colour(choose % 3)} |-> FileBit(cursor)])
  BY DEF LastColour
<1>2. /\ Payload \in Nat /\ Payload >= 3 /\ cursor \in Nat /\ Here \in Nat
      /\ image.cols \in Nat /\ col \in Nat /\ row \in Nat /\ choose \in 0..7
      /\ 3 * Here + (choose % 3) = 64 + cursor /\ cursor = 3 * LastStart - 64 + choose
      /\ col <= image.cols - 2 + (choose \div 3) /\ Filled(64 + cursor) /\ Fits(Payload)
  BY <1>1, PayloadType, HereType DEF TypeInv, Stages, LastExact, Phases, LastInv
<1>3. Colour(choose % 3) = 64 + cursor
  BY <1>2 DEF Colour
<1>4. DOMAIN img' = DOMAIN img /\ \A c \in DOMAIN img :
         img'[c] = IF c = 64 + cursor THEN FileBit(cursor) ELSE img[c]
  BY <1>1, <1>3 DEF Hide
<1>5. Filled(64 + cursor)'
  <2>1. \A c : Hidden(c)' = Hidden(c)
    BY <1>1, Same
  <2>2. ASSUME NEW c \in DOMAIN img
        PROVE  /\ c < 64 + (cursor + 1) => img'[c] = Hidden(c)
               /\ c >= 64 + (cursor + 1) => img'[c] = Old
    <3>1. c \in Int
      BY PayloadType DEF TypeInv
    <3>2. /\ c < 64 + cursor => img[c] = Hidden(c)
          /\ c >= 64 + cursor => img[c] = Old
      BY <1>2 DEF Filled
    <3>3. img'[c] = IF c = 64 + cursor THEN FileBit(cursor) ELSE img[c]
      BY <1>4
    <3>4. c = 64 + cursor => Hidden(c) = FileBit(cursor)
      <4>1. c = 64 + cursor => ~(c < 64) /\ c - 64 = cursor
        BY <1>2
      <4>. QED
        BY <4>1 DEF Hidden
    <3>5. c < 64 + cursor \/ c = 64 + cursor \/ c >= 64 + (cursor + 1)
      BY <1>2, <3>1
    <3>. QED
      BY <1>2, <3>1, <3>2, <3>3, <3>4, <3>5
  <2>. QED
    BY <1>1, <1>4, <2>1, <2>2 DEF Filled
<1>6. PICK m \in 0..2 : m = choose % 3
  BY <1>2
<1>7. /\ m # 2 => Here' = Here /\ col' = col
      /\ m = 2 => Here' = Here + 1 /\ col' = col + 1
  <2>1. m # 2 => row' = row /\ col' = col
    BY <1>6 DEF LastColour
  <2>2. m = 2 => col < image.cols
    BY <1>2, <1>6
  <2>3. m = 2 => row' = row /\ col' = col + 1
    BY <1>6, <2>2 DEF LastColour
  <2>4. PICK n \in Nat : n = row * image.cols
    BY <1>2
  <2>5. Here = n + col
    BY <2>4 DEF Here
  <2>6. m # 2 => Here' = Here
    BY <1>1, <2>1 DEF Here
  <2>7. m = 2 => Here' = n + (col + 1)
    BY <1>1, <2>3, <2>4 DEF Here
  <2>. QED
    BY <1>2, <2>1, <2>3, <2>4, <2>5, <2>6, <2>7
<1>8. /\ m # 2 => choose' % 3 = m + 1 /\ choose' \div 3 = choose \div 3
      /\ m = 2 => choose' % 3 = 0 /\ choose' \div 3 = (choose \div 3) + 1
  BY <1>1, <1>2, <1>6
<1>9. LastStart' = LastStart /\ image' = image /\ LastStart \in Nat
  BY <1>1, SamePlain, PlainFacts
<1>10. 3 * Here' + (choose' % 3) = 64 + cursor'
  BY <1>1, <1>2, <1>6, <1>7, <1>8
<1>11. cursor' = 3 * LastStart' - 64 + choose' /\ choose' \in 0..8
  BY <1>1, <1>2, <1>9
<1>12. col' <= image'.cols - 2 + (choose' \div 3)
  BY <1>1, <1>2, <1>6, <1>7, <1>8, <1>9
<1>13. ASSUME Payload % 3 = 2 PROVE outside' = outside
  <2>1. 3 * LastStart = Start /\ Start = 64 + 8 * (Payload - 1)
    BY <1>13, PlainFacts DEF Start
  <2>2. cursor < 8 * Payload
    BY <1>2, <2>1
  <2>3. 64 + cursor \in 0..(64 + 8 * Payload - 1)
    BY <1>2, <2>2
  <2>4. Inside(64 + cursor) /\ FileBit(cursor) # Junk
    BY <1>2, <2>2, <2>3, Room, NotJunk
  <2>. QED
    BY <1>1, <1>3, <2>4, Clean
<1>. QED
  BY <1>1, <1>5, <1>10, <1>11, <1>12, <1>13 DEF LastExact

\* When the image is written, every bit is in its place.
LEMMA WrittenExact ==
  ASSUME TypeInv, Plain, Phases, Stages, Written
  PROVE  Whole' /\ HeaderRead' /\ pc' = "seek" /\ outside' = outside
<1>1. /\ UNCHANGED <<image, file, img, outside>> /\ pc' = "seek" /\ row' = 0 /\ col' = 0
      /\ bits' = 0 /\ out' = [k \in 0..63 |-> {}]
  BY DEF Written
<1>2. pc = "last" /\ choose = 8
  BY RowsSuffice DEF Written, Phases
<1>3. /\ Payload \in Nat /\ LastStart \in Nat /\ Start = 64 + 8 * (Payload - 1)
      /\ 3 * LastStart >= Start
  BY PayloadType, PlainFacts DEF Start
<1>4. cursor = 3 * LastStart - 64 + 8 /\ Filled(64 + cursor) /\ Fits(Payload)
  BY <1>2 DEF Stages, LastExact, Phases, LastInv
<1>5. Whole
  <2>. SUFFICES ASSUME NEW c \in 0..(64 + 8 * Payload - 1) PROVE img[c] = Hidden(c)
    BY DEF Whole
  <2>1. c \in DOMAIN img
    BY <1>4, Room
  <2>2. c < 64 + cursor
    BY <1>3, <1>4
  <2>. QED
    BY <1>4, <2>1, <2>2 DEF Filled
<1>6. Whole'
  <2>1. Payload' = Payload /\ \A c : Hidden(c)' = Hidden(c)
    BY <1>1, Same
  <2>. QED
    BY <1>1, <1>5, <2>1 DEF Whole
<1>7. image'.cols \in Nat \ {0}
  BY <1>1 DEF TypeInv
<1>8. Here' = 0
  BY <1>1, <1>7 DEF Here
<1>9. DOMAIN out' = 0..63 /\ \A k \in 0..63 : ~(k < bits')
  BY <1>1
<1>10. HeaderRead'
  BY <1>1, <1>7, <1>8, <1>9 DEF HeaderRead
<1>. QED
  BY <1>1, <1>6, <1>10

\* Reading leaves the image as it is.
LEMMA WholeStays ==
  ASSUME Whole, UNCHANGED <<image, file, img>>
  PROVE  Whole'
<1>1. Payload' = Payload /\ \A c : Hidden(c)' = Hidden(c)
  BY Same
<1>. QED
  BY <1>1 DEF Whole

\* Three more bits of the length are read.
LEMMA SeekHeaderExact ==
  ASSUME TypeInv, Plain, Phases, Stages, SeekHeader
  PROVE  Whole' /\ HeaderRead' /\ pc' = "seek" /\ outside' = outside
<1>1. /\ UNCHANGED <<image, file, img, outside, pc>> /\ pc = "seek" /\ bits # 63
      /\ out' = [k \in DOMAIN out |-> IF k \in bits..(bits + 2) THEN {img[Colour(k - bits)]}
                                                              ELSE out[k]]
      /\ bits' = bits + 3 /\ NextPixel
  BY DEF SeekHeader
<1>2. HeaderRead /\ Whole
  BY <1>1 DEF Stages, WrittenImage
<1>3. bits \in 0..63 /\ 3 * Here = bits /\ col \in 0..(image.cols - 1) /\ Here \in Nat
  BY <1>2, HereType DEF HeaderRead, TypeInv
<1>4. Here' = Here + 1 /\ col' \in 0..(image.cols - 1) /\ image' = image
  BY <1>1, <1>3, NextHere
<1>5. bits <= 60
  BY <1>1, <1>3
<1>6. DOMAIN out' = 0..63
  BY <1>1, <1>2 DEF HeaderRead
<1>7. ASSUME NEW k \in 0..63, k < bits + 3
      PROVE  out'[k] = {SizeBit(k)}
  <2>1. CASE k < bits
    <3>1. out'[k] = out[k]
      BY <1>1, <1>2, <1>3, <2>1 DEF HeaderRead
    <3>. QED
      BY <1>2, <2>1, <3>1 DEF HeaderRead
  <2>2. CASE k >= bits
    <3>1. k \in bits..(bits + 2)
      BY <1>3, <1>7, <2>2
    <3>2. Colour(k - bits) = k
      BY <1>3 DEF Colour
    <3>3. img[k] = SizeBit(k)
      <4>1. k \in 0..(64 + 8 * Payload - 1) /\ k < 64
        BY PayloadType
      <4>. QED
        BY <1>2, <4>1 DEF Whole, Hidden
    <3>. QED
      BY <1>1, <1>2, <3>1, <3>2, <3>3 DEF HeaderRead
  <2>. QED
    BY <1>3, <2>1, <2>2
<1>8. HeaderRead'
  <2>1. bits' \in 0..63 /\ 3 * Here' = bits' /\ col' < image'.cols
    BY <1>1, <1>3, <1>4, <1>5 DEF TypeInv
  <2>2. \A k \in 0..63 : k < bits' => out'[k] = {SizeBit(k)}
    BY <1>1, <1>7
  <2>3. \A k : SizeBit(k)' = SizeBit(k)
    BY DEF SizeBit
  <2>. QED
    BY <1>6, <2>1, <2>2, <2>3 DEF HeaderRead
<1>. QED
  BY <1>1, <1>2, <1>8, WholeStays

\* The length is the one that was stored, and the first two bits of the file are read.
LEMMA SeekLengthExact ==
  ASSUME TypeInv, Plain, Phases, Stages, SeekLength
  PROVE  Whole' /\ FileRead' /\ pc' = "read" /\ outside' = outside
<1>1. /\ UNCHANGED <<image, file, img, outside>> /\ pc = "seek" /\ bits = 63 /\ NextPixel
  BY DEF SeekLength
<1>2. HeaderRead /\ Whole /\ Fits(Payload)
  BY <1>1 DEF Stages, WrittenImage, Phases, WrittenInv
<1>3. /\ 3 * Here = 63 /\ col \in 0..(image.cols - 1) /\ Here \in Nat
      /\ Payload \in Nat /\ Payload >= 3
  BY <1>1, <1>2, HereType, PayloadType DEF HeaderRead, TypeInv
<1>4. Here' = Here + 1 /\ col' \in 0..(image.cols - 1) /\ image' = image
  BY <1>1, <1>3, NextHere
<1>5. Colour(0) = 63 /\ Colour(1) = 64 /\ Colour(2) = 65
  BY <1>3 DEF Colour
<1>6. img[63] = SizeBit(63) /\ img[64] = FileBit(0) /\ img[65] = FileBit(1)
  <2>1. 63 \in 0..(64 + 8 * Payload - 1) /\ 64 \in 0..(64 + 8 * Payload - 1)
        /\ 65 \in 0..(64 + 8 * Payload - 1)
    BY <1>3
  <2>2. img[63] = Hidden(63) /\ img[64] = Hidden(64) /\ img[65] = Hidden(65)
    BY <1>2, <2>1 DEF Whole
  <2>. QED
    BY <2>2 DEF Hidden
<1>7. PICK m \in Numbers(0, 62, Pixels), low \in OrOf({img[Colour(0)]}) :
         /\ size' = 2 * m + low
         /\ IF size' <= 0 \/ ~Fits(size')
            THEN pc' = "none" /\ UNCHANGED <<out, bits>>
            ELSE /\ pc' = "read" /\ bits' = 2
                 /\ out' = [k \in 0..(8 * size' - 1) |->
                              CASE k < 2 -> {img[Colour(k + 1)]}
                                [] k \in 2..7 -> {}
                                [] OTHER -> {Junk}]
  BY DEF SeekLength
<1>8. m \in 0..Pixels /\ \A k \in 0..62 : Bit(m, 62 - k) \in OrOf(out[k])
  BY DEF Numbers
<1>9. \A k \in 0..62 : out[k] = {SizeBit(k)}
  BY <1>1, <1>2 DEF HeaderRead
<1>10. \A k \in 0..62 : Bit(m, 62 - k) \in OrOf({SizeBit(k)})
  BY <1>8, <1>9
<1>11. low \in OrOf({SizeBit(63)})
  BY <1>5, <1>6, <1>7
<1>12. size' = Payload
  BY <1>2, <1>7, <1>8, <1>10, <1>11, LengthTold
<1>13. ~(Payload <= 0 \/ ~Fits(Payload))
  BY <1>2, <1>3
<1>14. /\ pc' = "read" /\ bits' = 2
       /\ out' = [k \in 0..(8 * Payload - 1) |->
                     CASE k < 2 -> {img[Colour(k + 1)]}
                       [] k \in 2..7 -> {}
                       [] OTHER -> {Junk}]
  BY <1>7, <1>12, <1>13
<1>15. ASSUME NEW k \in 0..(8 * Payload - 1)
       PROVE  /\ k < 2 => out'[k] = {FileBit(k)}
              /\ k >= 2 /\ k \div 8 = 0 => out'[k] = {}
  <2>1. k < 2 => out'[k] = {img[Colour(k + 1)]}
    BY <1>14
  <2>2. k \in 2..7 => out'[k] = {}
    BY <1>14
  <2>3. k < 2 => k = 0 \/ k = 1
    OBVIOUS
  <2>4. k = 0 => {img[Colour(k + 1)]} = {FileBit(k)}
    BY <1>5, <1>6
  <2>5. k = 1 => {img[Colour(k + 1)]} = {FileBit(k)}
    BY <1>5, <1>6
  <2>6. k >= 2 /\ k \div 8 = 0 => k \in 2..7
    OBVIOUS
  <2>. QED
    BY <2>1, <2>2, <2>3, <2>4, <2>5, <2>6
<1>16. FileRead'
  <2>1. Payload' = Payload /\ \A k : FileBit(k)' = FileBit(k)
    BY <1>1, Same DEF FileBit
  <2>2. bits' \in 2..(8 * Payload) /\ 3 * Here' = 64 + bits' /\ col' < image'.cols
    BY <1>3, <1>4, <1>14 DEF TypeInv
  <2>3. DOMAIN out' = 0..(8 * Payload - 1) /\ (bits' - 1) \div 8 = 0
    BY <1>14
  <2>. QED
    BY <1>12, <1>14, <1>15, <2>1, <2>2, <2>3 DEF FileRead
<1>. QED
  BY <1>1, <1>2, <1>14, <1>16, WholeStays

\* A bit of the file is where it was written.
LEMMA FileColour ==
  ASSUME TypeInv, Whole, NEW k \in 0..(8 * Payload - 1)
  PROVE  img[64 + k] = FileBit(k)
<1>1. 64 + k \in 0..(64 + 8 * Payload - 1) /\ ~(64 + k < 64) /\ (64 + k) - 64 = k
  BY PayloadType
<1>. QED
  BY <1>1 DEF Whole, Hidden

\* Three more bits of the file are read: those that begin a byte clear the rest of it.
LEMMA ReadPixelExact ==
  ASSUME TypeInv, Plain, Phases, Stages, ReadPixel
  PROVE  Whole' /\ FileRead' /\ pc' = "read" /\ outside' = outside
<1> DEFINE new == (bits + 2) \div 8
           set(k) == k \div 8 = new /\ bits % 8 \in {0, 6, 7}
<1>1. /\ UNCHANGED <<image, file, img, outside, pc, size>> /\ pc = "read"
      /\ bits + 3 <= 8 * size /\ bits' = bits + 3 /\ NextPixel
      /\ out' = [k \in DOMAIN out |-> (IF set(k) THEN {} ELSE out[k])
                                      \cup (IF k \in bits..(bits + 2)
                                            THEN {img[Colour(k - bits)]} ELSE {})]
  BY DEF ReadPixel
<1>2. FileRead /\ Whole
  BY <1>1 DEF Stages, WrittenImage
<1>3. /\ size = Payload /\ bits \in Nat /\ bits >= 2 /\ bits <= 8 * Payload
      /\ 3 * Here = 64 + bits /\ col \in 0..(image.cols - 1) /\ Here \in Nat
      /\ Payload \in Nat /\ DOMAIN out = 0..(8 * Payload - 1)
  BY <1>2, HereType, PayloadType DEF FileRead, TypeInv
<1>4. Here' = Here + 1 /\ col' \in 0..(image.cols - 1) /\ image' = image
  BY <1>1, <1>3, NextHere
<1>5. ASSUME NEW k \in 0..(8 * Payload - 1)
      PROVE  /\ k < bits + 3 => out'[k] = {FileBit(k)}
             /\ k >= bits + 3 /\ k \div 8 = (bits + 2) \div 8 => out'[k] = {}
  <2>1. out'[k] = (IF set(k) THEN {} ELSE out[k])
                    \cup (IF k \in bits..(bits + 2) THEN {img[Colour(k - bits)]} ELSE {})
    BY <1>1, <1>3
  <2>2. /\ k < bits => out[k] = {FileBit(k)}
        /\ k >= bits /\ k \div 8 = (bits - 1) \div 8 => out[k] = {}
    BY <1>2, <1>3 DEF FileRead
  <2>3. CASE k < bits
    <3>1. ~set(k)
      BY <1>3, <2>3
    <3>2. k \notin bits..(bits + 2) /\ k < bits + 3 /\ ~(k >= bits + 3)
      BY <1>3, <2>3
    <3>. QED
      BY <2>1, <2>2, <2>3, <3>1, <3>2
  <2>4. ASSUME k >= bits, set(k) \/ k \div 8 = (bits - 1) \div 8
        PROVE  (IF set(k) THEN {} ELSE out[k]) = {}
    BY <2>2, <2>4
  <2>5. CASE k \in bits..(bits + 2)
    <3>1. k >= bits /\ k < bits + 3 /\ ~(k >= bits + 3)
      BY <1>3, <2>5
    <3>2. set(k) \/ k \div 8 = (bits - 1) \div 8
      BY <1>3, <2>5
    <3>3. Colour(k - bits) = 64 + k
      BY <1>3 DEF Colour
    <3>4. img[Colour(k - bits)] = FileBit(k)
      BY <1>2, <3>3, FileColour
    <3>5. (IF set(k) THEN {} ELSE out[k]) = {}
      BY <2>4, <3>1, <3>2
    <3>6. out'[k] = {FileBit(k)}
      BY <2>1, <2>5, <3>4, <3>5
    <3>. QED
      BY <3>1, <3>6
  <2>6. CASE k >= bits + 3
    <3>1. k \notin bits..(bits + 2) /\ ~(k < bits + 3) /\ k >= bits
      BY <1>3, <2>6
    <3>2. k \div 8 = (bits + 2) \div 8 => set(k) \/ k \div 8 = (bits - 1) \div 8
      BY <1>3
    <3>3. k \div 8 = (bits + 2) \div 8 => (IF set(k) THEN {} ELSE out[k]) = {}
      BY <2>4, <3>1, <3>2
    <3>. QED
      BY <2>1, <3>1, <3>3
  <2>. QED
    BY <1>3, <2>3, <2>5, <2>6
<1> HIDE DEF new, set
<1>6. DOMAIN out' = 0..(8 * Payload - 1)
  BY <1>1, <1>3
<1>7. FileRead'
  <2>1. Payload' = Payload /\ \A k : FileBit(k)' = FileBit(k)
    BY <1>1, Same DEF FileBit
  <2>2. /\ bits' \in 2..(8 * Payload) /\ 3 * Here' = 64 + bits' /\ col' < image'.cols
        /\ size' = Payload /\ bits' = bits + 3 /\ bits' - 1 = bits + 2
    BY <1>1, <1>3, <1>4 DEF TypeInv
  <2>. QED
    BY <1>5, <1>6, <2>1, <2>2 DEF FileRead
<1>. QED
  BY <1>1, <1>2, <1>7, WholeStays

\* What the last colours give: with two bits left they are read, with none the file is whole.
LEMMA ReadLastExact ==
  ASSUME TypeInv, Plain, Phases, Stages, ReadLast
  PROVE  Whole' /\ AllRead' /\ pc' = "name" /\ (Payload % 3 = 2 => outside' = outside)
<1> DEFINE end == 8 * (bits \div 8) + 7
           first == end + 1 - (bits % 3)
           new == [k \in first..end |-> img[Colour(k - first)]]
<1>1. /\ UNCHANGED <<image, file, img, size>> /\ pc = "read" /\ pc' = "name"
      /\ bits + 3 > 8 * size
      /\ out' = [k \in DOMAIN out |-> IF k \in DOMAIN new THEN out[k] \cup {new[k]} ELSE out[k]]
      /\ outside' = IF DOMAIN new \subseteq DOMAIN out THEN outside ELSE outside \cup {"data"}
  BY DEF ReadLast
<1>2. FileRead /\ Whole
  BY <1>1 DEF Stages, WrittenImage
<1>3. /\ size = Payload /\ bits \in Nat /\ bits >= 2 /\ bits <= 8 * Payload
      /\ 3 * Here = 64 + bits /\ Here \in Nat
      /\ Payload \in Nat /\ Payload >= 3 /\ DOMAIN out = 0..(8 * Payload - 1)
  BY <1>2, HereType, PayloadType DEF FileRead
<1>4. bits % 3 = 2
  BY <1>3
<1>5. DOMAIN new = {end - 1, end} /\ end \in Nat /\ new[end - 1] = img[Colour(0)]
      /\ new[end] = img[Colour(1)]
  <2>1. first = end - 1 /\ end \in Nat
    BY <1>3, <1>4
  <2> HIDE DEF end, first
  <2>2. first..end = {end - 1, end}
    BY <2>1
  <2>. QED
    BY <2>1, <2>2
<1>6. Colour(0) = 64 + bits /\ Colour(1) = 64 + bits + 1
  BY <1>3 DEF Colour
<1>7. PICK p \in Nat, r \in {1, 2} : p = Payload /\ r = p % 3
  BY <1>3, PlainFacts
<1> HIDE DEF new, first
<1>15. PICK q \in Nat : p = 3 * q + r
  <2>1. p \in Nat /\ 3 \in Nat \ {0}
    OBVIOUS
  <2>. QED
    BY <1>7, <2>1, Division
<1>16. PICK h \in Nat : 3 * h = 64 + bits
  BY <1>3
<1>8. ASSUME r = 1 PROVE \A k \in DOMAIN out : out'[k] = {FileBit(k)}
  <2>1. bits = 8 * p
    BY <1>1, <1>3, <1>7, <1>8, <1>15, <1>16
  <2>2. end = 8 * p + 7
    BY <1>7, <2>1
  <2>3. \A k \in DOMAIN out : out'[k] = {FileBit(k)}
    <3>. SUFFICES ASSUME NEW k \in DOMAIN out PROVE out'[k] = {FileBit(k)}
      OBVIOUS
    <3>1. k \in Int /\ k < 8 * p
      BY <1>3, <1>7
    <3>2. k # end - 1 /\ k # end /\ k < bits
      BY <1>7, <2>1, <2>2, <3>1
    <3>3. k \notin DOMAIN new
      BY <1>5, <3>2
    <3>. QED
      BY <1>1, <1>2, <3>2, <3>3 DEF FileRead
  <2>. QED
    BY <2>3
<1>9. ASSUME r = 2
      PROVE  (\A k \in DOMAIN out : out'[k] = {FileBit(k)}) /\ outside' = outside
  <2>1. bits = 8 * p - 2
    BY <1>1, <1>3, <1>7, <1>9, <1>15, <1>16
  <2>2. end = 8 * p - 1 /\ end - 1 = bits /\ end = bits + 1
    BY <1>3, <1>7, <2>1
  <2>3. DOMAIN new \subseteq DOMAIN out
    BY <1>3, <1>5, <1>7, <2>1, <2>2
  <2>4. ASSUME NEW k \in DOMAIN out PROVE out'[k] = {FileBit(k)}
    <3>1. CASE k < bits
      <4>1. k \notin DOMAIN new
        BY <1>3, <1>5, <2>2, <3>1
      <4>. QED
        BY <1>1, <1>2, <3>1, <4>1 DEF FileRead
    <3>2. CASE k >= bits
      <4>1. k = bits \/ k = bits + 1
        BY <1>3, <1>7, <2>1, <3>2
      <4>2. k \in DOMAIN new /\ new[k] = img[64 + k]
        BY <1>3, <1>5, <1>6, <2>2, <4>1
      <4>3. img[64 + k] = FileBit(k)
        BY <1>2, <1>3, FileColour
      <4>4. k \div 8 = (bits - 1) \div 8
        BY <1>3, <1>7, <2>1, <4>1
      <4>5. out[k] = {}
        BY <1>2, <3>2, <4>4 DEF FileRead
      <4>. QED
        BY <1>1, <4>2, <4>3, <4>5
    <3>. QED
      BY <1>3, <3>1, <3>2
  <2>. QED
    BY <1>1, <2>3, <2>4
<1>10. \A k \in DOMAIN out : out'[k] = {FileBit(k)}
  BY <1>7, <1>8, <1>9
<1>11. Payload % 3 = 2 => outside' = outside
  BY <1>7, <1>8, <1>9
<1>12. DOMAIN out' = DOMAIN out
  BY <1>1
<1>13. Payload' = Payload /\ \A k : FileBit(k)' = FileBit(k)
  BY <1>1, Same DEF FileBit
<1>14. AllRead'
  BY <1>1, <1>3, <1>10, <1>12, <1>13 DEF AllRead
<1>. QED
  BY <1>1, <1>2, <1>11, <1>14, WholeStays

\* When the pixels end first, every bit has been read.
LEMMA ReadAllExact ==
  ASSUME TypeInv, Plain, Phases, Stages, ReadAll
  PROVE  Whole' /\ AllRead' /\ pc' = "name" /\ outside' = outside
<1>1. /\ UNCHANGED <<image, file, img, size, out, outside>> /\ pc = "read" /\ pc' = "name"
      /\ row = image.rows
  BY DEF ReadAll
<1>2. FileRead /\ Whole /\ Fits(Payload)
  BY <1>1 DEF Stages, WrittenImage, Phases, WrittenInv
<1>3. /\ size = Payload /\ bits \in Nat /\ bits <= 8 * Payload
      /\ 3 * Here = 64 + bits /\ Payload \in Nat /\ Pixels \in Nat /\ col \in Nat
      /\ DOMAIN out = 0..(8 * Payload - 1)
  BY <1>2, PayloadType DEF FileRead, TypeInv
<1>4. Here = Pixels + col
  BY <1>1 DEF Here, Pixels
<1>5. 8 * (8 + Payload) <= 3 * Pixels
  BY <1>2 DEF Fits
<1>6. bits = 8 * Payload
  BY <1>3, <1>4, <1>5
<1>7. \A k \in DOMAIN out : out[k] = {FileBit(k)}
  BY <1>2, <1>3, <1>6 DEF FileRead
<1>8. Payload' = Payload /\ \A k : FileBit(k)' = FileBit(k)
  BY <1>1, Same DEF FileBit
<1>9. AllRead'
  BY <1>1, <1>3, <1>7, <1>8 DEF AllRead
<1>. QED
  BY <1>1, <1>2, <1>9, WholeStays

\* The length of the name is read, and what is in front of it is the file.
LEMMA ReadNameExact ==
  ASSUME TypeInv, Plain, Phases, Stages, ReadName
  PROVE  Whole' /\ Recovered' /\ pc' = "sought" /\ outside' = outside
<1>1. UNCHANGED <<image, file, img, out>> /\ pc = "name" /\ pc' = "sought"
  BY DEF ReadName
<1>2. AllRead /\ Whole
  BY <1>1 DEF Stages, WrittenImage
<1>3. size = Payload /\ Payload \in Nat /\ Payload >= 3
  BY <1>2, PayloadType DEF AllRead
<1>4. PICK n \in Numbers(8 * (size - 1), 8 * size - 1, 255) :
        /\ found' = [data |-> size - 1 - n, name |-> n]
        /\ outside' = IF n > size - 1 THEN outside \cup {"front"} ELSE outside
  BY DEF ReadName
<1>5. n \in 0..255 /\ \A k \in (8 * (Payload - 1))..(8 * Payload - 1) :
                         Bit(n, 8 * Payload - 1 - k) \in OrOf(out[k])
  BY <1>3, <1>4 DEF Numbers
<1>6. ASSUME NEW k \in (8 * (Payload - 1))..(8 * Payload - 1)
      PROVE  Bit(n, 8 * Payload - 1 - k) \in OrOf({FileBit(k)})
  <2>1. k \in DOMAIN out
    BY <1>2, <1>3 DEF AllRead
  <2>2. out[k] = {FileBit(k)}
    BY <1>2, <2>1 DEF AllRead
  <2>. QED
    BY <1>5, <2>2
<1>7. n = StoredName
  BY <1>5, <1>6, NameTold
<1>8. Payload - 1 - StoredName = file.data /\ ~(StoredName > Payload - 1)
  <2>1. file.data \in Nat /\ file.name \in Nat /\ MaxName \in Nat
    BY MaxNameAssumption DEF TypeInv
  <2>2. StoredName \in Nat
    BY <2>1 DEF StoredName
  <2>. QED
    BY <2>1, <2>2 DEF Payload
<1>9. found' = [data |-> file.data, name |-> StoredName] /\ outside' = outside
  BY <1>3, <1>4, <1>7, <1>8
<1>10. Payload' = Payload /\ StoredName' = StoredName /\ \A k : FileBit(k)' = FileBit(k)
  BY <1>1, Same DEF FileBit, StoredName
<1>11. Recovered'
  BY <1>1, <1>2, <1>9, <1>10 DEF Recovered, AllRead
<1>. QED
  BY <1>1, <1>2, <1>9, <1>11, WholeStays

\* Every step of a plain image leaves each phase as it should be.
LEMMA StagesStep ==
  ASSUME TypeInv, Plain, Phases, Stages, Next
  PROVE  Stages'
<1>1. UNCHANGED <<image, file>> /\ Payload' = Payload
  BY TypeStep, Same
<1>2. Payload % 3 = 2 => outside = {}
  BY DEF Stages
<1>3. CASE Refuse \/ StartHide
  <2>1. pc' \in {"refused", "narrow", "header"} /\ outside' = outside
    BY <1>3 DEF Refuse, StartHide
  <2>. QED
    BY <1>1, <1>2, <2>1 DEF Stages, WrittenImage
<1>4. CASE HeaderPixel \/ Boundary \/ DataPixel
  <2>1. pc' \in {"narrow", "header", "data"}
    BY <1>4 DEF HeaderPixel, Boundary, DataPixel
  <2>2. outside' = outside
    BY <1>4, PixelsInside DEF Plain
  <2>. QED
    BY <1>1, <1>2, <2>1, <2>2 DEF Stages, WrittenImage
<1>5. CASE NarrowRow
  BY <1>5 DEF NarrowRow, Phases
<1>6. CASE LastByte
  <2>1. LastExact' /\ pc' = "last" /\ outside' = outside
    BY <1>6, LastByteExact DEF LastByte
  <2>. QED
    BY <1>1, <1>2, <2>1 DEF Stages, WrittenImage
<1>7. CASE LastColour
  <2>1. LastExact' /\ pc' = "last" /\ (Payload % 3 = 2 => outside' = outside)
    BY <1>7, LastColourExact
  <2>. QED
    BY <1>1, <1>2, <2>1 DEF Stages, WrittenImage
<1>8. CASE Written \/ SeekHeader
  <2>1. Whole' /\ HeaderRead' /\ pc' = "seek" /\ outside' = outside
    BY <1>8, WrittenExact, SeekHeaderExact
  <2>. QED
    BY <1>1, <1>2, <2>1 DEF Stages
<1>9. CASE SeekTiny
  <2>1. UNCHANGED <<img, outside>> /\ pc = "seek" /\ pc' = "tiny"
    BY <1>9 DEF SeekTiny
  <2>2. Whole'
    BY <1>1, <2>1, WholeStays DEF Stages, WrittenImage
  <2>. QED
    BY <1>1, <1>2, <2>1, <2>2 DEF Stages
<1>10. CASE SeekLength \/ ReadPixel
  <2>1. Whole' /\ FileRead' /\ pc' = "read" /\ outside' = outside
    BY <1>10, SeekLengthExact, ReadPixelExact
  <2>. QED
    BY <1>1, <1>2, <2>1 DEF Stages
<1>11. CASE ReadLast \/ ReadAll
  <2>1. Whole' /\ AllRead' /\ pc' = "name" /\ (Payload % 3 = 2 => outside' = outside)
    BY <1>11, ReadLastExact, ReadAllExact
  <2>. QED
    BY <1>1, <1>2, <2>1 DEF Stages
<1>12. CASE ReadName
  <2>1. Whole' /\ Recovered' /\ pc' = "sought" /\ outside' = outside
    BY <1>12, ReadNameExact
  <2>. QED
    BY <1>1, <1>2, <2>1 DEF Stages
<1>. QED
  BY <1>3, <1>4, <1>5, <1>6, <1>7, <1>8, <1>9, <1>10, <1>11, <1>12 DEF Next

\* A step that changes nothing leaves them, too.
LEMMA StagesStutter ==
  ASSUME Plain, Stages, UNCHANGED vars
  PROVE  Stages'
<1>1. /\ image' = image /\ file' = file /\ pc' = pc /\ img' = img /\ row' = row
      /\ col' = col /\ cursor' = cursor /\ bits' = bits /\ choose' = choose
      /\ size' = size /\ out' = out /\ found' = found /\ outside' = outside
  BY DEF vars
<1>2. /\ Payload' = Payload /\ StoredName' = StoredName /\ LastStart' = LastStart
      /\ \A c : Hidden(c)' = Hidden(c)
  BY <1>1, Same, SamePlain DEF StoredName
<1>3. Here' = Here /\ \A k : FileBit(k)' = FileBit(k) /\ SizeBit(k)' = SizeBit(k)
  BY <1>1, <1>2 DEF Here, FileBit, SizeBit
<1>4. (LastExact' <=> LastExact) /\ (Whole' <=> Whole)
  BY <1>1, <1>2, <1>3 DEF LastExact, Filled, Whole
<1>5. (HeaderRead' <=> HeaderRead) /\ (FileRead' <=> FileRead)
  BY <1>1, <1>2, <1>3 DEF HeaderRead, FileRead
<1>6. (AllRead' <=> AllRead) /\ (Recovered' <=> Recovered)
  BY <1>1, <1>2, <1>3 DEF AllRead, Recovered
<1>. QED
  BY <1>1, <1>2, <1>4, <1>5, <1>6 DEF Stages, WrittenImage

\* In every plain image, each phase of the two calls has done what it should, and while
\* seek_file reads, what it has read is what hide_file wrote.  (hide_file, seek_file)
THEOREM StagesInvariance == Spec => []StagesInv
<1>1. Init => StagesInv
  BY DEF Init, StagesInv, Stages, WrittenImage
<1>2. IInv /\ StagesInv /\ [Next]_vars => StagesInv'
  <2>1. ASSUME IInv, StagesInv, Next PROVE StagesInv'
    <3>1. TypeInv /\ UNCHANGED <<image, file>>
      BY <2>1, TypeStep DEF IInv
    <3>2. Plain' <=> Plain
      BY <3>1, SamePlain
    <3>3. Plain => Phases
      BY <2>1 DEF IInv, Plain
    <3>. QED
      BY <2>1, <3>1, <3>2, <3>3, StagesStep DEF StagesInv
  <2>2. ASSUME StagesInv, UNCHANGED vars PROVE StagesInv'
    <3>1. Plain' <=> Plain
      BY <2>2, SamePlain DEF vars
    <3>. QED
      BY <2>2, <3>1, StagesStutter DEF StagesInv
  <2>. QED
    BY <2>1, <2>2
<1>. QED
  BY <1>1, <1>2, Invariance, PTL DEF Spec

\* What was hidden is found, in every image that is wider than the header and for every
\* file: every bit of it, its length and the length of its name, unless the bytes are a
\* multiple of three or the last byte starts in the last column.  (hide_file, seek_file)
THEOREM SeekFindsFileAlways == Spec => []SeekFindsFile
<1>1. StagesInv => SeekFindsFile
  BY DEF StagesInv, Stages, Plain, SeekFindsFile
<1>. QED
  BY <1>1, StagesInvariance, PTL

\* Neither call uses memory outside the image and the buffers when the bytes leave the
\* remainder 2 by three, for every image and file as above.  (hide_file, seek_file)
THEOREM InBoundsAlways == Spec => []InBounds
<1>1. StagesInv => InBounds
  <2>1. Payload % 3 = 2 => Payload % 3 # 0
    OBVIOUS
  <2>. QED
    BY <2>1 DEF StagesInv, Stages, Plain, InBounds
<1>. QED
  BY <1>1, StagesInvariance, PTL
=============================================================================
