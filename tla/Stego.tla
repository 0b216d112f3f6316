--------------------------------- MODULE Stego ---------------------------------
(***************************************************************************)
(* steganography::hide_file and seek_file                                  *)
(* (src/source/src/steganography.cpp): a file and its name, written bit by *)
(* bit into the low bits of the colours of an image, and read back.        *)
(*                                                                         *)
(* The image is the sequence of its colours, row after row, as imread      *)
(* lays it out, so that the column behind the last one is the first of     *)
(* the next row, as it is for at() in a build without assertions.  Of a    *)
(* colour only the low bit matters, and of a bit only which one it is:     *)
(*   <<"size", k>>   the k-th bit of the 64-bit length, from the left;     *)
(*   <<"file", k>>   the k-th bit of file, name and length of the name;    *)
(*   <<"old", 0>>    what the image had;                                   *)
(*   <<"junk", 0>>   what is in memory behind the buffer.                  *)
(* A bit that is read into the new file is the set of the bits or-ed       *)
(* together there.  imwrite and imread of a PNG file keep the colours.     *)
(***************************************************************************)
EXTENDS Integers

CONSTANTS
  Images,    \* the images, as records of their rows and cols
  Files,     \* the files, as records of the lengths of their data and name
  MaxName    \* the longest name that is stored, 0xFF in the code

MaxInt == 2147483647

Junk == <<"junk", 0>>
Old == <<"old", 0>>

ASSUME ImagesAssumption == Images \subseteq [rows : Nat \ {0}, cols : Nat \ {0}]
\* The product of rows, columns and channels is 32 bits in hide_file, an int in
\* seek_file: an image for which it overflows is not modelled.
ASSUME ProductAssumption ==
  \A i \in Images : 3 * (i.rows * i.cols) <= MaxInt
ASSUME FilesAssumption == Files \subseteq [data : Nat \ {0}, name : Nat \ {0}]
ASSUME MaxNameAssumption == MaxName \in 1..255

VARIABLES
  image,    \* img.rows, img.cols
  file,     \* what the caller gave to hide_file
  pc,       \* where the call is
  img,      \* the low bits of the colours
  row, col, \* the pixel
  cursor,   \* 8 * index_data + 7 - position_actual: the next bit to hide
  bits,     \* counter_index while hiding, bits_already_read while seeking
  choose,   \* color_choose
  size,     \* the length that seek_file has read
  out,      \* file_data, bit by bit
  found,    \* what seek_file returned: lengths of data and name
  outside   \* the memory that was used outside its bounds

vars == <<image, file, pc, img, row, col, cursor, bits, choose, size, out,
          found, outside>>

-----------------------------------------------------------------------------
(* Names, lengths and the image. *)

\* The name is cut to its last MaxName letters.
StoredName == IF file.name > MaxName THEN MaxName ELSE file.name

\* payload_to_hide: the data, the name and one byte for its length.
Payload == file.data + StoredName + 1

Pixels == image.rows * image.cols

Fits(bytes) == 8 * (8 + bytes) <= 3 * Pixels

\* The loop that the code has for images narrower than the header's pixels.
Narrow == image.cols < 63 \div 3

\* The pixel the counters point to, as memory sees it, and its colours.
Here == row * image.cols + col
Colour(c) == 3 * Here + c

Inside(cell) == cell \in 0..(3 * Pixels - 1)

\* The bit at the cursor of the buffer with file, name and name's length.
FileBit(k) == IF k < 8 * Payload THEN <<"file", k>> ELSE Junk

\* consume_single_color for each of the cells of new, a function from cells.
Hide(new) ==
  /\ img' = [c \in DOMAIN img |-> IF c \in DOMAIN new THEN new[c] ELSE img[c]]
  /\ outside' = outside
       \cup (IF \A c \in DOMAIN new : Inside(c) THEN {} ELSE {"image"})
       \cup (IF \E c \in DOMAIN new : new[c] = Junk THEN {"payload"} ELSE {})

\* consume_entire_pixel, with the next three bits of a buffer.
HidePixel(next) ==
  /\ Hide([c \in Colour(0)..Colour(2) |-> next[c - Colour(0)]])
  /\ cursor' = cursor + 3

\* The loops over the columns, then over the rows.
NextPixel ==
  IF col + 1 < image.cols THEN col' = col + 1 /\ row' = row
                          ELSE col' = 0 /\ row' = row + 1

Init ==
  /\ image \in Images /\ file \in Files
  /\ pc = "hide"
  /\ img = [c \in 0..(3 * Pixels - 1) |-> Old]
  /\ row = 0 /\ col = 0 /\ cursor = 0 /\ bits = 0 /\ choose = 0
  /\ size = -1 /\ out = <<>> /\ found = [data |-> -1, name |-> 0]
  /\ outside = {}

-----------------------------------------------------------------------------
(* hide_file *)

\* imread fails, or "the img it's too little for the input": nothing is written.
Refuse ==
  /\ pc = "hide" /\ \E readable \in BOOLEAN : ~readable \/ ~Fits(Payload)
  /\ pc' = "refused"
  /\ UNCHANGED <<image, file, img, row, col, cursor, bits, choose, size, out,
                 found, outside>>

StartHide ==
  /\ pc = "hide" /\ Fits(Payload)
  /\ pc' = IF Narrow THEN "narrow" ELSE "header"
  /\ UNCHANGED <<image, file, img, row, col, cursor, bits, choose, size, out,
                 found, outside>>

SizeBit(k) == <<"size", k>>

\* A pixel of the header, in the loops for a narrow and for a wide image.
HeaderPixel ==
  /\ bits < 63
  /\ \/ pc = "narrow" /\ col < image.cols
     \/ pc = "header"
  /\ HidePixel([k \in 0..2 |-> SizeBit(cursor + k)])
  /\ col' = col + 1
  /\ bits' = bits + 3
  /\ UNCHANGED <<image, file, pc, row, choose, size, out, found>>

\* The row is over, and state_cols is not set back: no further pixel is
\* written and the loop goes on.  Rows behind the last one are all the same.
NarrowRow ==
  /\ pc = "narrow" /\ bits < 63 /\ col >= image.cols
  /\ row' = IF row < image.rows THEN row + 1 ELSE row
  /\ UNCHANGED <<image, file, pc, img, col, cursor, bits, choose, size, out,
                 found, outside>>

\* Mutant of Boundary: the end of the row is forgotten behind the header.
BoundaryNoWrap ==
  /\ pc \in {"narrow", "header"} /\ bits = 63
  /\ Hide([c \in Colour(0)..Colour(2) |->
             IF c = Colour(0) THEN SizeBit(63) ELSE FileBit(c - Colour(1))])
  /\ cursor' = 2
  /\ col' = col + 1
  /\ pc' = "data"
  /\ UNCHANGED <<image, file, row, bits, choose, size, out, found>>

\* The pixel with the last bit of the length and the first two of the file.
Boundary ==
  /\ pc \in {"narrow", "header"} /\ bits = 63
  /\ Hide([c \in Colour(0)..Colour(2) |->
             IF c = Colour(0) THEN SizeBit(63) ELSE FileBit(c - Colour(1))])
  /\ cursor' = 2
  /\ IF col = image.cols - 1 THEN col' = 0 /\ row' = row + 1
                             ELSE col' = col + 1 /\ row' = row
  /\ pc' = "data"
  /\ UNCHANGED <<image, file, bits, choose, size, out, found>>

\* A pixel with three bits of the file, before its last byte.
DataPixel ==
  /\ pc = "data" /\ row < image.rows /\ cursor \div 8 # Payload - 1
  /\ HidePixel([k \in 0..2 |-> FileBit(cursor + k)])
  /\ NextPixel
  /\ UNCHANGED <<image, file, pc, bits, choose, size, out, found>>

\* The first pixel of the last byte: from here on, eight colours are written.
LastByte ==
  /\ pc = "data" /\ row < image.rows /\ cursor \div 8 = Payload - 1
  /\ pc' = "last" /\ choose' = 0
  /\ UNCHANGED <<image, file, img, row, col, cursor, bits, size, out, found,
                 outside>>

\* Mutant of LastColour: one colour more.
LastColourNine ==
  /\ pc = "last" /\ choose < 9
  /\ Hide([c \in {Colour(choose % 3)} |-> FileBit(cursor)])
  /\ cursor' = cursor + 1
  /\ IF choose % 3 # 2 THEN UNCHANGED <<row, col>>
     ELSE IF col < image.cols THEN col' = col + 1 /\ row' = row
                              ELSE col' = 0 /\ row' = row + 1
  /\ choose' = choose + 1
  /\ UNCHANGED <<image, file, pc, bits, size, out, found>>

LastColour ==
  /\ pc = "last" /\ choose < 8
  /\ Hide([c \in {Colour(choose % 3)} |-> FileBit(cursor)])
  /\ cursor' = cursor + 1
  /\ IF choose % 3 # 2 THEN UNCHANGED <<row, col>>
     ELSE IF col < image.cols THEN col' = col + 1 /\ row' = row
                              ELSE col' = 0 /\ row' = row + 1
  /\ choose' = choose + 1
  /\ UNCHANGED <<image, file, pc, bits, size, out, found>>

\* imwrite; then the caller of seek_file opens the image again.
Written ==
  /\ \/ pc = "last" /\ choose = 8
     \/ pc = "data" /\ row = image.rows
  /\ pc' = "seek"
  /\ row' = 0 /\ col' = 0 /\ bits' = 0
  /\ out' = [k \in 0..63 |-> {}]
  /\ UNCHANGED <<image, file, img, cursor, choose, size, found, outside>>

-----------------------------------------------------------------------------
(* seek_file *)

\* The bits of a number below 2^30, as every length in an image is.
Bit(v, j) == IF j > 29 THEN 0 ELSE (v \div 2^j) % 2

\* What a hidden bit may be: the data of the file are arbitrary.
Value(b) ==
  CASE b[1] = "size" -> {Bit(Payload, 63 - b[2])}
    [] b[1] = "file" /\ b[2] >= 8 * (Payload - 1) ->
         {Bit(StoredName, 7 - (b[2] % 8))}
    [] OTHER -> {0, 1}

\* What the bits S can be when they are or-ed onto a zero.
OrOf(S) == IF \E b \in S : Value(b) = {1}
           THEN {1} ELSE {0} \cup UNION {Value(b) : b \in S}

\* The numbers that the bits of out from first to last can be.  No image holds a
\* length whose half is above its pixels, so max may stop there.
Numbers(first, last, max) ==
  {v \in 0..max : \A k \in first..last : Bit(v, last - k) \in OrOf(out[k])}

\* imread fails, or "img too tiny to embed a file".
SeekTiny ==
  /\ pc = "seek" /\ bits = 0
  /\ \E readable \in BOOLEAN : ~readable \/ Pixels <= 64
  /\ pc' = "tiny" /\ size' = -1
  /\ UNCHANGED <<image, file, img, row, col, cursor, bits, choose, out, found,
                 outside>>

\* Three bits of the length.  The shifts are of an int, by up to 61 places: the
\* bits that leave it are zero for every length below 2^29.
SeekHeader ==
  /\ pc = "seek" /\ Pixels > 64 /\ bits # 63
  /\ out' = [k \in DOMAIN out |->
               IF k \in bits..(bits + 2) THEN {img[Colour(k - bits)]}
                                         ELSE out[k]]
  /\ bits' = bits + 3
  /\ NextPixel
  /\ UNCHANGED <<image, file, pc, img, cursor, choose, size, found, outside>>

\* The last bit of the length; file_data is made, with its first two bits.
SeekLength ==
  /\ pc = "seek" /\ Pixels > 64 /\ bits = 63
  /\ \E m \in Numbers(0, 62, Pixels) :
       \E low \in OrOf({img[Colour(0)]}) :
         /\ size' = 2 * m + low
         /\ IF size' <= 0 \/ ~Fits(size')
            THEN pc' = "none" /\ UNCHANGED <<out, bits>>
            ELSE /\ pc' = "read" /\ bits' = 2
                 /\ out' = [k \in 0..(8 * size' - 1) |->
                              CASE k < 2 -> {img[Colour(k + 1)]}
                                [] k \in 2..7 -> {}
                                [] OTHER -> {Junk}]
  /\ NextPixel
  /\ UNCHANGED <<image, file, img, cursor, choose, found, outside>>

\* Mutant of ReadPixel: the case of an offset of 6 is forgotten.
ReadPixelNoSix ==
  /\ pc = "read" /\ row < image.rows /\ bits + 3 <= 8 * size
  /\ LET new == (bits + 2) \div 8
         set(k) == k \div 8 = new /\ bits % 8 \in {0, 7}
     IN out' = [k \in DOMAIN out |->
                 (IF set(k) THEN {} ELSE out[k])
                 \cup (IF k \in bits..(bits + 2)
                       THEN {img[Colour(k - bits)]} ELSE {})]
  /\ bits' = bits + 3
  /\ NextPixel
  /\ UNCHANGED <<image, file, pc, img, cursor, choose, size, found, outside>>

\* store_single_color: a byte is set when its first bit comes, else or-ed into.
ReadPixel ==
  /\ pc = "read" /\ row < image.rows /\ bits + 3 <= 8 * size
  /\ LET new == (bits + 2) \div 8
         set(k) == k \div 8 = new /\ bits % 8 \in {0, 6, 7}
     IN out' = [k \in DOMAIN out |->
                 (IF set(k) THEN {} ELSE out[k])
                 \cup (IF k \in bits..(bits + 2)
                       THEN {img[Colour(k - bits)]} ELSE {})]
  /\ bits' = bits + 3
  /\ NextPixel
  /\ UNCHANGED <<image, file, pc, img, cursor, choose, size, found, outside>>

\* store_last_color: as many colours as bits % 3 says go to the end of the byte.
ReadLast ==
  /\ pc = "read" /\ row < image.rows /\ bits + 3 > 8 * size
  /\ LET end == 8 * (bits \div 8) + 7
         first == end + 1 - (bits % 3)
         new == [k \in first..end |-> img[Colour(k - first)]]
     IN /\ out' = [k \in DOMAIN out |->
                    IF k \in DOMAIN new THEN out[k] \cup {new[k]} ELSE out[k]]
        /\ outside' = IF DOMAIN new \subseteq DOMAIN out THEN outside
                                                      ELSE outside \cup {"data"}
  /\ pc' = "name"
  /\ UNCHANGED <<image, file, img, row, col, cursor, bits, choose, size, found>>

\* The loop over the pixels ended without a last colour to read.
ReadAll ==
  /\ pc = "read" /\ row = image.rows
  /\ pc' = "name"
  /\ UNCHANGED <<image, file, img, row, col, cursor, bits, choose, size, out,
                 found, outside>>

\* The last byte says how many of the bytes in front of it are the name.
ReadName ==
  /\ pc = "name"
  /\ \E n \in Numbers(8 * (size - 1), 8 * size - 1, 255) :
       /\ found' = [data |-> size - 1 - n, name |-> n]
       /\ outside' = IF n > size - 1 THEN outside \cup {"front"} ELSE outside
  /\ pc' = "sought"
  /\ UNCHANGED <<image, file, img, row, col, cursor, bits, choose, size, out>>

Next ==
  \/ Refuse \/ StartHide \/ HeaderPixel \/ NarrowRow \/ Boundary \/ DataPixel
  \/ LastByte \/ LastColour \/ Written
  \/ SeekTiny \/ SeekHeader \/ SeekLength \/ ReadPixel \/ ReadLast \/ ReadAll
  \/ ReadName

Spec == Init /\ [][Next]_vars

-----------------------------------------------------------------------------
(* Properties *)

\* The first pixel of the last byte, and whether it is the last of its row.
LastStart == (64 + 8 * (Payload - 1) + 2) \div 3
Wraps == LastStart % image.cols = image.cols - 1

Regular == image.cols > 63 \div 3

WrittenImage == pc \in {"seek", "read", "name", "tiny", "none", "sought"}

\* In the image that hide_file writes, the length and every byte but the last
\* stand one behind the other from the first colour on, and the colours more
\* than two behind the last byte are untouched, whatever the width of the image
\* beyond the 21 pixels of the header.  (hide_file: its four loops agree on where
\* the next bit goes)
BytesInPlace ==
  WrittenImage /\ Regular =>
    /\ \A k \in 0..63 : img[k] = SizeBit(k)
    /\ \A k \in 0..(8 * (Payload - 1) - 1) : img[64 + k] = FileBit(k)
    /\ \A c \in DOMAIN img : c > 64 + 8 * Payload + 1 => img[c] = Old

Recovered ==
  /\ found = [data |-> file.data, name |-> StoredName]
  /\ DOMAIN out = 0..(8 * Payload - 1)
  /\ \A k \in DOMAIN out : out[k] = {FileBit(k)}

\* What was hidden is found: every bit, the length and the length of the name,
\* unless the bytes are a multiple of three (store_last_color then takes a colour
\* too much) or the last byte starts in the last column (hide_file then writes a
\* pixel twice).  (hide_file, seek_file)
SeekFindsFile ==
  pc = "sought" /\ Regular /\ Payload % 3 # 0 /\ ~Wraps => Recovered

\* No memory outside the image and the buffers is used when the bytes leave the
\* remainder 2 by three, the one case in which the last byte starts at a pixel.
\* (the eight colours of hide_file's last byte, store_last_color)
InBounds == Regular /\ Payload % 3 = 2 /\ ~Wraps => outside = {}

\* What was hidden is found, for every image and file.  (hide_file, seek_file)
RoundTrip == pc = "sought" => Recovered
=============================================================================
