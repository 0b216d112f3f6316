------------------------------- MODULE FileTools -------------------------------
(***************************************************************************)
(* The tabs hide, seek and aes256: button_calc_hide, button_calc_seek and  *)
(* button_calc_aes256 (src/source/src/gui.cpp).  They take a file and an   *)
(* image from anywhere and write a new file into the folder of the user.   *)
(*                                                                         *)
(* What a file holds is a term: what it was made of, what was put behind   *)
(* that (a padding, or the bytes that decrypt leaves), the keys it is      *)
(* xored with, its length, and what an image hides.  Counter mode is an    *)
(* exclusive or, so a key used twice is gone again.  Modules Aes and Stego *)
(* are about the bytes.                                                    *)
(*                                                                         *)
(* What was chosen for a tool (stcstr_hide_file, stcstr_hide_img,          *)
(* stcstr_seek_img, stcstr_aes256) stays chosen, also when another user    *)
(* logs in.  No tool removes a file, so what was chosen at any time is one *)
(* of the files that are there now, or NoPath: the actions take any.       *)
(***************************************************************************)
EXTENDS Session, FiniteSets

CONSTANTS
  Starts,        \* what is there at first: pairs of a document, a record of dir, name and
                 \* len, and an image, of dir, name, rows and cols, without rows when
                 \* imread fails; narrower images than the header are left out
  NameLength,    \* the letters of a name
  Passwords,     \* passwords that can be typed for a tool
  PasswordOf,    \* the password of each user
  OutNames,      \* what is typed for the name of the output, "" for nothing
  Dim,           \* bytes of a block
  ScrapLens      \* how many bytes of a file may be left when its writes fail

Home == "home"     \* a folder of no user
Png  == ".png"
Txt  == ".txt"
NoToolKey == ""    \* of a run without aes256

\* A password stands for its hash, the key of aes256, which is never empty.
ASSUME FilesAssumption ==
  /\ Home \notin Users /\ Dim \in Nat \ {0, 1} /\ NoToolKey \notin Passwords
  /\ Starts \subseteq [dir : Users \cup {Home}, name : STRING, len : Nat \ {0}]
                   \X [dir : Users \cup {Home}, name : STRING, rows : Nat, cols : {n \in Nat : n > 21}]
  /\ PasswordOf \in [Users -> Passwords]
  /\ ScrapLens \subseteq Nat

VARIABLES
  disk,     \* the files: a function from paths to contents
  log       \* history: the runs that came to a message about the output

files == <<disk, log>>

-----------------------------------------------------------------------------
(* Paths and contents. *)

\* A stem is a name, or a stem with a number appended, "_" and a digit, and its letters.
Named(name) == [name |-> <<name>>, letters |-> NameLength[name]]
Numbered(stem, n) == [name |-> <<stem.name, n>>, letters |-> stem.letters + 2]
Unnamed == [name |-> <<"">>, letters |-> 0]

Path(dir, stem, ext) == [dir |-> dir, stem |-> stem, ext |-> ext]
NoPath == Path("", Unnamed, "")

\* The extensions have four letters, or none.
LettersOf(p) == p.stem.letters + (IF p.ext = "" THEN 0 ELSE 4)

Covers == {start[2] : start \in Starts}

Plain(name, len) ==
  [of |-> name, behind |-> <<>>, keys |-> {}, len |-> len, hidden |-> <<>>]
Empty == Plain("", 0)
Noise == Plain("noise", 2 * Dim)

ImageLen == 2 * Dim + 1

\* The image that imread makes of it: that of the cover, or one without pixels.
NoCover == [rows |-> 0, cols |-> 22]
CoverOf(content) ==
  IF content.behind = <<>> /\ content.keys = {} /\ \E c \in Covers : c.name = content.of
  THEN CHOOSE c \in Covers : c.name = content.of
  ELSE NoCover

Pixels(content) == CoverOf(content).rows * CoverOf(content).cols
Fits(bytes, img) == 8 * (8 + bytes) <= 3 * Pixels(img)

\* Mutant of FreeStem: the number is not looked for.
FreeStemFirst(dir, stem, ext) ==
  IF Path(dir, stem, ext) \notin DOMAIN disk THEN stem ELSE Numbered(stem, 1)

\* The name of the output, with check_non_exists_file when it exists.
FreeStem(dir, stem, ext) ==
  LET Free(n) == Path(dir, Numbered(stem, n), ext) \notin DOMAIN disk
  IN  IF Path(dir, stem, ext) \notin DOMAIN disk THEN stem
      ELSE Numbered(stem, CHOOSE n \in 1..(Cardinality(DOMAIN disk) + 1) :
                            Free(n) /\ \A m \in 1..(n - 1) : ~Free(m))

-----------------------------------------------------------------------------
(* aes256, as the buttons use it. *)

Flip(content, k) ==
  [content EXCEPT !.keys = IF k \in @ THEN @ \ {k} ELSE @ \cup {k}]

AddBehind(content, what, len) ==
  [content EXCEPT !.behind = Append(@, <<what, content.len>>), !.len = len]

Rest(content) == content.len % Dim

EndsInPadding(content) ==
  content.behind # <<>> /\ content.behind[Len(content.behind)][1] = "padding"

\* The whole blocks of the payload after encrypt, without the final block.
EncryptedBlocks(content, k) ==
  IF Rest(content) = 0 THEN Flip(content, k)
  ELSE Flip(AddBehind(content, "cut", content.len - Rest(content)), k)

\* Payload and final block after encrypt: padded unless it is whole blocks.
Encrypted(content, k) ==
  IF Rest(content) = 0 THEN Flip(content, k)
  ELSE Flip(AddBehind(content, "padding", content.len + Dim - Rest(content)), k)

\* The payload after decrypt.  With another key the end may look like a padding.  What
\* is not whole blocks was not made by encrypt: nothing is promised, and it is noise.
Decrypted(content, k) ==
  LET text == Flip(content, k)
  IN  IF Rest(content) # 0 THEN {Noise}
      ELSE IF text.keys # {} THEN {text, Noise}
      ELSE IF EndsInPadding(text)
           THEN {[text EXCEPT !.behind = SubSeq(@, 1, Len(@) - 1),
                              !.len = text.behind[Len(text.behind)][2]]}
           ELSE {text}

\* decrypt may end the program: it reads in front of a payload of less than a block, and
\* behind one that a short padding was taken from (any, with another key).
ReadsOutside(content, k) ==
  \/ content.len < Dim
  \/ \E payload \in Decrypted(content, k) :
       payload = Noise \/ 2 * (content.len - payload.len) \in 1..(Dim - 1)

\* With the final block that decrypt leaves behind a payload it has shortened.
WithFinalBlock(payload) ==
  IF Rest(payload) = 0 THEN payload
  ELSE AddBehind(payload, "more", payload.len + Rest(payload))

-----------------------------------------------------------------------------
(* save_third_file and the message. *)

Put(p, content) ==
  [q \in DOMAIN disk \cup {p} |-> IF q = p THEN content ELSE disk[q]]

Report(op, k, from, img, out, made, ok, written) ==
  log' = Append(log, [op |-> op, key |-> k, from |-> from, img |-> img, out |-> out,
                      made |-> made, ok |-> ok, written |-> written])

\* What writes that fail leave.
Scraps == {IF n = 0 THEN Empty ELSE Plain("noise", n) : n \in ScrapLens}

\* Mutant of Save: a piece without bytes counts as saved.
SaveAnyway(op, k, from, img, p, made) ==
  \E opened \in {"none", "payload", "all"}, written \in BOOLEAN :
    /\ p.stem = Unnamed => opened = "none"
    /\ opened = "none" \/ made[1] = Empty => written
    /\ opened = "payload" => made[1] # made[2]
    /\ IF opened = "none" THEN UNCHANGED disk
       ELSE \E content \in IF ~written THEN Scraps
                           ELSE IF opened = "all" THEN {made[2]} ELSE {made[1]} :
              disk' = Put(p, content)
    /\ Report(op, k, from, img, p, made, opened = "all", written)

(***************************************************************************)
(* made is what the file holds with the payload, and with the final block  *)
(* behind it, when there is one.  Each of the two opens the stream, which  *)
(* makes the file or truncates it for the payload, and may fail; a payload *)
(* without bytes then is an error.  A name without letters is not opened.  *)
(* Writes that fail are not noticed.                                       *)
(***************************************************************************)
Save(op, k, from, img, p, made) ==
  \E opened \in {"none", "payload", "all"}, written \in BOOLEAN :
    /\ p.stem = Unnamed => opened = "none"
    /\ opened = "none" \/ made[1] = Empty => written
    /\ opened = "payload" => made[1] = Empty \/ made[1] # made[2]
    /\ opened = "all" => made[1] # Empty
    /\ IF opened = "none" THEN UNCHANGED disk
       ELSE \E content \in IF ~written THEN Scraps
                           ELSE IF opened = "all" THEN {made[2]} ELSE {made[1]} :
              disk' = Put(p, content)
    /\ Report(op, k, from, img, p, made, opened = "all", written)

\* What a stem is made of: the name typed, or that of the file.
StemFor(typed, stem) == IF typed = "" THEN stem ELSE Named(typed)

\* The key of a tool: of a password that is typed for it, or the user's own.
ToolKeys == Passwords \cup {PasswordOf[u] : u \in {user} \ {Nobody}}

-----------------------------------------------------------------------------
(* button_calc_aes256 *)

Readable(p) == p \in DOMAIN disk /\ disk[p] # Empty

\* A file shorter than a block has no payload: decrypt reads in front of it.
Results(content, enc, k) ==
  IF content.len < Dim THEN {<<Empty, Empty>>}
  ELSE IF enc THEN {<<EncryptedBlocks(content, k), Encrypted(content, k)>>}
  ELSE {<<payload, WithFinalBlock(payload)>> : payload \in Decrypted(content, k)}

CalcAes256(p, enc, k, typed) ==
  /\ Press("files")
  /\ IF ~Readable(p) THEN UNCHANGED files
     ELSE \E made \in Results(disk[p], enc, k) :
            Save(IF enc THEN "encrypt" ELSE "decrypt", k, p, NoPath,
                 Path(user, FreeStem(user, StemFor(typed, p.stem), p.ext), p.ext), made)
  /\ UNCHANGED ended

DecryptEnds(p, k) ==
  /\ Press("files") /\ Readable(p) /\ ReadsOutside(disk[p], k)
  /\ ended' = TRUE
  /\ UNCHANGED files

-----------------------------------------------------------------------------
(* button_calc_hide *)

\* What hide_file stores: the data, the name and a byte for the name's length.
Payload(content, p) == content.len + LettersOf(p) + 1

Hidden(content, p) ==
  <<[data |-> content, stem |-> p.stem, ext |-> p.ext, bytes |-> Payload(content, p)]>>

(***************************************************************************)
(* The image is not tried (the file is, a second time).  When imread fails *)
(* or the image has no room, hide_file returns without a word, and imwrite *)
(* is not asked either: success is reported for all of them.               *)
(***************************************************************************)
CalcHide(p, q, enc, k, typed) ==
  /\ Press("files")
  /\ IF ~Readable(p) \/ q = NoPath THEN UNCHANGED files
     ELSE LET data == IF enc THEN Encrypted(disk[p], k) ELSE disk[p]
              out == Path(user, FreeStem(user, StemFor(typed, q.stem), Png), Png)
          IN  \E written \in BOOLEAN :
                /\ disk' = IF Fits(Payload(data, p), disk[q]) /\ written
                           THEN Put(out, [disk[q] EXCEPT !.hidden = Hidden(data, p)])
                           ELSE disk
                /\ Report("hide", IF enc THEN k ELSE NoToolKey, p, q, out, <<>>, TRUE, written)
  /\ UNCHANGED ended

-----------------------------------------------------------------------------
(* button_calc_seek *)

Nothing == [data |-> Empty, stem |-> Unnamed, ext |-> ""]
NoiseFound == [data |-> Noise, stem |-> Named("noise"), ext |-> ""]
NoiseName == [data |-> Empty, stem |-> Named("noise"), ext |-> ""]

HiddenIn(img) ==
  LET h == img.hidden[1]
  IN  [data |-> h.data, stem |-> h.stem, ext |-> h.ext]

\* The length of the name, the last byte, is read with a colour too much when the
\* payload is a multiple of three bytes, and was written over when it starts in the
\* last column (Stego!Wraps).
LastStart(bytes) == (64 + 8 * (bytes - 1) + 2) \div 3
NameUnsure(img) ==
  LET bytes == img.hidden[1].bytes
      cols == CoverOf(img).cols
  IN  bytes % 3 = 0 \/ LastStart(bytes) % cols = cols - 1

\* seek_file: an image of up to 64 pixels is refused, and in one that hides nothing
\* the bits may happen to be a length.
Found(img) ==
  IF Pixels(img) <= 64 THEN {Nothing}
  ELSE IF img.hidden = <<>> THEN {Nothing, NoiseFound, NoiseName}
  ELSE {HiddenIn(img)} \cup (IF NameUnsure(img) THEN {NoiseFound, NoiseName} ELSE {})

\* Decrypting what is shorter than a block leaves no payload.
Extracted(data, dec, k) ==
  IF ~dec THEN {data}
  ELSE IF data.len < Dim THEN {Empty} ELSE Decrypted(data, k)

\* Nothing found is no error: what cannot be saved is, and what is decrypted
\* then has no memory (SeekEnds).
CalcSeek(q, dec, k, typed) ==
  /\ Press("files")
  /\ IF q = NoPath THEN UNCHANGED files
     ELSE \E h \in Found(disk[q]) :
            /\ ~(dec /\ h = Nothing)
            /\ \E content \in Extracted(h.data, dec, k) :
                 Save("seek", IF dec THEN k ELSE NoToolKey, NoPath, q,
                      Path(user, FreeStem(user, StemFor(typed, h.stem), h.ext), h.ext), <<content, content>>)
  /\ UNCHANGED ended

SeekEnds(q, k) ==
  /\ Press("files") /\ q # NoPath
  /\ \E h \in Found(disk[q]) : h = Nothing \/ ReadsOutside(h.data, k)
  /\ ended' = TRUE
  /\ UNCHANGED files

-----------------------------------------------------------------------------
\* One document and one image, and nothing chosen yet.  The other tabs write no files.
InitFiles ==
  /\ \E start \in Starts :
       LET d == start[1]
           c == start[2]
       IN  disk = [p \in IF tab = "files"
                         THEN {Path(d.dir, Named(d.name), Txt), Path(c.dir, Named(c.name), Png)}
                         ELSE {} |->
                     IF p.ext = Txt THEN Plain(d.name, d.len) ELSE Plain(c.name, ImageLen)]
  /\ log = <<>>

\* button_open_file and button_open_img: the dialogs offer files that exist, the
\* one for images those with the extension.
ToChoose == DOMAIN disk \cup {NoPath}
ImagesToChoose == {p \in DOMAIN disk : p.ext = Png} \cup {NoPath}

NextFiles ==
  \/ \E p \in ToChoose, q \in ImagesToChoose, typed \in OutNames,
       with \in BOOLEAN, k \in ToolKeys :
       CalcAes256(p, with, k, typed) \/ CalcHide(p, q, with, k, typed) \/ CalcSeek(q, with, k, typed)
  \/ \E p \in DOMAIN disk, q \in ImagesToChoose, k \in ToolKeys :
       DecryptEnds(p, k) \/ SeekEnds(q, k)

-----------------------------------------------------------------------------
\* No tool changes or removes a file that exists: not its input, and not an earlier
\* output of the same name.  (the search for a free name in the three buttons)
NothingOverwritten ==
  [][\A p \in DOMAIN disk : p \in DOMAIN disk' /\ disk'[p] = disk[p]]_disk

\* What is encrypted with another key may end in anything, in a padding, too, and
\* what was encrypted twice with one key does.
Known(content) == content.keys = {} /\ ~EndsInPadding(content)

\* A file that was hidden, in an image that no later run had to write, is found again
\* byte by byte and with its extension, by the user or another one who has the key,
\* whether encrypted or not, unless the length of its name is not read as it was
\* written, or a write fails.  (hide merges the final block, seek saves the payload
\* only: both must fit together)
SeekRecovers ==
  \A i, j \in DOMAIN log :
    /\ log[i].op = "hide" /\ log[j].op = "seek" /\ i < j /\ log[j].ok /\ log[j].written
    /\ log[j].img = log[i].out /\ log[j].key = log[i].key
    /\ \A m \in (i + 1)..Len(log) : log[m].out # log[i].out
    /\ ~NameUnsure(disk[log[i].out]) /\ Known(disk[log[i].from])
    => /\ disk[log[j].out] = disk[log[i].from]
       /\ log[j].out.ext = log[i].from.ext

\* A file that was encrypted begins again with what it was when it is decrypted
\* with the same key, and is that when no padding was needed.
\* (button_calc_aes256 with encrypt and decrypt, through two files)
DecryptRecovers ==
  \A i, j \in DOMAIN log :
    /\ log[i].op = "encrypt" /\ log[j].op = "decrypt" /\ i < j
    /\ log[i].ok /\ log[j].ok /\ log[i].written /\ log[j].written
    /\ log[j].from = log[i].out /\ log[j].key = log[i].key
    /\ Known(disk[log[i].from])
    => disk[log[j].out] \in {disk[log[i].from], WithFinalBlock(disk[log[i].from])}

\* The message of seek and aes256 tells what became of the output, unless a write fails:
\* success means that it holds all that was made, and an error that at most an empty file
\* was left, until a later run uses the name, or the payload without its final block.
\* (save_third_file as the two buttons call it, with an open for each piece)
ReportedAsSaved ==
  \A i \in DOMAIN log :
    log[i].op # "hide" /\ log[i].written =>
      LET out == log[i].out
          made == log[i].made
      IN  IF log[i].ok THEN made[1] # Empty /\ out \in DOMAIN disk /\ disk[out] = made[2]
          ELSE out \in DOMAIN disk =>
                 \/ disk[out] = made[1] /\ (made[1] = Empty \/ made[1] # made[2])
                 \/ \E j \in DOMAIN log : i < j /\ log[j].out = out
=============================================================================
