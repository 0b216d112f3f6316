------------------------------- MODULE TextTools -------------------------------
(***************************************************************************)
(* The tabs base64 and sha256: button_calc_b64 and button_calc_sha256      *)
(* (src/source/src/gui.cpp), from a text field or from a file, as a whole  *)
(* or line by line, into a text field.                                     *)
(*                                                                         *)
(* Texts are sequences of ASCII codes, contents of files of bytes.  A      *)
(* digest is a free constructor: ShaPipeline is about how it is computed.  *)
(***************************************************************************)
EXTENDS Session, Base64

CONSTANTS
  Texts,       \* what is typed
  Contents,    \* what is in the files that can be chosen
  Page,        \* bytes of a page of memory
  Behind       \* what may be in memory behind a mapping

ASSUME TextsAssumption ==
  /\ Texts \subseteq Seq(0..127) /\ Contents \subseteq Seq(0..255)
  /\ Behind \subseteq Seq(0..255) /\ Page \in Nat \ {0}

VARIABLES
  input,     \* the text field for the input
  output,    \* the text field for the output
  chosen,    \* the content of the chosen file
  told       \* history: the base64 conversions since something was typed

texts == <<input, output, chosen, told>>

LineEnd == 10

\* "invalid input to encode or decode", abbreviated: letters and a space.
Warning == <<105, 32, 105>>

\* ERROR_FILE_NOT_OPEN, when no file was chosen or it is empty.
NotOpen == <<111, 32, 111>>

-----------------------------------------------------------------------------
\* std::getline until it fails: a line end that ends the text starts no line.
Lines(text) ==
  LET cut[k \in 0..Len(text)] ==
        IF k = 0 THEN << <<>> >>
        ELSE IF text[k] = LineEnd THEN Append(cut[k - 1], <<>>)
        ELSE [cut[k - 1] EXCEPT ![Len(cut[k - 1])] = Append(@, text[k])]
      all == cut[Len(text)]
  IN  IF Last(all) = <<>> THEN Front(all) ELSE all

\* One call of base64_encode or base64_decode, as it is shown.
Converted(enc, mode, text) ==
  LET result == IF enc THEN Encode(mode, text) ELSE Decode(text)
  IN  (IF result = Null THEN Warning ELSE result) \o <<LineEnd>>

\* Empty lines are skipped.
LinesToConvert(text) ==
  LET lines == Lines(text)
  IN  FlattenSeq([k \in DOMAIN lines |-> IF lines[k] = <<>> THEN <<>> ELSE <<lines[k]>>])

ConvertedLines(enc, mode, text) ==
  LET lines == LinesToConvert(text)
  IN  FlattenSeq([k \in DOMAIN lines |-> Converted(enc, mode, lines[k])])

Shown(enc, mode, each, text) ==
  IF each THEN ConvertedLines(enc, mode, text) ELSE Converted(enc, mode, text)

(***************************************************************************)
(* Line by line, a file is taken for a C string: up to the first zero.     *)
(* Behind the last byte are the zeros that fill the page; when there are   *)
(* none, the read goes on behind the mapping.                              *)
(***************************************************************************)
UpToZero(bytes) ==
  SubSeq(bytes, 1, (CHOOSE n \in 1..(Len(bytes) + 1) :
                      /\ n \in DOMAIN bytes => bytes[n] = 0
                      /\ \A j \in 1..(n - 1) : bytes[j] # 0) - 1)

LeavesMapping(bytes) == 0 \notin ToSet(bytes) /\ Len(bytes) % Page = 0

AsString(bytes) ==
  IF LeavesMapping(bytes) THEN {bytes \o b : b \in Behind} ELSE {UpToZero(bytes)}

-----------------------------------------------------------------------------
InitTexts == input = <<>> /\ output = <<>> /\ chosen = <<>> /\ told = <<>>

Type(t) ==
  /\ tab \in {"b64", "sha256"} /\ user # Nobody /\ ~ended
  /\ input' = t /\ told' = <<>>
  /\ UNCHANGED <<output, chosen>>

\* The user copies what the base64 tab shows, with or without its last line end.
PasteOutput(withEnd) ==
  /\ tab = "b64" /\ user # Nobody /\ ~ended
  /\ output # <<>> /\ \A k \in DOMAIN output : output[k] \in 1..127
  /\ input' = IF withEnd THEN output ELSE Front(output)
  /\ UNCHANGED <<output, chosen, told>>

\* button_open_file; the dialog offers existing files only.
ChooseFile(bytes) ==
  /\ tab \in {"b64", "sha256"} /\ user # Nobody /\ ~ended
  /\ chosen' = bytes
  /\ UNCHANGED <<input, output, told>>

CalcB64(enc, mode, each) ==
  /\ Press("b64")
  /\ output' = Shown(enc, mode, each, input)
  /\ told' = Append(told, [enc |-> enc, mode |-> mode, each |-> each,
                           in |-> input, out |-> output'])
  /\ UNCHANGED <<ended, input, chosen>>

CalcB64File(enc, mode, each) ==
  /\ Press("b64")
  /\ \E text \in (IF each THEN AsString(chosen) ELSE {chosen}) :
       output' = IF chosen = <<>> THEN NotOpen ELSE Shown(enc, mode, each, text)
  /\ told' = <<>>
  /\ UNCHANGED <<ended, input, chosen>>

\* The page behind the mapping is not there.
CalcB64FileEnds ==
  /\ Press("b64") /\ chosen # <<>> /\ LeavesMapping(chosen)
  /\ ended' = TRUE
  /\ UNCHANGED texts

Digest(text) == <<"sha256", text>>

\* Every line is hashed, the empty ones, too.
CalcSha256(each) ==
  /\ Press("sha256")
  /\ output' = IF each THEN [k \in DOMAIN Lines(input) |-> Digest(Lines(input)[k])]
               ELSE <<Digest(input)>>
  /\ UNCHANGED <<ended, input, chosen, told>>

CalcSha256File ==
  /\ Press("sha256")
  /\ output' = IF chosen = <<>> THEN NotOpen ELSE <<Digest(chosen)>>
  /\ UNCHANGED <<ended, input, chosen, told>>

NextTexts ==
  \/ \E t \in Texts : Type(t) /\ UNCHANGED session
  \/ \E withEnd \in BOOLEAN : PasteOutput(withEnd) /\ UNCHANGED session
  \/ \E bytes \in Contents : ChooseFile(bytes) /\ UNCHANGED session
  \/ \E enc, each \in BOOLEAN, mode \in {STD, URL, IMAP} :
       CalcB64(enc, mode, each) \/ CalcB64File(enc, mode, each)
  \/ CalcB64FileEnds
  \/ \E each \in BOOLEAN : CalcSha256(each)
  \/ CalcSha256File

-----------------------------------------------------------------------------
Encodes == {i \in DOMAIN told : told[i].enc}

\* What conversion i encoded, whole or line by line.
Encoded(i) ==
  IF told[i].each THEN LinesToConvert(told[i].in)
  ELSE IF told[i].in = <<>> THEN <<>> ELSE <<told[i].in>>

Joined(lines) == FlattenSeq([k \in DOMAIN lines |-> lines[k] \o <<LineEnd>>])

\* Conversion j decodes what i has shown, without a line end that is not read as one.
Decodes(j, i) ==
  /\ i \in Encodes /\ j \in DOMAIN told /\ ~told[j].enc /\ Encoded(i) # <<>>
  /\ \/ told[j].each /\ told[j].in \in {told[i].out, Front(told[i].out)}
     \/ ~told[j].each /\ Len(Encoded(i)) = 1 /\ told[j].in = Front(told[i].out)

\* What button_calc_b64 shows for an encoding is RFC 4648 for each line, or for the
\* text with its line ends.  (base64_encode puts the bits together byte by byte)
EncodedAsRfc ==
  \A i \in Encodes :
    Encoded(i) # <<>> =>
      told[i].out = Joined([k \in DOMAIN Encoded(i) |-> RfcEncode(told[i].mode, Encoded(i)[k])])

\* A shown encoding, pasted as the input, is decoded to the lines that were encoded
\* (the empty ones are lost), whatever standard, as long as the URL standard needed
\* no '_'; and decoding it reads nothing behind a line.
\* (base64_encode, base64_decode and the line loops of button_calc_b64)
TextRoundTrip ==
  \A i, j \in DOMAIN told :
    Decodes(j, i) =>
      /\ \A k \in DOMAIN Lines(told[j].in) : ~ReadsBehind(Lines(told[j].in)[k])
      /\ (told[i].mode = URL => 95 \notin ToSet(told[i].out)) => told[j].out = Joined(Encoded(i))

\* "it works also with RFC3501", and '_' has a case of its own in conversion__
\* (base64.cpp:83-84, 248): what is encoded in any of the three is decoded again.
UrlRoundTrip ==
  \A i, j \in DOMAIN told : Decodes(j, i) => told[j].out = Joined(Encoded(i))
=============================================================================
