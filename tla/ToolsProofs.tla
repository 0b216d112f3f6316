------------------------------- MODULE ToolsProofs -------------------------------
(***************************************************************************)
(* Proofs about the tools of one window.  FileTools, for every set of      *)
(* users, files, images and passwords: no file is overwritten, the message *)
(* tells whether the output was saved, and what was hidden or encrypted is *)
(* found again.  KeyTools, for every prime, base and layout of a key: two  *)
(* users see the same key, and every key that is shown is accepted.        *)
(* TextTools, for every text: base64 is RFC 4648, and decoding undoes it.  *)
(***************************************************************************)
EXTENDS Tools, DataLemmas

\* What the tools leave alone: every file, byte by byte.
Kept == \A p \in DOMAIN disk : p \in DOMAIN disk' /\ disk'[p] = disk[p]

LogTyped == \E S : log \in Seq(S)

\* The inductive invariant: the search for a free name ends because the files are
\* finitely many, and what was reported stays true because they are kept.
FilesInv ==
  /\ IsFiniteSet(DOMAIN disk)
  /\ LogTyped
  /\ ReportedAsSaved

\* What ReportedAsSaved says of run i.
MessageRight(i) ==
  LET out == log[i].out
      made == log[i].made
  IN  IF log[i].ok THEN made[1] # Empty /\ out \in DOMAIN disk /\ disk[out] = made[2]
      ELSE out \in DOMAIN disk =>
             \/ disk[out] = made[1] /\ (made[1] = Empty \/ made[1] # made[2])
             \/ \E j \in DOMAIN log : i < j /\ log[j].out = out

-----------------------------------------------------------------------------
(* The search for a free name. *)

\* Among one number more than there are files, one gives a name that is free: two
\* numbers never give the same name (check_non_exists_file).
LEMMA SomeNumberIsFree ==
  ASSUME IsFiniteSet(DOMAIN disk), NEW dir, NEW stem, NEW ext
  PROVE  \E n \in 1..(Cardinality(DOMAIN disk) + 1) :
           Path(dir, Numbered(stem, n), ext) \notin DOMAIN disk
<1> DEFINE N == Cardinality(DOMAIN disk)
           f == [n \in 1..(N + 1) |-> Path(dir, Numbered(stem, n), ext)]
<1>1. N \in Nat
  BY FS_CardinalityType
<1>2. IsFiniteSet(1..(N + 1)) /\ Cardinality(1..(N + 1)) = N + 1
  BY <1>1, FS_Interval
<1>3. ASSUME f \in [1..(N + 1) -> DOMAIN disk]
      PROVE  FALSE
  <2>1. N < Cardinality(1..(N + 1))
    BY <1>1, <1>2
  <2> HIDE DEF f
  <2>2. PICK n, m \in 1..(N + 1) : n # m /\ f[n] = f[m]
    BY <1>2, <1>3, <2>1, FS_PigeonHole
  <2>3. f[n].stem.name[2] = n /\ f[m].stem.name[2] = m
    BY DEF f, Path, Numbered
  <2> QED
    BY <2>2, <2>3
<1> QED
  BY <1>3

\* A tool never writes under a name that is there.
LEMMA FreeStemIsFree ==
  ASSUME IsFiniteSet(DOMAIN disk), NEW dir, NEW stem, NEW ext
  PROVE  Path(dir, FreeStem(dir, stem, ext), ext) \notin DOMAIN disk
<1> DEFINE N == Cardinality(DOMAIN disk)
           Free(n) == Path(dir, Numbered(stem, n), ext) \notin DOMAIN disk
           S == {n \in 1..(N + 1) : Free(n)}
<1>1. N \in Nat
  BY FS_CardinalityType
<1>2. S \subseteq Nat /\ S # {}
  BY <1>1, SomeNumberIsFree
<1>3. PICK n \in S : \A m \in S : n <= m
  BY <1>2, Least
<1>4. \A m \in 1..(n - 1) : ~Free(m)
  BY <1>1, <1>3
<1>5. \E k \in 1..(N + 1) : Free(k) /\ \A m \in 1..(k - 1) : ~Free(m)
  BY <1>3, <1>4
<1> HIDE DEF N
<1>6. Free(CHOOSE k \in 1..(N + 1) : Free(k) /\ \A m \in 1..(k - 1) : ~Free(m))
  BY <1>5
<1> QED
  BY <1>6 DEF FreeStem, N

-----------------------------------------------------------------------------
(* One run of a tool. *)

\* A message is appended to the history.
LEMMA LogGrows ==
  ASSUME LogTyped, NEW run, log' = Append(log, run)
  PROVE  /\ LogTyped'
         /\ Len(log) \in Nat /\ DOMAIN log = 1..Len(log)
         /\ Len(log') = Len(log) + 1 /\ DOMAIN log' = 1..Len(log')
         /\ \A i \in DOMAIN log : log'[i] = log[i]
         /\ log'[Len(log')] = run
<1>1. PICK S : log \in Seq(S)
  BY DEF LogTyped
<1> DEFINE T == S \cup {run}
<1>2. log \in Seq(T) /\ run \in T
  BY <1>1, SeqMonotonic
<1> HIDE DEF T
<1>3. log' \in Seq(T)
  BY <1>2
<1>4. LogTyped'
  BY <1>3 DEF LogTyped
<1>5. Len(log) \in Nat /\ DOMAIN log = 1..Len(log)
  BY <1>2
<1>6. Len(log') = Len(log) + 1 /\ DOMAIN log' = 1..Len(log')
  BY <1>2, <1>3
<1>7. \A i \in 1..Len(log) : log'[i] = log[i]
  BY <1>2
<1>8. log'[Len(log) + 1] = run
  BY <1>2
<1> QED
  BY <1>4, <1>5, <1>6, <1>7, <1>8

\* What the message of a run says is so when it is shown.
Honest(run) ==
  IF run.ok THEN run.made[1] # Empty /\ disk' = Put(run.out, run.made[2])
  ELSE \/ disk' = disk
       \/ /\ disk' = Put(run.out, run.made[1])
          /\ run.made[1] = Empty \/ run.made[1] # run.made[2]

\* A run that writes at most one file, under a free name, and reports what it has
\* saved, keeps all other files and what was reported of them.  (what save_third_file
\* leaves, and the message box behind it)
LEMMA RunKeeps ==
  ASSUME FilesInv,
         NEW p, p \notin DOMAIN disk,
         NEW content, NEW run,
         disk' = disk \/ disk' = Put(p, content),
         log' = Append(log, run), run.out = p,
         run.op # "hide" /\ run.written => Honest(run)
  PROVE  FilesInv' /\ Kept
<1>1. Kept
  BY DEF Kept, Put
<1>2. IsFiniteSet(DOMAIN disk')
  BY FS_AddElement DEF FilesInv, Put
<1>3. /\ LogTyped'
      /\ Len(log) \in Nat /\ DOMAIN log = 1..Len(log)
      /\ Len(log') = Len(log) + 1 /\ DOMAIN log' = 1..Len(log')
      /\ \A i \in DOMAIN log : log'[i] = log[i]
      /\ log'[Len(log')] = run
  BY LogGrows DEF FilesInv
<1>4. \A q \in DOMAIN disk : q \in DOMAIN disk' /\ disk'[q] = disk[q]
  BY <1>1 DEF Kept
<1>5. \A q \in DOMAIN disk' : q \in DOMAIN disk \/ q = p
  BY DEF Put
<1>6. ASSUME NEW i \in DOMAIN log', log'[i].op # "hide", log'[i].written
      PROVE  MessageRight(i)'
  <2>1. ASSUME i \in DOMAIN log
        PROVE  MessageRight(i)'
    <3>1. log'[i] = log[i] /\ MessageRight(i)
      BY <1>3, <1>6, <2>1 DEF FilesInv, ReportedAsSaved, MessageRight
    <3>2. CASE log[i].ok
      BY <1>4, <3>1, <3>2 DEF MessageRight
    <3>3. CASE ~log[i].ok /\ log[i].out \in DOMAIN disk
      <4>1. disk'[log[i].out] = disk[log[i].out]
        BY <1>4, <3>3
      <4>2. ASSUME NEW m \in DOMAIN log, i < m, log[m].out = log[i].out
            PROVE  m \in DOMAIN log' /\ log'[m].out = log'[i].out
        BY <1>3, <2>1, <4>2
      <4> QED
        BY <3>1, <3>3, <4>1, <4>2 DEF MessageRight
    <3>4. CASE ~log[i].ok /\ log[i].out \notin DOMAIN disk
      <4>1. log[i].out \in DOMAIN disk' => log[i].out = p
        BY <1>5, <3>4
      <4>2. Len(log') \in DOMAIN log' /\ i < Len(log')
        BY <1>3, <2>1
      <4> QED
        BY <1>3, <3>1, <3>4, <4>1, <4>2 DEF MessageRight
    <3> QED
      BY <3>2, <3>3, <3>4
  <2>2. CASE i = Len(log')
    <3>1. log'[i] = run
      BY <1>3, <2>2
    <3>2. Honest(run)
      BY <1>6, <3>1
    <3>3. \A c : disk' = Put(p, c) => p \in DOMAIN disk' /\ disk'[p] = c
      BY DEF Put
    <3>4. CASE run.ok
      BY <3>1, <3>2, <3>3, <3>4 DEF MessageRight, Honest
    <3>5. CASE ~run.ok
      BY <3>1, <3>2, <3>3, <3>5 DEF MessageRight, Honest
    <3> QED
      BY <3>4, <3>5
  <2> QED
    BY <1>3, <2>1, <2>2
<1>7. ReportedAsSaved'
  BY <1>6 DEF ReportedAsSaved, MessageRight
<1> QED
  BY <1>1, <1>2, <1>3, <1>7 DEF FilesInv

\* What a run was that save_third_file ended, and what it may have left.
LEMMA SaveIs ==
  ASSUME NEW op, NEW k, NEW from, NEW img, NEW p, NEW made,
         Save(op, k, from, img, p, made)
  PROVE  \E content, run :
           /\ content \in {made[1], made[2]} \cup Scraps
           /\ disk' = disk \/ disk' = Put(p, content)
           /\ log' = Append(log, run)
           /\ run.op = op /\ run.key = k /\ run.from = from /\ run.img = img
           /\ run.out = p /\ run.made = made
           /\ run.written => Honest(run)
           /\ run.written /\ run.ok => content = made[2]
<1>1. PICK opened \in {"none", "payload", "all"}, written \in BOOLEAN :
        /\ opened = "payload" => made[1] = Empty \/ made[1] # made[2]
        /\ opened = "all" => made[1] # Empty
        /\ IF opened = "none" THEN UNCHANGED disk
           ELSE \E content \in IF ~written THEN Scraps
                               ELSE IF opened = "all" THEN {made[2]} ELSE {made[1]} :
                  disk' = Put(p, content)
        /\ Report(op, k, from, img, p, made, opened = "all", written)
  BY DEF Save
<1>2. PICK run : run = [op |-> op, key |-> k, from |-> from, img |-> img, out |-> p,
                        made |-> made, ok |-> (opened = "all"), written |-> written]
  OBVIOUS
<1>3. log' = Append(log, run)
  BY <1>1, <1>2 DEF Report
<1>4. /\ run.op = op /\ run.key = k /\ run.from = from /\ run.img = img /\ run.out = p
      /\ run.made = made /\ (run.ok <=> opened = "all") /\ (run.written <=> written)
  BY <1>2
<1>5. CASE opened = "none"
  <2>1. disk' = disk /\ ~run.ok
    BY <1>1, <1>4, <1>5
  <2> QED
    BY <1>3, <1>4, <2>1 DEF Honest
<1>6. CASE opened # "none"
  <2>1. PICK content \in IF ~written THEN Scraps
                         ELSE IF opened = "all" THEN {made[2]} ELSE {made[1]} :
               disk' = Put(p, content)
    BY <1>1, <1>6
  <2>2. content \in {made[1], made[2]} \cup Scraps
    BY <2>1
  <2>3. run.written => Honest(run) /\ (run.ok => content = made[2])
    BY <1>1, <1>4, <1>6, <2>1 DEF Honest
  <2> QED
    BY <1>3, <1>4, <2>1, <2>2, <2>3
<1> QED
  BY <1>5, <1>6

\* save_third_file and the message, for button_calc_seek and button_calc_aes256.
LEMMA SaveKeeps ==
  ASSUME FilesInv, NEW op, op # "hide", NEW k, NEW from, NEW img,
         NEW p, p \notin DOMAIN disk, NEW made,
         Save(op, k, from, img, p, made)
  PROVE  FilesInv' /\ Kept
<1>1. PICK content, run :
        /\ disk' = disk \/ disk' = Put(p, content)
        /\ log' = Append(log, run)
        /\ run.out = p
        /\ run.written => Honest(run)
  BY SaveIs
<1> QED
  BY <1>1, RunKeeps

-----------------------------------------------------------------------------
(* The buttons. *)

\* button_calc_aes256 writes one file under a free name, or none.
LEMMA AesKeeps ==
  ASSUME FilesInv, NEW p, NEW enc, NEW k, NEW typed, CalcAes256(p, enc, k, typed)
  PROVE  (FilesInv' /\ Kept) \/ UNCHANGED files
<1> DEFINE op == IF enc THEN "encrypt" ELSE "decrypt"
           out == Path(user, FreeStem(user, StemFor(typed, p.stem), p.ext), p.ext)
<1>1. out \notin DOMAIN disk
  BY FreeStemIsFree DEF FilesInv
<1>2. op # "hide"
  OBVIOUS
<1>3. UNCHANGED files \/ \E made : Save(op, k, p, NoPath, out, made)
  BY DEF CalcAes256
<1> HIDE DEF op, out
<1> QED
  BY <1>1, <1>2, <1>3, SaveKeeps

\* So does button_calc_seek, whatever it finds.
LEMMA SeekKeeps ==
  ASSUME FilesInv, NEW q, NEW dec, NEW k, NEW typed, CalcSeek(q, dec, k, typed)
  PROVE  (FilesInv' /\ Kept) \/ UNCHANGED files
<1> DEFINE key == IF dec THEN k ELSE NoToolKey
           Out(h) == Path(user, FreeStem(user, StemFor(typed, h.stem), h.ext), h.ext)
<1>1. \A h : Out(h) \notin DOMAIN disk
  BY FreeStemIsFree DEF FilesInv
<1>2. UNCHANGED files \/ \E h, made : Save("seek", key, NoPath, q, Out(h), made)
  BY DEF CalcSeek
<1> HIDE DEF key, Out
<1>3. CASE UNCHANGED files
  BY <1>3
<1>4. CASE \E h, made : Save("seek", key, NoPath, q, Out(h), made)
  <2>1. PICK h, made : Save("seek", key, NoPath, q, Out(h), made)
    BY <1>4
  <2>2. Out(h) \notin DOMAIN disk
    BY <1>1
  <2> QED
    BY <2>1, <2>2, SaveKeeps
<1> QED
  BY <1>2, <1>3, <1>4

\* button_calc_hide, too, also when it reports an image that was not written.
LEMMA HideKeeps ==
  ASSUME FilesInv, NEW p, NEW q, NEW enc, NEW k, NEW typed, CalcHide(p, q, enc, k, typed)
  PROVE  (FilesInv' /\ Kept) \/ UNCHANGED files
<1> DEFINE data == IF enc THEN Encrypted(disk[p], k) ELSE disk[p]
           out == Path(user, FreeStem(user, StemFor(typed, q.stem), Png), Png)
           content == [disk[q] EXCEPT !.hidden = Hidden(data, p)]
           Run(written) ==
             [op |-> "hide", key |-> (IF enc THEN k ELSE NoToolKey), from |-> p, img |-> q,
              out |-> out, made |-> <<>>, ok |-> TRUE, written |-> written]
<1>1. out \notin DOMAIN disk
  BY FreeStemIsFree DEF FilesInv
<1>2. \/ UNCHANGED files
      \/ \E written \in BOOLEAN :
           /\ disk' = disk \/ disk' = Put(out, content)
           /\ log' = Append(log, Run(written))
  BY DEF CalcHide, Report
<1>3. \A written : Run(written).op = "hide" /\ Run(written).out = out
  OBVIOUS
<1> HIDE DEF out, content, Run
<1> QED
  BY <1>1, <1>2, <1>3, RunKeeps

\* One document and one image at first, or none, and nothing reported.
LEMMA InitFilesInv == Init => FilesInv
<1> SUFFICES ASSUME Init PROVE FilesInv
  OBVIOUS
<1>1. IsFiniteSet(DOMAIN disk)
  <2>1. \A x, y : IsFiniteSet({x, y})
    <3> TAKE x, y
    <3>1. IsFiniteSet({x})
      BY FS_Singleton
    <3>2. IsFiniteSet({x} \cup {y})
      BY <3>1, FS_AddElement
    <3>3. {x, y} = {x} \cup {y}
      OBVIOUS
    <3> QED
      BY <3>2, <3>3
  <2>2. IsFiniteSet({})
    BY FS_EmptySet
  <2>3. DOMAIN disk = {} \/ \E x, y : DOMAIN disk = {x, y}
    BY DEF Init, InitFiles
  <2> QED
    BY <2>1, <2>2, <2>3
<1>2. log = <<>>
  BY DEF Init, InitFiles
<1> QED
  BY <1>1, <1>2 DEF FilesInv, LogTyped, ReportedAsSaved

\* Every button, and the changes of user, keep the files and the invariant.
LEMMA StepKeeps == FilesInv /\ [Next]_vars => FilesInv' /\ Kept
<1> SUFFICES ASSUME FilesInv, [Next]_vars PROVE FilesInv' /\ Kept
  OBVIOUS
<1>1. ASSUME UNCHANGED files PROVE FilesInv' /\ Kept
  BY <1>1 DEF files, FilesInv, LogTyped, ReportedAsSaved, Readable, Kept
<1>2. CASE NextFiles
  BY <1>1, <1>2, AesKeeps, HideKeeps, SeekKeeps DEF NextFiles, DecryptEnds, SeekEnds
<1>3. CASE UNCHANGED files
  BY <1>1, <1>3
<1> QED
  BY <1>2, <1>3 DEF Next, vars

-----------------------------------------------------------------------------
\* No file is ever changed or removed by a button of the tools, for any number of
\* runs, users and files: the search for a free name (check_non_exists_file and the
\* test before it) finds one that is not there.
THEOREM FilesKept == Spec => NothingOverwritten
<1>1. FilesInv /\ [Next]_vars => [Kept]_disk
  BY StepKeeps
<1> QED
  BY <1>1, InitFilesInv, StepKeeps, PTL DEF Spec, NothingOverwritten, Kept

\* The message of seek and aes256 is right about the output, also later, because no
\* later run touches it, with an open for each piece that may fail.  Of a run whose
\* writes fail nothing is claimed: the code does not notice it (save_third_file as
\* button_calc_seek and button_calc_aes256 call it).
THEOREM MessagesRight == Spec => []ReportedAsSaved
<1>1. FilesInv => ReportedAsSaved
  BY DEF FilesInv
<1> QED
  BY <1>1, InitFilesInv, StepKeeps, PTL DEF Spec

-----------------------------------------------------------------------------
(***************************************************************************)
(* What is found again.  A content may hide a content, which may hide      *)
(* another, as deep as runs of hide have made it: the invariant says that  *)
(* there is a set of contents that are records of the right form, and what *)
(* they hide is one of them.                                               *)
(***************************************************************************)
Marks == {"padding", "cut", "more"} \X Nat

AnyContent(O, K, H) == [of : O, behind : Seq(Marks), keys : K, len : Nat, hidden : H]

Shape(c) == \E O, K, H : c \in AnyContent(O, K, H)

Good(G, c) == Shape(c) /\ (c.hidden # <<>> => c.hidden[1].data \in G)

Formed(G) == \A c \in G : Good(G, c)

OnDisk(G) == Formed(G) /\ \A p \in DOMAIN disk : disk[p] \in G

ContentsInv == \E G : OnDisk(G)

\* What hide put into its image.
HiddenData(i) ==
  IF log[i].key = NoToolKey THEN disk[log[i].from] ELSE Encrypted(disk[log[i].from], log[i].key)

Untouched(i) == \A m \in (i + 1)..Len(log) : log[m].out # log[i].out

\* What a run had before it is there, and its output is what it made.
RunRight(i) ==
  /\ log[i].op = "seek" => log[i].img \in DOMAIN disk
  /\ log[i].op \in {"hide", "encrypt", "decrypt"} => log[i].from \in DOMAIN disk
  /\ log[i].op = "hide" /\ Untouched(i) /\ log[i].out \in DOMAIN disk =>
       disk[log[i].out].hidden = Hidden(HiddenData(i), log[i].from)
  /\ log[i].op = "encrypt" /\ log[i].ok /\ log[i].written =>
       disk[log[i].out] = Encrypted(disk[log[i].from], log[i].key)

\* What SeekRecovers and DecryptRecovers say of two runs.
SeekRight(i, j) ==
  /\ log[i].op = "hide" /\ log[j].op = "seek" /\ i < j /\ log[j].ok /\ log[j].written
  /\ log[j].img = log[i].out /\ log[j].key = log[i].key
  /\ Untouched(i)
  /\ ~NameUnsure(disk[log[i].out]) /\ Known(disk[log[i].from])
  => disk[log[j].out] = disk[log[i].from] /\ log[j].out.ext = log[i].from.ext

DecryptRight(i, j) ==
  /\ log[i].op = "encrypt" /\ log[j].op = "decrypt" /\ i < j
  /\ log[i].ok /\ log[j].ok /\ log[i].written /\ log[j].written
  /\ log[j].from = log[i].out /\ log[j].key = log[i].key
  /\ Known(disk[log[i].from])
  => disk[log[j].out] \in {disk[log[i].from], WithFinalBlock(disk[log[i].from])}

RecoverInv ==
  /\ user \in Users \cup {Nobody}
  /\ ContentsInv
  /\ \A i \in DOMAIN log : RunRight(i)
  /\ \A i, j \in DOMAIN log : SeekRight(i, j) /\ DecryptRight(i, j)

\* The set of contents grows.
LEMMA FormedGrows ==
  ASSUME NEW G, Formed(G), NEW c, Good(G, c)
  PROVE  Formed(G \cup {c})
BY DEF Formed, Good

\* The fields of a content.
LEMMA FieldsOf ==
  ASSUME NEW c, Shape(c)
  PROVE  c.behind \in Seq(Marks) /\ c.len \in Nat
BY DEF Shape, AnyContent

\* They say what it is.
LEMMA SameContent ==
  ASSUME NEW c, NEW d, Shape(c), Shape(d), c.of = d.of, c.behind = d.behind,
         c.keys = d.keys, c.len = d.len, c.hidden = d.hidden
  PROVE  c = d
<1>1. PICK O, K, H : c \in AnyContent(O, K, H)
  BY DEF Shape
<1>2. d \in AnyContent(O, K, H)
  <2>1. PICK P, L, I : d \in AnyContent(P, L, I)
    BY DEF Shape
  <2>2. c.of \in O /\ c.keys \in K /\ c.hidden \in H
    BY <1>1 DEF AnyContent
  <2> QED
    BY <2>1, <2>2 DEF AnyContent
<1> QED
  BY <1>1, <1>2 DEF AnyContent

\* An exclusive or changes nothing but the keys.
LEMMA FlipIs ==
  ASSUME NEW c, Shape(c), NEW k
  PROVE  /\ Shape(Flip(c, k))
         /\ Flip(c, k).hidden = c.hidden /\ Flip(c, k).behind = c.behind
         /\ Flip(c, k).len = c.len /\ Flip(c, k).of = c.of
         /\ Flip(c, k).keys = IF k \in c.keys THEN c.keys \ {k} ELSE c.keys \cup {k}
<1>1. PICK O, K, H : c \in AnyContent(O, K, H)
  BY DEF Shape
<1> DEFINE v == IF k \in c.keys THEN c.keys \ {k} ELSE c.keys \cup {k}
           L == K \cup {v}
<1>2. Flip(c, k) = [c EXCEPT !.keys = v]
  BY DEF Flip
<1>3. v \in L /\ c \in AnyContent(O, L, H)
  BY <1>1 DEF AnyContent
<1> HIDE DEF v, L
<1>4. Shape(Flip(c, k))
  BY <1>2, <1>3 DEF AnyContent, Shape
<1>5. /\ Flip(c, k).hidden = c.hidden /\ Flip(c, k).behind = c.behind
      /\ Flip(c, k).len = c.len /\ Flip(c, k).of = c.of /\ Flip(c, k).keys = v
  BY <1>2, <1>3 DEF AnyContent
<1> QED
  BY <1>4, <1>5 DEF v

\* Something is put behind a content.
LEMMA BehindIs ==
  ASSUME NEW c, Shape(c), NEW what \in {"padding", "cut", "more"}, NEW len \in Nat
  PROVE  LET d == AddBehind(c, what, len)
         IN  /\ Shape(d) /\ d.hidden = c.hidden /\ d.of = c.of /\ d.keys = c.keys /\ d.len = len
             /\ d.behind = Append(c.behind, <<what, c.len>>)
             /\ d.behind # <<>> /\ Len(d.behind) \in Nat \ {0}
             /\ d.behind[Len(d.behind)] = <<what, c.len>>
             /\ SubSeq(d.behind, 1, Len(d.behind) - 1) = c.behind
<1> DEFINE d == AddBehind(c, what, len)
           e == <<what, c.len>>
           b == Append(c.behind, e)
<1>1. c.behind \in Seq(Marks) /\ e \in Marks
  BY FieldsOf DEF Marks
<1>2. d = [c EXCEPT !.behind = b, !.len = len]
  BY DEF AddBehind
<1> HIDE DEF e, d
<1>3. /\ b \in Seq(Marks) /\ Len(b) = Len(c.behind) + 1 /\ Len(c.behind) \in Nat
      /\ b[Len(c.behind) + 1] = e
  BY <1>1, AppendProperties
<1>4. b # <<>> /\ SubSeq(b, 1, Len(c.behind)) = c.behind
  BY <1>1, AppendProperties
<1>5. Len(b) - 1 = Len(c.behind)
  BY <1>3
<1> HIDE DEF b
<1>6. /\ Shape(d) /\ d.hidden = c.hidden /\ d.of = c.of /\ d.keys = c.keys /\ d.len = len
      /\ d.behind = b
  <2>1. PICK O, K, H : c \in AnyContent(O, K, H)
    BY DEF Shape
  <2>2. d \in AnyContent(O, K, H)
    BY <1>2, <1>3, <2>1 DEF AnyContent
  <2>3. Shape(d)
    BY <2>2 DEF Shape
  <2> QED
    BY <1>2, <2>1, <2>3 DEF AnyContent
<1> QED
  BY <1>3, <1>4, <1>5, <1>6 DEF b, d, e

\* The bytes behind the whole blocks.
LEMMA RestIs ==
  ASSUME NEW c, Shape(c)
  PROVE  /\ Rest(c) \in 0..(Dim - 1) /\ c.len \in Nat /\ Dim \in Nat \ {0}
         /\ c.len + Dim - Rest(c) \in Nat /\ (c.len + Dim - Rest(c)) % Dim = 0
         /\ c.len + Rest(c) \in Nat
<1> DEFINE l == c.len
           r == l % Dim
           d == l \div Dim
<1>1. l \in Nat /\ Dim \in Nat \ {0}
  BY FilesAssumption, FieldsOf
<1> HIDE DEF l
<1>2. r \in 0..(Dim - 1) /\ d \in Nat /\ l = Dim * d + r
  BY <1>1
<1> HIDE DEF r, d
<1>3. l + Dim - r = Dim * (d + 1) /\ d + 1 \in Nat
  BY <1>1, <1>2
<1>4. (Dim * (d + 1)) % Dim = 0
  BY <1>1, <1>3
<1>5. l + Dim - r \in Nat /\ l + r \in Nat
  BY <1>1, <1>2
<1> QED
  BY <1>1, <1>2, <1>3, <1>4, <1>5 DEF Rest, l, r

\* What encrypt makes.
LEMMA EncryptedIs ==
  ASSUME NEW c, Shape(c), NEW k
  PROVE  /\ Shape(Encrypted(c, k)) /\ Encrypted(c, k).hidden = c.hidden
         /\ Rest(Encrypted(c, k)) = 0
<1>1. /\ Rest(c) \in 0..(Dim - 1) /\ c.len + Dim - Rest(c) \in Nat
      /\ (c.len + Dim - Rest(c)) % Dim = 0
  BY RestIs
<1>2. CASE Rest(c) = 0
  <2>1. Encrypted(c, k) = Flip(c, k)
    BY <1>2 DEF Encrypted
  <2>2. Flip(c, k).len = c.len /\ Shape(Flip(c, k)) /\ Flip(c, k).hidden = c.hidden
    BY FlipIs
  <2> QED
    BY <1>2, <2>1, <2>2 DEF Rest
<1>3. CASE Rest(c) # 0
  <2> DEFINE n == c.len + Dim - Rest(c)
             d == AddBehind(c, "padding", n)
  <2>1. Encrypted(c, k) = Flip(d, k)
    BY <1>3 DEF Encrypted
  <2>2. n \in Nat /\ n % Dim = 0
    BY <1>1
  <2> HIDE DEF n
  <2>3. Shape(d) /\ d.hidden = c.hidden /\ d.len = n
    BY <2>2, BehindIs
  <2> HIDE DEF d
  <2>4. Flip(d, k).len = d.len /\ Shape(Flip(d, k)) /\ Flip(d, k).hidden = d.hidden
    BY <2>3, FlipIs
  <2> QED
    BY <2>1, <2>2, <2>3, <2>4 DEF Rest
<1> QED
  BY <1>2, <1>3

\* And what of it is saved before the final block.
LEMMA BlocksAre ==
  ASSUME NEW c, Shape(c), NEW k
  PROVE  /\ Shape(EncryptedBlocks(c, k))
         /\ EncryptedBlocks(c, k).hidden = c.hidden
<1>1. CASE Rest(c) = 0
  BY <1>1, FlipIs DEF EncryptedBlocks
<1>2. CASE Rest(c) # 0
  <2> DEFINE n == c.len - Rest(c)
             d == AddBehind(c, "cut", n)
  <2>1. EncryptedBlocks(c, k) = Flip(d, k)
    BY <1>2 DEF EncryptedBlocks
  <2>2. n \in Nat
    <3>1. c.len \in Nat /\ Dim \in Nat \ {0}
      BY FieldsOf, FilesAssumption
    <3> QED
      BY <3>1 DEF Rest
  <2> HIDE DEF n
  <2>3. Shape(d) /\ d.hidden = c.hidden
    BY <2>2, BehindIs
  <2> HIDE DEF d
  <2>4. Shape(Flip(d, k)) /\ Flip(d, k).hidden = d.hidden
    BY <2>3, FlipIs
  <2> QED
    BY <2>1, <2>3, <2>4
<1> QED
  BY <1>1, <1>2

\* What decrypt makes, of any content.
LEMMA DecryptedIs ==
  ASSUME NEW G, NEW c, Good(G, c), NEW k, NEW x \in Decrypted(c, k)
  PROVE  Good(G, x)
<1> DEFINE t == Flip(c, k)
<1>1. Good(G, t)
  BY FlipIs DEF Good
<1>2. Good(G, Noise)
  <2>1. 2 * Dim \in Nat
    BY FilesAssumption
  <2>2. <<>> \in Seq(Marks)
    OBVIOUS
  <2>3. Noise \in AnyContent({"noise"}, {{}}, {<<>>})
    BY <2>1, <2>2 DEF Noise, Plain, AnyContent
  <2>4. Noise.hidden = <<>>
    BY DEF Noise, Plain
  <2> QED
    BY <2>3, <2>4 DEF Good, Shape
<1>3. CASE x \in {t, Noise}
  BY <1>1, <1>2, <1>3
<1>4. CASE x \notin {t, Noise}
  <2>1. EndsInPadding(t) /\ x = [t EXCEPT !.behind = SubSeq(@, 1, Len(@) - 1),
                                         !.len = t.behind[Len(t.behind)][2]]
    BY <1>4 DEF Decrypted
  <2> HIDE DEF t
  <2>2. t.behind \in Seq(Marks) /\ t.behind # <<>>
    BY <1>1, <2>1, FieldsOf DEF Good, EndsInPadding
  <2>3. Len(t.behind) \in 1..Len(t.behind) /\ Len(t.behind) \in Nat
    BY <2>2, EmptySeq
  <2>4. t.behind[Len(t.behind)] \in Marks
    BY <2>2, <2>3
  <2>5. t.behind[Len(t.behind)][2] \in Nat
    BY <2>4 DEF Marks
  <2> DEFINE s == SubSeq(t.behind, 1, Len(t.behind) - 1)
             n == t.behind[Len(t.behind)][2]
  <2>6. s \in Seq(Marks)
    <3>1. \A i \in 1..(Len(t.behind) - 1) : t.behind[i] \in Marks
      BY <2>2, <2>3
    <3> QED
      BY <2>3, <3>1, SubSeqProperties
  <2>7. x = [t EXCEPT !.behind = s, !.len = n]
    BY <2>1
  <2> HIDE DEF s, n
  <2> QED
    <3>0. PICK O, K, H : t \in AnyContent(O, K, H)
      BY <1>1 DEF Good, Shape
    <3>1. n \in Nat /\ x.hidden = t.hidden
      BY <2>5, <2>7, <3>0 DEF n, AnyContent
    <3>2. x \in AnyContent(O, K, H)
      BY <2>6, <2>7, <3>0, <3>1 DEF AnyContent
    <3>3. Shape(x)
      BY <3>2 DEF Shape
    <3> QED
      BY <1>1, <3>1, <3>3 DEF Good
<1> QED
  BY <1>3, <1>4

\* decrypt of what encrypt made, with the same key.
LEMMA EncryptUndone ==
  ASSUME NEW c, Shape(c), Known(c), NEW k
  PROVE  Decrypted(Encrypted(c, k), k) = {c}
<1>1. c.keys = {} /\ ~EndsInPadding(c)
  BY DEF Known
<1>2. Rest(Encrypted(c, k)) = 0
  BY EncryptedIs
<1>3. \A d : Shape(d) /\ d.keys = {} => Flip(Flip(d, k), k) = d
  <2> SUFFICES ASSUME NEW d, Shape(d), d.keys = {}
               PROVE  Flip(Flip(d, k), k) = d
    OBVIOUS
  <2> DEFINE e == Flip(d, k)
             f == Flip(e, k)
  <2>0. /\ Shape(e) /\ e.of = d.of /\ e.behind = d.behind /\ e.len = d.len /\ e.hidden = d.hidden
        /\ e.keys = IF k \in d.keys THEN d.keys \ {k} ELSE d.keys \cup {k}
    BY FlipIs
  <2>1. Shape(e) /\ e.of = d.of /\ e.behind = d.behind /\ e.len = d.len /\ e.hidden = d.hidden
        /\ e.keys = {k}
    BY <2>0
  <2> HIDE DEF e
  <2>2. /\ Shape(f) /\ f.of = e.of /\ f.behind = e.behind /\ f.len = e.len /\ f.hidden = e.hidden
        /\ f.keys = IF k \in e.keys THEN e.keys \ {k} ELSE e.keys \cup {k}
    BY <2>1, FlipIs
  <2> HIDE DEF f
  <2>4. f.keys = {}
    BY <2>1, <2>2
  <2>3. f = d
    BY <2>1, <2>2, <2>4, SameContent
  <2> QED
    BY <2>3 DEF e, f
<1>4. CASE Rest(c) = 0
  <2>1. Encrypted(c, k) = Flip(c, k)
    BY <1>4 DEF Encrypted
  <2>2. Flip(Encrypted(c, k), k) = c
    BY <1>1, <1>3, <2>1
  <2> QED
    BY <1>1, <1>2, <2>2 DEF Decrypted
<1>5. CASE Rest(c) # 0
  <2> DEFINE n == c.len + Dim - Rest(c)
             d == AddBehind(c, "padding", n)
  <2>1. Encrypted(c, k) = Flip(d, k)
    BY <1>5 DEF Encrypted
  <2>2. n \in Nat
    BY RestIs
  <2> HIDE DEF n
  <2>3. /\ Shape(d) /\ d.hidden = c.hidden /\ d.of = c.of /\ d.keys = c.keys
        /\ d.behind # <<>> /\ d.behind[Len(d.behind)] = <<"padding", c.len>>
        /\ SubSeq(d.behind, 1, Len(d.behind) - 1) = c.behind
    BY <2>2, BehindIs
  <2> HIDE DEF d
  <2>4. Flip(Encrypted(c, k), k) = d
    BY <1>1, <1>3, <2>1, <2>3
  <2>5. EndsInPadding(d)
    BY <2>3 DEF EndsInPadding
  <2>6. d.keys = {}
    BY <1>1, <2>3
  <2>7. Decrypted(Encrypted(c, k), k) =
          {[d EXCEPT !.behind = SubSeq(@, 1, Len(@) - 1), !.len = d.behind[Len(d.behind)][2]]}
    BY <1>2, <2>4, <2>5, <2>6 DEF Decrypted
  <2>8. [d EXCEPT !.behind = SubSeq(@, 1, Len(@) - 1), !.len = d.behind[Len(d.behind)][2]] = c
    <3> DEFINE s == SubSeq(d.behind, 1, Len(d.behind) - 1)
               n2 == d.behind[Len(d.behind)][2]
               x == [d EXCEPT !.behind = s, !.len = n2]
    <3>1. [d EXCEPT !.behind = SubSeq(@, 1, Len(@) - 1), !.len = d.behind[Len(d.behind)][2]] = x
      OBVIOUS
    <3>2. s = c.behind /\ n2 = c.len
      BY <2>3
    <3>3. PICK O, K, H : d \in AnyContent(O, K, H)
      BY <2>3 DEF Shape
    <3> HIDE DEF s, n2
    <3>4. c.behind \in Seq(Marks) /\ c.len \in Nat
      BY FieldsOf
    <3>5. /\ x.of = d.of /\ x.behind = s /\ x.keys = d.keys /\ x.len = n2 /\ x.hidden = d.hidden
          /\ x \in AnyContent(O, K, H)
      BY <3>2, <3>3, <3>4 DEF AnyContent
    <3>6. Shape(x)
      BY <3>5 DEF Shape
    <3> HIDE DEF x
    <3>7. x = c
      BY <2>3, <3>2, <3>5, <3>6, SameContent
    <3> QED
      BY <3>1, <3>7
  <2> QED
    BY <2>7, <2>8
<1> QED
  BY <1>4, <1>5

\* What aes256 saves behind a payload that decrypt shortened.
LEMMA FinalBlockIs ==
  ASSUME NEW G, NEW c, Good(G, c)
  PROVE  Good(G, WithFinalBlock(c))
<1>1. c.len + Rest(c) \in Nat
  BY RestIs DEF Good
<1>2. CASE Rest(c) = 0
  BY <1>2 DEF WithFinalBlock
<1>3. CASE Rest(c) # 0
  <2> DEFINE n == c.len + Rest(c)
             d == AddBehind(c, "more", n)
  <2>1. WithFinalBlock(c) = d
    BY <1>3 DEF WithFinalBlock
  <2>2. n \in Nat
    BY <1>1
  <2> HIDE DEF n
  <2>3. Shape(d) /\ d.hidden = c.hidden
    BY <2>2, BehindIs DEF Good
  <2> QED
    BY <2>1, <2>3 DEF Good
<1> QED
  BY <1>2, <1>3

\* What a run that is reported should write.
Made(run, content) ==
  /\ run.op = "seek" => run.img \in DOMAIN disk
  /\ run.op \in {"hide", "encrypt", "decrypt"} => run.from \in DOMAIN disk
  /\ run.op = "hide" /\ disk' # disk =>
       content.hidden = Hidden(IF run.key = NoToolKey THEN disk[run.from]
                               ELSE Encrypted(disk[run.from], run.key), run.from)
  /\ run.op = "encrypt" /\ run.ok /\ run.written =>
       disk' = Put(run.out, content) /\ content = Encrypted(disk[run.from], run.key)
  /\ run.op = "seek" /\ run.ok /\ run.written =>
       /\ disk' = Put(run.out, content)
       /\ \A i \in DOMAIN log :
            /\ log[i].op = "hide" /\ run.img = log[i].out /\ run.key = log[i].key
            /\ Untouched(i)
            /\ ~NameUnsure(disk[log[i].out]) /\ Known(disk[log[i].from])
            => content = disk[log[i].from] /\ run.out.ext = log[i].from.ext
  /\ run.op = "decrypt" /\ run.ok /\ run.written =>
       /\ disk' = Put(run.out, content)
       /\ \A i \in DOMAIN log :
            /\ log[i].op = "encrypt" /\ log[i].ok /\ log[i].written
            /\ run.from = log[i].out /\ run.key = log[i].key
            /\ Known(disk[log[i].from])
            => content \in {disk[log[i].from], WithFinalBlock(disk[log[i].from])}

\* A run that writes what it should under a free name keeps what the earlier ones wrote,
\* and what is to be found again in it.
LEMMA RunRecovers ==
  ASSUME FilesInv, RecoverInv, user' = user,
         NEW content, NEW run, run.out \notin DOMAIN disk,
         disk' = disk \/ disk' = Put(run.out, content),
         log' = Append(log, run),
         NEW G, OnDisk(G), Good(G, content), Made(run, content)
  PROVE  RecoverInv'
<1>0. PICK N : N = Len(log')
  OBVIOUS
<1>a. PICK p : p = run.out
  OBVIOUS
<1>b. /\ run.op = "seek" => run.img \in DOMAIN disk
      /\ run.op \in {"hide", "encrypt", "decrypt"} => run.from \in DOMAIN disk
      /\ run.op = "hide" /\ disk' # disk =>
           content.hidden = Hidden(IF run.key = NoToolKey THEN disk[run.from]
                                   ELSE Encrypted(disk[run.from], run.key), run.from)
      /\ run.op = "encrypt" /\ run.ok /\ run.written =>
           disk' = Put(p, content) /\ content = Encrypted(disk[run.from], run.key)
      /\ run.op = "seek" /\ run.ok /\ run.written =>
           /\ disk' = Put(p, content)
           /\ \A i \in DOMAIN log :
                /\ log[i].op = "hide" /\ run.img = log[i].out /\ run.key = log[i].key
                /\ Untouched(i)
                /\ ~NameUnsure(disk[log[i].out]) /\ Known(disk[log[i].from])
                => content = disk[log[i].from] /\ p.ext = log[i].from.ext
      /\ run.op = "decrypt" /\ run.ok /\ run.written =>
           /\ disk' = Put(p, content)
           /\ \A i \in DOMAIN log :
                /\ log[i].op = "encrypt" /\ log[i].ok /\ log[i].written
                /\ run.from = log[i].out /\ run.key = log[i].key
                /\ Known(disk[log[i].from])
                => content \in {disk[log[i].from], WithFinalBlock(disk[log[i].from])}
  BY <1>a DEF Made
<1>1. /\ \A q \in DOMAIN disk : q \in DOMAIN disk' /\ disk'[q] = disk[q]
      /\ \A q \in DOMAIN disk' : q \notin DOMAIN disk => q = p /\ disk' = Put(p, content)
      /\ disk' = Put(p, content) => p \in DOMAIN disk' /\ disk'[p] = content /\ disk' # disk
  BY <1>a DEF Put
<1>2. /\ Len(log) \in Nat /\ DOMAIN log = 1..Len(log)
      /\ N = Len(log) + 1 /\ DOMAIN log' = 1..N
      /\ \A i \in DOMAIN log : log'[i] = log[i]
      /\ log'[N] = run
  BY <1>0, LogGrows DEF FilesInv
<1>3. ContentsInv'
  <2>1. Formed(G \cup {content})
    BY FormedGrows DEF OnDisk
  <2>2. \A q \in DOMAIN disk' : disk'[q] \in G \cup {content}
    BY <1>1 DEF OnDisk
  <2> QED
    BY <2>1, <2>2 DEF ContentsInv, OnDisk
<1>4. \A i \in DOMAIN log : Untouched(i)' => Untouched(i) /\ p # log[i].out
  <2> SUFFICES ASSUME NEW i \in DOMAIN log, Untouched(i)'
               PROVE  Untouched(i) /\ p # log[i].out
    OBVIOUS
  <2>1. \A m \in (i + 1)..N : log'[m].out # log'[i].out
    BY <1>0 DEF Untouched
  <2>2. \A m \in (i + 1)..Len(log) : m \in (i + 1)..N /\ m \in DOMAIN log
    BY <1>2
  <2>3. N \in (i + 1)..N
    BY <1>2
  <2> QED
    BY <1>2, <1>a, <2>1, <2>2, <2>3 DEF Untouched
<1>5. ASSUME NEW i \in DOMAIN log
      PROVE  RunRight(i)'
  <2>1. RunRight(i) /\ log'[i] = log[i]
    BY <1>2 DEF RecoverInv
  <2>2. log[i].op \in {"hide", "encrypt", "decrypt"} =>
          log[i].from \in DOMAIN disk' /\ disk'[log[i].from] = disk[log[i].from]
    BY <1>1, <2>1 DEF RunRight
  <2>3. log[i].op = "seek" => log[i].img \in DOMAIN disk'
    BY <1>1, <2>1 DEF RunRight
  <2>4. ASSUME log[i].op = "hide", Untouched(i)', log[i].out \in DOMAIN disk'
        PROVE  disk'[log[i].out].hidden = Hidden(HiddenData(i)', log[i].from)
    <3>1. Untouched(i) /\ log[i].out \in DOMAIN disk
      BY <1>1, <1>4, <2>4
    <3>2. disk[log[i].out].hidden = Hidden(HiddenData(i), log[i].from)
      BY <2>1, <2>4, <3>1 DEF RunRight
    <3>3. HiddenData(i)' = HiddenData(i)
      BY <2>1, <2>2, <2>4 DEF HiddenData
    <3> QED
      BY <1>1, <3>1, <3>2, <3>3
  <2>5. ASSUME log[i].op = "encrypt", log[i].ok, log[i].written
        PROVE  disk'[log[i].out] = Encrypted(disk'[log[i].from], log[i].key)
    <3>1. log[i].out \in DOMAIN disk
      BY <2>5 DEF FilesInv, ReportedAsSaved
    <3> QED
      BY <1>1, <2>1, <2>2, <2>5, <3>1 DEF RunRight
  <2> QED
    BY <2>1, <2>2, <2>3, <2>4, <2>5 DEF RunRight
<1>6. RunRight(N)'
  <2>1. run.op = "seek" => run.img \in DOMAIN disk'
    BY <1>1, <1>b
  <2>2. run.op \in {"hide", "encrypt", "decrypt"} =>
          run.from \in DOMAIN disk' /\ disk'[run.from] = disk[run.from]
    BY <1>1, <1>b
  <2>3. ASSUME run.op = "hide", p \in DOMAIN disk'
        PROVE  disk'[p].hidden = Hidden(HiddenData(N)', run.from)
    <3>0. p \notin DOMAIN disk
      BY <1>a
    <3>1. disk' = Put(p, content) /\ disk' # disk /\ disk'[p] = content
      BY <1>1, <2>3, <3>0
    <3>2. HiddenData(N)' = IF run.key = NoToolKey THEN disk[run.from]
                           ELSE Encrypted(disk[run.from], run.key)
      BY <1>2, <2>2, <2>3 DEF HiddenData
    <3> QED
      BY <1>b, <2>3, <3>1, <3>2
  <2>4. ASSUME run.op = "encrypt", run.ok, run.written
        PROVE  disk'[p] = Encrypted(disk'[run.from], run.key)
    BY <1>1, <1>b, <2>2, <2>4
  <2> QED
    BY <1>2, <1>a, <2>1, <2>2, <2>3, <2>4 DEF RunRight
<1>7. ASSUME NEW i \in DOMAIN log', NEW j \in DOMAIN log'
      PROVE  SeekRight(i, j)'
  <2> SUFFICES ASSUME log'[i].op = "hide", log'[j].op = "seek", i < j,
                      log'[j].ok, log'[j].written, log'[j].img = log'[i].out, log'[j].key = log'[i].key,
                      Untouched(i)',
                      ~NameUnsure(disk'[log'[i].out]), Known(disk'[log'[i].from])
               PROVE  disk'[log'[j].out] = disk'[log'[i].from] /\ log'[j].out.ext = log'[i].from.ext
    BY DEF SeekRight
  <2>1. i \in DOMAIN log /\ log'[i] = log[i] /\ Untouched(i)
    BY <1>2, <1>4
  <2>2. log[i].from \in DOMAIN disk /\ disk'[log[i].from] = disk[log[i].from]
    BY <1>1, <2>1 DEF RecoverInv, RunRight
  <2>3. CASE j \in DOMAIN log
    <3>1. log'[j] = log[j] /\ RunRight(j) /\ SeekRight(i, j)
      BY <1>2, <2>1, <2>3 DEF RecoverInv
    <3>2. log[i].out \in DOMAIN disk
      BY <2>1, <3>1 DEF RunRight
    <3>3. log[j].out \in DOMAIN disk
      BY <2>3, <3>1 DEF FilesInv, ReportedAsSaved
    <3>4. disk'[log[i].out] = disk[log[i].out] /\ disk'[log[j].out] = disk[log[j].out]
      BY <1>1, <3>2, <3>3
    <3> QED
      BY <2>1, <2>2, <3>1, <3>4 DEF SeekRight
  <2>4. CASE j = N
    <3>1. log'[j] = run
      BY <1>2, <2>4
    <3>2. run.op = "seek" /\ run.ok /\ run.written /\ run.img = log[i].out /\ run.key = log[i].key
      BY <2>1, <3>1
    <3>3. disk'[log[i].out] = disk[log[i].out]
      BY <1>1, <1>b, <3>2
    <3>4. content = disk[log[i].from] /\ p.ext = log[i].from.ext
      BY <1>b, <2>1, <2>2, <3>2, <3>3
    <3> QED
      BY <1>1, <1>b, <1>a, <2>1, <2>2, <3>1, <3>2, <3>4
  <2> QED
    BY <1>2, <2>3, <2>4
<1>8. ASSUME NEW i \in DOMAIN log', NEW j \in DOMAIN log'
      PROVE  DecryptRight(i, j)'
  <2> SUFFICES ASSUME log'[i].op = "encrypt", log'[j].op = "decrypt", i < j,
                      log'[i].ok, log'[j].ok, log'[i].written, log'[j].written,
                      log'[j].from = log'[i].out, log'[j].key = log'[i].key,
                      Known(disk'[log'[i].from])
               PROVE  disk'[log'[j].out] \in {disk'[log'[i].from], WithFinalBlock(disk'[log'[i].from])}
    BY DEF DecryptRight
  <2>1. i \in DOMAIN log /\ log'[i] = log[i]
    BY <1>2
  <2>2. log[i].from \in DOMAIN disk /\ disk'[log[i].from] = disk[log[i].from]
    BY <1>1, <2>1 DEF RecoverInv, RunRight
  <2>3. CASE j \in DOMAIN log
    <3>1. log'[j] = log[j] /\ DecryptRight(i, j)
      BY <1>2, <2>1, <2>3 DEF RecoverInv
    <3>2. log[j].out \in DOMAIN disk
      BY <2>3, <3>1 DEF FilesInv, ReportedAsSaved
    <3> QED
      BY <1>1, <2>1, <2>2, <3>1, <3>2 DEF DecryptRight
  <2>4. CASE j = N
    <3>1. log'[j] = run
      BY <1>2, <2>4
    <3>2. content \in {disk[log[i].from], WithFinalBlock(disk[log[i].from])} /\ disk'[p] = content
      BY <1>1, <1>b, <2>1, <2>2, <3>1
    <3> QED
      BY <1>a, <2>1, <2>2, <3>1, <3>2
  <2> QED
    BY <1>2, <2>3, <2>4
<1>9. \A i \in DOMAIN log' : RunRight(i)'
  BY <1>2, <1>5, <1>6
<1> QED
  BY <1>3, <1>7, <1>8, <1>9 DEF RecoverInv

\* The key of a tool is a password, which is not the sign for no key.
LEMMA KeyIsPassword ==
  ASSUME RecoverInv, NEW k \in ToolKeys
  PROVE  k # NoToolKey
BY FilesAssumption DEF RecoverInv, ToolKeys

\* A file of its own, an empty one and noise are contents that hide nothing.
LEMMA PlainIsGood ==
  ASSUME NEW G
  PROVE  /\ \A name, len : len \in Nat => Good(G, Plain(name, len))
         /\ Good(G, Empty) /\ Good(G, Noise)
         /\ \A scrap \in Scraps : Good(G, scrap)
<1>1. \A name, len : len \in Nat => Good(G, Plain(name, len))
  <2> SUFFICES ASSUME NEW name, NEW len \in Nat
               PROVE  Good(G, Plain(name, len))
    OBVIOUS
  <2>1. <<>> \in Seq(Marks)
    OBVIOUS
  <2>2. Plain(name, len) \in AnyContent({name}, {{}}, {<<>>})
    BY <2>1 DEF Plain, AnyContent
  <2>3. Plain(name, len).hidden = <<>>
    BY DEF Plain
  <2> QED
    BY <2>2, <2>3 DEF Good, Shape
<1>2. 2 * Dim \in Nat /\ ScrapLens \subseteq Nat
  BY FilesAssumption
<1> QED
  BY <1>1, <1>2 DEF Empty, Noise, Scraps

\* button_calc_aes256 writes what it should.
LEMMA AesRecovers ==
  ASSUME FilesInv, RecoverInv, NEW p, NEW enc \in BOOLEAN, NEW k, NEW typed,
         CalcAes256(p, enc, k, typed)
  PROVE  RecoverInv' \/ (UNCHANGED files /\ user' = user)
<1> DEFINE op == IF enc THEN "encrypt" ELSE "decrypt"
           out == Path(user, FreeStem(user, StemFor(typed, p.stem), p.ext), p.ext)
<1>1. user' = user /\ (~Readable(p) => UNCHANGED files)
  BY DEF CalcAes256, Press
<1>2. out \notin DOMAIN disk
  BY FreeStemIsFree DEF FilesInv
<1>3. ASSUME Readable(p)
      PROVE  RecoverInv'
  <2>1. PICK made \in Results(disk[p], enc, k) : Save(op, k, p, NoPath, out, made)
    BY <1>3 DEF CalcAes256
  <2> HIDE DEF op, out
  <2>2. PICK G : OnDisk(G)
    BY DEF RecoverInv, ContentsInv
  <2>3. p \in DOMAIN disk /\ Good(G, disk[p])
    BY <1>3, <2>2 DEF Readable, OnDisk, Formed
  <2>4. Good(G, made[1]) /\ Good(G, made[2])
    <3>1. CASE made = <<Empty, Empty>>
      BY <3>1, PlainIsGood
    <3>2. CASE made = <<EncryptedBlocks(disk[p], k), Encrypted(disk[p], k)>>
      BY <2>3, <3>2, EncryptedIs, BlocksAre DEF Good
    <3>3. ASSUME NEW x \in Decrypted(disk[p], k), made = <<x, WithFinalBlock(x)>>
          PROVE  Good(G, made[1]) /\ Good(G, made[2])
      <4>1. Good(G, x)
        BY <2>3, <3>3, DecryptedIs
      <4> QED
        BY <3>3, <4>1, FinalBlockIs
    <3> QED
      BY <2>1, <3>1, <3>2, <3>3 DEF Results
  <2>5. PICK content, run :
          /\ content \in {made[1], made[2]} \cup Scraps
          /\ disk' = disk \/ disk' = Put(out, content)
          /\ log' = Append(log, run)
          /\ run.op = op /\ run.key = k /\ run.from = p /\ run.out = out /\ run.made = made
          /\ run.written => Honest(run)
          /\ run.written /\ run.ok => content = made[2]
    BY <2>1, SaveIs
  <2>6. Good(G, content)
    BY <2>4, <2>5, PlainIsGood
  <2>7. run.ok /\ run.written => /\ disk' = Put(out, content) /\ content = made[2]
                                 /\ made[1] # Empty
    BY <2>5 DEF Honest
  <2>8. op \in {"encrypt", "decrypt"} /\ (op = "encrypt" <=> enc)
    BY DEF op
  <2>9. ASSUME op = "encrypt", run.ok, run.written
        PROVE  content = Encrypted(disk[p], k)
    BY <2>1, <2>7, <2>8, <2>9 DEF Results
  <2>10. ASSUME op = "decrypt", run.ok, run.written,
                NEW i \in DOMAIN log, log[i].op = "encrypt", log[i].ok, log[i].written,
                p = log[i].out, k = log[i].key, Known(disk[log[i].from])
         PROVE  content = WithFinalBlock(disk[log[i].from])
    <3>1. log[i].from \in DOMAIN disk /\ disk[p] = Encrypted(disk[log[i].from], k)
      BY <2>10 DEF RecoverInv, RunRight
    <3>2. Shape(disk[log[i].from])
      BY <2>2, <3>1 DEF OnDisk, Formed, Good
    <3>3. Decrypted(disk[p], k) = {disk[log[i].from]}
      BY <2>10, <3>1, <3>2, EncryptUndone
    <3>4. made \in {<<payload, WithFinalBlock(payload)>> : payload \in Decrypted(disk[p], k)}
      BY <2>1, <2>7, <2>8, <2>10 DEF Results
    <3> QED
      BY <2>7, <2>10, <3>3, <3>4
  <2>11. Made(run, content)
    BY <2>3, <2>5, <2>7, <2>8, <2>9, <2>10 DEF Made
  <2>12. run.out \notin DOMAIN disk /\ (disk' = disk \/ disk' = Put(run.out, content))
    BY <1>2, <2>5
  <2> QED
    BY <1>1, <2>2, <2>5, <2>6, <2>11, <2>12, RunRecovers
<1> QED
  BY <1>1, <1>3

\* What a later run of seek finds is what hide put there, when no run wrote over the
\* image and the length of the name is read as it was written.  (seek_file, and
\* button_calc_seek, which decrypts what it found)
LEMMA HiddenIsFound ==
  ASSUME RecoverInv, NEW q \in DOMAIN disk, NEW h \in Found(disk[q]), h # Nothing,
         NEW i \in DOMAIN log, log[i].op = "hide", q = log[i].out, Untouched(i),
         ~NameUnsure(disk[q])
  PROVE  /\ log[i].from \in DOMAIN disk
         /\ h.data = HiddenData(i) /\ h.ext = log[i].from.ext
<1>1. log[i].from \in DOMAIN disk /\ disk[q].hidden = Hidden(HiddenData(i), log[i].from)
  BY DEF RecoverInv, RunRight
<1> DEFINE data == HiddenData(i)
           from == log[i].from
           e == [data |-> data, stem |-> from.stem, ext |-> from.ext, bytes |-> Payload(data, from)]
           n == disk[q].hidden
<1> HIDE DEF data, from
<1>2. n = <<e>>
  BY <1>1 DEF Hidden, data, from
<1>3. e.data = data /\ e.ext = from.ext
  OBVIOUS
<1> HIDE DEF e
<1>4. n # <<>> /\ n[1] = e
  BY <1>2
<1>5. h = [data |-> n[1].data, stem |-> n[1].stem, ext |-> n[1].ext]
  BY <1>4 DEF Found, HiddenIn
<1> HIDE DEF n
<1>6. h.data = data /\ h.ext = from.ext
  BY <1>3, <1>4, <1>5
<1> QED
  BY <1>1, <1>6 DEF data, from

\* button_calc_seek writes what it should.
LEMMA SeekButtonRecovers ==
  ASSUME FilesInv, RecoverInv, NEW q \in ImagesToChoose, NEW dec \in BOOLEAN, NEW k,
         k # NoToolKey, NEW typed, CalcSeek(q, dec, k, typed)
  PROVE  RecoverInv' \/ (UNCHANGED files /\ user' = user)
<1> DEFINE key == IF dec THEN k ELSE NoToolKey
<1>1. user' = user /\ (q = NoPath => UNCHANGED files)
  BY DEF CalcSeek, Press
<1>2. ASSUME q # NoPath
      PROVE  RecoverInv'
  <2>1. q \in DOMAIN disk
    BY <1>2 DEF ImagesToChoose
  <2>2. PICK h \in Found(disk[q]) :
          /\ ~(dec /\ h = Nothing)
          /\ \E content \in Extracted(h.data, dec, k) :
               Save("seek", IF dec THEN k ELSE NoToolKey, NoPath, q,
                    Path(user, FreeStem(user, StemFor(typed, h.stem), h.ext), h.ext),
                    <<content, content>>)
    BY <1>2 DEF CalcSeek
  <2> DEFINE out == Path(user, FreeStem(user, StemFor(typed, h.stem), h.ext), h.ext)
  <2>3. out \notin DOMAIN disk
    BY FreeStemIsFree DEF FilesInv
  <2>a. out.ext = h.ext
    BY DEF Path
  <2>4. PICK content \in Extracted(h.data, dec, k) : 
        Save("seek", key, NoPath, q, out, <<content, content>>)
    BY <2>2
  <2> HIDE DEF key, out
  <2>5. PICK G : OnDisk(G)
    BY DEF RecoverInv, ContentsInv
  <2>6. Good(G, disk[q])
    BY <2>1, <2>5 DEF OnDisk, Formed
  <2>7. Good(G, h.data)
    <3>1. CASE h \in {Nothing, NoiseFound, NoiseName}
      <4>1. Nothing.data = Empty /\ NoiseFound.data = Noise /\ NoiseName.data = Empty
        BY DEF Nothing, NoiseFound, NoiseName
      <4> QED
        BY <3>1, <4>1, PlainIsGood
    <3>2. CASE h \notin {Nothing, NoiseFound, NoiseName}
      <4>1. disk[q].hidden # <<>> /\ h.data = disk[q].hidden[1].data
        BY <3>2 DEF Found, HiddenIn
      <4> QED
        BY <2>5, <2>6, <4>1 DEF OnDisk, Formed, Good
    <3> QED
      BY <3>1, <3>2
  <2>8. Good(G, content)
    BY <2>7, PlainIsGood, DecryptedIs DEF Extracted
  <2> DEFINE made == <<content, content>>
  <2>b. made[1] = content /\ made[2] = content
    OBVIOUS
  <2>c. Save("seek", key, NoPath, q, out, made)
    BY <2>4
  <2> HIDE DEF made
  <2>9. PICK left, run :
          /\ left \in {made[1], made[2]} \cup Scraps
          /\ disk' = disk \/ disk' = Put(out, left)
          /\ log' = Append(log, run)
          /\ run.op = "seek" /\ run.key = key /\ run.img = q /\ run.out = out /\ run.made = made
          /\ run.written => Honest(run)
          /\ run.written /\ run.ok => left = made[2]
    BY <2>c, SaveIs
  <2>10. Good(G, left)
    BY <2>8, <2>b, <2>9, PlainIsGood
  <2>12. run.ok /\ run.written => disk' = Put(out, content) /\ left = content /\ content # Empty
    BY <2>b, <2>9 DEF Honest
  <2>14. ASSUME run.ok, run.written,
                NEW i \in DOMAIN log, log[i].op = "hide", q = log[i].out, key = log[i].key,
                Untouched(i), ~NameUnsure(disk[log[i].out]), Known(disk[log[i].from])
         PROVE  content = disk[log[i].from] /\ out.ext = log[i].from.ext
    <3>1. content # Empty
      BY <2>12, <2>14
    <3>2. h # Nothing
      <4>1. Nothing.data = Empty
        BY DEF Nothing
      <4> QED
        BY <2>2, <2>4, <3>1, <4>1 DEF Extracted
    <3>3. /\ log[i].from \in DOMAIN disk
          /\ h.data = HiddenData(i) /\ h.ext = log[i].from.ext
      BY <2>1, <2>14, <3>2, HiddenIsFound
    <3>4. Shape(disk[log[i].from])
      BY <2>5, <3>3 DEF OnDisk, Formed, Good
    <3>5. CASE dec
      <4>1. h.data = Encrypted(disk[log[i].from], k)
        BY <2>14, <3>3, <3>5 DEF HiddenData, key
      <4>2. content \in Decrypted(h.data, k)
        BY <2>4, <3>1, <3>5 DEF Extracted
      <4>3. Decrypted(h.data, k) = {disk[log[i].from]}
        BY <2>14, <3>4, <4>1, EncryptUndone
      <4> QED
        BY <2>a, <3>3, <4>2, <4>3
    <3>6. CASE ~dec
      <4>1. h.data = disk[log[i].from]
        BY <2>14, <3>3, <3>6 DEF HiddenData, key
      <4> QED
        BY <2>4, <2>a, <3>3, <3>6, <4>1 DEF Extracted
    <3> QED
      BY <3>5, <3>6
  <2>15. Made(run, left)
    BY <2>1, <2>9, <2>12, <2>14 DEF Made
  <2>16. run.out \notin DOMAIN disk /\ (disk' = disk \/ disk' = Put(run.out, left))
    BY <2>3, <2>9
  <2> QED
    BY <1>1, <2>5, <2>9, <2>10, <2>15, <2>16, RunRecovers
<1> QED
  BY <1>1, <1>2

\* So does button_calc_hide, when the image is written at all.
LEMMA HideButtonRecovers ==
  ASSUME FilesInv, RecoverInv, NEW p, NEW q \in ImagesToChoose, NEW enc \in BOOLEAN, NEW k,
         k # NoToolKey, NEW typed, CalcHide(p, q, enc, k, typed)
  PROVE  RecoverInv' \/ (UNCHANGED files /\ user' = user)
<1> DEFINE key == IF enc THEN k ELSE NoToolKey
           data == IF enc THEN Encrypted(disk[p], k) ELSE disk[p]
           out == Path(user, FreeStem(user, StemFor(typed, q.stem), Png), Png)
           content == [disk[q] EXCEPT !.hidden = Hidden(data, p)]
           Run(written) ==
             [op |-> "hide", key |-> key, from |-> p, img |-> q, out |-> out, made |-> <<>>,
              ok |-> TRUE, written |-> written]
<1>1. user' = user /\ (~Readable(p) \/ q = NoPath => UNCHANGED files)
  BY DEF CalcHide, Press
<1>2. ASSUME Readable(p), q # NoPath
      PROVE  RecoverInv'
  <2>1. q \in DOMAIN disk /\ p \in DOMAIN disk
    BY <1>2 DEF ImagesToChoose, Readable
  <2>2. out \notin DOMAIN disk
    BY FreeStemIsFree DEF FilesInv
  <2>3. disk' = disk \/ disk' = Put(out, content)
    BY <1>2 DEF CalcHide
  <2>4. \E written : log' = Append(log, Run(written))
    BY <1>2 DEF CalcHide, Report
  <2>5. PICK run : /\ log' = Append(log, run)
                   /\ run.op = "hide" /\ run.key = key /\ run.from = p /\ run.out = out
    BY <2>4
  <2>6. data = IF key = NoToolKey THEN disk[p] ELSE Encrypted(disk[p], key)
    OBVIOUS
  <2>7. PICK G : OnDisk(G)
    BY DEF RecoverInv, ContentsInv
  <2>8. Good(G, disk[q]) /\ Good(G, disk[p])
    BY <2>1, <2>7 DEF OnDisk, Formed
  <2>9. Good(G, data)
    BY <2>8, EncryptedIs DEF Good
  <2> HIDE DEF key, data, out
  <2> DEFINE K == G \cup {data}
             e == [data |-> data, stem |-> p.stem, ext |-> p.ext, bytes |-> Payload(data, p)]
  <2>10. OnDisk(K)
    BY <2>7, <2>9, FormedGrows DEF OnDisk
  <2>11. e.data = data
    OBVIOUS
  <2>12. Hidden(data, p) = <<e>>
    BY DEF Hidden
  <2> HIDE DEF e
  <2>13. <<e>> # <<>> /\ <<e>>[1] = e
    OBVIOUS
  <2>14. PICK O, L, H : disk[q] \in AnyContent(O, L, H)
    BY <2>8 DEF Good, Shape
  <2>15. content = [disk[q] EXCEPT !.hidden = <<e>>]
    BY <2>12
  <2>16. content \in AnyContent(O, L, H \cup {<<e>>}) /\ content.hidden = <<e>>
    BY <2>14, <2>15 DEF AnyContent
  <2> HIDE DEF content
  <2>17. Good(K, content)
    BY <2>11, <2>13, <2>16 DEF Good, Shape
  <2>18. content.hidden = Hidden(IF key = NoToolKey THEN disk[p] ELSE Encrypted(disk[p], key), p)
    BY <2>6, <2>12, <2>16
  <2>19. Made(run, content)
    BY <2>1, <2>5, <2>18 DEF Made
  <2>20. run.out \notin DOMAIN disk /\ (disk' = disk \/ disk' = Put(run.out, content))
    BY <2>2, <2>3, <2>5
  <2> HIDE DEF K
  <2> QED
    BY <1>1, <2>5, <2>10, <2>17, <2>19, <2>20, RunRecovers
<1> QED
  BY <1>1, <1>2

\* At first there are plain files only, and nothing is reported.
LEMMA InitRecoverInv == Init => RecoverInv
<1> SUFFICES ASSUME Init PROVE RecoverInv
  OBVIOUS
<1>1. user = Nobody /\ log = <<>>
  BY DEF Init, InitFiles
<1>2. DOMAIN log = {}
  BY <1>1
<1>3. PICK start \in Starts :
        disk = [p \in IF tab = "files"
                      THEN {Path(start[1].dir, Named(start[1].name), Txt),
                            Path(start[2].dir, Named(start[2].name), Png)}
                      ELSE {} |->
                  IF p.ext = Txt THEN Plain(start[1].name, start[1].len)
                  ELSE Plain(start[2].name, ImageLen)]
  BY DEF Init, InitFiles
<1> DEFINE G == {Plain(start[1].name, start[1].len), Plain(start[2].name, ImageLen)}
<1>4. start[1].len \in Nat /\ ImageLen \in Nat
  BY FilesAssumption DEF ImageLen
<1>5. \A name, len : len \in Nat => Good(G, Plain(name, len))
  BY PlainIsGood
<1>6. Formed(G)
  BY <1>4, <1>5 DEF Formed
<1>7. OnDisk(G)
  BY <1>3, <1>6 DEF OnDisk
<1>8. ContentsInv
  BY <1>7 DEF ContentsInv
<1> QED
  BY <1>1, <1>2, <1>8 DEF RecoverInv

\* Every button, and the changes of user, keep what is to be found again.
LEMMA StepRecovers == FilesInv /\ RecoverInv /\ [Next]_vars => RecoverInv'
<1> SUFFICES ASSUME FilesInv, RecoverInv, [Next]_vars PROVE RecoverInv'
  OBVIOUS
<1>1. ASSUME UNCHANGED files, user' \in Users \cup {Nobody} PROVE RecoverInv'
  BY <1>1 DEF files, RecoverInv, ContentsInv, OnDisk, RunRight, SeekRight, DecryptRight,
              HiddenData, Untouched
<1>2. user \in Users \cup {Nobody}
  BY DEF RecoverInv
<1>3. ASSUME NEW u \in Users, Login(u), UNCHANGED files PROVE RecoverInv'
  BY <1>1, <1>3 DEF Login
<1>4. CASE Back /\ UNCHANGED files
  BY <1>1, <1>4 DEF Back
<1>5. CASE NextFiles
  <2>1. ASSUME NEW p \in ToChoose, NEW q \in ImagesToChoose, NEW typed \in OutNames,
               NEW with \in BOOLEAN, NEW k \in ToolKeys,
               \/ CalcAes256(p, with, k, typed)
               \/ CalcHide(p, q, with, k, typed)
               \/ CalcSeek(q, with, k, typed)
        PROVE  RecoverInv'
    <3>1. k # NoToolKey
      BY KeyIsPassword
    <3>2. RecoverInv' \/ (UNCHANGED files /\ user' = user)
      BY <2>1, <3>1, AesRecovers, HideButtonRecovers, SeekButtonRecovers
    <3> QED
      BY <1>1, <1>2, <3>2
  <2>2. ASSUME NEW p, NEW k, DecryptEnds(p, k) PROVE RecoverInv'
    BY <1>1, <1>2, <2>2 DEF DecryptEnds, Press
  <2>3. ASSUME NEW q, NEW k, SeekEnds(q, k) PROVE RecoverInv'
    BY <1>1, <1>2, <2>3 DEF SeekEnds, Press
  <2> QED
    BY <1>5, <2>1, <2>2, <2>3 DEF NextFiles
<1>6. CASE NextTexts /\ UNCHANGED files
  BY <1>1, <1>2, <1>6
     DEF NextTexts, PasteOutput, ChooseFile, CalcB64, CalcB64File, CalcB64FileEnds, CalcSha256,
         CalcSha256File, Press, session
<1>7. CASE NextKeys /\ UNCHANGED files
  BY <1>1, <1>2, <1>7 DEF NextKeys, CalcHalfKey, CalcKey, Press
<1>8. CASE UNCHANGED vars
  BY <1>1, <1>2, <1>8 DEF vars, session, files
<1> QED
  BY <1>3, <1>4, <1>5, <1>6, <1>7, <1>8 DEF Next, files

-----------------------------------------------------------------------------
\* A file that was hidden is found again byte by byte and with its extension, whatever
\* runs of whatever users were between hide and seek, encrypted or not, for every size
\* of block and every image.  Excluded are the lengths for which the length of the name
\* is unsure (NameUnsure: a multiple of three bytes, or a last byte that starts in the
\* last column), a file that ends in a padding or is encrypted already (Known), and runs
\* whose writes fail (hide_file, seek_file, encrypt and decrypt as button_calc_hide and
\* button_calc_seek call them).
THEOREM SeekFindsAgain == Spec => []SeekRecovers
<1>1. RecoverInv => SeekRecovers
  BY DEF RecoverInv, SeekRecovers, SeekRight, Untouched
<1> QED
  BY <1>1, InitFilesInv, InitRecoverInv, StepKeeps, StepRecovers, PTL DEF Spec

\* A file that was encrypted is decrypted to what it was, but for the bytes of the last
\* block that stay behind it when it was no whole number of blocks, unless it ended in a
\* padding or was encrypted already (Known), or a write fails (button_calc_aes256, once
\* with encrypt and once with decrypt).
THEOREM DecryptFindsAgain == Spec => []DecryptRecovers
<1>1. RecoverInv => DecryptRecovers
  BY DEF RecoverInv, DecryptRecovers, DecryptRight
<1> QED
  BY <1>1, InitFilesInv, InitRecoverInv, StepKeeps, StepRecovers, PTL DEF Spec

-----------------------------------------------------------------------------
(* Powers of a number, by the rest they leave. *)

\* What is known of Q.
LEMMA PrimeIs ==
  /\ Q \in Nat /\ Q > 2 /\ Alpha \in 2..(Q - 1)
  /\ \A d \in 2..(Q - 1) : Q % d # 0
  /\ DigitBits \in Nat \ {0} /\ Chars \in Nat \ {0} /\ Words \in Nat \ {0}
  /\ WordBits \in Nat \ {0} /\ WordBits = DigitBits * Chars /\ Q < 2^WordBits
BY PrimeAssumption DEF WordBits

\* f[k] is the k-th power of Y, up to the n-th.
Powers(Y, n, f) ==
  /\ f \in [0..n -> 0..(Q - 1)] /\ f[0] = 1
  /\ \A k \in 1..n : f[k] = (f[k - 1] * Y) % Q

\* There are such powers.
LEMMA PowersExist ==
  ASSUME NEW Y \in Nat, NEW n \in Nat
  PROVE  \E f : Powers(Y, n, f)
<1> DEFINE A == 0..(Q - 1)
           step == [k \in 1..n |-> [t \in A |-> (t * Y) % Q]]
<1>1. 1 \in A
  BY PrimeIs
<1>2. step \in [1..n -> [A -> A]]
  <2>1. ASSUME NEW t \in A PROVE (t * Y) % Q \in A
    <3>1. PICK p \in Nat : p = t * Y
      BY PrimeIs
    <3>2. p % Q \in A
      BY PrimeIs
    <3> QED
      BY <3>1, <3>2
  <2> HIDE DEF A
  <2> QED
    BY <2>1
<1>3. PICK f : GoesOn(n, A, 1, step, f)
  <2> HIDE DEF A, step
  <2> QED
    BY <1>1, <1>2, GoingOn
<1>4. f \in [0..n -> A] /\ f[0] = 1 /\ \A k \in 1..n : f[k] = step[k][f[k - 1]]
  <2> HIDE DEF A, step
  <2> QED
    BY <1>3 DEF GoesOn
<1>5. ASSUME NEW k \in 1..n PROVE f[k] = (f[k - 1] * Y) % Q
  <2>1. k - 1 \in 0..n
    OBVIOUS
  <2>2. f[k - 1] \in A
    BY <1>4, <2>1
  <2> QED
    BY <1>4, <2>2
<1>6. Powers(Y, n, f)
  BY <1>4, <1>5 DEF Powers
<1> QED
  BY <1>6

\* The exponents of two powers that are multiplied are added.
LEMMA PowersAdd ==
  ASSUME NEW Y \in Nat, NEW n \in Nat, NEW f, Powers(Y, n, f),
         NEW a \in Nat, NEW b \in Nat, a + b <= n
  PROVE  f[a + b] = (f[a] * f[b]) % Q
<1> DEFINE T == {j \in Nat : a + j <= n => f[a + j] = (f[a] * f[j]) % Q}
<1>1. f \in [0..n -> 0..(Q - 1)] /\ f[0] = 1 /\ Q \in Nat \ {0}
  BY PrimeIs DEF Powers
<1>2. 0 \in T
  <2>1. PICK x \in Nat : x = f[a] /\ x < Q
    BY <1>1
  <2>2. x * 1 = x /\ x % Q = x /\ a + 0 = a
    BY <1>1, <2>1, DivNone
  <2> QED
    BY <1>1, <2>1, <2>2
<1>3. ASSUME NEW j \in 0..(b - 1), j \in T PROVE j + 1 \in T
  <2> SUFFICES ASSUME a + (j + 1) <= n
               PROVE  f[a + (j + 1)] = (f[a] * f[j + 1]) % Q
    BY j + 1 \in Nat
  <2>1. f[a + j] = (f[a] * f[j]) % Q
    BY <1>3
  <2>2. j + 1 \in 1..n /\ (j + 1) - 1 = j /\ a + (j + 1) \in 1..n /\ (a + (j + 1)) - 1 = a + j
    OBVIOUS
  <2>3. f[j + 1] = (f[j] * Y) % Q /\ f[a + (j + 1)] = (f[a + j] * Y) % Q
    BY <2>2 DEF Powers
  <2>4. PICK x \in Nat, z \in Nat : x = f[a] /\ z = f[j]
    <3>1. a \in 0..n /\ j \in 0..n
      OBVIOUS
    <3> QED
      BY <1>1, <3>1
  <2>5. (((x * z) % Q) * Y) % Q = (x * ((z * Y) % Q)) % Q
    <3>1. AnyOrder(Q, x, z, Y)
      BY <1>1, RestOfThree
    <3> QED
      BY <3>1 DEF AnyOrder
  <2> QED
    BY <2>1, <2>3, <2>4, <2>5, Zenon
<1>4. 0..b \subseteq T
  <2> HIDE DEF T
  <2> QED
    BY <1>2, <1>3, Upwards
<1> QED
  BY <1>4

\* A power of a power is the power by the product.
LEMMA PowersTwice ==
  ASSUME NEW Y \in Nat, NEW x \in Nat, NEW y \in Nat, NEW n \in Nat, n = x * y,
         NEW f, Powers(Y, n, f), NEW Z \in Nat, x <= n => Z = f[x],
         NEW g, Powers(Z, y, g)
  PROVE  g[y] = f[n]
<1> DEFINE T == {j \in Nat : j <= y => g[j] = f[x * j]}
<1>1. f[0] = 1 /\ g[0] = 1
  BY DEF Powers
<1>2. 0 \in T
  BY <1>1
<1>3. ASSUME NEW j \in 0..(y - 1), j \in T PROVE j + 1 \in T
  <2>1. PICK a \in Nat : a = x * j
    OBVIOUS
  <2>2. x * (j + 1) = a + x /\ a + x <= n
    <3>1. x * (j + 1) = a + x
      BY <2>1
    <3>2. PICK c \in Nat : y = (j + 1) + c
      <4>1. y - (j + 1) \in Nat /\ y = (j + 1) + (y - (j + 1))
        OBVIOUS
      <4> QED
        BY <4>1
    <3>3. n = x * (j + 1) + x * c /\ x * c \in Nat
      BY <3>2
    <3> QED
      BY <3>1, <3>3
  <2>3. x <= n
    BY <2>2
  <2>4. f[a + x] = (f[a] * f[x]) % Q
    BY <2>2, PowersAdd
  <2>5. j + 1 \in 1..y /\ (j + 1) - 1 = j
    OBVIOUS
  <2>6. g[j + 1] = (g[j] * Z) % Q
    BY <2>5 DEF Powers
  <2>7. g[j] = f[a]
    BY <1>3, <2>1
  <2>8. g[j + 1] = f[x * (j + 1)]
    BY <2>2, <2>3, <2>4, <2>6, <2>7, Zenon
  <2> QED
    BY <2>8
<1>4. 0..y \subseteq T
  <2> HIDE DEF T
  <2> QED
    BY <1>2, <1>3, Upwards
<1> QED
  BY <1>4

\* A prime divides no product of two numbers that are smaller.  (The least number
\* whose product with one of them is divided divides every such number.)
LEMMA PrimeProduct ==
  ASSUME NEW a \in 1..(Q - 1), NEW b \in 1..(Q - 1)
  PROVE  (a * b) % Q \in 1..(Q - 1)
<1> DEFINE Divided(s) == \E k \in Nat : a * s = Q * k
           S == {s \in Nat \ {0} : Divided(s)}
<1>1. Q \in Nat \ {0} /\ a \in Nat \ {0} /\ b \in Nat \ {0} /\ a < Q /\ b < Q
  BY PrimeIs
<1>2. Q \in S
  <2>1. a * Q = Q * a
    BY <1>1
  <2> QED
    BY <1>1, <2>1
<1>3. PICK m \in S : \A s \in S : m <= s
  <2> HIDE DEF S
  <2>1. S # {}
    BY <1>2
  <2>2. S \subseteq Nat
    BY DEF S
  <2> QED
    BY <2>1, <2>2, Least
<1>4. PICK k \in Nat : m \in Nat \ {0} /\ a * m = Q * k
  OBVIOUS
<1>5. ASSUME NEW s \in S PROVE \E c \in Nat : s = m * c
  <2>1. PICK l \in Nat : s \in Nat /\ a * s = Q * l
    BY <1>5
  <2>2. PICK c \in Nat, r \in Nat : Splits(s, m, c, r)
    BY <1>4, <2>1, Splitting
  <2>3. s = m * c + r /\ r < m
    BY <2>2 DEF Splits
  <2>4. CASE r = 0
    BY <2>1, <2>3, <2>4, <1>4
  <2>5. CASE r # 0
    <3>1. a * s = (a * m) * c + a * r
      BY <1>1, <1>4, <2>1, <2>3
    <3>2. (a * m) * c = Q * (k * c)
      BY <1>1, <1>4
    <3>3. PICK z \in Nat, w \in Nat : z = k * c /\ w = a * r
      BY <1>1
    <3>4. w = Q * l - Q * z /\ Q * l \in Nat /\ Q * z \in Nat
      BY <1>1, <2>1, <3>1, <3>2, <3>3
    <3>5. w = Q * (l - z)
      BY <1>1, <3>3, <3>4
    <3>6. l - z \in Nat
      <4>1. ~(l < z)
        <5>1. l < z => Q * l + Q <= Q * z
          BY <1>1, <3>3
        <5> QED
          BY <1>1, <3>3, <3>4, <5>1
      <4> QED
        BY <3>3, <4>1
    <3>7. r \in S
      BY <2>5, <3>3, <3>5, <3>6
    <3> QED
      BY <1>3, <1>4, <2>3, <3>7
  <2> QED
    BY <2>4, <2>5
<1>6. PICK d \in Nat : Q = m * d
  BY <1>2, <1>5
<1>7. m <= Q /\ m \in Nat \ {0}
  BY <1>2, <1>3, <1>4
<1>8. m = 1 \/ m = Q
  <2>1. SUFFICES ASSUME m \in 2..(Q - 1) PROVE FALSE
    BY <1>1, <1>7
  <2>2. Q % m # 0
    BY <2>1, PrimeIs
  <2>3. Splits(Q, m, d, 0)
    BY <1>1, <1>6, <1>7 DEF Splits
  <2>4. 0 = Q % m
    BY <1>1, <1>7, <2>3, SplitIs
  <2> QED
    BY <2>2, <2>4
<1>9. m = Q
  <2>1. SUFFICES ASSUME m = 1 PROVE FALSE
    BY <1>8
  <2>2. a = Q * k
    BY <1>1, <1>4, <2>1
  <2>3. k = 0 \/ Q * k >= Q
    BY <1>1
  <2> QED
    BY <1>1, <2>2, <2>3
<1>10. PICK p \in Nat : p = a * b
  BY <1>1
<1>11. PICK z \in Nat, r \in Nat : r = p % Q /\ Splits(p, Q, z, r)
  BY <1>1, Splitting
<1>12. p = Q * z + r /\ r < Q
  BY <1>11 DEF Splits
<1>13. r # 0
  <2>1. SUFFICES ASSUME r = 0 PROVE FALSE
    OBVIOUS
  <2>2. a * b = Q * z
    BY <1>1, <1>10, <1>12, <2>1
  <2>3. b \in S
    BY <1>1, <2>2
  <2> QED
    BY <1>1, <1>3, <1>9, <2>3
<1>14. r \in 1..(Q - 1)
  BY <1>1, <1>11, <1>12, <1>13
<1> QED
  BY <1>10, <1>11, <1>14

\* No power of a number that is not zero is zero.
LEMMA PowersNonzero ==
  ASSUME NEW Y \in 1..(Q - 1), NEW n \in Nat, NEW f, Powers(Y, n, f)
  PROVE  f[n] \in 1..(Q - 1)
<1> DEFINE T == {j \in 0..n : f[j] \in 1..(Q - 1)}
<1>1. 0 \in T
  BY PrimeIs DEF Powers
<1>2. ASSUME NEW j \in 0..(n - 1), j \in T PROVE j + 1 \in T
  <2>1. j + 1 \in 1..n /\ (j + 1) - 1 = j
    OBVIOUS
  <2>2. f[j + 1] = (f[j] * Y) % Q
    BY <2>1 DEF Powers
  <2>3. PICK a \in 1..(Q - 1) : a = f[j]
    BY <1>2
  <2>4. (a * Y) % Q \in 1..(Q - 1)
    BY PrimeProduct
  <2> QED
    BY <2>1, <2>2, <2>3, <2>4
<1>3. 0..n \subseteq T
  <2> HIDE DEF T
  <2> QED
    BY <1>1, <1>2, Upwards
<1> QED
  BY <1>3

-----------------------------------------------------------------------------
(* calc_exp_mod. *)

\* The number of bits is the least one whose power of two is larger.
LEMMA BitLengthIs ==
  ASSUME NEW x \in Nat, x < 2^WordBits
  PROVE  /\ BitLength(x) \in 0..WordBits /\ x < 2^BitLength(x)
         /\ BitLength(x) > 0 => x >= 2^(BitLength(x) - 1)
<1> DEFINE S == {n \in 0..WordBits : x < 2^n}
<1>1. WordBits \in Nat
  BY PrimeIs
<1>2. PICK n \in S : \A m \in S : n <= m
  <2>1. WordBits \in S /\ S \subseteq Nat
    BY <1>1
  <2> HIDE DEF S
  <2> QED
    BY <2>1, Least
<1>3. n \in 0..WordBits /\ x < 2^n
  OBVIOUS
<1>4. ASSUME n > 0 PROVE x >= 2^(n - 1)
  <2>1. n - 1 \in 0..WordBits /\ n - 1 < n
    BY <1>1, <1>3, <1>4
  <2>2. n - 1 \notin S
    BY <1>2, <1>3, <2>1
  <2>3. ~(x < 2^(n - 1))
    BY <2>1, <2>2
  <2>4. 2^(n - 1) \in Nat
    BY <2>1, Power
  <2> QED
    BY <2>3, <2>4
<1>5. \E m \in 0..WordBits : x < 2^m /\ (m > 0 => x >= 2^(m - 1))
  BY <1>3, <1>4
<1> QED
  BY <1>5 DEF BitLength

\* calc_exp_mod returns the power: after k bits tmp is the power whose exponent are
\* the k highest bits of X.
LEMMA ExpIs ==
  ASSUME NEW Y \in Nat, NEW X \in Nat, X < 2^WordBits, NEW f, Powers(Y, X, f)
  PROVE  CalcExpMod(Y, X) = f[X]
<1> DEFINE n == BitLength(X)
           next(k, t) == IF Auxiliary(X)[n + 1 - k] = 1 THEN (((t * t) % Q) * Y) % Q
                         ELSE (t * t) % Q
           Body(h) == [k \in 0..n |->
                         IF k = 0 THEN 1
                         ELSE IF Auxiliary(X)[n + 1 - k] = 1
                              THEN (((h[k - 1] * h[k - 1]) % Q) * Y) % Q
                         ELSE (h[k - 1] * h[k - 1]) % Q]
           g == CHOOSE h : h = Body(h)
           up(k) == X \div 2^(n - k)
           w == [k \in 0..n |-> f[up(k)]]
<1>1. CalcExpMod(Y, X) = g[n]
  BY DEF CalcExpMod
<1>2. n \in Nat /\ X < 2^n
  BY BitLengthIs, PrimeIs
<1>3. \A k \in 1..n : Auxiliary(X)[n + 1 - k] = up(k) % 2
  <2>1. \A k \in 1..n : n + 1 - k \in 1..n /\ (n + 1 - k) - 1 = n - k
    BY <1>2
  <2> HIDE DEF n
  <2> QED
    BY <2>1 DEF Auxiliary, n
<1> HIDE DEF n
<1>4. ASSUME NEW k \in 1..n PROVE next(k, f[up(k - 1)]) = f[up(k)]
  <2>1. PICK i \in Nat : i = n - k /\ i + 1 = n - (k - 1)
    BY <1>2
  <2>2. PICK y \in Nat, z \in Nat : y = up(k) /\ z = up(k - 1)
    <3>1. X \div 2^i \in Nat /\ X \div 2^(i + 1) \in Nat
      BY DivNotLarger
    <3> QED
      BY <2>1, <3>1
  <2>3. PICK r : r = y % 2
    OBVIOUS
  <2>4. y = z * 2 + r /\ r \in 0..1
    <3>1. 2^1 = 2
      BY PowerStep
    <3>2. PICK j \in Nat : j = 1
      OBVIOUS
    <3>3. DigitAt(X, i, j, y, z, r)
      BY <2>1, <2>2, <2>3, <3>1, <3>2, Zenon DEF DigitAt
    <3>4. y = z * 2^j + r /\ r \in 0..(2^j - 1)
      BY <3>3, DigitOff
    <3> QED
      BY <3>1, <3>2, <3>4
  <2>5. y <= X
    BY <2>1, <2>2, DivNotLarger
  <2>6. f[z + z] = (f[z] * f[z]) % Q
    <3>1. z + z <= X
      BY <2>4, <2>5
    <3> QED
      BY <3>1, PowersAdd
  <2>7. Auxiliary(X)[n + 1 - k] = r
    BY <1>3, <2>2, <2>3, Zenon
  <2>8. CASE r = 1
    <3>1. (z + z) + 1 \in 1..X /\ ((z + z) + 1) - 1 = z + z /\ y = (z + z) + 1
      BY <2>4, <2>5, <2>8
    <3>2. f[(z + z) + 1] = (f[z + z] * Y) % Q
      BY <3>1 DEF Powers
    <3> QED
      BY <2>2, <2>6, <2>7, <2>8, <3>1, <3>2, Zenon
  <2>9. CASE r = 0
    <3>1. y = z + z
      BY <2>4, <2>9
    <3>2. r # 1
      BY <2>9
    <3> QED
      BY <2>2, <2>6, <2>7, <3>1, <3>2, Zenon
  <2> QED
    BY <2>4, <2>8, <2>9
<1>5. f[0] = 1
  BY DEF Powers
<1>6. up(0) = 0 /\ up(n) = X
  <2>1. PICK p \in Nat : p = 2^n
    BY <1>2, Power
  <2>2. X \div p = 0
    BY <1>2, <2>1, DivNone
  <2>3. n - 0 = n /\ n - n = 0 /\ 2^0 = 1
    BY <1>2
  <2>4. X \div 1 = X
    OBVIOUS
  <2>5. up(0) = 0
    BY <2>1, <2>2, <2>3, Zenon
  <2>6. up(n) = X
    BY <2>3, <2>4, Zenon
  <2> QED
    BY <2>5, <2>6
<1> HIDE DEF up
<1>7. \E h : h = Body(h)
  <2>1. \A k \in 0..n : w[k] = IF k = 0 THEN 1 ELSE next(k, w[k - 1])
    <3> TAKE k \in 0..n
    <3>1. CASE k = 0
      BY <1>2, <1>5, <1>6, <3>1
    <3>2. CASE k # 0
      <4>1. k \in 1..n /\ k - 1 \in 0..n
        BY <1>2, <3>2
      <4>2. w[k] = f[up(k)] /\ w[k - 1] = f[up(k - 1)]
        BY <4>1
      <4> HIDE DEF next, w
      <4> QED
        BY <1>4, <3>2, <4>1, <4>2, Zenon
    <3> QED
      BY <3>1, <3>2
  <2>2. w = Body(w)
    <3>1. \A k \in 0..n : w[k] = Body(w)[k]
      BY <2>1
    <3>2. DOMAIN w = 0..n /\ w = [k \in 0..n |-> w[k]]
      OBVIOUS
    <3> HIDE DEF w
    <3> QED
      BY <3>1, <3>2
  <2> HIDE DEF Body
  <2> QED
    BY <2>2
<1>8. g = Body(g)
  <2> HIDE DEF Body
  <2> QED
    BY <1>7
<1>9. \A k \in 0..n : g[k] = IF k = 0 THEN 1 ELSE next(k, g[k - 1])
  <2> HIDE DEF g
  <2> QED
    BY <1>8
<1> HIDE DEF g, next
<1>10. g[n] = f[up(n)]
  <2> DEFINE T == {k \in 0..n : g[k] = f[up(k)]}
  <2>1. 0 \in T
    BY <1>2, <1>5, <1>6, <1>9
  <2>2. ASSUME NEW k \in 0..(n - 1), k \in T PROVE k + 1 \in T
    <3>1. k + 1 \in 1..n /\ k + 1 \in 0..n /\ (k + 1) - 1 = k /\ k + 1 # 0
      BY <1>2
    <3>2. g[k + 1] = next(k + 1, g[k]) /\ next(k + 1, f[up(k)]) = f[up(k + 1)]
      BY <1>4, <1>9, <3>1
    <3> QED
      BY <2>2, <3>1, <3>2
  <2>3. 0..n \subseteq T
    <3> HIDE DEF T
    <3> QED
      BY <1>2, <2>1, <2>2, Upwards
  <2> QED
    BY <1>2, <2>3
<1> QED
  BY <1>1, <1>6, <1>10, Zenon

\* What calc_exp_mod returns is a rest, and not zero unless the base is.
LEMMA ExpRange ==
  ASSUME NEW Y \in Nat, NEW X \in Nat, X < 2^WordBits
  PROVE  /\ CalcExpMod(Y, X) \in 0..(Q - 1)
         /\ Y \in 1..(Q - 1) => CalcExpMod(Y, X) \in 1..(Q - 1)
<1>1. PICK f : Powers(Y, X, f)
  BY PowersExist
<1>2. CalcExpMod(Y, X) = f[X]
  BY <1>1, ExpIs
<1>3. f[X] \in 0..(Q - 1)
  <2>1. X \in 0..X
    OBVIOUS
  <2> QED
    BY <1>1, <2>1 DEF Powers
<1>4. Y \in 1..(Q - 1) => f[X] \in 1..(Q - 1)
  BY <1>1, PowersNonzero
<1> QED
  BY <1>2, <1>3, <1>4

\* Diffie-Hellman: the power of one's public number with the other's private one is
\* the same for both.
LEMMA ExpAgree ==
  ASSUME NEW x \in 1..(Q - 1), NEW y \in 1..(Q - 1)
  PROVE  CalcExpMod(CalcExpMod(Alpha, x), y) = CalcExpMod(CalcExpMod(Alpha, y), x)
<1>1. x \in Nat \ {0} /\ y \in Nat \ {0} /\ x < 2^WordBits /\ y < 2^WordBits /\ Alpha \in Nat
  <2>1. 2^WordBits \in Nat
    BY PrimeIs, Power
  <2> QED
    BY <2>1, PrimeIs
<1>2. PICK n \in Nat : n = x * y /\ n = y * x
  BY <1>1
<1>3. PICK f : Powers(Alpha, n, f)
  BY <1>1, PowersExist
<1>4. ASSUME NEW a \in Nat, NEW b \in Nat, a < 2^WordBits, b < 2^WordBits, n = a * b,
             a > 0, b > 0
      PROVE  CalcExpMod(CalcExpMod(Alpha, a), b) = f[n]
  <2>1. a <= n
    <3>1. PICK c \in Nat : b = c + 1
      <4>1. b - 1 \in Nat /\ b = (b - 1) + 1
        BY <1>4
      <4> QED
        BY <4>1
    <3>2. n = a * c + a /\ a * c \in Nat
      BY <1>4, <3>1
    <3> QED
      BY <3>2
  <2>2. PICK h : Powers(Alpha, a, h)
    BY <1>1, PowersExist
  <2>3. CalcExpMod(Alpha, a) = h[a]
    BY <1>1, <1>4, <2>2, ExpIs
  <2>4. h[a] = f[a]
    <3> DEFINE T == {j \in 0..a : h[j] = f[j]}
    <3>1. 0 \in T
      BY <1>3, <2>2 DEF Powers
    <3>2. ASSUME NEW j \in 0..(a - 1), j \in T PROVE j + 1 \in T
      <4>1. j + 1 \in 1..a /\ j + 1 \in 1..n /\ (j + 1) - 1 = j
        BY <2>1
      <4>2. h[j + 1] = (h[j] * Alpha) % Q /\ f[j + 1] = (f[j] * Alpha) % Q
        BY <1>3, <2>2, <4>1 DEF Powers
      <4>3. h[j] = f[j]
        BY <3>2
      <4>4. h[j + 1] = f[j + 1]
        BY <4>2, <4>3, Zenon
      <4> QED
        BY <4>1, <4>4
    <3>3. 0..a \subseteq T
      <4> HIDE DEF T
      <4> QED
        BY <3>1, <3>2, Upwards
    <3> QED
      BY <3>3
  <2>5. PICK Z \in Nat : Z = CalcExpMod(Alpha, a)
    BY <1>1, <1>4, ExpRange
  <2>6. PICK g : Powers(Z, b, g)
    BY PowersExist
  <2>7. CalcExpMod(Z, b) = g[b]
    BY <1>4, <2>6, ExpIs
  <2>8. Z = f[a]
    BY <2>3, <2>4, <2>5
  <2>9. g[b] = f[n]
    BY <1>1, <1>3, <1>4, <2>6, <2>8, PowersTwice
  <2> QED
    BY <2>5, <2>7, <2>9
<1>5. CalcExpMod(CalcExpMod(Alpha, x), y) = f[n]
  BY <1>1, <1>2, <1>4
<1>6. CalcExpMod(CalcExpMod(Alpha, y), x) = f[n]
  BY <1>1, <1>2, <1>4
<1> QED
  BY <1>5, <1>6

-----------------------------------------------------------------------------
(* The strings of keys. *)

\* The k-th digit of the word of x.
DigitOf(x, k) == (x \div 2^(DigitBits * (Chars - k))) % 2^DigitBits

\* w is the word of x, with zeros in front.
WordOf(x, w) ==
  w \in Seq(HexDigit) /\ Len(w) = Chars /\ \A k \in 1..Chars : w[k] = DigitOf(x, k)

\* A rest by the number of digits is a digit.
LEMMA DigitTyped ==
  ASSUME NEW x \in Nat, NEW i \in Nat
  PROVE  (x \div 2^i) % 2^DigitBits \in HexDigit /\ 0 \in HexDigit
<1>1. PICK p \in Nat \ {0} : p = 2^DigitBits
  BY PrimeIs, Power
<1>2. PICK y \in Nat : y = x \div 2^i
  BY DivNotLarger
<1>3. y % p \in 0..(p - 1) /\ 0 \in 0..(p - 1)
  <2>1. Splits(y, p, y \div p, y % p) /\ y % p \in Nat
    BY <1>1, <1>2, Splitting
  <2>2. y % p < p
    BY <2>1 DEF Splits
  <2> QED
    BY <1>1, <2>1, <2>2
<1> QED
  BY <1>1, <1>2, <1>3, Zenon DEF HexDigit

\* hex32bit_append_to_string appends the digits of a number that is not zero and as many
\* zeros in front as are missing.
LEMMA Word32Is ==
  ASSUME NEW x \in 1..(Q - 1)
  PROVE  WordOf(x, Word32(x))
<1>1. x \in Nat /\ x > 0 /\ x < 2^WordBits
  <2>1. 2^WordBits \in Nat
    BY PrimeIs, Power
  <2> QED
    BY <2>1, PrimeIs
<1>2. PICK n \in Nat : n = BitLength(x) /\ n <= WordBits /\ n > 0 /\ x < 2^n
  <2>1. BitLength(x) \in 0..WordBits /\ x < 2^BitLength(x)
    BY <1>1, BitLengthIs
  <2>2. BitLength(x) # 0
    <3>1. SUFFICES ASSUME BitLength(x) = 0 PROVE FALSE
      OBVIOUS
    <3>2. x < 2^0
      BY <2>1, <3>1, Zenon
    <3> QED
      BY <1>1, <3>2
  <2> QED
    BY <2>1, <2>2, PrimeIs
<1>3. PICK B \in Nat \ {0}, C \in Nat \ {0} : B = DigitBits /\ C = Chars /\ WordBits = B * C
  BY PrimeIs
<1>4. PICK m \in Nat : m = n + B - 1
  BY <1>2, <1>3
<1>5. PICK h \in Nat, r \in Nat : h = m \div B /\ Splits(m, B, h, r)
  BY <1>3, <1>4, Splitting
<1>6. B * h \in Nat /\ B * h = n + (B - 1 - r) /\ r < B
  BY <1>2, <1>3, <1>4, <1>5 DEF Splits
<1>7. h \in 1..C
  <2>1. h > C => B * h >= B * C + B
    BY <1>3
  <2>2. h = 0 => B * h = 0
    BY <1>3
  <2>3. B * C \in Nat
    BY <1>3
  <2> QED
    BY <1>2, <1>3, <1>6, <2>1, <2>2, <2>3
<1>8. PICK z \in Nat : z = C - h /\ z + h = C
  BY <1>3, <1>7
<1>9. Zeros(x) = z
  <2>1. PICK l \in Nat : l = WordBits - n
    BY <1>2, PrimeIs
  <2>2. B * C = B * z + B * h
    <3>1. B * (z + h) = B * z + B * h
      OBVIOUS
    <3> QED
      BY <1>8, <3>1
  <2>3. PICK u \in Nat, v \in Nat : u = B * z /\ v = B * h
    BY <1>3
  <2>5. PICK c \in Nat : c = B - 1 - r /\ v = n + c /\ c < B
    BY <1>2, <1>3, <1>5, <1>6, <2>3
  <2>4. l = B * z + c
    <3>1. WordBits = u + v
      BY <1>3, <2>2, <2>3, Zenon
    <3> QED
      BY <1>2, <2>1, <2>3, <2>5, <3>1
  <2>6. Splits(l, B, z, c)
    BY <2>4, <2>5 DEF Splits
  <2>7. z = l \div B
    BY <1>3, <2>6, SplitIs
  <2> QED
    BY <1>2, <1>3, <2>1, <2>7, Zenon DEF Zeros
<1>10. Hex(x) = [k \in 1..h |-> (x \div 2^(B * (h - k))) % 2^B]
  BY <1>2, <1>3, <1>4, <1>5, Zenon DEF Hex
<1> DEFINE front == [k \in 1..z |-> 0]
           back == Hex(x)
<1>11. front \in Seq(HexDigit) /\ Len(front) = z /\ \A k \in 1..z : front[k] = 0
  BY DigitTyped, <1>1
<1>12. back \in Seq(HexDigit) /\ Len(back) = h
       /\ \A k \in 1..h : back[k] = (x \div 2^(B * (h - k))) % 2^B
  <2>1. \A k \in 1..h : B * (h - k) \in Nat
    BY <1>3
  <2>2. \A k \in 1..h : (x \div 2^(B * (h - k))) % 2^B \in HexDigit
    BY <1>1, <1>3, <2>1, DigitTyped
  <2> QED
    BY <1>10, <2>2
<1>13. Word32(x) = front \o back
  BY <1>9 DEF Word32
<1> HIDE DEF front, back
<1> DEFINE w == front \o back
<1>14. /\ w \in Seq(HexDigit) /\ Len(w) = Chars
       /\ \A k \in 1..z : w[k] = front[k]
       /\ \A k \in (z + 1)..Chars : w[k] = back[k - z]
  <2>1. front \in Seq(HexDigit) /\ Len(front) = z /\ back \in Seq(HexDigit) /\ Len(back) = h
    BY <1>11, <1>12
  <2>2. w \in Seq(HexDigit) /\ Len(w) = z + h
    BY <2>1
  <2>3. \A k \in 1..z : w[k] = front[k]
    BY <2>1
  <2>4. \A k \in (z + 1)..(z + h) : w[k] = back[k - z]
    BY <2>1
  <2> HIDE DEF w
  <2> QED
    BY <1>3, <1>8, <2>2, <2>3, <2>4
<1> HIDE DEF w
<1>15. ASSUME NEW k \in 1..Chars PROVE w[k] = DigitOf(x, k)
  <2>1. CASE k <= z
    <3>1. w[k] = 0
      BY <1>11, <1>14, <2>1
    <3>2. PICK e \in Nat : e = B * (C - k) /\ B * h <= e
      <4>1. PICK d \in Nat : C - k = h + d
        <5>1. C - k - h \in Nat /\ C - k = h + (C - k - h)
          BY <1>3, <1>8, <2>1
        <5> QED
          BY <5>1
      <4>2. B * (C - k) = B * h + B * d /\ B * d \in Nat
        BY <1>3, <4>1
      <4> QED
        BY <1>6, <4>2
    <3>3. n <= e
      BY <1>6, <3>2
    <3>4. x < 2^e
      <4>1. 2^n <= 2^e /\ 2^n \in Nat /\ 2^e \in Nat
        BY <3>3, PowerGrows, Power
      <4> QED
        BY <1>1, <1>2, <4>1
    <3>5. x \div 2^e = 0
      BY <1>1, <3>4, Power, DivNone
    <3>6. 0 % 2^B = 0
      <4>1. 2^B \in Nat /\ 2^B > 0
        BY <1>3, Power
      <4> QED
        BY <4>1, DivNone
    <3> QED
      BY <1>3, <3>1, <3>2, <3>5, <3>6, Zenon DEF DigitOf
  <2>2. CASE k > z
    <3>1. PICK j \in 1..h : j = k - z /\ h - j = C - k /\ k \in (z + 1)..Chars
      BY <1>3, <1>8, <2>2
    <3>2. w[k] = back[j]
      <4>1. w[k] = back[k - z]
        BY <1>14, <3>1
      <4> QED
        BY <3>1, <4>1, Zenon
    <3>3. back[j] = (x \div 2^(B * (h - j))) % 2^B
      BY <1>12
    <3> QED
      BY <1>3, <3>1, <3>2, <3>3, Zenon DEF DigitOf
  <2> QED
    BY <1>3, <1>8, <2>1, <2>2
<1> QED
  BY <1>13, <1>14, <1>15 DEF WordOf, w

\* The numbers read are those of Chars digits, whatever the string holds.
LEMMA Reading ==
  ASSUME NEW s \in Seq(HexDigit), Len(s) = Words * Chars, NEW i \in 0..(Words - 1)
  PROVE  /\ FromString(s, i) \in Nat /\ FromString(s, i) < 2^WordBits
         /\ \A x \in Nat :
              x < 2^WordBits /\ (\A k \in 1..Chars : s[i * Chars + k] = DigitOf(x, k))
                => FromString(s, i) = x
<1> DEFINE digit(k) == s[i * Chars + k]
           Body(h) == [k \in 0..Chars |->
                         IF k = 0 THEN 0 ELSE h[k - 1] * 2^DigitBits + s[i * Chars + k]]
           g == CHOOSE h : h = Body(h)
<1>1. FromString(s, i) = g[Chars]
  BY DEF FromString
<1>2. PICK C \in Nat \ {0}, p \in Nat \ {0} : C = Chars /\ p = 2^DigitBits
  BY PrimeIs, Power
<1>3. \A k \in 1..C : digit(k) \in 0..(p - 1)
  <2> TAKE k \in 1..C
  <2>1. PICK W \in Nat \ {0} : W = Words
    BY PrimeIs
  <2>2. PICK c \in Nat : W = (i + 1) + c
    <3>1. W - (i + 1) \in Nat /\ W = (i + 1) + (W - (i + 1))
      BY <2>1
    <3> QED
      BY <3>1
  <2>3. PICK a \in Nat, d \in Nat : a = i * C /\ d = c * C
    BY <1>2
  <2>4. W * C = a + C + d
    BY <1>2, <2>2, <2>3
  <2>5. a + k \in 1..Len(s)
    BY <1>2, <2>1, <2>3, <2>4
  <2>6. s[a + k] \in HexDigit
    BY <2>5
  <2> QED
    BY <1>2, <2>3, <2>6 DEF HexDigit
<1>4. PICK f : GoesOn(C, Nat, 0, [k \in 1..C |-> [t \in Nat |-> t * p + digit(k)]], f)
  <2> DEFINE step == [k \in 1..C |-> [t \in Nat |-> t * p + digit(k)]]
  <2> HIDE DEF digit
  <2>a. \A k \in 1..C, t \in Nat : t * p + digit(k) \in Nat
    <3> TAKE k \in 1..C, t \in Nat
    <3>1. digit(k) \in Nat /\ t * p \in Nat
      BY <1>2, <1>3
    <3> QED
      BY <3>1
  <2>1. step \in [1..C -> [Nat -> Nat]]
    BY <2>a
  <2> HIDE DEF step
  <2>2. \E f : GoesOn(C, Nat, 0, step, f)
    BY <1>2, <2>1, GoingOn
  <2> QED
    BY <2>2 DEF step
<1>5. f \in [0..C -> Nat] /\ f[0] = 0 /\ \A k \in 1..C : f[k] = f[k - 1] * p + digit(k)
  <2> HIDE DEF digit
  <2>1. f \in [0..C -> Nat] /\ f[0] = 0
    BY <1>4 DEF GoesOn
  <2>2. ASSUME NEW k \in 1..C PROVE f[k] = f[k - 1] * p + digit(k)
    <3>1. k - 1 \in 0..C
      OBVIOUS
    <3>2. f[k - 1] \in Nat
      BY <2>1, <3>1
    <3>3. f[k] = [t \in Nat |-> t * p + digit(k)][f[k - 1]]
      BY <1>4 DEF GoesOn
    <3> QED
      BY <3>2, <3>3
  <2> QED
    BY <2>1, <2>2
<1>6. \E h : h = Body(h)
  <2>1. f = [k \in 0..C |-> f[k]]
    BY <1>5
  <2>2. \A k \in 0..C : f[k] = IF k = 0 THEN 0 ELSE f[k - 1] * p + digit(k)
    BY <1>2, <1>5
  <2>3. f = Body(f)
    BY <1>2, <2>1, <2>2
  <2> HIDE DEF Body
  <2> QED
    BY <2>3
<1>7. g = Body(g)
  <2> HIDE DEF Body
  <2> QED
    BY <1>6
<1>8. \A k \in 0..C : g[k] = IF k = 0 THEN 0 ELSE g[k - 1] * p + digit(k)
  <2> HIDE DEF g
  <2> QED
    BY <1>2, <1>7
<1> HIDE DEF g, digit
<1>9. \A k \in 0..C : g[k] \in Nat /\ g[k] < 2^(DigitBits * k)
  <2> DEFINE T == {k \in 0..C : g[k] \in Nat /\ g[k] < 2^(DigitBits * k)}
  <2>1. 0 \in T
    <3>1. DigitBits * 0 = 0 /\ 2^0 = 1 /\ g[0] = 0
      BY <1>2, <1>8, PrimeIs
    <3>2. 2^(DigitBits * 0) = 1
      BY <3>1, Zenon
    <3>3. g[0] \in Nat /\ g[0] < 2^(DigitBits * 0)
      BY <3>1, <3>2
    <3> QED
      BY <1>2, <3>3
  <2>2. ASSUME NEW k \in 0..(C - 1), k \in T PROVE k + 1 \in T
    <3>1. k + 1 \in 1..C /\ (k + 1) - 1 = k /\ k + 1 # 0
      BY <1>2
    <3>2. g[k + 1] = g[k] * p + digit(k + 1)
      BY <1>8, <3>1
    <3>3. PICK t \in Nat, d \in 0..(p - 1) : t = g[k] /\ d = digit(k + 1)
      BY <1>3, <2>2, <3>1
    <3>4. PICK e \in Nat : e = DigitBits * k /\ DigitBits * (k + 1) = e + DigitBits
      BY PrimeIs
    <3>5. PICK u \in Nat : u = 2^e /\ t < u /\ 2^(DigitBits * (k + 1)) = u * p
      <4>1. 2^(e + DigitBits) = 2^e * 2^DigitBits
        BY PrimeIs, PowerSum
      <4>2. 2^e \in Nat
        BY Power
      <4> QED
        BY <1>2, <2>2, <3>3, <3>4, <4>1, <4>2
    <3>6. PICK c \in Nat : u = t + 1 + c
      <4>1. u - t - 1 \in Nat /\ u = t + 1 + (u - t - 1)
        BY <3>5
      <4> QED
        BY <4>1
    <3>7. PICK v \in Nat, w \in Nat, l \in Nat : v = t * p /\ w = u * p /\ l = c * p
      BY <1>2
    <3>8. w = v + p + l
      BY <3>6, <3>7
    <3>9. g[k + 1] = v + d /\ v + d \in Nat /\ v + d < w
      <4>1. g[k + 1] = v + d
        BY <3>2, <3>3, <3>7, Zenon
      <4>2. d \in Nat /\ d < p
        BY <1>2, <3>3
      <4>3. v + d \in Nat /\ v + d < w
        BY <1>2, <3>8, <4>2
      <4> QED
        BY <4>1, <4>3
    <3>10. g[k + 1] \in Nat /\ g[k + 1] < 2^(DigitBits * (k + 1))
      BY <3>5, <3>7, <3>9
    <3> QED
      BY <3>1, <3>10
  <2>3. 0..C \subseteq T
    <3> HIDE DEF T
    <3> QED
      BY <1>2, <2>1, <2>2, Upwards
  <2> QED
    BY <2>3
<1>10. ASSUME NEW x \in Nat, x < 2^WordBits, \A k \in 1..Chars : digit(k) = DigitOf(x, k)
       PROVE  g[C] = x
  <2> DEFINE up(k) == x \div 2^(DigitBits * (C - k))
             T == {k \in 0..C : g[k] = up(k)}
  <2>1. up(0) = 0 /\ up(C) = x
    <3>1. C - 0 = C /\ C - C = 0 /\ DigitBits * 0 = 0 /\ 2^0 = 1
      BY <1>2, PrimeIs
    <3>2. x \div 2^WordBits = 0 /\ x \div 1 = x
      BY <1>10, PrimeIs, Power, DivNone
    <3>3. WordBits = DigitBits * C
      BY <1>2, PrimeIs
    <3>4. up(0) = 0
      BY <3>1, <3>2, <3>3, Zenon
    <3>5. up(C) = x
      BY <3>1, <3>2, Zenon
    <3> QED
      BY <3>4, <3>5
  <2>2. 0 \in T
    BY <1>2, <1>8, <2>1
  <2>3. ASSUME NEW k \in 0..(C - 1), k \in T PROVE k + 1 \in T
    <3>1. k + 1 \in 1..C /\ (k + 1) - 1 = k /\ k + 1 # 0
      BY <1>2
    <3>2. g[k + 1] = g[k] * p + digit(k + 1)
      BY <1>8, <3>1
    <3>3. PICK a \in Nat, b \in Nat :
            b = DigitBits /\ a = DigitBits * (C - (k + 1)) /\ a + b = DigitBits * (C - k)
      <4>1. PICK d \in Nat : d = C - (k + 1) /\ C - k = d + 1
        BY <1>2
      <4>2. DigitBits * (d + 1) = DigitBits * d + DigitBits /\ DigitBits * d \in Nat
        BY PrimeIs
      <4> QED
        BY <4>1, <4>2, PrimeIs
    <3>4. PICK y, z, r : DigitAt(x, a, b, y, z, r)
      BY DEF DigitAt
    <3>5. y = z * 2^b + r
      BY <3>4, DigitOff
    <3>6. g[k] = z
      BY <2>3, <3>3, <3>4, Zenon DEF DigitAt
    <3>7. digit(k + 1) = r
      <4>1. digit(k + 1) = DigitOf(x, k + 1)
        BY <1>2, <1>10, <3>1
      <4> QED
        BY <1>2, <3>3, <3>4, <4>1, Zenon DEF DigitAt, DigitOf
    <3>8. g[k + 1] = y
      BY <1>2, <3>2, <3>3, <3>5, <3>6, <3>7, Zenon
    <3>9. g[k + 1] = up(k + 1)
      BY <3>3, <3>4, <3>8, Zenon DEF DigitAt
    <3> HIDE DEF up
    <3> QED
      BY <3>1, <3>9
  <2>4. 0..C \subseteq T
    <3> HIDE DEF T
    <3> QED
      BY <1>2, <2>2, <2>3, Upwards
  <2>5. C \in T
    BY <1>2, <2>4
  <2> QED
    BY <2>1, <2>5
<1>11. g[C] \in Nat /\ g[C] < 2^WordBits
  BY <1>2, <1>9, PrimeIs
<1> QED
  BY <1>1, <1>2, <1>10, <1>11 DEF digit

\* A key is the words of its numbers, one after the other, and each is read again where
\* it begins.
LEMMA KeyIs ==
  ASSUME NEW numbers \in [1..Words -> 1..(Q - 1)]
  PROVE  /\ KeyOf(numbers) \in Seq(HexDigit) /\ Len(KeyOf(numbers)) = Words * Chars
         /\ IsHexKey(KeyOf(numbers)) /\ KeyOf(numbers) # NoKey
         /\ \A i \in 0..(Words - 1) : FromString(KeyOf(numbers), i) = numbers[i + 1]
<1> DEFINE P == [k \in DOMAIN numbers |-> Word32(numbers[k])]
<1>1. PICK W \in Nat \ {0}, C \in Nat \ {0} : W = Words /\ C = Chars
  BY PrimeIs
<1>2. \A i \in 1..W : WordOf(numbers[i], P[i])
  BY <1>1, Word32Is
<1>3. P \in Seq(Seq(HexDigit)) /\ Len(P) = W
  <2>1. \A i \in 1..W : P[i] \in Seq(HexDigit)
    BY <1>2 DEF WordOf
  <2>2. DOMAIN P = 1..W
    BY <1>1
  <2>3. P = [i \in 1..W |-> P[i]]
    BY <1>1
  <2> HIDE DEF P
  <2> QED
    BY <1>1, <2>1, <2>3
<1>4. KeyOf(numbers) = FlattenSeq(P)
  BY DEF KeyOf
<1> HIDE DEF P
<1>5. PICK F : JoinedUpTo(W, P, F, HexDigit) /\ KeyOf(numbers) = F[W]
  BY <1>3, <1>4, Flattened
<1> DEFINE At(m) == /\ F[m] \in Seq(HexDigit) /\ Len(F[m]) = m * C
                    /\ \A i \in 1..m : \A k \in 1..C :
                         (i - 1) * C + k <= m * C /\ F[m][(i - 1) * C + k] = P[i][k]
           T == {m \in 0..W : At(m)}
<1>6. At(0)
  BY <1>1, <1>5 DEF JoinedUpTo
<1>7. ASSUME NEW m \in 0..(W - 1), At(m) PROVE At(m + 1)
  <2>1. m + 1 \in 1..W /\ (m + 1) - 1 = m
    BY <1>1
  <2>2. F[m + 1] = F[m] \o P[m + 1]
    BY <1>5, <2>1 DEF JoinedUpTo
  <2>3. WordOf(numbers[m + 1], P[m + 1])
    BY <1>2, <2>1
  <2>4. P[m + 1] \in Seq(HexDigit) /\ Len(P[m + 1]) = C
    BY <1>1, <2>3 DEF WordOf
  <2>5. PICK a \in Nat : a = m * C /\ (m + 1) * C = a + C
    BY <1>1
  <2>6. F[m] \in Seq(HexDigit) /\ Len(F[m]) = a
    BY <1>7, <2>5
  <2>7. PICK s, t, u : s = F[m] /\ t = P[m + 1] /\ u = F[m + 1] /\ u = s \o t
    BY <2>2
  <2>8. s \in Seq(HexDigit) /\ t \in Seq(HexDigit) /\ Len(s) = a /\ Len(t) = C
    BY <2>4, <2>6, <2>7
  <2>a. u \in Seq(HexDigit) /\ OneBehind(u, s, t)
    BY <2>7, <2>8, Concatenated
  <2>9. u \in Seq(HexDigit) /\ Len(u) = a + C
    BY <2>8, <2>a DEF OneBehind
  <2>10. \A j \in 1..a : u[j] = s[j]
    BY <2>8, <2>a DEF OneBehind
  <2>11. \A k \in 1..C : u[a + k] = t[k]
    BY <2>8, <2>a DEF OneBehind
  <2>12. ASSUME NEW i \in 1..(m + 1), NEW k \in 1..C
         PROVE  (i - 1) * C + k <= (m + 1) * C /\ u[(i - 1) * C + k] = P[i][k]
    <3>1. CASE i = m + 1
      <4>1. (i - 1) * C + k = a + k
        BY <2>5, <3>1
      <4>2. u[a + k] = P[i][k]
        BY <2>7, <2>11, <3>1
      <4>3. a + k <= a + C
        BY <1>1
      <4> QED
        BY <2>5, <4>1, <4>2, <4>3
    <3>2. CASE i # m + 1
      <4>1. i \in 1..m
        BY <3>2
      <4>2. PICK j \in Int : j = (i - 1) * C + k /\ j <= a /\ s[j] = P[i][k]
        <5>1. (i - 1) * C + k <= m * C /\ F[m][(i - 1) * C + k] = P[i][k]
          BY <1>7, <4>1
        <5>2. (i - 1) * C + k \in Int
          BY <1>1
        <5> QED
          BY <2>5, <2>7, <5>1, <5>2
      <4>3. j >= 1
        <5>1. (i - 1) * C \in Nat
          BY <1>1
        <5> QED
          BY <4>2, <5>1
      <4>4. u[j] = s[j]
        BY <2>10, <4>2, <4>3
      <4> QED
        BY <1>1, <2>5, <4>2, <4>4
    <3> QED
      BY <3>1, <3>2
  <2> QED
    BY <2>5, <2>7, <2>9, <2>12
<1>8. At(W)
  <2> HIDE DEF At
  <2>1. 0 \in T /\ \A m \in 0..(W - 1) : m \in T => m + 1 \in T
    BY <1>1, <1>6, <1>7
  <2>2. 0..W \subseteq T
    <3> HIDE DEF T
    <3> QED
      BY <1>1, <2>1, Upwards
  <2> QED
    BY <1>1, <2>2
<1>9. PICK s : s = KeyOf(numbers)
  OBVIOUS
<1>10. s \in Seq(HexDigit) /\ Len(s) = Words * Chars
  BY <1>1, <1>5, <1>8, <1>9
<1>11. ASSUME NEW i \in 0..(Words - 1) PROVE FromString(s, i) = numbers[i + 1]
  <2>1. i + 1 \in 1..W /\ (i + 1) - 1 = i
    BY <1>1
  <2>2. PICK x \in 1..(Q - 1) : x = numbers[i + 1]
    BY <1>1, <2>1
  <2>3. x \in Nat /\ x < 2^WordBits
    <3>1. 2^WordBits \in Nat
      BY PrimeIs, Power
    <3> QED
      BY <3>1, PrimeIs
  <2>4. ASSUME NEW k \in 1..Chars PROVE s[i * Chars + k] = DigitOf(x, k)
    <3>1. s[i * Chars + k] = P[i + 1][k]
      BY <1>1, <1>5, <1>8, <1>9, <2>1
    <3>2. P[i + 1][k] = DigitOf(x, k)
      BY <1>2, <2>1, <2>2 DEF WordOf
    <3> QED
      BY <3>1, <3>2
  <2>5. FromString(s, i) = x
    BY <1>10, <2>3, <2>4, Reading
  <2> QED
    BY <2>2, <2>5
<1>12. IsHexKey(s)
  <2>1. \A k \in DOMAIN s : s[k] \in HexDigit
    BY <1>10
  <2> QED
    BY <1>10, <2>1 DEF IsHexKey
<1>13. s # NoKey
  <2>1. Words * Chars # 0
    BY <1>1
  <2> QED
    BY <1>10, <2>1 DEF NoKey
<1> QED
  BY <1>9, <1>10, <1>11, <1>12, <1>13

\* The numbers drawn for a half-key, and those of a key that was shown.
Drawn == [1..Words -> 1..(Q - 1)]

\* A public half-key has the same form as a private one.
LEMMA PublicIs ==
  ASSUME NEW drawn \in Drawn
  PROVE  PublicNumbers(drawn) \in Drawn
<1>1. \A k \in 1..Words : CalcExpMod(Alpha, drawn[k]) \in 1..(Q - 1)
  <2> TAKE k \in 1..Words
  <2>1. PICK x \in 1..(Q - 1) : x = drawn[k]
    BY DEF Drawn
  <2>2. x \in Nat /\ x < 2^WordBits /\ Alpha \in Nat /\ Alpha \in 1..(Q - 1)
    <3>1. 2^WordBits \in Nat
      BY PrimeIs, Power
    <3> QED
      BY <3>1, PrimeIs
  <2>3. CalcExpMod(Alpha, x) \in 1..(Q - 1)
    BY <2>2, ExpRange
  <2> QED
    BY <2>1, <2>3
<1> QED
  BY <1>1 DEF PublicNumbers, Drawn

\* The numbers that two half-keys give, and that they are those of the other side.
LEMMA SharedIs ==
  ASSUME NEW mine \in Drawn, NEW other \in Drawn
  PROVE  /\ SharedNumbers(KeyOf(mine), KeyOf(PublicNumbers(other))) \in Drawn
         /\ SharedNumbers(KeyOf(mine), KeyOf(PublicNumbers(other)))
              = SharedNumbers(KeyOf(other), KeyOf(PublicNumbers(mine)))
<1>1. ASSUME NEW a \in Drawn, NEW b \in Drawn
      PROVE  SharedNumbers(KeyOf(a), KeyOf(PublicNumbers(b)))
               = [k \in 1..Words |-> CalcExpMod(CalcExpMod(Alpha, b[k]), a[k])]
  <2>1. ASSUME NEW k \in 1..Words
        PROVE  /\ FromString(KeyOf(a), k - 1) = a[k]
               /\ FromString(KeyOf(PublicNumbers(b)), k - 1) = CalcExpMod(Alpha, b[k])
    <3>1. k - 1 \in 0..(Words - 1) /\ (k - 1) + 1 = k
      BY PrimeIs
    <3>2. PICK c \in Drawn : c = PublicNumbers(b)
      BY PublicIs
    <3>3. FromString(KeyOf(a), k - 1) = a[k] /\ FromString(KeyOf(c), k - 1) = c[k]
      BY <3>1, KeyIs DEF Drawn
    <3>4. c[k] = CalcExpMod(Alpha, b[k])
      BY <3>2 DEF PublicNumbers, Drawn
    <3> QED
      BY <3>2, <3>3, <3>4
  <2> QED
    BY <2>1 DEF SharedNumbers
<1>2. \A k \in 1..Words : mine[k] \in 1..(Q - 1) /\ other[k] \in 1..(Q - 1)
  BY DEF Drawn
<1>3. \A k \in 1..Words :
        CalcExpMod(CalcExpMod(Alpha, other[k]), mine[k])
          = CalcExpMod(CalcExpMod(Alpha, mine[k]), other[k])
  BY <1>2, ExpAgree
<1>4. \A k \in 1..Words : CalcExpMod(CalcExpMod(Alpha, other[k]), mine[k]) \in 1..(Q - 1)
  <2> TAKE k \in 1..Words
  <2>1. PICK x \in 1..(Q - 1), y \in 1..(Q - 1) : x = mine[k] /\ y = other[k]
    BY <1>2
  <2>2. x < 2^WordBits /\ y < 2^WordBits /\ x \in Nat /\ y \in Nat
        /\ Alpha \in Nat /\ Alpha \in 1..(Q - 1)
    <3>1. 2^WordBits \in Nat
      BY PrimeIs, Power
    <3> QED
      BY <3>1, PrimeIs
  <2>3. PICK Y \in 1..(Q - 1) : Y = CalcExpMod(Alpha, y)
    BY <2>2, ExpRange
  <2>4. CalcExpMod(Y, x) \in 1..(Q - 1)
    <3>1. Y \in Nat
      BY PrimeIs
    <3> QED
      BY <2>2, <3>1, ExpRange
  <2> QED
    BY <2>1, <2>3, <2>4
<1>5. SharedNumbers(KeyOf(mine), KeyOf(PublicNumbers(other)))
        = [k \in 1..Words |-> CalcExpMod(CalcExpMod(Alpha, other[k]), mine[k])]
  BY <1>1
<1>6. SharedNumbers(KeyOf(other), KeyOf(PublicNumbers(mine)))
        = [k \in 1..Words |-> CalcExpMod(CalcExpMod(Alpha, mine[k]), other[k])]
  BY <1>1
<1>7. [k \in 1..Words |-> CalcExpMod(CalcExpMod(Alpha, other[k]), mine[k])]
        = [k \in 1..Words |-> CalcExpMod(CalcExpMod(Alpha, mine[k]), other[k])]
  BY <1>3
<1> QED
  BY <1>4, <1>5, <1>6, <1>7 DEF Drawn

-----------------------------------------------------------------------------
(* The tab Diffie-Hellman. *)

\* What a user may have noted: nothing, or a half-key as the tool makes it.
Notes ==
  {[priv |-> NoKey, pub |-> NoKey]}
    \cup {[priv |-> KeyOf(drawn), pub |-> KeyOf(PublicNumbers(drawn))] : drawn \in Drawn}

\* What may have been shown: nothing, or the key of two strings that are accepted, of
\* numbers that can be written.
RightShown(e) ==
  \/ e = [key |-> NoKey, priv |-> NoKey, pub |-> NoKey]
  \/ /\ SharedNumbers(e.priv, e.pub) \in Drawn
     /\ e = [key |-> KeyOf(SharedNumbers(e.priv, e.pub)), priv |-> e.priv, pub |-> e.pub]

\* The inductive invariant of the tab.
KeysInv ==
  /\ notes \in [Users -> Notes]
  /\ shared = [u \in Users |-> shared[u]]
  /\ \A u \in Users : RightShown(shared[u])

\* A string of hexadecimal digits of the right length is accepted, and no other is.
LEMMA HexKeyIs ==
  ASSUME NEW s \in Seq(Nat), IsHexKey(s)
  PROVE  s \in Seq(HexDigit) /\ Len(s) = Words * Chars
<1>1. PICK n \in Nat : n = Len(s) /\ s = [k \in 1..n |-> s[k]] /\ DOMAIN s = 1..n
  OBVIOUS
<1>2. \A k \in 1..n : s[k] \in HexDigit
  BY <1>1 DEF IsHexKey
<1>3. [k \in 1..n |-> s[k]] \in Seq(HexDigit)
  BY <1>2
<1> QED
  BY <1>1, <1>3 DEF IsHexKey

\* What is typed is a sequence of numbers.
LEMMA TypedIs ==
  ASSUME KeysInv, NEW s \in Typed
  PROVE  s \in Seq(Nat)
<1>1. \A d \in Drawn : KeyOf(d) \in Seq(Nat)
  <2> TAKE d \in Drawn
  <2>1. HexDigit \subseteq Nat
    <3>1. 2^DigitBits \in Nat
      BY PrimeIs, Power
    <3> QED
      BY <3>1 DEF HexDigit
  <2>2. KeyOf(d) \in Seq(HexDigit)
    BY KeyIs DEF Drawn
  <2> QED
    BY <2>1, <2>2, SeqMonotonic
<1>2. NoKey \in Seq(Nat)
  BY DEF NoKey
<1>3. \A u \in Users : notes[u].priv \in Seq(Nat) /\ notes[u].pub \in Seq(Nat)
  <2> TAKE u \in Users
  <2>1. notes[u] \in Notes
    BY DEF KeysInv
  <2>2. CASE notes[u] = [priv |-> NoKey, pub |-> NoKey]
    BY <1>2, <2>2
  <2>3. ASSUME NEW d \in Drawn,
               notes[u] = [priv |-> KeyOf(d), pub |-> KeyOf(PublicNumbers(d))]
        PROVE  notes[u].priv \in Seq(Nat) /\ notes[u].pub \in Seq(Nat)
    BY <1>1, <2>3, PublicIs
  <2> QED
    BY <2>1, <2>2, <2>3 DEF Notes
<1> QED
  BY <1>3, OddKeysAssumption DEF Typed

\* Half-keys are made.
LEMMA HalfKeyKeeps ==
  ASSUME KeysInv, CalcHalfKey
  PROVE  KeysInv'
<1>1. PICK drawn \in Drawn :
        notes' = [notes EXCEPT ![user] =
                    [priv |-> KeyOf(drawn), pub |-> KeyOf(PublicNumbers(drawn))]]
  BY DEF CalcHalfKey, Drawn
<1>2. [priv |-> KeyOf(drawn), pub |-> KeyOf(PublicNumbers(drawn))] \in Notes
  BY DEF Notes
<1>3. notes' \in [Users -> Notes]
  BY <1>1, <1>2 DEF KeysInv
<1>4. shared' = shared
  BY DEF CalcHalfKey
<1> QED
  BY <1>3, <1>4 DEF KeysInv, RightShown

\* A key is made of two strings, or refused, or ends the program.
LEMMA KeyKeeps ==
  ASSUME KeysInv, NEW priv \in Typed, NEW pub \in Typed, CalcKey(priv, pub)
  PROVE  KeysInv'
<1>1. notes' = notes
  BY DEF CalcKey
<1>2. shared' = [u \in Users |-> shared'[u]] /\ \A u \in Users : RightShown(shared'[u])
  <2>1. CASE shared' = shared
    BY <2>1 DEF KeysInv
  <2>2. CASE shared' # shared
    <3> DEFINE numbers == SharedNumbers(priv, pub)
               new == [key |-> KeyOf(numbers), priv |-> priv, pub |-> pub]
    <3>1. IsHexKey(priv) /\ IsHexKey(pub) /\ 0 \notin ToSet(numbers)
            /\ shared' = [shared EXCEPT ![user] = new]
      BY <2>2 DEF CalcKey
    <3>2. priv \in Seq(HexDigit) /\ Len(priv) = Words * Chars
            /\ pub \in Seq(HexDigit) /\ Len(pub) = Words * Chars
      BY <3>1, TypedIs, HexKeyIs
    <3>3. \A k \in 1..Words : numbers[k] \in 0..(Q - 1)
      <4> TAKE k \in 1..Words
      <4>1. PICK i \in 0..(Words - 1) : i = k - 1
        BY PrimeIs
      <4>2. PICK x \in Nat, y \in Nat : x = FromString(priv, i) /\ y = FromString(pub, i)
                                          /\ x < 2^WordBits
        BY <3>2, Reading
      <4>3. CalcExpMod(y, x) \in 0..(Q - 1)
        BY <4>2, ExpRange
      <4>4. numbers[k] = CalcExpMod(y, x)
        BY <4>1, <4>2 DEF SharedNumbers
      <4> QED
        BY <4>3, <4>4
    <3>4. numbers = [k \in 1..Words |-> numbers[k]]
      BY DEF SharedNumbers
    <3> HIDE DEF numbers
    <3>5. \A k \in 1..Words : numbers[k] # 0
      BY <3>1, <3>4 DEF ToSet
    <3>6. \A k \in 1..Words : numbers[k] \in 1..(Q - 1)
      BY <3>3, <3>5
    <3>7. numbers \in Drawn
      BY <3>4, <3>6 DEF Drawn
    <3>8. RightShown(new)
      <4>1. new.priv = priv /\ new.pub = pub
        OBVIOUS
      <4> QED
        BY <3>7, <4>1 DEF RightShown, numbers
    <3> HIDE DEF new
    <3>9. shared' = [u \in Users |-> shared'[u]]
      BY <3>1 DEF KeysInv
    <3>10. \A u \in Users : shared'[u] = shared[u] \/ shared'[u] = new
      BY <3>1 DEF KeysInv
    <3> QED
      BY <3>8, <3>9, <3>10 DEF KeysInv
  <2> QED
    BY <2>1, <2>2
<1> QED
  BY <1>1, <1>2 DEF KeysInv, RightShown

\* Nothing is noted at first.
LEMMA InitKeysInv == Init => KeysInv
BY DEF Init, InitKeys, KeysInv, Notes, RightShown

\* Every button keeps the invariant.
LEMMA StepKeysInv == KeysInv /\ [Next]_vars => KeysInv'
<1> SUFFICES ASSUME KeysInv, [Next]_vars PROVE KeysInv'
  OBVIOUS
<1>1. CASE NextKeys
  BY <1>1, HalfKeyKeeps, KeyKeeps DEF NextKeys
<1>2. CASE UNCHANGED keys
  BY <1>2 DEF keys, KeysInv, RightShown
<1> QED
  BY <1>1, <1>2 DEF Next, vars

\* The half-key of a user who has noted one.
LEMMA NoteIs ==
  ASSUME KeysInv, NEW u \in Users, HasNote(u)
  PROVE  \E drawn \in Drawn :
           notes[u].priv = KeyOf(drawn) /\ notes[u].pub = KeyOf(PublicNumbers(drawn))
<1>1. notes[u] \in Notes
  BY DEF KeysInv
<1>2. notes[u] # [priv |-> NoKey, pub |-> NoKey]
  BY DEF HasNote
<1>3. PICK drawn \in Drawn :
        notes[u] = [priv |-> KeyOf(drawn), pub |-> KeyOf(PublicNumbers(drawn))]
  BY <1>1, <1>2 DEF Notes
<1> QED
  BY <1>3

\* The key that is shown when the noted strings were typed.
LEMMA ShownIs ==
  ASSUME KeysInv, NEW u \in Users, NEW v \in Users, HasNote(u),
         shared[u].priv = notes[u].priv, shared[u].pub = notes[v].pub
  PROVE  shared[u].key = KeyOf(SharedNumbers(notes[u].priv, notes[v].pub))
<1>1. RightShown(shared[u])
  BY DEF KeysInv
<1>2. shared[u].priv # NoKey
  BY DEF HasNote
<1>3. shared[u] = [key |-> KeyOf(SharedNumbers(shared[u].priv, shared[u].pub)),
                   priv |-> shared[u].priv, pub |-> shared[u].pub]
  BY <1>1, <1>2 DEF RightShown
<1>4. shared[u].key = KeyOf(SharedNumbers(shared[u].priv, shared[u].pub))
  BY <1>3
<1> QED
  BY <1>4

\* Two users who have typed what they noted and what the other one noted see the same
\* key, for every prime below the power of two of a number's digits, every base, every
\* number of digits and numbers, and whatever was drawn.  (calc_exp_mod, and the layout
\* of the strings)
THEOREM KeysAgree == Spec => []SharedAgree
<1>1. KeysInv => SharedAgree
  <2> SUFFICES ASSUME KeysInv, NEW u \in Users, NEW v \in Users,
                      HasNote(u), HasNote(v),
                      shared[u].priv = notes[u].priv, shared[u].pub = notes[v].pub,
                      shared[v].priv = notes[v].priv, shared[v].pub = notes[u].pub
               PROVE  shared[u].key = shared[v].key
    BY DEF SharedAgree
  <2>1. PICK a \in Drawn : notes[u].priv = KeyOf(a) /\ notes[u].pub = KeyOf(PublicNumbers(a))
    BY NoteIs
  <2>2. PICK b \in Drawn : notes[v].priv = KeyOf(b) /\ notes[v].pub = KeyOf(PublicNumbers(b))
    BY NoteIs
  <2>3. shared[u].key = KeyOf(SharedNumbers(notes[u].priv, notes[v].pub))
    BY ShownIs
  <2>4. shared[v].key = KeyOf(SharedNumbers(notes[v].priv, notes[u].pub))
    BY ShownIs
  <2>5. SharedNumbers(KeyOf(a), KeyOf(PublicNumbers(b)))
          = SharedNumbers(KeyOf(b), KeyOf(PublicNumbers(a)))
    BY SharedIs
  <2> QED
    BY <2>1, <2>2, <2>3, <2>4, <2>5
<1> QED
  BY <1>1, InitKeysInv, StepKeysInv, PTL DEF Spec

\* Every string that was shown is accepted when it is typed, and no two half-keys give a
\* number that cannot be written: Q is a prime, and no power of Alpha leaves the rest zero.
\* (hex32bit_append_to_string, string_is_hex_key)
THEOREM KeysAreWhole == Spec => []KeysWhole
<1>1. KeysInv => KeysWhole
  <2> SUFFICES ASSUME KeysInv, NEW u \in Users
               PROVE  /\ HasNote(u) => IsHexKey(notes[u].priv) /\ IsHexKey(notes[u].pub)
                      /\ shared[u].key # NoKey => IsHexKey(shared[u].key)
                      /\ \A v \in Users : HasNote(u) /\ HasNote(v) =>
                           0 \notin ToSet(SharedNumbers(notes[u].priv, notes[v].pub))
    BY DEF KeysWhole
  <2>1. ASSUME HasNote(u) PROVE IsHexKey(notes[u].priv) /\ IsHexKey(notes[u].pub)
    <3>1. PICK a \in Drawn :
            notes[u].priv = KeyOf(a) /\ notes[u].pub = KeyOf(PublicNumbers(a))
      BY <2>1, NoteIs
    <3>2. PICK c \in Drawn : c = PublicNumbers(a)
      BY PublicIs
    <3> QED
      BY <3>1, <3>2, KeyIs DEF Drawn
  <2>2. ASSUME shared[u].key # NoKey PROVE IsHexKey(shared[u].key)
    <3>1. RightShown(shared[u])
      BY DEF KeysInv
    <3>2. PICK c \in Drawn : shared[u].key = KeyOf(c)
      BY <2>2, <3>1 DEF RightShown
    <3> QED
      BY <3>2, KeyIs DEF Drawn
  <2>3. ASSUME NEW v \in Users, HasNote(u), HasNote(v)
        PROVE  0 \notin ToSet(SharedNumbers(notes[u].priv, notes[v].pub))
    <3>1. PICK a \in Drawn : notes[u].priv = KeyOf(a)
      BY <2>3, NoteIs
    <3>2. PICK b \in Drawn : notes[v].pub = KeyOf(PublicNumbers(b))
      BY <2>3, NoteIs
    <3>3. PICK c \in Drawn : c = SharedNumbers(notes[u].priv, notes[v].pub)
      BY <3>1, <3>2, SharedIs
    <3>4. 0 \notin ToSet(c)
      BY DEF Drawn, ToSet
    <3> QED
      BY <3>3, <3>4
  <2> QED
    BY <2>1, <2>2, <2>3
<1> QED
  BY <1>1, InitKeysInv, StepKeysInv, PTL DEF Spec

-----------------------------------------------------------------------------
(* base64_encode is RFC 4648. *)

Bytes == 0..255
Modes == {STD, URL, IMAP}

\* The p-th byte of a text, zeros behind its end.
ByteAt(in, p) == IF p \in DOMAIN in THEN in[p] ELSE 0

\* The six bits of letter k, from 0, of the three bytes a, b and c.
SixBits(a, b, c, k) ==
  CASE k = 0 -> a \div 4
    [] k = 1 -> (a % 4) * 16 + b \div 16
    [] k = 2 -> (b % 16) * 4 + c \div 64
    [] k = 3 -> c % 64

\* Those of the g-th group of three bytes.
Sextet(in, g, k) ==
  SixBits(ByteAt(in, 3 * g + 1), ByteAt(in, 3 * g + 2), ByteAt(in, 3 * g + 3), k)

\* The first m of the sequence s are the letters of the text.
SpelledUpTo(mode, in, s, m) ==
  \A g \in Nat, k \in 0..3 :
    4 * g + k + 1 <= m => s[4 * g + k + 1] = Letter(mode, Sextet(in, g, k))

\* The output after 3q + r bytes: letters, the last one without the bits to come.
Grown(mode, in, q, r, s) ==
  /\ s \in Seq(Nat)
  /\ Len(s) = 4 * q + (IF r = 0 THEN 0 ELSE r + 1)
  /\ SpelledUpTo(mode, in, s, IF r = 0 THEN 4 * q ELSE 4 * q + r)
  /\ r = 1 => s[Len(s)] = (ByteAt(in, 3 * q + 1) % 4) * 16
  /\ r = 2 => s[Len(s)] = (ByteAt(in, 3 * q + 2) % 16) * 4

\* What a byte is.
LEMMA ByteNumber ==
  ASSUME NEW b \in Bytes
  PROVE  b \in Nat /\ b < 256
BY DEF Bytes

\* A byte is one, also behind the end.
LEMMA ByteTyped ==
  ASSUME NEW in \in Seq(Bytes), NEW p \in Nat
  PROVE  ByteAt(in, p) \in Nat /\ ByteAt(in, p) < 256
<1>1. CASE p \in DOMAIN in
  <2>1. in[p] \in Bytes
    BY <1>1
  <2> QED
    BY <1>1, <2>1, ByteNumber DEF ByteAt
<1>2. CASE p \notin DOMAIN in
  BY <1>2 DEF ByteAt
<1> QED
  BY <1>1, <1>2

\* A byte that is there.
LEMMA ByteIs ==
  ASSUME NEW in \in Seq(Bytes), NEW p \in 1..Len(in)
  PROVE  in[p] \in Nat /\ in[p] < 256 /\ in[p] = ByteAt(in, p)
<1>1. in[p] \in Bytes /\ p \in DOMAIN in
  OBVIOUS
<1> QED
  BY <1>1, ByteNumber DEF ByteAt

\* The bits of bytes.
LEMMA BitsTyped ==
  ASSUME NEW a \in Nat, a < 256
  PROVE  /\ a \div 4 \in 0..63 /\ a \div 16 \in 0..15 /\ a \div 64 \in 0..3
         /\ a % 4 \in 0..3 /\ a % 16 \in 0..15 /\ a % 64 \in 0..63
<1>1. a \div 4 \in 0..63 /\ a % 4 \in 0..3
  OBVIOUS
<1>2. a \div 16 \in 0..15 /\ a % 16 \in 0..15
  OBVIOUS
<1>3. a \div 64 \in 0..3 /\ a % 64 \in 0..63
  OBVIOUS
<1> QED
  BY <1>1, <1>2, <1>3, Zenon

\* Six bits are a number below 64.
LEMMA SextetTyped ==
  ASSUME NEW in \in Seq(Bytes), NEW g \in Nat, NEW k \in 0..3
  PROVE  Sextet(in, g, k) \in 0..63
<1>1. PICK a \in Nat, b \in Nat, c \in Nat :
        /\ a = ByteAt(in, 3 * g + 1) /\ b = ByteAt(in, 3 * g + 2) /\ c = ByteAt(in, 3 * g + 3)
        /\ a < 256 /\ b < 256 /\ c < 256
  BY ByteTyped
<1>2. a \div 4 \in 0..63 /\ (a % 4) * 16 + b \div 16 \in 0..63
  <2>1. PICK u \in 0..3, v \in 0..15 : u = a % 4 /\ v = b \div 16
    BY <1>1, BitsTyped
  <2>2. u * 16 + v \in 0..63
    OBVIOUS
  <2> QED
    BY <1>1, <2>1, <2>2, BitsTyped
<1>3. (b % 16) * 4 + c \div 64 \in 0..63 /\ c % 64 \in 0..63
  <2>1. PICK u \in 0..15, v \in 0..3 : u = b % 16 /\ v = c \div 64
    BY <1>1, BitsTyped
  <2>2. u * 4 + v \in 0..63
    OBVIOUS
  <2> QED
    BY <1>1, <2>1, <2>2, BitsTyped
<1>4. Sextet(in, g, k) \in {a \div 4, (a % 4) * 16 + b \div 16, (b % 16) * 4 + c \div 64, c % 64}
  <2>1. k = 0 \/ k = 1 \/ k = 2 \/ k = 3
    OBVIOUS
  <2> QED
    BY <1>1, <2>1 DEF Sextet, SixBits
<1> QED
  BY <1>2, <1>3, <1>4, Zenon

\* The letters, and that none is the padding or a line end.
LEMMA LetterTyped ==
  ASSUME NEW mode \in Modes, NEW v \in 0..63
  PROVE  /\ Letter(mode, v) \in Nat /\ Letter(mode, v) < 128
         /\ Letter(mode, v) # Pad /\ Letter(mode, v) # LineEnd
BY DEF Letter, Modes, STD, URL, IMAP, Pad, LineEnd

\* The letters of a text are numbers.
LEMMA SpelledTyped ==
  ASSUME NEW in \in Seq(Bytes), NEW mode \in Modes, NEW g \in Nat, NEW k \in 0..3
  PROVE  Letter(mode, Sextet(in, g, k)) \in Nat
BY SextetTyped, LetterTyped

\* u is s and x, and s and the two numbers x and y.
OneMore(u, s, x) ==
  Len(u) = Len(s) + 1 /\ u[Len(s) + 1] = x /\ \A j \in 1..Len(s) : u[j] = s[j]

TwoMore(u, s, x, y) ==
  /\ Len(u) = Len(s) + 2 /\ u[Len(s) + 1] = x /\ u[Len(s) + 2] = y
  /\ \A j \in 1..Len(s) : u[j] = s[j]

\* What is appended stands at the end.
LEMMA Appended ==
  ASSUME NEW s \in Seq(Nat), NEW x \in Nat, NEW y \in Nat
  PROVE  /\ Append(s, x) \in Seq(Nat) /\ OneMore(Append(s, x), s, x)
         /\ s \o <<x, y>> \in Seq(Nat) /\ TwoMore(s \o <<x, y>>, s, x, y)
<1>1. Append(s, x) \in Seq(Nat) /\ OneMore(Append(s, x), s, x)
  BY DEF OneMore
<1>2. PICK t \in Seq(Nat) : t = <<x, y>> /\ Len(t) = 2 /\ t[1] = x /\ t[2] = y
  <2>1. <<x, y>> \in Seq(Nat)
    OBVIOUS
  <2>2. Len(<<x, y>>) = 2 /\ <<x, y>>[1] = x /\ <<x, y>>[2] = y
    OBVIOUS
  <2> QED
    BY <2>1, <2>2
<1>3. PICK u : u = s \o t
  OBVIOUS
<1>4. u \in Seq(Nat) /\ OneBehind(u, s, t)
  BY <1>3, Concatenated
<1>5. TwoMore(u, s, x, y)
  BY <1>2, <1>4 DEF OneBehind, TwoMore
<1> QED
  BY <1>1, <1>2, <1>3, <1>4, <1>5

\* The first byte of a group.
LEMMA FirstByte ==
  ASSUME NEW in \in Seq(Bytes), NEW mode \in Modes, NEW q \in Nat, NEW s,
         Grown(mode, in, q, 0, s), 3 * q + 1 \in 1..Len(in)
  PROVE  Grown(mode, in, q, 1, EncodeByte(mode, s, 3 * q, in[3 * q + 1]))
<1>1. PICK b \in Nat : b = in[3 * q + 1] /\ b < 256 /\ b = ByteAt(in, 3 * q + 1)
  BY ByteIs
<1>2. (3 * q) % 3 = 0
  OBVIOUS
<1> DEFINE x == Letter(mode, b \div 4)
           y == (b % 4) * 16
           u == s \o <<x, y>>
<1>3. EncodeByte(mode, s, 3 * q, b) = u
  BY <1>2 DEF EncodeByte
<1>4. x = Letter(mode, Sextet(in, q, 0))
  BY <1>1 DEF Sextet, SixBits
<1>5. x \in Nat /\ y \in Nat
  <2>1. b % 4 \in 0..3 /\ 0 \in 0..3
    BY <1>1, BitsTyped
  <2> QED
    BY <1>4, <2>1, SpelledTyped
<1>6. s \in Seq(Nat) /\ Len(s) = 4 * q /\ SpelledUpTo(mode, in, s, 4 * q)
  BY DEF Grown
<1> HIDE DEF x, y
<1>7. /\ u \in Seq(Nat) /\ Len(u) = 4 * q + 2
      /\ u[4 * q + 1] = x /\ u[4 * q + 2] = y
      /\ \A j \in 1..(4 * q) : u[j] = s[j]
  <2>1. PICK n \in Nat : n = 4 * q
    OBVIOUS
  <2>2. n = Len(s)
    BY <1>6, <2>1
  <2>3. u \in Seq(Nat) /\ TwoMore(u, s, x, y)
    BY <1>5, <1>6, Appended
  <2> HIDE DEF u
  <2> QED
    BY <2>1, <2>2, <2>3 DEF TwoMore
<1> HIDE DEF u
<1>8. SpelledUpTo(mode, in, u, 4 * q + 1)
  <2> SUFFICES ASSUME NEW g \in Nat, NEW k \in 0..3, 4 * g + k + 1 <= 4 * q + 1
               PROVE  u[4 * g + k + 1] = Letter(mode, Sextet(in, g, k))
    BY DEF SpelledUpTo
  <2>1. CASE 4 * g + k + 1 <= 4 * q
    <3>1. s[4 * g + k + 1] = Letter(mode, Sextet(in, g, k))
      BY <1>6, <2>1 DEF SpelledUpTo
    <3> QED
      BY <1>7, <2>1, <3>1
  <2>2. CASE 4 * g + k + 1 = 4 * q + 1
    <3>1. g = q /\ k = 0
      BY <2>2
    <3> QED
      BY <1>4, <1>7, <2>2, <3>1
  <2> QED
    BY <2>1, <2>2
<1>9. u[Len(u)] = (ByteAt(in, 3 * q + 1) % 4) * 16
  BY <1>1, <1>7 DEF y
<1>10. Grown(mode, in, q, 1, u)
  BY <1>7, <1>8, <1>9 DEF Grown
<1> QED
  BY <1>1, <1>3, <1>10

\* The last number of the output is replaced.
LEMMA Replaced ==
  ASSUME NEW s \in Seq(Nat), NEW n \in Nat, n = Len(s), n > 0, NEW x \in Nat,
         NEW t, t = [s EXCEPT ![n] = x]
  PROVE  t \in Seq(Nat) /\ Len(t) = n /\ t[n] = x /\ \A j \in 1..(n - 1) : t[j] = s[j]
OBVIOUS

\* The second byte of a group.
LEMMA SecondByte ==
  ASSUME NEW in \in Seq(Bytes), NEW mode \in Modes, NEW q \in Nat, NEW s,
         Grown(mode, in, q, 1, s), 3 * q + 2 \in 1..Len(in)
  PROVE  Grown(mode, in, q, 2, EncodeByte(mode, s, 3 * q + 1, in[3 * q + 2]))
<1>1. PICK b \in Nat : b = in[3 * q + 2] /\ b < 256 /\ b = ByteAt(in, 3 * q + 2)
  BY ByteIs
<1>2. (3 * q + 1) % 3 = 1
  OBVIOUS
<1>3. s \in Seq(Nat) /\ Len(s) = 4 * q + 2 /\ SpelledUpTo(mode, in, s, 4 * q + 1)
        /\ s[4 * q + 2] = (ByteAt(in, 3 * q + 1) % 4) * 16
  BY DEF Grown
<1> DEFINE x == Letter(mode, Sextet(in, q, 1))
           y == (b % 16) * 4
           t == [s EXCEPT ![4 * q + 2] = x]
           u == Append(t, y)
<1>4. EncodeByte(mode, s, 3 * q + 1, b) = u
  <2>1. s[4 * q + 2] + b \div 16 = Sextet(in, q, 1)
    BY <1>1, <1>3 DEF Sextet, SixBits
  <2>2. [s EXCEPT ![Len(s)] = Letter(mode, @ + b \div 16)]
          = [s EXCEPT ![4 * q + 2] = Letter(mode, s[4 * q + 2] + b \div 16)]
    BY <1>3
  <2> QED
    BY <1>2, <2>1, <2>2 DEF EncodeByte
<1>5. x \in Nat /\ y \in Nat
  <2>1. b % 16 \in 0..15 /\ 1 \in 0..3
    BY <1>1, BitsTyped
  <2> QED
    BY <2>1, SpelledTyped
<1> HIDE DEF x, y
<1>6. /\ t \in Seq(Nat) /\ Len(t) = 4 * q + 2 /\ t[4 * q + 2] = x
      /\ \A j \in 1..(4 * q + 1) : t[j] = s[j]
  <2>1. PICK n \in Nat : n = 4 * q + 2
    OBVIOUS
  <2>2. n = Len(s) /\ n > 0 /\ t = [s EXCEPT ![n] = x]
    BY <1>3, <2>1
  <2>3. t \in Seq(Nat) /\ Len(t) = n /\ t[n] = x /\ \A j \in 1..(n - 1) : t[j] = s[j]
    BY <1>3, <1>5, <2>2, Replaced
  <2> HIDE DEF t
  <2> QED
    BY <2>1, <2>3
<1> HIDE DEF t
<1>7. /\ u \in Seq(Nat) /\ Len(u) = 4 * q + 3
      /\ u[4 * q + 3] = y
      /\ \A j \in 1..(4 * q + 2) : u[j] = t[j]
  <2>1. u \in Seq(Nat) /\ OneMore(u, t, y)
    BY <1>5, <1>6, Appended
  <2>2. PICK n \in Nat : n = Len(t) /\ n = 4 * q + 2
    BY <1>6
  <2> HIDE DEF u
  <2>3. u \in Seq(Nat) /\ Len(u) = n + 1 /\ u[n + 1] = y /\ \A j \in 1..n : u[j] = t[j]
    BY <2>1, <2>2 DEF OneMore
  <2> QED
    BY <2>2, <2>3
<1> HIDE DEF u
<1>8. SpelledUpTo(mode, in, u, 4 * q + 2)
  <2> SUFFICES ASSUME NEW g \in Nat, NEW k \in 0..3, 4 * g + k + 1 <= 4 * q + 2
               PROVE  u[4 * g + k + 1] = Letter(mode, Sextet(in, g, k))
    BY DEF SpelledUpTo
  <2>1. CASE 4 * g + k + 1 <= 4 * q + 1
    <3>1. s[4 * g + k + 1] = Letter(mode, Sextet(in, g, k))
      BY <1>3, <2>1 DEF SpelledUpTo
    <3> QED
      BY <1>6, <1>7, <2>1, <3>1
  <2>2. CASE 4 * g + k + 1 = 4 * q + 2
    <3>1. g = q /\ k = 1
      BY <2>2
    <3> QED
      BY <1>6, <1>7, <2>2, <3>1 DEF x
  <2> QED
    BY <2>1, <2>2
<1>9. u[Len(u)] = (ByteAt(in, 3 * q + 2) % 16) * 4
  BY <1>1, <1>7 DEF y
<1>10. Grown(mode, in, q, 2, u)
  BY <1>7, <1>8, <1>9 DEF Grown
<1> QED
  BY <1>1, <1>4, <1>10

\* The third byte of a group.
LEMMA ThirdByte ==
  ASSUME NEW in \in Seq(Bytes), NEW mode \in Modes, NEW q \in Nat, NEW s,
         Grown(mode, in, q, 2, s), 3 * q + 3 \in 1..Len(in)
  PROVE  Grown(mode, in, q + 1, 0, EncodeByte(mode, s, 3 * q + 2, in[3 * q + 3]))
<1>1. PICK b \in Nat : b = in[3 * q + 3] /\ b < 256 /\ b = ByteAt(in, 3 * q + 3)
  BY ByteIs
<1>2. (3 * q + 2) % 3 = 2
  OBVIOUS
<1>3. s \in Seq(Nat) /\ Len(s) = 4 * q + 3 /\ SpelledUpTo(mode, in, s, 4 * q + 2)
        /\ s[4 * q + 3] = (ByteAt(in, 3 * q + 2) % 16) * 4
  BY DEF Grown
<1> DEFINE x == Letter(mode, Sextet(in, q, 2))
           y == Letter(mode, Sextet(in, q, 3))
           t == [s EXCEPT ![4 * q + 3] = x]
           u == Append(t, y)
<1>4. EncodeByte(mode, s, 3 * q + 2, b) = u
  <2>1. s[4 * q + 3] + b \div 64 = Sextet(in, q, 2) /\ b % 64 = Sextet(in, q, 3)
    BY <1>1, <1>3 DEF Sextet, SixBits
  <2>2. [s EXCEPT ![Len(s)] = Letter(mode, @ + b \div 64)]
          = [s EXCEPT ![4 * q + 3] = Letter(mode, s[4 * q + 3] + b \div 64)]
    BY <1>3
  <2> QED
    BY <1>2, <2>1, <2>2 DEF EncodeByte
<1>5. x \in Nat /\ y \in Nat
  <2>1. 2 \in 0..3 /\ 3 \in 0..3
    OBVIOUS
  <2> QED
    BY <2>1, SpelledTyped
<1> HIDE DEF x, y
<1>6. /\ t \in Seq(Nat) /\ Len(t) = 4 * q + 3 /\ t[4 * q + 3] = x
      /\ \A j \in 1..(4 * q + 2) : t[j] = s[j]
  <2>1. PICK n \in Nat : n = 4 * q + 3
    OBVIOUS
  <2>2. n = Len(s) /\ n > 0 /\ t = [s EXCEPT ![n] = x]
    BY <1>3, <2>1
  <2>3. t \in Seq(Nat) /\ Len(t) = n /\ t[n] = x /\ \A j \in 1..(n - 1) : t[j] = s[j]
    BY <1>3, <1>5, <2>2, Replaced
  <2> HIDE DEF t
  <2> QED
    BY <2>1, <2>3
<1> HIDE DEF t
<1>7. /\ u \in Seq(Nat) /\ Len(u) = 4 * q + 4
      /\ u[4 * q + 4] = y
      /\ \A j \in 1..(4 * q + 3) : u[j] = t[j]
  <2>1. u \in Seq(Nat) /\ OneMore(u, t, y)
    BY <1>5, <1>6, Appended
  <2>2. PICK n \in Nat : n = Len(t) /\ n = 4 * q + 3
    BY <1>6
  <2> HIDE DEF u
  <2>3. u \in Seq(Nat) /\ Len(u) = n + 1 /\ u[n + 1] = y /\ \A j \in 1..n : u[j] = t[j]
    BY <2>1, <2>2 DEF OneMore
  <2> QED
    BY <2>2, <2>3
<1> HIDE DEF u
<1>8. SpelledUpTo(mode, in, u, 4 * q + 4)
  <2> SUFFICES ASSUME NEW g \in Nat, NEW k \in 0..3, 4 * g + k + 1 <= 4 * q + 4
               PROVE  u[4 * g + k + 1] = Letter(mode, Sextet(in, g, k))
    BY DEF SpelledUpTo
  <2>1. CASE 4 * g + k + 1 <= 4 * q + 2
    <3>1. s[4 * g + k + 1] = Letter(mode, Sextet(in, g, k))
      BY <1>3, <2>1 DEF SpelledUpTo
    <3> QED
      BY <1>6, <1>7, <2>1, <3>1
  <2>2. CASE 4 * g + k + 1 = 4 * q + 3
    <3>1. g = q /\ k = 2
      BY <2>2
    <3> QED
      BY <1>6, <1>7, <2>2, <3>1 DEF x
  <2>3. CASE 4 * g + k + 1 = 4 * q + 4
    <3>1. g = q /\ k = 3
      BY <2>3
    <3> QED
      BY <1>7, <2>3, <3>1 DEF y
  <2> QED
    BY <2>1, <2>2, <2>3
<1>9. Grown(mode, in, q + 1, 0, u)
  <2>1. 4 * (q + 1) = 4 * q + 4
    OBVIOUS
  <2> QED
    BY <1>7, <1>8, <2>1 DEF Grown
<1> QED
  BY <1>1, <1>4, <1>9

\* The output after i bytes.
GrownAt(mode, in, i, s) ==
  \E q \in Nat, r \in 0..2 : i = 3 * q + r /\ Grown(mode, in, q, r, s)

\* One byte more.
LEMMA GrowsOn ==
  ASSUME NEW in \in Seq(Bytes), NEW mode \in Modes, NEW i \in 1..Len(in), NEW s,
         GrownAt(mode, in, i - 1, s)
  PROVE  GrownAt(mode, in, i, EncodeByte(mode, s, i - 1, in[i]))
<1>1. PICK q \in Nat, r \in 0..2 : i - 1 = 3 * q + r /\ Grown(mode, in, q, r, s)
  BY DEF GrownAt
<1>2. CASE r = 0
  <2>1. i - 1 = 3 * q /\ i = 3 * q + 1
    BY <1>1, <1>2
  <2>2. Grown(mode, in, q, 1, EncodeByte(mode, s, i - 1, in[i]))
    BY <1>1, <1>2, <2>1, FirstByte
  <2> QED
    BY <2>1, <2>2 DEF GrownAt
<1>3. CASE r = 1
  <2>1. i - 1 = 3 * q + 1 /\ i = 3 * q + 2
    BY <1>1, <1>3
  <2>2. Grown(mode, in, q, 2, EncodeByte(mode, s, i - 1, in[i]))
    BY <1>1, <1>3, <2>1, SecondByte
  <2> QED
    BY <2>1, <2>2 DEF GrownAt
<1>4. CASE r = 2
  <2>1. i - 1 = 3 * q + 2 /\ i = 3 * q + 3 /\ i = 3 * (q + 1) + 0 /\ q + 1 \in Nat
    BY <1>1, <1>4
  <2>2. Grown(mode, in, q + 1, 0, EncodeByte(mode, s, i - 1, in[i]))
    BY <1>1, <1>4, <2>1, ThirdByte
  <2> QED
    BY <2>1, <2>2 DEF GrownAt
<1> QED
  BY <1>2, <1>3, <1>4

\* The letters after the whole input.
LEMMA LettersGrown ==
  ASSUME NEW in \in Seq(Bytes), NEW mode \in Modes
  PROVE  GrownAt(mode, in, Len(in), Letters(mode, in))
<1> DEFINE n == Len(in)
           Body(h) == [i \in 0..n |->
                         IF i = 0 THEN <<>> ELSE EncodeByte(mode, h[i - 1], i - 1, in[i])]
           g == CHOOSE h : h = Body(h)
           next(i, s) == IF GrownAt(mode, in, i - 1, s)
                         THEN EncodeByte(mode, s, i - 1, in[i]) ELSE s
           step == [i \in 1..n |-> [s \in Seq(Nat) |-> next(i, s)]]
<1>1. Letters(mode, in) = g[n]
  BY DEF Letters
<1>2. n \in Nat
  OBVIOUS
<1>3. GrownAt(mode, in, 0, <<>>)
  <2>1. Grown(mode, in, 0, 0, <<>>)
    <3>1. <<>> \in Seq(Nat) /\ Len(<<>>) = 0
      OBVIOUS
    <3>2. SpelledUpTo(mode, in, <<>>, 0)
      BY DEF SpelledUpTo
    <3> QED
      BY <3>1, <3>2 DEF Grown
  <2>2. 0 = 3 * 0 + 0
    OBVIOUS
  <2> QED
    BY <2>1, <2>2 DEF GrownAt
<1>4. \A i \in 1..n : \A s :
        GrownAt(mode, in, i - 1, s) => GrownAt(mode, in, i, EncodeByte(mode, s, i - 1, in[i]))
  BY GrowsOn
<1>5. \A i, s : GrownAt(mode, in, i, s) => s \in Seq(Nat)
  BY DEF GrownAt, Grown
<1> HIDE DEF n
<1>6. step \in [1..n -> [Seq(Nat) -> Seq(Nat)]]
  <2>1. \A i \in 1..n, s \in Seq(Nat) : next(i, s) \in Seq(Nat)
    BY <1>4, <1>5
  <2> HIDE DEF next
  <2> QED
    BY <2>1
<1>7. PICK f : GoesOn(n, Seq(Nat), <<>>, step, f)
  <2>1. <<>> \in Seq(Nat)
    OBVIOUS
  <2> HIDE DEF step
  <2> QED
    BY <1>2, <1>6, <2>1, GoingOn
<1>8. f \in [0..n -> Seq(Nat)] /\ f[0] = <<>> /\ \A i \in 1..n : f[i] = step[i][f[i - 1]]
  <2> HIDE DEF step
  <2> QED
    BY <1>7 DEF GoesOn
<1>9. \A i \in 0..n : GrownAt(mode, in, i, f[i])
  <2> DEFINE T == {i \in 0..n : GrownAt(mode, in, i, f[i])}
  <2>1. 0 \in T
    BY <1>2, <1>3, <1>8
  <2>2. ASSUME NEW i \in 0..(n - 1), i \in T PROVE i + 1 \in T
    <3>1. i + 1 \in 1..n /\ i + 1 \in 0..n /\ (i + 1) - 1 = i /\ f[i] \in Seq(Nat)
      BY <1>2, <1>8
    <3>2. f[i + 1] = next(i + 1, f[i])
      <4> HIDE DEF next
      <4> QED
        BY <1>8, <3>1
    <3>3. GrownAt(mode, in, i, f[i])
      BY <2>2
    <3>4. f[i + 1] = EncodeByte(mode, f[i], i, in[i + 1])
      BY <3>1, <3>2, <3>3
    <3>5. GrownAt(mode, in, i + 1, f[i + 1])
      BY <1>4, <3>1, <3>3, <3>4
    <3> QED
      BY <3>1, <3>5
  <2>3. 0..n \subseteq T
    <3> HIDE DEF T
    <3> QED
      BY <1>2, <2>1, <2>2, Upwards
  <2> QED
    BY <2>3
<1>10. \A i \in 1..n : f[i] = EncodeByte(mode, f[i - 1], i - 1, in[i])
  <2> TAKE i \in 1..n
  <2>1. i - 1 \in 0..n /\ f[i - 1] \in Seq(Nat)
    BY <1>2, <1>8
  <2>2. f[i] = next(i, f[i - 1])
    <3> HIDE DEF next
    <3> QED
      BY <1>8, <2>1
  <2>3. GrownAt(mode, in, i - 1, f[i - 1])
    BY <1>9, <2>1
  <2> QED
    BY <2>2, <2>3
<1> HIDE DEF step, next
<1>11. \E h : h = Body(h)
  <2>1. f = [i \in 0..n |-> f[i]]
    BY <1>8
  <2>2. \A i \in 0..n :
          f[i] = IF i = 0 THEN <<>> ELSE EncodeByte(mode, f[i - 1], i - 1, in[i])
    <3> TAKE i \in 0..n
    <3>1. i = 0 \/ i \in 1..n
      BY <1>2
    <3> QED
      BY <1>8, <1>10, <3>1
  <2>3. f = Body(f)
    BY <2>1, <2>2
  <2> HIDE DEF Body
  <2> QED
    BY <2>3
<1>12. g = Body(g)
  <2> HIDE DEF Body
  <2> QED
    BY <1>11
<1>13. \A i \in 0..n :
         g[i] = IF i = 0 THEN <<>> ELSE EncodeByte(mode, g[i - 1], i - 1, in[i])
  <2> HIDE DEF g
  <2> QED
    BY <1>12
<1> HIDE DEF g
<1>14. GrownAt(mode, in, n, g[n])
  <2> DEFINE T == {i \in 0..n : GrownAt(mode, in, i, g[i])}
  <2>1. 0 \in T
    BY <1>2, <1>3, <1>13
  <2>2. ASSUME NEW i \in 0..(n - 1), i \in T PROVE i + 1 \in T
    <3>1. i + 1 \in 1..n /\ i + 1 \in 0..n /\ (i + 1) - 1 = i /\ i + 1 # 0
      BY <1>2
    <3>2. g[i + 1] = EncodeByte(mode, g[i], i, in[i + 1])
      BY <1>13, <3>1
    <3>3. GrownAt(mode, in, i + 1, g[i + 1])
      BY <1>4, <2>2, <3>1, <3>2
    <3> QED
      BY <3>1, <3>3
  <2>3. 0..n \subseteq T
    <3> HIDE DEF T
    <3> QED
      BY <1>2, <2>1, <2>2, Upwards
  <2> QED
    BY <1>2, <2>3
<1> QED
  BY <1>1, <1>14 DEF n

\* How many letters come before the padding, after 3q + r bytes.
LetterCount(q, r) == 4 * q + (IF r = 0 THEN 0 ELSE r + 1)

\* e is the text in letters, and padding up to a group of four.
EncodedAs(mode, in, q, r, e) ==
  /\ e \in Seq(Nat) /\ Len(e) = 4 * q + (IF r = 0 THEN 0 ELSE 4)
  /\ SpelledUpTo(mode, in, e, LetterCount(q, r))
  /\ \A j \in (LetterCount(q, r) + 1)..Len(e) : e[j] = Pad

\* The six bits that RFC 4648 takes for letter k out of the 24 of w.
Taken(w, k) == (w \div 64^(3 - k)) % 64

\* The three bytes in one number.
Together(w, a, b, c) == w = a * 65536 + b * 256 + c

\* They are those of the three bytes.
LEMMA SixOfWord ==
  ASSUME NEW a \in Nat, a < 256, NEW b \in Nat, b < 256, NEW c \in Nat, c < 256,
         NEW w, Together(w, a, b, c), NEW k \in 0..3
  PROVE  Taken(w, k) = SixBits(a, b, c, k)
<1>1. (w \div 262144) % 64 = a \div 4
  BY DEF Together
<1>2. (w \div 4096) % 64 = (a % 4) * 16 + b \div 16
  BY DEF Together
<1>3. (w \div 64) % 64 = (b % 16) * 4 + c \div 64
  BY DEF Together
<1>4. (w \div 1) % 64 = c % 64
  BY DEF Together
<1>5. 64^(3 - 0) = 262144 /\ 64^(3 - 1) = 4096 /\ 64^(3 - 2) = 64 /\ 64^(3 - 3) = 1
  <2>1. 64^3 = 262144 /\ 64^2 = 4096 /\ 64^1 = 64 /\ 64^0 = 1
    OBVIOUS
  <2>2. 3 - 0 = 3 /\ 3 - 1 = 2 /\ 3 - 2 = 1 /\ 3 - 3 = 0
    OBVIOUS
  <2> QED
    BY <2>1, <2>2
<1>6. Taken(w, 0) = SixBits(a, b, c, 0)
  BY <1>1, <1>5, SMT DEF Taken, SixBits
<1>7. Taken(w, 1) = SixBits(a, b, c, 1)
  BY <1>2, <1>5, SMT DEF Taken, SixBits
<1>8. Taken(w, 2) = SixBits(a, b, c, 2)
  BY <1>3, <1>5, SMT DEF Taken, SixBits
<1>9. Taken(w, 3) = SixBits(a, b, c, 3)
  BY <1>4, <1>5, SMT DEF Taken, SixBits
<1>10. k = 0 \/ k = 1 \/ k = 2 \/ k = 3
  OBVIOUS
<1> QED
  BY <1>6, <1>7, <1>8, <1>9, <1>10, SMT

\* RFC 4648, one letter at a time.
LEMMA RfcIs ==
  ASSUME NEW in \in Seq(Bytes), NEW mode \in Modes, NEW q \in Nat, NEW r \in 0..2,
         Len(in) = 3 * q + r, in # <<>>
  PROVE  EncodedAs(mode, in, q, r, RfcEncode(mode, in))
<1> DEFINE e == RfcEncode(mode, in)
           n == EncSize(Len(in))
           m == LetterCount(q, r)
           at(j) == IF 6 * (j - 1) >= 8 * Len(in) THEN Pad
                    ELSE Letter(mode, (Word(in, (j - 1) \div 4) \div 64^(3 - ((j - 1) % 4))) % 64)
<1>1. Len(in) # 0
  BY EmptySeq
<1>2. n = 4 * q + (IF r = 0 THEN 0 ELSE 4)
  <2>1. EncSize(Len(in)) = ((Len(in) + 2) \div 3) * 4
    BY <1>1 DEF EncSize
  <2> QED
    BY <2>1
<1>3. m \in Nat /\ m <= n
  BY <1>2 DEF LetterCount
<1>4. e = [j \in 1..n |-> at(j)]
  BY DEF RfcEncode
<1>5. \A j \in 1..n : 6 * (j - 1) >= 8 * Len(in) <=> j > m
  BY <1>2 DEF LetterCount
<1>6. ASSUME NEW g \in Nat, NEW k \in 0..3, 4 * g + k + 1 <= m
      PROVE  at(4 * g + k + 1) = Letter(mode, Sextet(in, g, k))
  <2>1. PICK j \in 1..n : j = 4 * g + k + 1 /\ j <= m /\ j - 1 = 4 * g + k
    BY <1>2, <1>3, <1>6
  <2>2. (j - 1) \div 4 = g /\ (j - 1) % 4 = k
    BY <2>1
  <2>3. PICK a \in Nat, b \in Nat, c \in Nat :
          /\ a = ByteAt(in, 3 * g + 1) /\ b = ByteAt(in, 3 * g + 2) /\ c = ByteAt(in, 3 * g + 3)
          /\ a < 256 /\ b < 256 /\ c < 256
    <3>1. 3 * g + 1 \in Nat /\ 3 * g + 2 \in Nat /\ 3 * g + 3 \in Nat
      OBVIOUS
    <3> QED
      BY <3>1, ByteTyped
  <2>4. Word(in, g) = ByteAt(in, 3 * g + 1) * 65536 + ByteAt(in, 3 * g + 2) * 256
                        + ByteAt(in, 3 * g + 3)
    <3> DEFINE byte(i) == IF 3 * g + i \in DOMAIN in THEN in[3 * g + i] ELSE 0
    <3>1. Word(in, g) = byte(1) * 65536 + byte(2) * 256 + byte(3)
      BY SMT DEF Word
    <3>2. \A i : byte(i) = ByteAt(in, 3 * g + i)
      BY Zenon DEF ByteAt
    <3> HIDE DEF byte
    <3> QED
      BY <3>1, <3>2, SMT
  <2>5. Taken(Word(in, g), k) = Sextet(in, g, k)
    <3>1. PICK w : w = Word(in, g)
      OBVIOUS
    <3>2. Together(w, a, b, c)
      BY <2>3, <2>4, <3>1, SMT DEF Together
    <3>3. Taken(w, k) = SixBits(a, b, c, k)
      BY <2>3, <3>2, SixOfWord
    <3> QED
      BY <2>3, <3>1, <3>3, Zenon DEF Sextet
  <2>6. at(j) = Letter(mode, Taken(Word(in, g), k))
    <3>1. ~(6 * (j - 1) >= 8 * Len(in))
      BY <1>3, <1>5, <2>1
    <3> QED
      BY <2>2, <3>1, Zenon DEF Taken
  <2> HIDE DEF at
  <2>7. at(j) = Letter(mode, Sextet(in, g, k))
    BY <2>5, <2>6, Zenon
  <2> QED
    BY <2>1, <2>7, Zenon
<1>7. \A j \in (m + 1)..n : at(j) = Pad
  <2> TAKE j \in (m + 1)..n
  <2>1. 6 * (j - 1) >= 8 * Len(in)
    BY <1>3, <1>5
  <2> QED
    BY <2>1
<1> HIDE DEF at
<1>8. \A j \in 1..n : at(j) \in Nat
  <2> TAKE j \in 1..n
  <2>1. CASE j > m
    <3>1. j \in (m + 1)..n
      BY <1>3, <2>1
    <3> QED
      BY <1>7, <3>1 DEF Pad
  <2>2. CASE j <= m
    <3>1. PICK g \in Nat, k \in 0..3 : j = 4 * g + k + 1
      <4>1. PICK i \in Nat : i = j - 1
        OBVIOUS
      <4>2. PICK g \in Nat, k \in Nat : Splits(i, 4, g, k)
        BY Splitting
      <4>3. k \in 0..3 /\ j = 4 * g + k + 1
        BY <4>1, <4>2 DEF Splits
      <4> QED
        BY <4>3
    <3>2. at(4 * g + k + 1) = Letter(mode, Sextet(in, g, k))
      BY <1>6, <2>2, <3>1
    <3> QED
      BY <3>1, <3>2, SpelledTyped
  <2> QED
    BY <1>3, <2>1, <2>2
<1> HIDE DEF e, m, n
<1>9. n \in Nat
  BY <1>2
<1>10. e \in Seq(Nat) /\ Len(e) = n /\ \A j \in 1..n : e[j] = at(j)
  BY <1>4, <1>8, <1>9
<1>11. SpelledUpTo(mode, in, e, m)
  <2> SUFFICES ASSUME NEW g \in Nat, NEW k \in 0..3, 4 * g + k + 1 <= m
               PROVE  e[4 * g + k + 1] = Letter(mode, Sextet(in, g, k))
    BY DEF SpelledUpTo
  <2>1. 4 * g + k + 1 \in 1..n
    BY <1>3, <1>9
  <2> QED
    BY <1>6, <1>10, <2>1
<1>12. \A j \in (m + 1)..Len(e) : e[j] = Pad
  BY <1>3, <1>7, <1>9, <1>10
<1> QED
  BY <1>2, <1>10, <1>11, <1>12 DEF EncodedAs, e, m

\* A letter of four has a group and a place in it.
LEMMA PlaceOf ==
  ASSUME NEW j \in Nat, j > 0
  PROVE  \E g \in Nat, k \in 0..3 : j = 4 * g + k + 1
<1>1. PICK i \in Nat : i = j - 1
  OBVIOUS
<1>2. PICK g \in Nat, k \in Nat : Splits(i, 4, g, k)
  BY Splitting
<1>3. k \in 0..3 /\ j = 4 * g + k + 1
  BY <1>1, <1>2 DEF Splits
<1> QED
  BY <1>3

\* There is one way only to write a text in letters.
LEMMA EncodedOnce ==
  ASSUME NEW in, NEW mode, NEW q \in Nat, NEW r \in 0..2, NEW e, NEW f,
         EncodedAs(mode, in, q, r, e), EncodedAs(mode, in, q, r, f)
  PROVE  e = f
<1>1. PICK n \in Nat, m \in Nat : n = 4 * q + (IF r = 0 THEN 0 ELSE 4) /\ m = LetterCount(q, r)
  BY DEF LetterCount
<1>2. /\ e \in Seq(Nat) /\ Len(e) = n /\ SpelledUpTo(mode, in, e, m)
      /\ \A j \in (m + 1)..n : e[j] = Pad
  BY <1>1 DEF EncodedAs
<1>3. /\ f \in Seq(Nat) /\ Len(f) = n /\ SpelledUpTo(mode, in, f, m)
      /\ \A j \in (m + 1)..n : f[j] = Pad
  BY <1>1 DEF EncodedAs
<1>4. ASSUME NEW j \in 1..n PROVE e[j] = f[j]
  <2>1. CASE j > m
    <3>1. j \in (m + 1)..n
      BY <2>1
    <3> QED
      BY <1>2, <1>3, <3>1
  <2>2. CASE j <= m
    <3>1. PICK g \in Nat, k \in 0..3 : j = 4 * g + k + 1
      BY PlaceOf
    <3>2. e[4 * g + k + 1] = Letter(mode, Sextet(in, g, k))
      BY <1>2, <2>2, <3>1 DEF SpelledUpTo
    <3>3. f[4 * g + k + 1] = Letter(mode, Sextet(in, g, k))
      BY <1>3, <2>2, <3>1 DEF SpelledUpTo
    <3> QED
      BY <3>1, <3>2, <3>3
  <2> QED
    BY <1>1, <2>1, <2>2
<1>5. e = [j \in 1..n |-> e[j]] /\ f = [j \in 1..n |-> f[j]]
  BY <1>2, <1>3
<1> QED
  BY <1>4, <1>5

\* Behind the end of a text are zeros.
LEMMA NoByte ==
  ASSUME NEW in \in Seq(Bytes), NEW p \in Nat, p > Len(in)
  PROVE  ByteAt(in, p) = 0
BY DEF ByteAt

\* base64_encode writes what RFC 4648 says.
LEMMA EncodeIs ==
  ASSUME NEW in \in Seq(Bytes), NEW mode \in Modes, in # <<>>
  PROVE  Encode(mode, in) = RfcEncode(mode, in)
<1>1. PICK q \in Nat, r \in 0..2 : Len(in) = 3 * q + r /\ Grown(mode, in, q, r, Letters(mode, in))
  BY LettersGrown DEF GrownAt
<1>2. PICK n \in Nat : n = Len(in) /\ n % 3 = r
  <2>1. PICK n \in Nat : n = Len(in)
    OBVIOUS
  <2>2. Splits(n, 3, q, r)
    BY <1>1, <2>1 DEF Splits
  <2> QED
    BY <2>1, <2>2, SplitIs
<1>3. PICK all : all = Letters(mode, in)
  OBVIOUS
<1>4. EncodedAs(mode, in, q, r, Encode(mode, in))
  <2>1. CASE r = 0
    <3>1. Encode(mode, in) = all
      BY <1>2, <1>3, <2>1 DEF Encode
    <3>2. EncodedAs(mode, in, q, 0, all)
      BY <1>1, <1>3, <2>1 DEF Grown, EncodedAs, LetterCount
    <3> QED
      BY <2>1, <3>1, <3>2
  <2>2. CASE r # 0
    <3> DEFINE m == 4 * q + r + 1
               x == Letter(mode, Sextet(in, q, r))
               t == [all EXCEPT ![m] = x]
               pads == IF r = 1 THEN <<Pad, Pad>> ELSE <<Pad>>
               u == t \o pads
    <3>1. all \in Seq(Nat) /\ Len(all) = m /\ SpelledUpTo(mode, in, all, 4 * q + r) /\ m \in Nat
      BY <1>1, <1>3, <2>2 DEF Grown
    <3>2. all[m] = Sextet(in, q, r)
      <4>1. CASE r = 1
        <5>1. all[m] = (ByteAt(in, 3 * q + 1) % 4) * 16
          BY <1>1, <1>3, <3>1, <4>1 DEF Grown
        <5>2. ByteAt(in, 3 * q + 2) = 0
          BY <1>1, <4>1, NoByte
        <5>3. PICK a \in Nat : a = ByteAt(in, 3 * q + 1) /\ a < 256
          BY ByteTyped
        <5>4. (a % 4) * 16 + 0 \div 16 = (a % 4) * 16
          OBVIOUS
        <5> QED
          BY <4>1, <5>1, <5>2, <5>3, <5>4, SMT DEF Sextet, SixBits
      <4>2. CASE r = 2
        <5>1. all[m] = (ByteAt(in, 3 * q + 2) % 16) * 4
          BY <1>1, <1>3, <3>1, <4>2 DEF Grown
        <5>2. ByteAt(in, 3 * q + 3) = 0
          BY <1>1, <4>2, NoByte
        <5>3. PICK b \in Nat : b = ByteAt(in, 3 * q + 2) /\ b < 256
          BY ByteTyped
        <5>4. (b % 16) * 4 + 0 \div 64 = (b % 16) * 4
          OBVIOUS
        <5> QED
          BY <4>2, <5>1, <5>2, <5>3, <5>4, SMT DEF Sextet, SixBits
      <4> QED
        BY <2>2, <4>1, <4>2
    <3>3. Encode(mode, in) = u
      <4>1. Padding(n) = pads
        BY <1>2, <2>2 DEF Padding
      <4>2. [all EXCEPT ![Len(all)] = Letter(mode, @)] = t
        BY <3>1, <3>2
      <4> QED
        BY <1>2, <1>3, <2>2, <4>1, <4>2 DEF Encode
    <3>4. x \in Nat
      <4>1. r \in 0..3
        OBVIOUS
      <4> QED
        BY <4>1, SpelledTyped
    <3> HIDE DEF x
    <3>5. /\ t \in Seq(Nat) /\ Len(t) = m /\ t[m] = x
          /\ \A j \in 1..(m - 1) : t[j] = all[j]
      <4>1. PICK i \in Nat : i = m
        BY <3>1
      <4>2. i = Len(all) /\ i > 0 /\ t = [all EXCEPT ![i] = x]
        BY <3>1, <4>1
      <4>3. t \in Seq(Nat) /\ Len(t) = i /\ t[i] = x /\ \A j \in 1..(i - 1) : t[j] = all[j]
        BY <3>1, <3>4, <4>2, Replaced
      <4> HIDE DEF t
      <4> QED
        BY <4>1, <4>3
    <3>6. pads \in Seq(Nat) /\ Len(pads) = 3 - r /\ \A j \in 1..Len(pads) : pads[j] = Pad
      <4>1. <<Pad>> \in Seq(Nat) /\ Len(<<Pad>>) = 1 /\ \A j \in 1..1 : <<Pad>>[j] = Pad
        BY DEF Pad
      <4>2. <<Pad, Pad>> \in Seq(Nat) /\ Len(<<Pad, Pad>>) = 2
              /\ \A j \in 1..2 : <<Pad, Pad>>[j] = Pad
        BY DEF Pad
      <4>3. CASE r = 1
        BY <4>2, <4>3
      <4>4. CASE r = 2
        BY <4>1, <4>4
      <4> QED
        BY <2>2, <4>3, <4>4
    <3> HIDE DEF t, pads
    <3>7. u \in Seq(Nat) /\ OneBehind(u, t, pads)
      BY <3>5, <3>6, Concatenated
    <3> HIDE DEF u
    <3>8. /\ Len(u) = 4 * q + 4
          /\ \A j \in 1..m : u[j] = t[j]
          /\ \A j \in (m + 1)..Len(u) : u[j] = Pad
      <4>1. Len(u) = 4 * q + 4 /\ m + (3 - r) = Len(u)
        BY <3>1, <3>5, <3>6, <3>7 DEF OneBehind
      <4>2. \A j \in 1..m : u[j] = t[j]
        BY <3>1, <3>5, <3>7 DEF OneBehind
      <4>3. \A j \in (m + 1)..Len(u) : u[j] = Pad
        <5> TAKE j \in (m + 1)..Len(u)
        <5>1. PICK i \in 1..(3 - r) : j = m + i
          <6>1. j - m \in 1..(3 - r) /\ j = m + (j - m)
            BY <3>1, <4>1
          <6> QED
            BY <6>1
        <5>2. u[m + i] = pads[i] /\ pads[i] = Pad
          BY <3>1, <3>5, <3>6, <3>7 DEF OneBehind
        <5> QED
          BY <5>1, <5>2
      <4> QED
        BY <4>1, <4>2, <4>3
    <3>9. SpelledUpTo(mode, in, u, m)
      <4> SUFFICES ASSUME NEW g \in Nat, NEW k \in 0..3, 4 * g + k + 1 <= m
                   PROVE  u[4 * g + k + 1] = Letter(mode, Sextet(in, g, k))
        BY DEF SpelledUpTo
      <4>1. CASE 4 * g + k + 1 <= 4 * q + r
        <5>1. all[4 * g + k + 1] = Letter(mode, Sextet(in, g, k))
          BY <3>1, <4>1 DEF SpelledUpTo
        <5>2. 4 * g + k + 1 \in 1..(m - 1) /\ 4 * g + k + 1 \in 1..m
          BY <4>1
        <5> QED
          BY <3>5, <3>8, <5>1, <5>2
      <4>2. CASE 4 * g + k + 1 = m
        <5>1. g = q /\ k = r /\ m \in 1..m
          BY <2>2, <4>2
        <5> QED
          BY <3>5, <3>8, <4>2, <5>1 DEF x
      <4> QED
        BY <4>1, <4>2
    <3>10. LetterCount(q, r) = m
      BY <2>2 DEF LetterCount
    <3> HIDE DEF m
    <3>11. EncodedAs(mode, in, q, r, u)
      BY <2>2, <3>7, <3>8, <3>9, <3>10 DEF EncodedAs
    <3> QED
      BY <3>3, <3>11
  <2> QED
    BY <2>1, <2>2
<1>5. EncodedAs(mode, in, q, r, RfcEncode(mode, in))
  BY <1>1, RfcIs
<1> QED
  BY <1>4, <1>5, EncodedOnce

-----------------------------------------------------------------------------
(* base64_decode undoes it. *)

\* The letter that conversion__ refuses, though base64_encode writes it: '_'.
Underscore == 95

\* Every letter but that one is converted back to its six bits, and the padding is not.
LEMMA ConversionIs ==
  ASSUME NEW mode \in Modes, NEW v \in 0..63
  PROVE  /\ Letter(mode, v) # Underscore => Conversion(Letter(mode, v)) = v
         /\ Conversion(Pad) = -1
<1>1. CASE v \in 0..25
  BY <1>1 DEF Letter, Conversion, Pad
<1>2. CASE v \in 26..51
  BY <1>2 DEF Letter, Conversion, Pad
<1>3. CASE v \in 52..61
  BY <1>3 DEF Letter, Conversion, Pad
<1>4. CASE v \in {62, 63}
  BY <1>4 DEF Letter, Conversion, Pad, Modes, STD, URL, IMAP, Underscore
<1> QED
  BY <1>1, <1>2, <1>3, <1>4

\* Three bytes are put together again from their letters.
LEMMA ConcatIs ==
  ASSUME NEW a \in Nat, a < 256, NEW b \in Nat, b < 256, NEW c \in Nat, c < 256
  PROVE  /\ Concat(1, SixBits(a, b, c, 0), SixBits(a, b, c, 1)) = a
         /\ Concat(2, SixBits(a, b, c, 1), SixBits(a, b, c, 2)) = b
         /\ Concat(3, SixBits(a, b, c, 2), SixBits(a, b, c, 3)) = c
<1>1. (a \div 4) * 4 + ((a % 4) * 16 + b \div 16) \div 16 = a
  OBVIOUS
<1>2. (((a % 4) * 16 + b \div 16) % 16) * 16 + ((b % 16) * 4 + c \div 64) \div 4 = b
  OBVIOUS
<1>3. (((b % 16) * 4 + c \div 64) % 4) * 64 + (c % 64) = c
  OBVIOUS
<1>4. Concat(1, SixBits(a, b, c, 0), SixBits(a, b, c, 1)) = a
  BY <1>1, SMT DEF Concat, SixBits
<1>5. Concat(2, SixBits(a, b, c, 1), SixBits(a, b, c, 2)) = b
  BY <1>2, SMT DEF Concat, SixBits
<1>6. Concat(3, SixBits(a, b, c, 2), SixBits(a, b, c, 3)) = c
  BY <1>3, SMT DEF Concat, SixBits
<1> QED
  BY <1>4, <1>5, <1>6

\* base64_dec_size and the groups that are decoded are those of 3q + r bytes, and nothing
\* is read behind the text.
SizeTold(e, q, r) ==
  /\ DecSize(e) = 3 * q + r /\ DecSize(e) > 0 /\ DecSize(e) % 3 = r
  /\ Groups(e) = q /\ ~ReadsBehind(e)

\* So it is when the text was encoded: it is padded.
LEMMA SizeIs ==
  ASSUME NEW in \in Seq(Bytes), NEW mode \in Modes, NEW q \in Nat, NEW r \in 0..2,
         Len(in) = 3 * q + r, in # <<>>, NEW e, EncodedAs(mode, in, q, r, e)
  PROVE  SizeTold(e, q, r)
<1>1. Len(in) # 0
  BY EmptySeq
<1>2. PICK m \in Nat : m = LetterCount(q, r) /\ m > 0
  BY <1>1 DEF LetterCount
<1>3. /\ e \in Seq(Nat) /\ Len(e) = 4 * q + (IF r = 0 THEN 0 ELSE 4)
      /\ SpelledUpTo(mode, in, e, m)
      /\ \A j \in (m + 1)..Len(e) : e[j] = Pad
  BY <1>2 DEF EncodedAs
<1>4. ASSUME NEW j \in 1..m PROVE e[j] # Pad
  <2>0. j \in Nat /\ j > 0 /\ j <= m
    BY <1>2
  <2>1. PICK g \in Nat, k \in 0..3 : j = 4 * g + k + 1
    BY <2>0, PlaceOf
  <2>2. e[4 * g + k + 1] = Letter(mode, Sextet(in, g, k))
    BY <1>3, <2>0, <2>1 DEF SpelledUpTo
  <2>3. Sextet(in, g, k) \in 0..63
    BY SextetTyped
  <2> QED
    BY <2>1, <2>2, <2>3, LetterTyped
<1>5. m \in 1..Len(e)
  BY <1>1, <1>2, <1>3 DEF LetterCount
<1>6. e # <<>> /\ e[1] # Pad
  BY <1>3, <1>4, <1>5
<1> DEFINE IsLast(n) == e[n] # Pad /\ \A j \in (n + 1)..Len(e) : e[j] = Pad
           l == CHOOSE n \in 1..Len(e) : IsLast(n)
<1>7. IsLast(m)
  BY <1>2, <1>3, <1>4
<1>8. \A n \in 1..Len(e) : IsLast(n) => n = m
  <2> SUFFICES ASSUME NEW n \in 1..Len(e), IsLast(n), n # m PROVE FALSE
    OBVIOUS
  <2>1. CASE n < m
    <3>1. m \in (n + 1)..Len(e)
      BY <1>5, <2>1
    <3> QED
      BY <1>7, <3>1
  <2>2. CASE n > m
    <3>1. n \in (m + 1)..Len(e)
      BY <1>5, <2>2
    <3> QED
      BY <1>7, <3>1
  <2> QED
    BY <1>2, <2>1, <2>2
<1>9. l = m
  <2> HIDE DEF IsLast
  <2> QED
    BY <1>5, <1>7, <1>8
<1>10. DecSize(e) = CASE m % 4 = 0 -> (m \div 4) * 3
                      [] m % 4 = 3 -> ((m + 1) \div 4) * 3 - 1
                      [] m % 4 = 2 -> ((m + 2) \div 4) * 3 - 2
                      [] m % 4 = 1 -> -1
  BY <1>6, <1>9 DEF DecSize
<1>11. DecSize(e) = 3 * q + r
  <2>1. CASE r = 0
    <3>1. m = 4 * q
      BY <1>2, <2>1 DEF LetterCount
    <3>2. m % 4 = 0 /\ (m \div 4) * 3 = 3 * q
      BY <3>1
    <3> QED
      BY <1>10, <2>1, <3>2
  <2>2. CASE r = 1
    <3>1. m = 4 * q + 2
      BY <1>2, <2>2 DEF LetterCount
    <3>2. m % 4 = 2 /\ ((m + 2) \div 4) * 3 - 2 = 3 * q + 1
      BY <3>1
    <3> QED
      BY <1>10, <2>2, <3>2
  <2>3. CASE r = 2
    <3>1. m = 4 * q + 3
      BY <1>2, <2>3 DEF LetterCount
    <3>2. m % 4 = 3 /\ ((m + 1) \div 4) * 3 - 1 = 3 * q + 2
      BY <3>1
    <3> QED
      BY <1>10, <2>3, <3>2
  <2> QED
    BY <2>1, <2>2, <2>3
<1>12. PICK n \in Nat : n = DecSize(e) /\ n > 0 /\ n = 3 * q + r
  BY <1>1, <1>11
<1>13. n % 3 = r /\ n \div 3 = q
  BY <1>12
<1>14. Groups(e) = q /\ DecSize(e) % 3 = r
  BY <1>12, <1>13 DEF Groups
<1>15. ~ReadsBehind(e)
  <2>1. r # 0 => ~(Len(e) < 4 * (q + 1))
    BY <1>3
  <2> QED
    BY <1>14, <2>1 DEF ReadsBehind
<1> QED
  BY <1>11, <1>12, <1>14, <1>15 DEF SizeTold

\* base64_decode gives back every text that base64_encode has encoded without '_'.
LEMMA DecodeIs ==
  ASSUME NEW in \in Seq(Bytes), NEW mode \in Modes, NEW q \in Nat, NEW r \in 0..2,
         Len(in) = 3 * q + r, in # <<>>, NEW e, EncodedAs(mode, in, q, r, e),
         \A j \in 1..Len(e) : e[j] # Underscore
  PROVE  Decode(e) = in
<1>1. DecSize(e) = 3 * q + r /\ DecSize(e) > 0 /\ DecSize(e) % 3 = r /\ Groups(e) = q
  <2>1. SizeTold(e, q, r)
    BY SizeIs
  <2> QED
    BY <2>1 DEF SizeTold
<1>2. PICK m \in Nat : m = LetterCount(q, r)
  BY DEF LetterCount
<1>3. /\ e \in Seq(Nat) /\ Len(e) = 4 * q + (IF r = 0 THEN 0 ELSE 4)
      /\ SpelledUpTo(mode, in, e, m)
      /\ \A j \in (m + 1)..Len(e) : e[j] = Pad
  BY <1>2 DEF EncodedAs
<1>4. m <= Len(e)
  BY <1>2, <1>3 DEF LetterCount
<1>5. ASSUME NEW g \in Nat, NEW k \in 0..3, 4 * g + k + 1 <= m
      PROVE  Value(e, g, k + 1) = Sextet(in, g, k) /\ Sextet(in, g, k) \in 0..63
  <2>1. PICK j \in 1..m : j = 4 * g + k + 1 /\ j = 4 * g + (k + 1)
    BY <1>5
  <2>2. j \in DOMAIN e
    BY <1>3, <1>4
  <2>3. e[j] = Letter(mode, Sextet(in, g, k)) /\ e[j] # Underscore
    <3>1. e[4 * g + k + 1] = Letter(mode, Sextet(in, g, k))
      BY <1>3, <1>5 DEF SpelledUpTo
    <3>2. j \in 1..Len(e)
      BY <1>3, <2>2
    <3> QED
      BY <2>1, <3>1, <3>2
  <2>4. PICK v \in 0..63 : v = Sextet(in, g, k)
    BY SextetTyped
  <2>5. Conversion(e[j]) = v
    BY <2>3, <2>4, ConversionIs
  <2>6. Value(e, g, k + 1) = Conversion(e[j])
    BY <2>1, <2>2, Zenon DEF Value
  <2> QED
    BY <2>4, <2>5, <2>6
<1>6. ASSUME NEW p \in Checked(e) PROVE ~(Value(e, p[1], p[2]) < 0)
  <2>1. PICK g \in Nat, k \in 1..4 : p = <<g, k>> /\ 4 * g + k <= m
    <3>1. CASE p \in (0..(q - 1)) \X (1..4)
      <4>1. PICK g \in 0..(q - 1), k \in 1..4 : p = <<g, k>>
        BY <3>1
      <4>2. 4 * g + k <= m
        BY <1>2, <4>1 DEF LetterCount
      <4> QED
        BY <4>1, <4>2
    <3>2. CASE r # 0 /\ p \in {q} \X {1, 2}
      <4>1. PICK k \in {1, 2} : p = <<q, k>>
        BY <3>2
      <4>2. 4 * q + k <= m /\ k \in 1..4
        BY <1>2, <3>2, <4>1 DEF LetterCount
      <4> QED
        BY <4>1, <4>2
    <3> QED
      BY <1>1, <3>1, <3>2 DEF Checked
  <2>2. PICK i \in 0..3 : i = k - 1 /\ k = i + 1
    <3>1. k - 1 \in 0..3 /\ k = (k - 1) + 1
      OBVIOUS
    <3> QED
      BY <3>1
  <2>3. 4 * g + i + 1 <= m
    BY <2>1, <2>2
  <2>4. PICK v \in 0..63 : v = Value(e, g, i + 1)
    BY <1>5, <2>3
  <2>5. v = Value(e, p[1], p[2])
    BY <2>1, <2>2, <2>4
  <2>6. ~(v < 0)
    OBVIOUS
  <2> QED
    BY <2>5, <2>6
<1> DEFINE at(j) == LET g == (j - 1) \div 3
                        k == ((j - 1) % 3) + 1
                    IN  Concat(k, Value(e, g, k), Value(e, g, k + 1))
           a == [j \in 1..(3 * q) |-> at(j)]
           b == LastGroup(e)
<1>7. Decode(e) = a \o b
  <2>1. ~(DecSize(e) < 1)
    BY <1>1
  <2> QED
    BY <1>1, <1>6, <2>1 DEF Decode
<1>8. ASSUME NEW g \in Nat, NEW k \in 1..3, 3 * g + k <= Len(in), 4 * g + k + 1 <= m
      PROVE  Concat(k, Value(e, g, k), Value(e, g, k + 1)) = in[3 * g + k]
  <2>1. PICK x \in Nat, y \in Nat, z \in Nat :
          /\ x = ByteAt(in, 3 * g + 1) /\ y = ByteAt(in, 3 * g + 2) /\ z = ByteAt(in, 3 * g + 3)
          /\ x < 256 /\ y < 256 /\ z < 256
    <3>1. 3 * g + 1 \in Nat /\ 3 * g + 2 \in Nat /\ 3 * g + 3 \in Nat
      OBVIOUS
    <3> QED
      BY <3>1, ByteTyped
  <2>2. \A i \in 0..3 : Sextet(in, g, i) = SixBits(x, y, z, i)
    BY <2>1, Zenon DEF Sextet
  <2>3. PICK i \in 0..2 : k = i + 1
    <3>1. k - 1 \in 0..2 /\ k = (k - 1) + 1
      OBVIOUS
    <3> QED
      BY <3>1
  <2>4. i \in 0..3 /\ k \in 0..3
    OBVIOUS
  <2>5. Value(e, g, k) = SixBits(x, y, z, i) /\ Value(e, g, k + 1) = SixBits(x, y, z, k)
    <3>1. 4 * g + i + 1 <= m
      BY <1>8, <2>3
    <3>2. Value(e, g, i + 1) = Sextet(in, g, i) /\ Value(e, g, k + 1) = Sextet(in, g, k)
      BY <1>5, <1>8, <2>4, <3>1
    <3> QED
      BY <2>2, <2>3, <2>4, <3>2, Zenon
  <2>6. in[3 * g + k] = ByteAt(in, 3 * g + k)
    BY <1>8, ByteIs
  <2>7. CASE k = 1
    BY <2>1, <2>3, <2>5, <2>6, <2>7, ConcatIs
  <2>8. CASE k = 2
    BY <2>1, <2>3, <2>5, <2>6, <2>8, ConcatIs
  <2>9. CASE k = 3
    BY <2>1, <2>3, <2>5, <2>6, <2>9, ConcatIs
  <2> QED
    BY <2>7, <2>8, <2>9
<1>9. ASSUME NEW j \in 1..(3 * q) PROVE at(j) = in[j]
  <2>1. PICK i \in Nat : i = j - 1
    <3>1. j - 1 \in Nat
      BY <1>9
    <3> QED
      BY <3>1
  <2>a. 3 \in Nat \ {0}
    OBVIOUS
  <2>b. PICK g \in Nat, c \in Nat : Splits(i, 3, g, c)
    BY <2>1, <2>a, Splitting
  <2>2. g = i \div 3 /\ c = i % 3 /\ Splits(i, 3, g, c)
    BY <2>1, <2>a, <2>b, SplitIs
  <2>3. PICK k \in 1..3 : k = c + 1 /\ j = 3 * g + k /\ g < q
    <3>1. i = 3 * g + c /\ c < 3
      BY <2>2 DEF Splits
    <3>2. c + 1 \in 1..3 /\ j = 3 * g + (c + 1) /\ g < q
      BY <1>9, <2>1, <3>1
    <3> QED
      BY <3>2
  <2>4. at(j) = Concat(k, Value(e, g, k), Value(e, g, k + 1))
    BY <2>1, <2>2, <2>3, Zenon
  <2>5. 3 * g + k <= Len(in) /\ 4 * g + k + 1 <= m
    BY <1>2, <2>3 DEF LetterCount
  <2> HIDE DEF at
  <2> QED
    BY <1>8, <2>3, <2>4, <2>5
<1> HIDE DEF at
<1>10. \A j \in 1..Len(in) : in[j] \in Nat
  BY ByteIs
<1>11. a \in Seq(Nat) /\ Len(a) = 3 * q /\ \A j \in 1..(3 * q) : a[j] = in[j]
  <2>1. \A j \in 1..(3 * q) : at(j) \in Nat
    BY <1>9, <1>10
  <2>2. PICK n \in Nat : n = 3 * q
    OBVIOUS
  <2> QED
    BY <1>9, <2>1, <2>2
<1>12. /\ b \in Seq(Nat) /\ Len(b) = r
       /\ \A j \in 1..r : b[j] = in[3 * q + j]
  <2> DEFINE v(k) == Value(e, q, k)
  <2>1. LastGroup(e) = CASE r = 0 -> <<>>
                         [] r = 1 -> <<Concat(1, v(1), v(2))>>
                         [] OTHER -> <<Concat(1, v(1), v(2)),
                                       IF v(3) < 0 THEN Junk ELSE Concat(2, v(2), v(3))>>
    BY <1>1, Zenon DEF LastGroup
  <2>2. CASE r = 0
    <3>1. b = <<>>
      BY <2>1, <2>2
    <3> QED
      BY <2>2, <3>1
  <2>3. ASSUME r # 0 PROVE Concat(1, v(1), v(2)) = in[3 * q + 1] /\ in[3 * q + 1] \in Nat
    <3>1. 3 * q + 1 <= Len(in) /\ 4 * q + 1 + 1 <= m
      BY <1>2, <2>3 DEF LetterCount
    <3>2. 1 \in 1..3 /\ 1 + 1 = 2
      OBVIOUS
    <3>3. Concat(1, v(1), v(2)) = in[3 * q + 1]
      BY <1>8, <3>1, <3>2
    <3> HIDE DEF v
    <3> QED
      BY <1>10, <3>1, <3>3
  <2>4. CASE r = 1
    <3>1. b = <<Concat(1, v(1), v(2))>>
      BY <2>1, <2>4
    <3>2. PICK x \in Nat : x = in[3 * q + 1] /\ b = <<x>>
      BY <2>3, <2>4, <3>1
    <3> HIDE DEF b
    <3> QED
      BY <2>4, <3>2
  <2>5. CASE r = 2
    <3>1. b = <<Concat(1, v(1), v(2)), IF v(3) < 0 THEN Junk ELSE Concat(2, v(2), v(3))>>
      BY <2>1, <2>5
    <3>2. 3 * q + 2 <= Len(in) /\ 4 * q + 2 + 1 <= m
      BY <1>2, <2>5 DEF LetterCount
    <3>3. v(3) \in 0..63
      <4>1. 2 \in 0..3 /\ 2 + 1 = 3
        OBVIOUS
      <4> QED
        BY <1>5, <3>2, <4>1
    <3>4. Concat(2, v(2), v(3)) = in[3 * q + 2]
      <4>1. 2 \in 1..3 /\ 2 + 1 = 3
        OBVIOUS
      <4> QED
        BY <1>8, <3>2, <4>1
    <3> HIDE DEF v
    <3>a. ~(v(3) < 0)
      <4>1. PICK z \in 0..63 : z = v(3)
        BY <3>3
      <4>2. ~(z < 0)
        OBVIOUS
      <4> QED
        BY <4>1, <4>2
    <3>b. b = <<in[3 * q + 1], in[3 * q + 2]>>
      BY <2>3, <2>5, <3>1, <3>4, <3>a
    <3>c. in[3 * q + 1] \in Nat /\ in[3 * q + 2] \in Nat
      BY <1>10, <3>2
    <3>5. PICK x \in Nat, y \in Nat : x = in[3 * q + 1] /\ y = in[3 * q + 2] /\ b = <<x, y>>
      BY <3>b, <3>c
    <3>6. Len(<<x, y>>) = 2 /\ <<x, y>> \in Seq(Nat)
            /\ \A j \in 1..2 : <<x, y>>[j] = in[3 * q + j]
      BY <3>5
    <3> HIDE DEF b
    <3> QED
      BY <2>5, <3>5, <3>6
  <2> HIDE DEF b
  <2> QED
    BY <2>2, <2>4, <2>5
<1> HIDE DEF a, b
<1>13. PICK u : u = a \o b
  OBVIOUS
<1>14. u \in Seq(Nat) /\ OneBehind(u, a, b)
  BY <1>11, <1>12, <1>13, Concatenated
<1>15. Len(u) = Len(in)
  BY <1>11, <1>12, <1>14 DEF OneBehind
<1>16. ASSUME NEW j \in 1..Len(in) PROVE u[j] = in[j]
  <2>1. CASE j <= 3 * q
    <3>1. j \in 1..Len(a) /\ j \in 1..(3 * q)
      BY <1>11, <2>1
    <3> QED
      BY <1>11, <1>14, <3>1 DEF OneBehind
  <2>2. CASE j > 3 * q
    <3>1. PICK i \in 1..r : j = 3 * q + i
      <4>1. j - 3 * q \in 1..r /\ j = 3 * q + (j - 3 * q)
        BY <2>2
      <4> QED
        BY <4>1
    <3>2. u[3 * q + i] = b[i]
      BY <1>11, <1>12, <1>14 DEF OneBehind
    <3> QED
      BY <1>12, <3>1, <3>2
  <2> QED
    BY <2>1, <2>2
<1>17. u = in
  <2>1. PICK n \in Nat : n = Len(in)
    OBVIOUS
  <2>2. u = [j \in 1..n |-> u[j]] /\ in = [j \in 1..n |-> in[j]]
    BY <1>14, <1>15, <2>1
  <2> QED
    BY <1>16, <2>1, <2>2
<1> QED
  BY <1>7, <1>13, <1>17

-----------------------------------------------------------------------------
(* std::getline finds the lines again that were written. *)

\* One character more is read: it ends a line or goes to the end of the last one.
Cut(c, x) ==
  IF x = LineEnd THEN Append(c, <<>>) ELSE [c EXCEPT ![Len(c)] = Append(@, x)]

\* cut[k] are the lines in the first k characters.
CutUp(S, text, cut) ==
  /\ cut \in [0..Len(text) -> Seq(Seq(S)) \ {<<>>}]
  /\ cut[0] = << <<>> >>
  /\ \A k \in 1..Len(text) : cut[k] = Cut(cut[k - 1], text[k])

\* The lines, when a last one without any character is none.
LinesOf(all) == IF Last(all) = <<>> THEN Front(all) ELSE all

\* A character makes lines of lines.
LEMMA CutTyped ==
  ASSUME NEW S, NEW c \in Seq(Seq(S)) \ {<<>>}, NEW x \in S
  PROVE  Cut(c, x) \in Seq(Seq(S)) \ {<<>>}
<1>1. PICK n \in Nat : n = Len(c) /\ n > 0
  BY EmptySeq
<1>2. c \in Seq(Seq(S)) /\ c[n] \in Seq(S)
  BY <1>1
<1>3. CASE x = LineEnd
  <2>1. PICK e \in Seq(S) : e = <<>>
    <3>1. <<>> \in Seq(S)
      OBVIOUS
    <3> QED
      BY <3>1
  <2>2. PICK d : d = Append(c, e)
    OBVIOUS
  <2>3. d \in Seq(Seq(S)) /\ Len(d) = n + 1
    BY <1>1, <1>2, <2>2
  <2>4. d # <<>>
    BY <1>1, <2>3
  <2> QED
    BY <1>3, <2>1, <2>2, <2>3, <2>4 DEF Cut
<1>4. CASE x # LineEnd
  <2>1. PICK e \in Seq(S) : e = Append(c[n], x)
    <3>1. Append(c[n], x) \in Seq(S)
      BY <1>2
    <3> QED
      BY <3>1
  <2>2. PICK d : d = [c EXCEPT ![n] = e]
    OBVIOUS
  <2>3. d \in Seq(Seq(S)) /\ Len(d) = n
    BY <1>1, <1>2, <2>2
  <2>4. d # <<>>
    BY <1>1, <2>3
  <2>5. Cut(c, x) = d
    BY <1>1, <1>4, <2>1, <2>2 DEF Cut
  <2> QED
    BY <2>3, <2>4, <2>5
<1> QED
  BY <1>3, <1>4

\* Lines reads a text character by character.
LEMMA LinesCut ==
  ASSUME NEW S, NEW text \in Seq(S)
  PROVE  \E cut : CutUp(S, text, cut) /\ Lines(text) = LinesOf(cut[Len(text)])
<1> DEFINE n == Len(text)
           A == Seq(Seq(S)) \ {<<>>}
           Body(h) == [k \in 0..n |->
                         IF k = 0 THEN << <<>> >>
                         ELSE IF text[k] = LineEnd THEN Append(h[k - 1], <<>>)
                         ELSE [h[k - 1] EXCEPT ![Len(h[k - 1])] = Append(@, text[k])]]
           g == CHOOSE h : h = Body(h)
           a == << <<>> >>
           step == [k \in 1..n |-> [c \in A |-> Cut(c, text[k])]]
<1>0. n \in Nat /\ \A k \in 1..n : text[k] \in S
  OBVIOUS
<1>1. a \in A
  <2>1. PICK e \in Seq(S) : e = <<>>
    <3>1. <<>> \in Seq(S)
      OBVIOUS
    <3> QED
      BY <3>1
  <2>2. <<e>> \in Seq(Seq(S)) /\ <<e>> # <<>>
    OBVIOUS
  <2> QED
    BY <2>1, <2>2
<1>2. \A h : Body(h) = [k \in 0..n |-> IF k = 0 THEN a ELSE Cut(h[k - 1], text[k])]
  BY DEF Cut
<1>3. Lines(text) = LinesOf(g[n])
  BY DEF Lines, LinesOf
<1> HIDE DEF Body, a
<1>4. step \in [1..n -> [A -> A]]
  <2>1. \A k \in 1..n : \A c \in A : Cut(c, text[k]) \in A
    BY <1>0, CutTyped
  <2> HIDE DEF A
  <2> QED
    BY <2>1
<1>5. PICK f : GoesOn(n, A, a, step, f)
  <2> HIDE DEF A, step, n
  <2> QED
    BY <1>0, <1>1, <1>4, GoingOn
<1>6. \A k \in 1..n : f[k] = Cut(f[k - 1], text[k])
  <2> SUFFICES ASSUME NEW k \in 1..n PROVE f[k] = Cut(f[k - 1], text[k])
    OBVIOUS
  <2>1. k - 1 \in 0..n /\ k \in 1..n
    BY <1>0
  <2>2. f[k - 1] \in A
    BY <1>5, <2>1 DEF GoesOn
  <2>3. step[k][f[k - 1]] = Cut(f[k - 1], text[k])
    <3> HIDE DEF A
    <3> QED
      BY <2>2
  <2> QED
    BY <1>5, <2>3 DEF GoesOn
<1>7. f = Body(f)
  <2>1. f = [k \in 0..n |-> f[k]] /\ f[0] = a
    BY <1>5 DEF GoesOn
  <2>2. \A k \in 0..n : f[k] = IF k = 0 THEN a ELSE Cut(f[k - 1], text[k])
    BY <1>0, <1>6, <2>1
  <2> QED
    BY <1>2, <2>1, <2>2
<1>8. g = Body(g)
  BY <1>7
<1> HIDE DEF g
<1>9. \A k \in 0..n : g[k] = IF k = 0 THEN a ELSE Cut(g[k - 1], text[k])
  BY <1>2, <1>8
<1>10. \A k \in 0..n : g[k] = f[k]
  <2> DEFINE T == {k \in 0..n : g[k] = f[k]}
  <2>1. 0 \in T
    BY <1>0, <1>5, <1>9 DEF GoesOn
  <2>2. ASSUME NEW m \in 0..(n - 1), m \in T PROVE m + 1 \in T
    <3>1. m + 1 \in 1..n /\ m + 1 \in 0..n /\ (m + 1) - 1 = m /\ m + 1 # 0
      BY <1>0
    <3> QED
      BY <1>6, <1>9, <2>2, <3>1
  <2>3. 0..n \subseteq T
    <3> HIDE DEF T, n
    <3> QED
      BY <1>0, <2>1, <2>2, Upwards
  <2> QED
    BY <2>3
<1>11. g[n] = f[n]
  BY <1>0, <1>10
<1>12. CutUp(S, text, f)
  BY <1>5, <1>6 DEF CutUp, GoesOn, a
<1> QED
  BY <1>3, <1>11, <1>12

\* Lines are texts.
LEMMA LinesTyped ==
  ASSUME NEW S, NEW text \in Seq(S)
  PROVE  Lines(text) \in Seq(Seq(S))
<1>1. PICK cut : CutUp(S, text, cut) /\ Lines(text) = LinesOf(cut[Len(text)])
  BY LinesCut
<1>2. PICK all \in Seq(Seq(S)) : all = cut[Len(text)] /\ all # <<>>
  <2>1. Len(text) \in 0..Len(text)
    OBVIOUS
  <2> QED
    BY <1>1, <2>1 DEF CutUp
<1>3. PICK n \in Nat : n = Len(all) /\ n > 0
  BY <1>2, EmptySeq
<1>4. Front(all) \in Seq(Seq(S))
  <2>1. \A k \in 1..(n - 1) : all[k] \in Seq(S)
    BY <1>3
  <2> QED
    BY <1>3, <2>1 DEF Front
<1> QED
  BY <1>1, <1>2, <1>4 DEF LinesOf

\* A line that base64_encode may have written.
Line(s) == s \in Seq(Nat) /\ s # <<>> /\ \A j \in 1..Len(s) : s[j] # LineEnd

\* The lines c: the first m of P, and k characters of the next one.
Part(c, P, m, k) ==
  /\ c \in Seq(Seq(Nat)) /\ Len(c) = m + 1
  /\ \A i \in 1..m : c[i] = P[i]
  /\ Len(c[m + 1]) = k /\ \A j \in 1..k : c[m + 1][j] = P[m + 1][j]

\* One more character of a line.
LEMMA CutOne ==
  ASSUME NEW P, NEW m \in Nat, NEW k \in Nat, NEW c, Part(c, P, m, k),
         NEW x \in Nat, x # LineEnd, x = P[m + 1][k + 1]
  PROVE  Part(Cut(c, x), P, m, k + 1)
<1>1. PICK l \in Seq(Nat) : l = c[m + 1]
  BY DEF Part
<1>2. PICK e \in Seq(Nat) : e = Append(l, x)
  <2>1. Append(l, x) \in Seq(Nat)
    OBVIOUS
  <2> QED
    BY <2>1
<1>3. Len(l) = k /\ OneMore(e, l, x)
  BY <1>1, <1>2, Appended DEF Part
<1>4. PICK d : d = [c EXCEPT ![m + 1] = e]
  OBVIOUS
<1>5. d = Cut(c, x)
  BY <1>1, <1>2, <1>4 DEF Cut, Part
<1>6. c \in Seq(Seq(Nat)) /\ Len(c) = m + 1
  BY DEF Part
<1>7. d \in Seq(Seq(Nat)) /\ Len(d) = m + 1 /\ d[m + 1] = e
      /\ \A i \in 1..m : d[i] = c[i]
  BY <1>4, <1>6
<1>8. Len(e) = k + 1 /\ \A j \in 1..(k + 1) : e[j] = P[m + 1][j]
  <2>1. Len(e) = k + 1 /\ e[k + 1] = x
    BY <1>3 DEF OneMore
  <2>2. ASSUME NEW j \in 1..k PROVE e[j] = P[m + 1][j]
    <3>1. e[j] = l[j]
      BY <1>3 DEF OneMore
    <3> QED
      BY <1>1, <3>1 DEF Part
  <2> QED
    BY <2>1, <2>2
<1>9. \A i \in 1..m : d[i] = P[i]
  BY <1>7 DEF Part
<1> QED
  BY <1>5, <1>7, <1>8, <1>9 DEF Part

\* The line end behind a line.
LEMMA CutLine ==
  ASSUME NEW P, NEW m \in Nat, P[m + 1] \in Seq(Nat), NEW c, Part(c, P, m, Len(P[m + 1]))
  PROVE  Part(Cut(c, LineEnd), P, m + 1, 0)
<1>1. PICK l \in Seq(Nat), p \in Seq(Nat) : l = c[m + 1] /\ p = P[m + 1] /\ Len(l) = Len(p)
  BY DEF Part
<1>2. l = p
  <2>1. PICK n \in Nat : n = Len(l)
    OBVIOUS
  <2>2. \A j \in 1..n : l[j] = p[j]
    BY <1>1, <2>1 DEF Part
  <2>3. l = [j \in 1..n |-> l[j]] /\ p = [j \in 1..n |-> p[j]]
    BY <1>1, <2>1
  <2> QED
    BY <2>2, <2>3
<1>3. PICK e \in Seq(Nat) : e = <<>> /\ Len(e) = 0
  <2>1. <<>> \in Seq(Nat) /\ Len(<<>>) = 0
    OBVIOUS
  <2> QED
    BY <2>1
<1>4. PICK d : d = Append(c, e)
  OBVIOUS
<1>5. d = Cut(c, LineEnd)
  BY <1>3, <1>4 DEF Cut
<1>6. c \in Seq(Seq(Nat)) /\ Len(c) = m + 1
  BY DEF Part
<1>7. d \in Seq(Seq(Nat)) /\ Len(d) = (m + 1) + 1 /\ d[(m + 1) + 1] = e
      /\ \A i \in 1..(m + 1) : d[i] = c[i]
  BY <1>4, <1>6
<1>8. ASSUME NEW i \in 1..(m + 1) PROVE d[i] = P[i]
  <2>1. CASE i = m + 1
    BY <1>1, <1>2, <1>7, <2>1
  <2>2. CASE i # m + 1
    <3>1. i \in 1..m
      BY <2>2
    <3> QED
      BY <1>7, <3>1 DEF Part
  <2> QED
    BY <2>1, <2>2
<1> QED
  BY <1>3, <1>5, <1>7, <1>8 DEF Part

\* s is the lines P, each with its line end; the last line end may be gone.
Written(P, s) ==
  \E F : /\ JoinedUpTo(Len(P), [k \in 1..Len(P) |-> P[k] \o <<LineEnd>>], F, Nat)
         /\ s \in Seq(Nat)
         /\ Len(s) \in {Len(F[Len(P)]), Len(F[Len(P)]) - 1}
         /\ \A p \in 1..Len(s) : s[p] = F[Len(P)][p]

\* What is written in lines is read in these lines.
LEMMA LinesWritten ==
  ASSUME NEW P \in Seq(Seq(Nat)), P # <<>>, \A k \in 1..Len(P) : Line(P[k]),
         NEW s, Written(P, s)
  PROVE  Lines(s) = P
<1>1. PICK n \in Nat : n = Len(P) /\ n > 0
  BY EmptySeq
<1> DEFINE L == [k \in 1..n |-> P[k] \o <<LineEnd>>]
<1>2. PICK F : /\ JoinedUpTo(n, L, F, Nat)
               /\ s \in Seq(Nat)
               /\ Len(s) \in {Len(F[n]), Len(F[n]) - 1}
               /\ \A p \in 1..Len(s) : s[p] = F[n][p]
  BY <1>1 DEF Written
<1>3. PICK cut : CutUp(Nat, s, cut) /\ Lines(s) = LinesOf(cut[Len(s)])
  BY <1>2, LinesCut
<1>4. ASSUME NEW k \in 1..n
      PROVE  /\ P[k] \in Seq(Nat) /\ Line(P[k]) /\ Len(P[k]) \in Nat \ {0}
             /\ L[k] \in Seq(Nat) /\ Len(L[k]) = Len(P[k]) + 1
             /\ L[k][Len(P[k]) + 1] = LineEnd
             /\ \A j \in 1..Len(P[k]) : L[k][j] = P[k][j]
  <2>1. PICK p \in Seq(Nat) : p = P[k] /\ Line(p)
    BY <1>1
  <2>2. PICK e \in Seq(Nat) : e = <<LineEnd>> /\ Len(e) = 1 /\ e[1] = LineEnd
    <3>1. <<LineEnd>> \in Seq(Nat) /\ Len(<<LineEnd>>) = 1 /\ <<LineEnd>>[1] = LineEnd
      BY DEF LineEnd
    <3> QED
      BY <3>1
  <2>3. PICK u : u = p \o e
    OBVIOUS
  <2>4. u \in Seq(Nat) /\ OneBehind(u, p, e)
    BY <2>3, Concatenated
  <2>5. L[k] = u
    BY <2>1, <2>2, <2>3
  <2>6. Len(p) \in Nat \ {0}
    BY <2>1, EmptySeq DEF Line
  <2> HIDE DEF L
  <2>7. Len(u) = Len(p) + 1 /\ u[Len(p) + 1] = LineEnd /\ \A j \in 1..Len(p) : u[j] = p[j]
    BY <2>2, <2>4 DEF OneBehind
  <2> QED
    BY <2>1, <2>4, <2>5, <2>6, <2>7
<1> HIDE DEF L
<1>5. /\ \A k \in 0..n : F[k] \in Seq(Nat) /\ Len(F[k]) \in Nat
      /\ \A k \in 1..n : Len(F[k]) = Len(F[k - 1]) + Len(L[k])
      /\ \A j \in 0..n : Len(F[j]) <= Len(F[n])
      /\ \A k \in 1..n : \A j \in 1..Len(L[k]) : F[n][Len(F[k - 1]) + j] = L[k][j]
  <2>1. n \in 0..n
    OBVIOUS
  <2> QED
    <3>1. \A k \in 1..n : L[k] \in Seq(Nat)
      BY <1>4
    <3>2. Laid(n, L, F, Nat)
      BY <1>2, <3>1, JoinedAt
    <3> QED
      BY <3>2 DEF Laid
<1>6. PICK l \in Nat, f \in Nat : l = Len(s) /\ f = Len(F[n]) /\ (l = f \/ l = f - 1)
  <2>1. Len(s) \in Nat
    BY <1>2
  <2> QED
    BY <1>2, <1>5, <2>1
<1>7. cut[0] = << <<>> >> /\ \A i \in 1..l : cut[i] = Cut(cut[i - 1], s[i])
  BY <1>3, <1>6 DEF CutUp
\* Character j of line m + 1.
<1>8. ASSUME NEW m \in 0..(n - 1), NEW a \in Nat, a = Len(F[m]),
             NEW k \in Nat, k < Len(P[m + 1]), Part(cut[a + k], P, m, k)
      PROVE  a + k + 1 \in 1..l /\ Part(cut[a + (k + 1)], P, m, k + 1)
  <2>1. m + 1 \in 1..n /\ (m + 1) - 1 = m
    OBVIOUS
  <2>2. PICK p \in Seq(Nat) : p = P[m + 1] /\ Line(p) /\ Len(p) \in Nat
    BY <1>4, <2>1
  <2>3. PICK b \in Nat, c \in Nat : b = Len(F[m + 1]) /\ c = Len(p) /\ b = a + (c + 1) /\ b <= f
    <3>1. Len(F[m + 1]) \in Nat /\ Len(F[m + 1]) <= Len(F[n]) /\ m + 1 \in 0..n
      BY <1>5, <2>1
    <3>2. Len(F[m + 1]) = Len(F[m]) + Len(L[m + 1]) /\ Len(L[m + 1]) = Len(P[m + 1]) + 1
      BY <1>4, <1>5, <2>1
    <3> QED
      BY <1>6, <1>8, <2>2, <3>1, <3>2
  <2>4. k < c
    BY <1>8, <2>2, <2>3
  <2>5. a + k + 1 <= l
    BY <1>6, <2>3, <2>4
  <2>6. PICK i \in 1..l : i = a + k + 1 /\ i = a + (k + 1) /\ i - 1 = a + k
    BY <2>5
  <2>7. PICK j \in 1..c : j = k + 1
    BY <2>4
  <2>8. s[i] = p[j] /\ p[j] \in Nat /\ p[j] # LineEnd
    <3>1. s[i] = F[n][i]
      BY <1>2, <1>6, <2>6
    <3>2. L[m + 1][j] = p[j] /\ j \in 1..Len(L[m + 1])
      BY <1>4, <2>1, <2>2, <2>3
    <3>3. F[n][a + j] = L[m + 1][j]
      BY <1>5, <1>8, <2>1, <3>2
    <3>4. p[j] \in Nat /\ p[j] # LineEnd
      BY <2>2, <2>3 DEF Line
    <3> QED
      BY <2>6, <2>7, <3>1, <3>2, <3>3, <3>4
  <2>9. cut[i] = Cut(cut[a + k], s[i])
    BY <1>7, <2>6
  <2>10. PICK x \in Nat : x = s[i] /\ x # LineEnd /\ x = P[m + 1][k + 1]
    BY <2>2, <2>7, <2>8
  <2>11. Part(Cut(cut[a + k], x), P, m, k + 1)
    <3>1. m \in Nat
      OBVIOUS
    <3> QED
      BY <1>8, <2>10, <3>1, CutOne
  <2> QED
    BY <2>6, <2>9, <2>10, <2>11
\* All of line m + 1.
<1>9. ASSUME NEW m \in 0..(n - 1), NEW a \in Nat, a = Len(F[m]), Part(cut[a], P, m, 0)
      PROVE  Part(cut[a + Len(P[m + 1])], P, m, Len(P[m + 1]))
  <2>1. m + 1 \in 1..n
    OBVIOUS
  <2>2. PICK c \in Nat : c = Len(P[m + 1])
    BY <1>4, <2>1
  <2> DEFINE T == {k \in 0..c : Part(cut[a + k], P, m, k)}
  <2>3. 0 \in T
    BY <1>9
  <2>4. ASSUME NEW k \in 0..(c - 1), k \in T PROVE k + 1 \in T
    <3>1. k \in Nat /\ k < c /\ k + 1 \in 0..c /\ Part(cut[a + k], P, m, k)
      BY <2>4
    <3>2. Part(cut[a + (k + 1)], P, m, k + 1)
      BY <1>8, <1>9, <2>2, <3>1
    <3> QED
      BY <3>1, <3>2
  <2>5. 0..c \subseteq T
    <3> HIDE DEF T
    <3> QED
      BY <2>3, <2>4, Upwards
  <2>6. c \in T
    BY <2>5
  <2> QED
    BY <2>2, <2>6
\* And its line end.
<1>10. ASSUME NEW m \in 0..(n - 1), NEW a \in Nat, a = Len(F[m]), Part(cut[a], P, m, 0),
              NEW b \in Nat, b = Len(F[m + 1]), b <= l
       PROVE  Part(cut[b], P, m + 1, 0)
  <2>1. m + 1 \in 1..n /\ (m + 1) - 1 = m /\ m \in Nat
    OBVIOUS
  <2>2. PICK p \in Seq(Nat), c \in Nat : p = P[m + 1] /\ c = Len(p)
    BY <1>4, <2>1
  <2>3. b = a + (c + 1)
    <3>1. Len(F[m + 1]) = Len(F[m]) + Len(L[m + 1]) /\ Len(L[m + 1]) = Len(P[m + 1]) + 1
      BY <1>4, <1>5, <2>1
    <3> QED
      BY <1>10, <2>2, <3>1
  <2>4. Part(cut[a + c], P, m, c)
    BY <1>9, <1>10, <2>2
  <2>5. b \in 1..l /\ b - 1 = a + c
    <3>1. b <= l
      BY <1>10
    <3> QED
      BY <2>3, <3>1
  <2>6. s[b] = LineEnd
    <3>1. s[b] = F[n][b]
      BY <1>2, <1>6, <2>5
    <3>2. L[m + 1][c + 1] = LineEnd /\ c + 1 \in 1..Len(L[m + 1])
      <4>1. Len(L[m + 1]) = c + 1 /\ L[m + 1][c + 1] = LineEnd
        BY <1>4, <2>1, <2>2
      <4> QED
        BY <4>1
    <3>3. F[n][a + (c + 1)] = L[m + 1][c + 1]
      BY <1>5, <1>10, <2>1, <3>2
    <3> QED
      BY <2>3, <3>1, <3>2, <3>3
  <2>7. cut[b] = Cut(cut[a + c], LineEnd)
    BY <1>7, <2>5, <2>6
  <2>8. Part(Cut(cut[a + c], LineEnd), P, m + 1, 0)
    BY <2>1, <2>2, <2>4, CutLine
  <2> QED
    BY <2>7, <2>8
<1> DEFINE At(m) == Len(F[m]) <= l => Part(cut[Len(F[m])], P, m, 0)
           T == {m \in 0..n : At(m)}
<1>11. 0 \in T
  <2>1. F[0] = <<>> /\ Len(F[0]) = 0
    BY <1>2 DEF JoinedUpTo
  <2>2. PICK e \in Seq(Nat) : e = <<>> /\ Len(e) = 0
    <3>1. <<>> \in Seq(Nat) /\ Len(<<>>) = 0
      OBVIOUS
    <3> QED
      BY <3>1
  <2>3. PICK c : c = <<e>>
    OBVIOUS
  <2>4. c \in Seq(Seq(Nat)) /\ Len(c) = 1 /\ c[1] = e
    BY <2>3
  <2>5. Part(c, P, 0, 0)
    BY <2>2, <2>4 DEF Part
  <2>6. cut[0] = c
    BY <1>7, <2>2, <2>3
  <2> QED
    BY <2>1, <2>5, <2>6
<1>12. ASSUME NEW m \in 0..(n - 1), m \in T PROVE m + 1 \in T
  <2>1. m + 1 \in 1..n /\ (m + 1) - 1 = m /\ m \in 0..n /\ m + 1 \in 0..n
    OBVIOUS
  <2>2. PICK a \in Nat, b \in Nat : a = Len(F[m]) /\ b = Len(F[m + 1])
    BY <1>5, <2>1
  <2>3. a <= b
    <3>1. PICK d \in Nat : d = Len(L[m + 1])
      <4>1. Len(L[m + 1]) = Len(P[m + 1]) + 1 /\ Len(P[m + 1]) \in Nat
        BY <1>4, <2>1
      <4>2. Len(L[m + 1]) \in Nat
        BY <4>1
      <4> QED
        BY <4>2
    <3>2. b = a + d
      BY <1>5, <2>1, <2>2, <3>1
    <3> QED
      BY <3>2
  <2>4. ASSUME b <= l PROVE Part(cut[b], P, m + 1, 0)
    <3>1. a <= l
      BY <2>3, <2>4
    <3>2. Part(cut[a], P, m, 0)
      BY <1>12, <2>2, <3>1
    <3> QED
      BY <1>10, <2>2, <2>4, <3>2
  <2> QED
    BY <2>1, <2>2, <2>4
<1>13. 0..n \subseteq T
  <2> HIDE DEF T
  <2> QED
    BY <1>11, <1>12, Upwards
<1>14. CASE l = f
  <2>1. Part(cut[l], P, n, 0)
    <3>1. n \in T /\ Len(F[n]) <= l
      BY <1>6, <1>13, <1>14
    <3> QED
      BY <1>6, <1>14, <3>1
  <2>2. PICK c : c = cut[l]
    OBVIOUS
  <2>3. c \in Seq(Seq(Nat)) /\ Len(c) = n + 1 /\ \A i \in 1..n : c[i] = P[i]
    BY <2>1, <2>2 DEF Part
  <2>4. c[n + 1] = <<>>
    <3>1. c[n + 1] \in Seq(Nat) /\ Len(c[n + 1]) = 0
      BY <2>1, <2>2, <2>3 DEF Part
    <3> QED
      BY <3>1, EmptySeq
  <2>5. Last(c) = <<>>
    BY <2>3, <2>4 DEF Last
  <2>6. PICK d : d = Front(c)
    OBVIOUS
  <2>7. d \in Seq(Seq(Nat)) /\ Len(d) = n /\ \A i \in 1..n : d[i] = P[i]
    BY <2>3, <2>6 DEF Front
  <2>8. d = P
    <3>1. d = [i \in 1..n |-> d[i]] /\ P = [i \in 1..n |-> P[i]]
      BY <1>1, <2>7
    <3> QED
      BY <2>7, <3>1
  <2> QED
    BY <1>3, <1>6, <2>2, <2>5, <2>6, <2>8 DEF LinesOf
<1>15. CASE l = f - 1
  <2>1. PICK m \in 0..(n - 1) : m + 1 = n /\ m = n - 1
    <3>1. n - 1 \in 0..(n - 1) /\ (n - 1) + 1 = n
      BY <1>1
    <3> QED
      BY <3>1
  <2>2. n \in 1..n /\ m \in 0..n
    BY <1>1
  <2>3. PICK a \in Nat, q \in Nat : a = Len(F[m]) /\ q = Len(P[n]) /\ l = a + q /\ q # 0
    <3>1. Len(F[m]) \in Nat /\ Len(P[n]) \in Nat \ {0}
      BY <1>4, <1>5, <2>2
    <3>2. Len(F[n]) = Len(F[m]) + Len(L[n]) /\ Len(L[n]) = Len(P[n]) + 1
      BY <1>4, <1>5, <2>1, <2>2
    <3>3. PICK a \in Nat, q \in Nat : a = Len(F[m]) /\ q = Len(P[n]) /\ q # 0
      BY <3>1
    <3>4. f = a + (q + 1)
      BY <1>6, <3>2, <3>3
    <3>5. l = a + q
      BY <1>15, <3>4
    <3> QED
      BY <3>3, <3>5
  <2>4. Part(cut[a], P, m, 0)
    <3>1. m \in T
      BY <1>13, <2>2
    <3>2. a <= a + q
      OBVIOUS
    <3> QED
      BY <2>3, <3>1, <3>2
  <2>5. Part(cut[l], P, m, q)
    BY <1>9, <2>1, <2>3, <2>4
  <2>6. PICK c : c = cut[l]
    OBVIOUS
  <2>7. c \in Seq(Seq(Nat)) /\ Len(c) = n /\ \A i \in 1..m : c[i] = P[i]
    BY <2>1, <2>5, <2>6 DEF Part
  <2>8. c[n] = P[n]
    <3>1. PICK u \in Seq(Nat), v \in Seq(Nat) : u = c[n] /\ v = P[n]
      BY <1>4, <2>2, <2>7
    <3>2. Len(u) = q /\ Len(v) = q /\ \A j \in 1..q : u[j] = v[j]
      BY <2>1, <2>3, <2>5, <2>6, <3>1 DEF Part
    <3>3. u = [j \in 1..q |-> u[j]] /\ v = [j \in 1..q |-> v[j]]
      BY <3>2
    <3> QED
      BY <3>1, <3>2, <3>3
  <2>9. Last(c) # <<>>
    BY <2>2, <1>4, <2>7, <2>8 DEF Last, Line
  <2>10. \A i \in 1..n : c[i] = P[i]
    BY <2>1, <2>7, <2>8
  <2>11. c = P
    <3>1. c = [i \in 1..n |-> c[i]] /\ P = [i \in 1..n |-> P[i]]
      BY <1>1, <2>7
    <3> QED
      BY <2>10, <3>1
  <2> QED
    BY <1>3, <1>6, <2>6, <2>9, <2>11 DEF LinesOf
<1> QED
  BY <1>6, <1>14, <1>15

\* A line end behind a sequence.
LEMMA EndedTyped ==
  ASSUME NEW S, LineEnd \in S, NEW s \in Seq(S)
  PROVE  s \o <<LineEnd>> \in Seq(S)
<1>1. <<LineEnd>> \in Seq(S)
  OBVIOUS
<1> QED
  BY <1>1

\* The lines P, joined, are written, and are it still without the last line end; and
\* no character of them is lost.
LEMMA JoinedWritten ==
  ASSUME NEW P \in Seq(Seq(Nat)), P # <<>>, NEW s, s = Joined(P)
  PROVE  /\ Written(P, s) /\ Written(P, Front(s))
         /\ \A k \in 1..Len(P) : \A j \in 1..Len(P[k]) : P[k][j] \in ToSet(s)
<1>1. PICK n \in Nat : n = Len(P) /\ DOMAIN P = 1..n /\ n > 0
  <2>1. Len(P) \in Nat /\ DOMAIN P = 1..Len(P) /\ Len(P) # 0
    BY EmptySeq
  <2>2. Len(P) > 0
    BY <2>1
  <2> QED
    BY <2>1, <2>2
<1>2. PICK L : L = [k \in 1..n |-> P[k] \o <<LineEnd>>]
  OBVIOUS
<1>3. ASSUME NEW k \in 1..n
      PROVE  /\ L[k] \in Seq(Nat) /\ Len(L[k]) = Len(P[k]) + 1 /\ Len(P[k]) \in Nat
             /\ \A j \in 1..Len(P[k]) : L[k][j] = P[k][j]
  <2>1. PICK p \in Seq(Nat) : p = P[k]
    BY <1>1
  <2>2. PICK e \in Seq(Nat) : e = <<LineEnd>> /\ Len(e) = 1
    <3>1. <<LineEnd>> \in Seq(Nat) /\ Len(<<LineEnd>>) = 1
      BY DEF LineEnd
    <3> QED
      BY <3>1
  <2>3. PICK u : u = p \o e
    OBVIOUS
  <2>4. u \in Seq(Nat) /\ OneBehind(u, p, e)
    BY <2>3, Concatenated
  <2>5. L[k] = u
    BY <1>2, <2>1, <2>2, <2>3
  <2>6. Len(u) = Len(p) + 1 /\ \A j \in 1..Len(p) : u[j] = p[j]
    BY <2>2, <2>4 DEF OneBehind
  <2>7. Len(p) \in Nat
    OBVIOUS
  <2> QED
    BY <2>1, <2>4, <2>5, <2>6, <2>7
<1>4. L \in Seq(Seq(Nat)) /\ Len(L) = n
  BY <1>2, <1>3
<1>5. PICK F : JoinedUpTo(n, L, F, Nat) /\ FlattenSeq(L) = F[n]
  BY <1>4, Flattened
<1>6. s = F[n]
  BY <1>1, <1>2, <1>5 DEF Joined
<1>7. Laid(n, L, F, Nat)
  BY <1>3, <1>5, JoinedAt
<1>8. s \in Seq(Nat) /\ Len(s) \in Nat
  BY <1>6, <1>7 DEF Laid
<1>9. Written(P, s)
  BY <1>1, <1>2, <1>5, <1>6, <1>8 DEF Written
<1>10. PICK l \in Nat, x \in Nat : l = Len(s) /\ l = x + 1
  <2>1. n \in 1..n /\ n - 1 \in 0..n
    BY <1>1
  <2>2. Len(F[n]) = Len(F[n - 1]) + Len(L[n]) /\ Len(F[n - 1]) \in Nat
    BY <1>7, <2>1 DEF Laid
  <2>3. PICK a \in Nat, p \in Nat : a = Len(F[n - 1]) /\ Len(L[n]) = p + 1
    BY <1>3, <2>1, <2>2
  <2>4. a + (p + 1) = (a + p) + 1 /\ a + p \in Nat /\ a + (p + 1) \in Nat
    OBVIOUS
  <2>5. Len(s) = a + (p + 1)
    BY <1>6, <2>2, <2>3
  <2> QED
    BY <2>4, <2>5
<1>11. PICK t : t = Front(s)
  OBVIOUS
<1>12. t \in Seq(Nat) /\ Len(t) = x /\ \A p \in 1..x : t[p] = s[p]
  <2>1. l - 1 = x
    BY <1>10
  <2>2. t = SubSeq(s, 1, x)
    BY <1>10, <1>11, <2>1 DEF Front
  <2>3. x <= Len(s)
    BY <1>10
  <2> QED
    BY <1>8, <2>2, <2>3
<1>13. Written(P, t)
  <2>1. Len(t) \in {Len(F[n]), Len(F[n]) - 1}
    BY <1>6, <1>10, <1>12
  <2>2. \A p \in 1..Len(t) : t[p] = F[n][p]
    BY <1>6, <1>12
  <2> QED
    BY <1>1, <1>2, <1>5, <1>12, <2>1, <2>2 DEF Written
<1>14. ASSUME NEW k \in 1..n, NEW j \in 1..Len(P[k]) PROVE P[k][j] \in ToSet(s)
  <2>1. PICK a \in Nat, b \in Nat, c \in Nat :
          a = Len(F[k - 1]) /\ b = Len(F[k]) /\ c = Len(P[k]) /\ b = a + (c + 1) /\ b <= l
    <3>1. k \in 0..n /\ k - 1 \in 0..n
      OBVIOUS
    <3>2. Len(F[k - 1]) \in Nat /\ Len(F[k]) \in Nat /\ Len(F[k]) <= Len(F[n])
      BY <1>7, <3>1 DEF Laid
    <3>3. Len(F[k]) = Len(F[k - 1]) + Len(L[k])
      BY <1>7 DEF Laid
    <3>4. Len(L[k]) = Len(P[k]) + 1 /\ Len(P[k]) \in Nat
      BY <1>3
    <3> QED
      BY <1>6, <1>10, <3>2, <3>3, <3>4
  <2>2. PICK i \in 1..c : i = j
    BY <2>1
  <2>3. a + i \in 1..(a + (c + 1))
    OBVIOUS
  <2>4. PICK p \in 1..l : p = a + i
    <3>1. a + i \in 1..b
      BY <2>1, <2>3
    <3>2. \A y, z \in Nat : y <= z => 1..y \subseteq 1..z
      OBVIOUS
    <3>3. b <= l
      BY <2>1
    <3>4. 1..b \subseteq 1..l
      BY <3>2, <3>3, Zenon
    <3> QED
      BY <3>1, <3>4
  <2>5. j \in 1..Len(L[k]) /\ L[k][j] = P[k][j]
    BY <1>3
  <2>6. F[n][a + j] = P[k][j]
    BY <1>7, <2>1, <2>5 DEF Laid
  <2>7. s[p] = P[k][j]
    BY <1>6, <2>2, <2>4, <2>6
  <2>8. p \in DOMAIN s
    <3>1. DOMAIN s = 1..Len(s)
      BY <1>8
    <3> QED
      BY <1>10, <2>4, <3>1
  <2> QED
    BY <2>7, <2>8 DEF ToSet
<1> QED
  BY <1>1, <1>9, <1>11, <1>13, <1>14

-----------------------------------------------------------------------------
(* What is shown, for every text. *)

\* What an encoding is good for: a line that is read to its end, without '_' in two
\* of the standards, and without it decoded to what was encoded.
Spelled(mode, in, e) ==
  /\ Line(e) /\ ~ReadsBehind(e)
  /\ mode # URL => \A j \in 1..Len(e) : e[j] # Underscore
  /\ (\A j \in 1..Len(e) : e[j] # Underscore) => Decode(e) = in

\* '_' is a letter of RFC4648_URL only.
LEMMA NoUnderscore ==
  ASSUME NEW mode \in Modes, mode # URL, NEW v \in 0..63
  PROVE  Letter(mode, v) # Underscore
BY DEF Letter, Modes, STD, URL, IMAP, Underscore

\* Every text has so many groups of three bytes and a rest.
LEMMA GroupsOf ==
  ASSUME NEW S, NEW in \in Seq(S)
  PROVE  \E q \in Nat, r \in 0..2 : Len(in) = 3 * q + r
<1>1. PICK n \in Nat : n = Len(in)
  OBVIOUS
<1>2. 3 \in Nat \ {0}
  OBVIOUS
<1>3. PICK q \in Nat, r \in Nat : Splits(n, 3, q, r)
  BY <1>2, Splitting
<1>4. r \in 0..2 /\ n = 3 * q + r
  BY <1>3 DEF Splits
<1> QED
  BY <1>1, <1>4

\* base64_encode spells every text that is not empty.
LEMMA EncodeSpells ==
  ASSUME NEW mode \in Modes, NEW in \in Seq(Bytes), in # <<>>
  PROVE  Spelled(mode, in, Encode(mode, in))
<1>1. PICK q \in Nat, r \in 0..2 : Len(in) = 3 * q + r
  BY GroupsOf
<1>2. PICK e : e = Encode(mode, in) /\ e = RfcEncode(mode, in)
  BY EncodeIs
<1>3. EncodedAs(mode, in, q, r, e)
  BY <1>1, <1>2, RfcIs
<1>4. Len(in) # 0
  BY EmptySeq
<1>5. PICK l \in Nat, m \in Nat : l = Len(e) /\ m = LetterCount(q, r) /\ l # 0
  <2>1. LetterCount(q, r) \in Nat
    BY DEF LetterCount
  <2>2. Len(e) = 4 * q + (IF r = 0 THEN 0 ELSE 4)
    BY <1>3 DEF EncodedAs
  <2>3. Len(e) \in Nat /\ Len(e) # 0
    BY <1>1, <1>4, <2>2
  <2> QED
    BY <2>1, <2>3
<1>6. /\ e \in Seq(Nat)
      /\ SpelledUpTo(mode, in, e, m)
      /\ \A j \in (m + 1)..l : e[j] = Pad
  BY <1>3, <1>5 DEF EncodedAs
<1>7. ASSUME NEW j \in 1..l
      PROVE  e[j] # LineEnd /\ (mode # URL => e[j] # Underscore)
  <2>1. CASE j > m
    <3>1. e[j] = Pad
      BY <1>6, <2>1
    <3> QED
      BY <3>1 DEF Pad, LineEnd, Underscore
  <2>2. CASE j <= m
    <3>1. PICK g \in Nat, k \in 0..3 : j = 4 * g + k + 1
      <4>1. j \in Nat /\ j > 0
        OBVIOUS
      <4> QED
        BY <4>1, PlaceOf
    <3>2. e[4 * g + k + 1] = Letter(mode, Sextet(in, g, k))
      BY <1>6, <2>2, <3>1 DEF SpelledUpTo
    <3>3. PICK v \in 0..63 : v = Sextet(in, g, k)
      BY SextetTyped
    <3>4. e[j] = Letter(mode, v)
      BY <3>1, <3>2, <3>3
    <3> QED
      BY <3>4, LetterTyped, NoUnderscore
  <2> QED
    BY <1>5, <2>1, <2>2
<1>8. Line(e)
  <2>1. e # <<>>
    BY <1>5
  <2> QED
    BY <1>5, <1>6, <1>7, <2>1 DEF Line
<1>9. ~ReadsBehind(e)
  <2>1. SizeTold(e, q, r)
    BY <1>1, <1>3, SizeIs
  <2> QED
    BY <2>1 DEF SizeTold
<1>10. (\A j \in 1..Len(e) : e[j] # Underscore) => Decode(e) = in
  BY <1>1, <1>3, DecodeIs
<1> QED
  BY <1>2, <1>5, <1>7, <1>8, <1>9, <1>10 DEF Spelled

\* conversion__ makes numbers of numbers.
LEMMA ConversionTyped ==
  ASSUME NEW c \in Nat
  PROVE  Conversion(c) \in Int
<1>1. CASE c >= 97
  <2>1. Conversion(c) = IF c > 122 THEN -1 ELSE c - 71
    BY <1>1 DEF Conversion
  <2> QED
    BY <2>1
<1>2. CASE c \in 65..96
  <2>1. Conversion(c) = IF c > 90 THEN -1 ELSE c - 65
    BY <1>2 DEF Conversion
  <2> QED
    BY <2>1
<1>3. CASE c \in 48..64
  <2>1. Conversion(c) = IF c > 57 THEN -1 ELSE c + 4
    BY <1>3 DEF Conversion
  <2> QED
    BY <2>1
<1>4. CASE c \in 0..47
  <2>1. Conversion(c) = IF c \in {43, 45} THEN 62 ELSE IF c \in {44, 47} THEN 63 ELSE -1
    BY <1>4 DEF Conversion
  <2> QED
    BY <2>1
<1> QED
  BY <1>1, <1>2, <1>3, <1>4

\* base64_decode makes numbers of every text, or nullptr.
LEMMA DecodeTyped ==
  ASSUME NEW in \in Seq(Nat)
  PROVE  Decode(in) \in Seq(Int)
<1>1. CASE Decode(in) = Null
  <2>1. <<-1>> \in Seq(Int)
    OBVIOUS
  <2> QED
    BY <1>1, <2>1 DEF Null
<1>2. CASE Decode(in) # Null
  <2>1. ~(DecSize(in) < 1)
    BY <1>2 DEF Decode
  <2>2. PICK n \in Nat : n = Len(in)
    OBVIOUS
  <2>3. DecSize(in) \in Int
    <3> DEFINE IsLast(k) == in[k] # Pad /\ \A j \in (k + 1)..Len(in) : in[j] = Pad
               l == CHOOSE k \in 1..Len(in) : IsLast(k)
    <3>1. CASE in = <<>> \/ in[1] = Pad
      BY <3>1 DEF DecSize
    <3>2. CASE ~(in = <<>> \/ in[1] = Pad)
      <4>1. DecSize(in) = CASE l % 4 = 0 -> (l \div 4) * 3
                            [] l % 4 = 3 -> ((l + 1) \div 4) * 3 - 1
                            [] l % 4 = 2 -> ((l + 2) \div 4) * 3 - 2
                            [] l % 4 = 1 -> -1
        BY <3>2 DEF DecSize
      <4>2. n > 0
        BY <2>2, <3>2, EmptySeq
      <4> DEFINE Far == {d \in 0..(n - 1) : in[n - d] # Pad}
      <4>3. n - 1 \in Far
        <5>1. n - (n - 1) = 1 /\ n - 1 \in 0..(n - 1)
          BY <4>2
        <5> QED
          BY <3>2, <5>1
      <4>4. PICK d \in Far : \A c \in Far : d <= c
        <5>1. Far # {}
          BY <4>3
        <5>2. Far \subseteq Nat
          OBVIOUS
        <5> HIDE DEF Far
        <5> QED
          BY <5>1, <5>2, Least
      <4>5. PICK k \in 1..n : k = n - d /\ in[k] # Pad
        <5>1. n - d \in 1..n
          OBVIOUS
        <5> QED
          BY <5>1
      <4>6. ASSUME NEW j \in (k + 1)..n, in[j] # Pad PROVE FALSE
        <5>1. PICK c \in 0..(n - 1) : c = n - j /\ j = n - c /\ c < d
          <6>1. n - j \in 0..(n - 1) /\ j = n - (n - j) /\ n - j < d
            BY <4>5
          <6> QED
            BY <6>1
        <5>2. c \in Far
          BY <4>6, <5>1
        <5>3. d <= c /\ d \in Nat
          BY <4>4, <5>2
        <5> QED
          BY <5>1, <5>3
      <4>7. IsLast(k)
        BY <2>2, <4>5, <4>6
      <4>8. l \in 1..n
        <5> HIDE DEF IsLast
        <5> QED
          BY <2>2, <4>7
      <4>9. PICK x \in Nat : x = l
        BY <4>8
      <4> HIDE DEF l
      <4>10. x % 4 = 0 \/ x % 4 = 1 \/ x % 4 = 2 \/ x % 4 = 3
        OBVIOUS
      <4>11. (x \div 4) * 3 \in Int /\ ((x + 1) \div 4) * 3 - 1 \in Int
             /\ ((x + 2) \div 4) * 3 - 2 \in Int
        OBVIOUS
      <4> QED
        BY <4>1, <4>9, <4>10, <4>11
    <3> QED
      BY <3>1, <3>2
  <2>4. PICK m \in Nat : m = DecSize(in)
    BY <2>1, <2>3
  <2>5. PICK g \in Nat : g = Groups(in)
    <3>1. m \div 3 \in Nat
      OBVIOUS
    <3> QED
      BY <2>4, <3>1 DEF Groups
  <2>6. ASSUME NEW i, NEW k PROVE Value(in, i, k) \in Int
    <3>1. CASE 4 * i + k \in DOMAIN in
      <4>1. PICK c \in Nat : c = in[4 * i + k]
        BY <3>1
      <4>2. Conversion(c) \in Int
        BY ConversionTyped
      <4> QED
        BY <3>1, <4>1, <4>2 DEF Value
    <3>2. CASE 4 * i + k \notin DOMAIN in
      BY <3>2 DEF Value
    <3> QED
      BY <3>1, <3>2
  <2>7. ASSUME NEW k \in 1..3, NEW v \in Int, NEW w \in Int PROVE Concat(k, v, w) \in Int
    <3>1. v * 4 + w \div 16 \in Int /\ (v % 16) * 16 + w \div 4 \in Int /\ (v % 4) * 64 + w \in Int
      OBVIOUS
    <3>2. k = 1 \/ k = 2 \/ k = 3
      OBVIOUS
    <3> QED
      BY <3>1, <3>2 DEF Concat
  <2> DEFINE at(j) == LET i == (j - 1) \div 3
                          k == ((j - 1) % 3) + 1
                      IN  Concat(k, Value(in, i, k), Value(in, i, k + 1))
             a == [j \in 1..(3 * g) |-> at(j)]
             b == LastGroup(in)
  <2>8. Decode(in) = a \o b
    BY <1>2, <2>5 DEF Decode
  <2>9. a \in Seq(Int)
    <3>1. ASSUME NEW j \in 1..(3 * g) PROVE at(j) \in Int
      <4>1. PICK k \in 1..3 : k = ((j - 1) % 3) + 1
        <5>1. ((j - 1) % 3) + 1 \in 1..3
          OBVIOUS
        <5> QED
          BY <5>1
      <4>2. PICK i : i = (j - 1) \div 3
        OBVIOUS
      <4> QED
        BY <2>6, <2>7, <4>1, <4>2
    <3>2. PICK z \in Nat : z = 3 * g
      OBVIOUS
    <3> HIDE DEF at
    <3> QED
      BY <3>1, <3>2
  <2>10. b \in Seq(Int)
    <3> DEFINE v(k) == Value(in, g, k)
    <3>1. PICK x \in Int, y \in Int :
            x = Concat(1, v(1), v(2)) /\ y = IF v(3) < 0 THEN Junk ELSE Concat(2, v(2), v(3))
      <4>1. Concat(1, v(1), v(2)) \in Int /\ Concat(2, v(2), v(3)) \in Int
        <5>1. PICK v1 \in Int, v2 \in Int, v3 \in Int : v1 = v(1) /\ v2 = v(2) /\ v3 = v(3)
          BY <2>6
        <5>2. Concat(1, v1, v2) \in Int /\ Concat(2, v2, v3) \in Int
          <6>1. 1 \in 1..3 /\ 2 \in 1..3
            OBVIOUS
          <6> QED
            BY <2>7, <6>1
        <5> HIDE DEF v
        <5> QED
          BY <5>1, <5>2
      <4>2. Junk \in Int
        BY DEF Junk
      <4> HIDE DEF v
      <4> QED
        BY <4>1, <4>2
    <3>2. b = <<>> \/ b = <<x>> \/ b = <<x, y>>
      <4>1. b = CASE DecSize(in) % 3 = 0 -> <<>>
                  [] DecSize(in) % 3 = 1 -> <<Concat(1, v(1), v(2))>>
                  [] OTHER -> <<Concat(1, v(1), v(2)),
                                IF v(3) < 0 THEN Junk ELSE Concat(2, v(2), v(3))>>
        BY <2>5, Zenon DEF LastGroup
      <4> HIDE DEF v, b
      <4> QED
        BY <3>1, <4>1
    <3>3. <<>> \in Seq(Int) /\ <<x>> \in Seq(Int) /\ <<x, y>> \in Seq(Int)
      OBVIOUS
    <3> HIDE DEF b
    <3> QED
      BY <3>2, <3>3
  <2> HIDE DEF a, b
  <2> QED
    BY <2>8, <2>9, <2>10
<1> QED
  BY <1>1, <1>2

\* Texts are numbers.
LEMMA BytesTyped ==
  ASSUME NEW s \in Seq(Bytes)
  PROVE  s \in Seq(Nat)
<1>1. PICK n \in Nat : n = Len(s) /\ \A k \in 1..n : s[k] \in Bytes
  BY SeqPlaces
<1>2. \A k \in 1..n : s[k] \in Nat
  BY <1>1, ByteNumber
<1>3. s = [k \in 1..n |-> s[k]]
  BY <1>1
<1> QED
  BY <1>2, <1>3

\* The lines that are converted are texts with a character at least, and when there is
\* no other line they are all of them.
LEMMA ToConvert ==
  ASSUME NEW S, NEW text \in Seq(S)
  PROVE  /\ LinesToConvert(text) \in Seq(Seq(S) \ {<<>>})
         /\ (\A k \in 1..Len(Lines(text)) : Lines(text)[k] # <<>>) =>
              LinesToConvert(text) = Lines(text)
<1>1. PICK ls \in Seq(Seq(S)) : ls = Lines(text)
  BY LinesTyped
<1>2. PICK n \in Nat : n = Len(ls) /\ DOMAIN ls = 1..n
  <2>1. Len(ls) \in Nat /\ DOMAIN ls = 1..Len(ls)
    OBVIOUS
  <2> QED
    BY <2>1
<1>3. PICK T : T = Seq(S) \ {<<>>}
  OBVIOUS
<1>4. PICK P : P = [k \in 1..n |-> IF ls[k] = <<>> THEN <<>> ELSE <<ls[k]>>]
  OBVIOUS
<1>5. LinesToConvert(text) = FlattenSeq(P)
  BY <1>1, <1>2, <1>4 DEF LinesToConvert
<1>6. ASSUME NEW k \in 1..n PROVE P[k] \in Seq(T)
  <2>1. PICK l \in Seq(S) : l = ls[k]
    BY <1>2
  <2>2. CASE l = <<>>
    <3>1. <<>> \in Seq(T)
      OBVIOUS
    <3> QED
      BY <1>4, <2>1, <2>2, <3>1
  <2>3. CASE l # <<>>
    <3>1. l \in T
      BY <1>3, <2>3
    <3>2. <<l>> \in Seq(T)
      BY <3>1
    <3>3. P[k] = <<l>>
      BY <1>4, <2>1, <2>3
    <3> QED
      BY <3>2, <3>3
  <2> QED
    BY <2>2, <2>3
<1>7. P \in Seq(Seq(T)) /\ Len(P) = n
  BY <1>4, <1>6
<1>8. FlattenSeq(P) \in Seq(T)
  <2>1. PICK F : JoinedUpTo(n, P, F, T) /\ FlattenSeq(P) = F[n]
    BY <1>7, Flattened
  <2>2. F \in [0..n -> Seq(T)] /\ n \in 0..n
    BY <2>1 DEF JoinedUpTo
  <2> QED
    BY <2>1, <2>2
<1>9. ASSUME \A k \in 1..n : ls[k] # <<>> PROVE FlattenSeq(P) = ls
  <2>1. P = [k \in DOMAIN ls |-> <<ls[k]>>]
    BY <1>2, <1>4, <1>9
  <2>2. FlattenSeq([k \in DOMAIN ls |-> <<ls[k]>>]) = ls
    BY JoinedOnes
  <2> QED
    BY <2>1, <2>2
<1> QED
  BY <1>1, <1>2, <1>3, <1>5, <1>8, <1>9

\* The conversion of a text is a sequence of numbers.
LEMMA ConvertedTyped ==
  ASSUME NEW enc \in BOOLEAN, NEW mode \in Modes, NEW text \in Seq(Bytes)
  PROVE  Converted(enc, mode, text) \in Seq(Int)
<1>1. PICK u \in Seq(Int) : u = IF enc THEN Encode(mode, text) ELSE Decode(text)
  <2>1. Null \in Seq(Int)
    <3>1. <<-1>> \in Seq(Int)
      OBVIOUS
    <3> QED
      BY <3>1 DEF Null
  <2>2. Encode(mode, text) \in Seq(Int)
    <3>1. CASE text = <<>>
      <4>1. Len(<<>>) = 0 /\ 0 % 3 = 0
        OBVIOUS
      <4>2. Encode(mode, text) = Null
        BY <3>1, <4>1 DEF Encode
      <4> QED
        BY <2>1, <4>2
    <3>2. CASE text # <<>>
      <4>1. Encode(mode, text) \in Seq(Nat)
        BY <3>2, EncodeSpells DEF Spelled, Line
      <4> QED
        BY <4>1
    <3> QED
      BY <3>1, <3>2
  <2>3. text \in Seq(Nat)
    BY BytesTyped
  <2>4. Decode(text) \in Seq(Int)
    BY <2>3, DecodeTyped
  <2> QED
    BY <2>2, <2>4
<1>2. PICK r \in Seq(Int) : r = IF u = Null THEN Warning ELSE u
  <2>1. Warning \in Seq(Int)
    <3>1. <<105, 32, 105>> \in Seq(Int)
      OBVIOUS
    <3> QED
      BY <3>1 DEF Warning
  <2> QED
    BY <2>1
<1>3. Converted(enc, mode, text) = r \o <<LineEnd>>
  BY <1>1, <1>2 DEF Converted
<1>4. LineEnd \in Int
  BY DEF LineEnd
<1> QED
  BY <1>3, <1>4, EndedTyped

\* So is that of its lines.
LEMMA ShownTyped ==
  ASSUME NEW enc \in BOOLEAN, NEW mode \in Modes, NEW each \in BOOLEAN, NEW text \in Seq(Bytes)
  PROVE  Shown(enc, mode, each, text) \in Seq(Int)
<1>1. ConvertedLines(enc, mode, text) \in Seq(Int)
  <2>1. PICK ls \in Seq(Seq(Bytes)) : ls = LinesToConvert(text)
    <3>1. LinesToConvert(text) \in Seq(Seq(Bytes) \ {<<>>})
      BY ToConvert
    <3> QED
      BY <3>1
  <2>2. PICK n \in Nat : n = Len(ls) /\ DOMAIN ls = 1..n
    <3>1. Len(ls) \in Nat /\ DOMAIN ls = 1..Len(ls)
      OBVIOUS
    <3> QED
      BY <3>1
  <2>3. PICK P : P = [k \in 1..n |-> Converted(enc, mode, ls[k])]
    OBVIOUS
  <2>4. \A k \in 1..n : P[k] \in Seq(Int)
    <3>1. \A k \in 1..n : ls[k] \in Seq(Bytes)
      BY <2>2
    <3> QED
      BY <2>3, <3>1, ConvertedTyped
  <2>5. P \in Seq(Seq(Int)) /\ Len(P) = n
    BY <2>3, <2>4
  <2>6. PICK F : JoinedUpTo(n, P, F, Int) /\ FlattenSeq(P) = F[n]
    BY <2>5, Flattened
  <2>7. F[n] \in Seq(Int)
    BY <2>6 DEF JoinedUpTo
  <2> QED
    BY <2>1, <2>2, <2>3, <2>6, <2>7 DEF ConvertedLines
<1> QED
  BY <1>1, ConvertedTyped DEF Shown

\* What is shown for an encoding, when there was something to encode.
LEMMA EncodingIs ==
  ASSUME NEW mode \in Modes, NEW ls \in Seq(Seq(Bytes) \ {<<>>}), NEW text \in Seq(Bytes),
         NEW each \in BOOLEAN, ls # <<>>,
         ls = IF each THEN LinesToConvert(text) ELSE IF text = <<>> THEN <<>> ELSE <<text>>
  PROVE  Shown(TRUE, mode, each, text) = Joined([k \in DOMAIN ls |-> Encode(mode, ls[k])])
<1>1. PICK n \in Nat : n = Len(ls) /\ DOMAIN ls = 1..n
  BY SeqPlaces
<1>2. ASSUME NEW in \in Seq(Bytes), in # <<>>
      PROVE  /\ Converted(TRUE, mode, in) = Encode(mode, in) \o <<LineEnd>>
             /\ Encode(mode, in) \in Seq(Nat)
  <2>1. PICK e \in Seq(Nat) : e = Encode(mode, in)
    BY <1>2, EncodeSpells DEF Spelled, Line
  <2>2. e # <<-1>>
    <3>1. Len(<<-1>>) = 1 /\ <<-1>>[1] = -1
      OBVIOUS
    <3>2. Len(e) = 1 => e[1] \in Nat
      <4>1. PICK m \in Nat : m = Len(e) /\ \A k \in 1..m : e[k] \in Nat
        BY SeqPlaces
      <4> QED
        BY <4>1
    <3> QED
      BY <3>1, <3>2
  <2> QED
    BY <2>1, <2>2 DEF Converted, Null
<1>3. \A k \in 1..n : ls[k] \in Seq(Bytes) /\ ls[k] # <<>>
  BY <1>1
<1> DEFINE E == [k \in 1..n |-> Encode(mode, ls[k])]
           L == [k \in 1..n |-> E[k] \o <<LineEnd>>]
<1>4. Joined(E) = FlattenSeq(L)
  BY DEF Joined
<1>5. \A k \in 1..n : Converted(TRUE, mode, ls[k]) = L[k] /\ L[k] \in Seq(Nat)
  <2> SUFFICES ASSUME NEW k \in 1..n
               PROVE  Converted(TRUE, mode, ls[k]) = L[k] /\ L[k] \in Seq(Nat)
    OBVIOUS
  <2>1. Converted(TRUE, mode, ls[k]) = Encode(mode, ls[k]) \o <<LineEnd>>
        /\ Encode(mode, ls[k]) \in Seq(Nat)
    BY <1>2, <1>3
  <2>2. LineEnd \in Nat
    BY DEF LineEnd
  <2> QED
    BY <2>1, <2>2, EndedTyped
<1>6. CASE each
  <2>1. Shown(TRUE, mode, each, text)
          = FlattenSeq([k \in 1..n |-> Converted(TRUE, mode, ls[k])])
    BY <1>1, <1>6 DEF Shown, ConvertedLines
  <2>2. [k \in 1..n |-> Converted(TRUE, mode, ls[k])] = L
    BY <1>5
  <2> QED
    BY <1>1, <1>4, <2>1, <2>2
<1>7. CASE ~each
  <2>1. text # <<>> /\ ls = <<text>>
    BY <1>7
  <2>2. n = 1 /\ ls[1] = text
    BY <1>1, <2>1
  <2>3. Shown(TRUE, mode, each, text) = L[1]
    <3>1. Shown(TRUE, mode, each, text) = Converted(TRUE, mode, ls[1])
      BY <1>7, <2>2 DEF Shown
    <3>2. 1 \in 1..n
      BY <2>2
    <3> HIDE DEF L
    <3> QED
      BY <1>5, <3>1, <3>2
  <2>4. FlattenSeq(L) = L[1]
    <3>1. L \in Seq(Seq(Nat)) /\ Len(L) = 1
      BY <1>5, <2>2
    <3> HIDE DEF L
    <3> QED
      BY <3>1, JoinedOne
  <2> QED
    BY <1>1, <1>4, <2>3, <2>4
<1> QED
  BY <1>6, <1>7

\* A sequence of numbers is not nullptr.
LEMMA NotNull ==
  ASSUME NEW s \in Seq(Nat)
  PROVE  s # Null
<1>1. Len(<<-1>>) = 1 /\ <<-1>>[1] = -1
  OBVIOUS
<1>2. Len(s) = 1 => s[1] \in Nat
  <2>1. PICK n \in Nat : n = Len(s) /\ \A k \in 1..n : s[k] \in Nat
    BY SeqPlaces
  <2> QED
    BY <2>1
<1> QED
  BY <1>1, <1>2 DEF Null

\* One line, joined, is this line and its end.
LEMMA JoinedLine ==
  ASSUME NEW P \in Seq(Seq(Nat)), Len(P) = 1
  PROVE  Joined(P) = P[1] \o <<LineEnd>> /\ P[1] \in Seq(Nat)
<1>1. DOMAIN P = 1..1 /\ P[1] \in Seq(Nat)
  BY SeqPlaces
<1>2. PICK p \in Seq(Nat) : p = P[1]
  BY <1>1
<1>3. PICK u \in Seq(Nat) : u = p \o <<LineEnd>>
  <2>1. LineEnd \in Nat
    BY DEF LineEnd
  <2> QED
    BY <2>1, EndedTyped
<1>4. PICK L : L = [k \in 1..1 |-> P[k] \o <<LineEnd>>]
  OBVIOUS
<1>5. 1 \in 1..1 /\ \A k \in 1..1 : k = 1
  OBVIOUS
<1>6. L[1] = u
  BY <1>2, <1>3, <1>4, <1>5
<1>7. L = [k \in 1..1 |-> u]
  BY <1>2, <1>3, <1>4, <1>5, Zenon
<1>8. L \in Seq(Seq(Nat)) /\ Len(L) = 1
  BY <1>7
<1>9. FlattenSeq(L) = L[1]
  BY <1>8, JoinedOne
<1>10. Joined(P) = FlattenSeq(L)
  BY <1>1, <1>4, Zenon DEF Joined
<1> QED
  BY <1>2, <1>3, <1>6, <1>9, <1>10

\* The last line end is taken away again.
LEMMA EndTaken ==
  ASSUME NEW s \in Seq(Nat)
  PROVE  Front(s \o <<LineEnd>>) = s
<1>1. PICK e \in Seq(Nat) : e = <<LineEnd>> /\ Len(e) = 1
  <2>1. <<LineEnd>> \in Seq(Nat) /\ Len(<<LineEnd>>) = 1
    BY DEF LineEnd
  <2> QED
    BY <2>1
<1>2. PICK u : u = s \o e
  OBVIOUS
<1>3. u \in Seq(Nat) /\ OneBehind(u, s, e)
  BY <1>2, Concatenated
<1>4. PICK n \in Nat : n = Len(s) /\ \A k \in 1..n : s[k] \in Nat
  BY SeqPlaces
<1>5. Len(u) = n + 1 /\ \A k \in 1..n : u[k] = s[k]
  BY <1>1, <1>3, <1>4 DEF OneBehind
<1>6. PICK t : t = Front(u)
  OBVIOUS
<1>7. t = SubSeq(u, 1, n)
  <2>1. (n + 1) - 1 = n
    OBVIOUS
  <2> QED
    BY <1>5, <1>6, <2>1 DEF Front
<1>8. t = [k \in 1..n |-> u[k]]
  BY <1>3, <1>5, <1>7
<1>9. s = [k \in 1..n |-> s[k]]
  BY <1>4
<1>10. t = s
  BY <1>5, <1>8, <1>9
<1> QED
  BY <1>1, <1>2, <1>6, <1>10

\* Reading the lines of s reads nothing behind them, and decoding s shows the lines ls,
\* when out has no underscore.
ComesBack(s, mode, out, ls, other, each) ==
  /\ \A k \in DOMAIN Lines(s) : ~ReadsBehind(Lines(s)[k])
  /\ (mode = URL => Underscore \notin ToSet(out)) =>
       Shown(FALSE, other, each, s) = Joined(ls)

\* What is decoded, when the lines that were encoded are pasted.
LEMMA DecodingIs ==
  ASSUME NEW mode \in Modes, NEW ls \in Seq(Seq(Bytes) \ {<<>>}), ls # <<>>,
         NEW E, E = [k \in DOMAIN ls |-> Encode(mode, ls[k])],
         NEW out, out = Joined(E), NEW s \in Seq(Bytes), NEW other \in Modes,
         NEW each \in BOOLEAN,
         \/ each /\ s \in {out, Front(out)}
         \/ ~each /\ Len(ls) = 1 /\ s = Front(out)
  PROVE  ComesBack(s, mode, out, ls, other, each)
<1>1. PICK n \in Nat : n = Len(ls) /\ DOMAIN ls = 1..n /\ n > 0
                       /\ \A k \in 1..n : ls[k] \in Seq(Bytes) /\ ls[k] # <<>>
  <2>1. PICK n \in Nat : n = Len(ls) /\ DOMAIN ls = 1..n
                         /\ \A k \in 1..n : ls[k] \in Seq(Bytes) \ {<<>>}
    BY SeqPlaces
  <2>2. n # 0
    BY <2>1, EmptySeq
  <2>3. n > 0
    BY <2>2
  <2> QED
    BY <2>1, <2>3
<1>2. \A k \in 1..n : Spelled(mode, ls[k], E[k])
  BY <1>1, EncodeSpells
<1>3. E \in Seq(Seq(Nat)) /\ Len(E) = n /\ DOMAIN E = 1..n /\ E # <<>>
  <2>1. \A k \in 1..n : E[k] \in Seq(Nat)
    BY <1>2 DEF Spelled, Line
  <2>2. E \in Seq(Seq(Nat)) /\ Len(E) = n /\ DOMAIN E = 1..n
    BY <1>1, <2>1
  <2>3. E # <<>>
    BY <1>1, <2>2, EmptySeq
  <2> QED
    BY <2>2, <2>3
<1>4. \A k \in 1..n : Line(E[k]) /\ E[k] # <<>> /\ ~ReadsBehind(E[k])
  BY <1>2 DEF Spelled, Line
<1>5. Written(E, out) /\ Written(E, Front(out))
      /\ \A k \in 1..n : \A j \in 1..Len(E[k]) : E[k][j] \in ToSet(out)
  BY <1>3, JoinedWritten
<1>6. Lines(s) = E
  <2>1. Written(E, s)
    BY <1>5
  <2> QED
    BY <1>3, <1>4, <2>1, LinesWritten
<1>7. ASSUME mode = URL => Underscore \notin ToSet(out)
      PROVE  Shown(FALSE, other, each, s) = Joined(ls)
  <2>1. ASSUME NEW k \in 1..n PROVE Converted(FALSE, other, E[k]) = ls[k] \o <<LineEnd>>
    <3>1. \A j \in 1..Len(E[k]) : E[k][j] # Underscore
      BY <1>2, <1>5, <1>7 DEF Spelled
    <3>2. Decode(E[k]) = ls[k]
      BY <1>2, <3>1 DEF Spelled
    <3>3. ls[k] # Null
      BY <1>1, BytesTyped, NotNull
    <3> QED
      BY <3>2, <3>3 DEF Converted
  <2>2. CASE each
    <3>1. LinesToConvert(s) = E
      BY <1>3, <1>4, <1>6, ToConvert
    <3>2. Shown(FALSE, other, each, s)
            = FlattenSeq([k \in 1..n |-> Converted(FALSE, other, E[k])])
      BY <1>3, <2>2, <3>1 DEF Shown, ConvertedLines
    <3>3. [k \in 1..n |-> Converted(FALSE, other, E[k])] = [k \in 1..n |-> ls[k] \o <<LineEnd>>]
      BY <2>1
    <3> QED
      BY <1>1, <3>2, <3>3 DEF Joined
  <2>3. CASE ~each
    <3>1. n = 1 /\ s = Front(out) /\ 1 \in 1..n
      BY <1>1, <2>3
    <3>2. Len(E) = 1 /\ Len(ls) = 1
      BY <1>1, <1>3, <3>1
    <3>3. s = E[1]
      <4>1. out = E[1] \o <<LineEnd>> /\ E[1] \in Seq(Nat)
        BY <1>3, <3>2, JoinedLine
      <4> QED
        BY <3>1, <4>1, EndTaken
    <3>4. Joined(ls) = ls[1] \o <<LineEnd>>
      <4>1. \A k \in 1..n : ls[k] \in Seq(Nat)
        BY <1>1, BytesTyped
      <4>2. ls \in Seq(Seq(Nat))
        <5>1. PICK T : T = Seq(Nat)
          OBVIOUS
        <5>2. PICK f : f = [k \in 1..n |-> ls[k]]
          OBVIOUS
        <5>3. \A k \in 1..n : ls[k] \in T
          BY <4>1, <5>1
        <5>4. f \in Seq(T)
          BY <5>2, <5>3
        <5>5. ls = f
          BY <1>1, <5>2
        <5> QED
          BY <5>1, <5>4, <5>5
      <4> QED
        BY <3>2, <4>2, JoinedLine
    <3>5. Shown(FALSE, other, each, s) = Converted(FALSE, other, E[1])
      BY <2>3, <3>3 DEF Shown
    <3> QED
      BY <2>1, <3>1, <3>4, <3>5
  <2> QED
    BY <2>2, <2>3
<1> QED
  BY <1>3, <1>4, <1>6, <1>7 DEF ComesBack

-----------------------------------------------------------------------------
(* The invariant of the tab base64. *)

\* A conversion as it is noted.
Conversions ==
  [enc : BOOLEAN, mode : Modes, each : BOOLEAN, in : Seq(0..127), out : Seq(Int)]

\* What may stand in a text field for the output: anything in a row.
Row(s) == Len(s) \in Nat /\ s = [k \in 1..Len(s) |-> s[k]]

\* The inductive invariant: what is typed or pasted are ASCII codes, and every
\* conversion has shown what it says of its own input.
TextsInv ==
  /\ input \in Seq(0..127) /\ chosen \in Seq(Bytes) /\ Row(output)
  /\ told \in Seq(Conversions)
  /\ \A i \in DOMAIN told :
       told[i].out = Shown(told[i].enc, told[i].mode, told[i].each, told[i].in)

\* ASCII codes are bytes.
LEMMA AsciiTyped ==
  ASSUME NEW s \in Seq(0..127)
  PROVE  s \in Seq(Bytes)
<1>1. PICK n \in Nat : n = Len(s) /\ DOMAIN s = 1..n /\ \A k \in 1..n : s[k] \in 0..127
  BY SeqPlaces
<1>2. \A k \in 1..n : s[k] \in Bytes
  BY <1>1 DEF Bytes
<1>3. s = [k \in 1..n |-> s[k]]
  BY <1>1
<1> QED
  BY <1>2, <1>3

\* Every sequence is a row.
LEMMA RowOf ==
  ASSUME NEW S, NEW s \in Seq(S)
  PROVE  Row(s)
<1>1. PICK n \in Nat : n = Len(s) /\ DOMAIN s = 1..n
  BY SeqPlaces
<1>2. s = [k \in 1..n |-> s[k]]
  BY <1>1
<1> QED
  BY <1>1, <1>2 DEF Row

\* The content of a file, as a string or as it is, is a text.
LEMMA StringTyped ==
  ASSUME NEW bytes \in Seq(Bytes), NEW text \in AsString(bytes)
  PROVE  text \in Seq(Bytes)
<1>1. CASE LeavesMapping(bytes)
  <2>1. PICK b \in Behind : text = bytes \o b
    BY <1>1 DEF AsString
  <2>2. b \in Seq(Bytes)
    BY TextsAssumption DEF Bytes
  <2> QED
    BY <2>1, <2>2
<1>2. CASE ~LeavesMapping(bytes)
  <2>1. text = UpToZero(bytes)
    BY <1>2 DEF AsString
  <2>2. PICK l \in Nat : l = Len(bytes) /\ DOMAIN bytes = 1..l
    BY SeqPlaces
  <2> DEFINE Ends(k) == k \in DOMAIN bytes => bytes[k] = 0
             First(k) == Ends(k) /\ \A j \in 1..(k - 1) : bytes[j] # 0
             x == CHOOSE k \in 1..(Len(bytes) + 1) : First(k)
             S == {k \in 1..(l + 1) : Ends(k)}
  <2>3. UpToZero(bytes) = SubSeq(bytes, 1, x - 1)
    BY DEF UpToZero
  <2>4. l + 1 \in S
    BY <2>2
  <2>5. PICK k \in S : \A m \in S : k <= m
    <3>1. S # {}
      BY <2>4
    <3>2. S \subseteq Nat
      OBVIOUS
    <3> HIDE DEF S
    <3> QED
      BY <3>1, <3>2, Least
  <2>6. First(k)
    <3>1. ASSUME NEW j \in 1..(k - 1), bytes[j] = 0 PROVE FALSE
      <4>1. j \in 1..(l + 1) /\ j \in Nat /\ j < k
        BY <2>2
      <4>2. j \in S
        BY <3>1, <4>1
      <4>3. k <= j
        BY <2>5, <4>2
      <4> QED
        BY <4>1, <4>3
    <3> QED
      BY <2>5, <3>1
  <2>7. x \in 1..(l + 1)
    <3>1. k \in 1..(l + 1)
      OBVIOUS
    <3> HIDE DEF First
    <3> QED
      BY <2>2, <2>6, <3>1
  <2>8. PICK y \in 0..l : y = x - 1
    <3> HIDE DEF x
    <3>1. x - 1 \in 0..l
      BY <2>7
    <3> QED
      BY <3>1
  <2>9. SubSeq(bytes, 1, y) \in Seq(Bytes)
    <3>1. \A j \in 1..y : bytes[j] \in Bytes
      BY <2>2
    <3> QED
      BY <3>1
  <2> QED
    BY <2>1, <2>3, <2>8, <2>9
<1> QED
  BY <1>1, <1>2

\* The invariant holds at first.
LEMMA InitTextsInv == Init => TextsInv
<1> SUFFICES ASSUME Init PROVE TextsInv
  OBVIOUS
<1>1. input = <<>> /\ output = <<>> /\ chosen = <<>> /\ told = <<>>
  BY DEF Init, InitTexts
<1>2. \A S : <<>> \in Seq(S)
  OBVIOUS
<1>3. Row(<<>>)
  BY <1>2, RowOf
<1>4. DOMAIN <<>> = {}
  OBVIOUS
<1> QED
  BY <1>1, <1>2, <1>3, <1>4 DEF TextsInv

\* Something is typed, pasted or chosen.
LEMMA TypingKeeps ==
  ASSUME TextsInv,
         \/ \E t \in Texts : Type(t)
         \/ \E withEnd \in BOOLEAN : PasteOutput(withEnd)
         \/ \E bytes \in Contents : ChooseFile(bytes)
  PROVE  TextsInv'
<1>1. CASE \E t \in Texts : Type(t)
  <2>1. PICK t \in Texts : Type(t)
    BY <1>1
  <2>2. input' \in Seq(0..127)
    BY <2>1, TextsAssumption DEF Type
  <2>3. told' = <<>> /\ DOMAIN <<>> = {} /\ <<>> \in Seq(Conversions)
    BY <2>1 DEF Type
  <2> QED
    BY <2>1, <2>2, <2>3 DEF TextsInv, Type, Row
<1>2. CASE \E withEnd \in BOOLEAN : PasteOutput(withEnd)
  <2>1. PICK withEnd \in BOOLEAN : PasteOutput(withEnd)
    BY <1>2
  <2>2. PICK n \in Nat : n = Len(output) /\ output = [k \in 1..n |-> output[k]]
    BY DEF TextsInv, Row
  <2>3. \A k \in 1..n : output[k] \in 0..127
    <3>1. DOMAIN output = 1..n
      BY <2>2
    <3>2. \A k \in DOMAIN output : output[k] \in 1..127
      BY <2>1 DEF PasteOutput
    <3>3. \A k \in 1..n : output[k] \in 1..127
      BY <3>1, <3>2
    <3>4. \A x : x \in 1..127 => x \in 0..127
      OBVIOUS
    <3> QED
      BY <3>3, <3>4
  <2>4. PICK s \in Seq(0..127) : s = output
    <3>1. PICK f : f = [k \in 1..n |-> output[k]]
      OBVIOUS
    <3>2. f \in Seq(0..127)
      BY <2>3, <3>1
    <3>3. f = output
      BY <2>2, <3>1
    <3> QED
      BY <3>2, <3>3
  <2>5. s # <<>>
    BY <2>1, <2>4 DEF PasteOutput
  <2>6. Front(s) \in Seq(0..127)
    <3>1. PICK l \in Nat : l = Len(s) /\ \A k \in 1..l : s[k] \in 0..127
      BY SeqPlaces
    <3>2. l # 0
      BY <2>5, <3>1, EmptySeq
    <3>3. PICK m \in Nat : m = l - 1 /\ m <= l
      BY <3>2
    <3>a. \A k \in 1..m : k \in 1..l
      BY <3>3
    <3>4. \A k \in 1..m : s[k] \in 0..127
      BY <3>1, <3>a
    <3>5. SubSeq(s, 1, m) \in Seq(0..127)
      BY <3>4
    <3> QED
      BY <3>1, <3>3, <3>5 DEF Front
  <2>7. input' \in Seq(0..127)
    BY <2>1, <2>4, <2>6 DEF PasteOutput
  <2> QED
    BY <2>1, <2>7 DEF TextsInv, PasteOutput, Row
<1>3. CASE \E bytes \in Contents : ChooseFile(bytes)
  <2>1. PICK bytes \in Contents : ChooseFile(bytes)
    BY <1>3
  <2>2. chosen' \in Seq(Bytes)
    BY <2>1, TextsAssumption DEF ChooseFile, Bytes
  <2> QED
    BY <2>1, <2>2 DEF TextsInv, ChooseFile, Row
<1> QED
  BY <1>1, <1>2, <1>3

\* A conversion of what was typed.
LEMMA CalcKeeps ==
  ASSUME TextsInv, NEW enc \in BOOLEAN, NEW mode \in Modes, NEW each \in BOOLEAN,
         CalcB64(enc, mode, each)
  PROVE  TextsInv'
<1>1. PICK out \in Seq(Int) : out = Shown(enc, mode, each, input) /\ out = output'
  <2>1. input \in Seq(Bytes)
    BY AsciiTyped DEF TextsInv
  <2>2. output' = Shown(enc, mode, each, input)
    BY DEF CalcB64
  <2> QED
    BY <2>1, <2>2, ShownTyped
<1>2. PICK c : c = [enc |-> enc, mode |-> mode, each |-> each, in |-> input, out |-> out]
  OBVIOUS
<1>3. c \in Conversions
  BY <1>2 DEF Conversions, TextsInv
<1>4. told' = Append(told, c)
  BY <1>1, <1>2 DEF CalcB64
<1>5. PICK n \in Nat : n = Len(told) /\ DOMAIN told = 1..n
  BY SeqPlaces DEF TextsInv
<1>6. /\ told' \in Seq(Conversions) /\ DOMAIN told' = 1..(n + 1) /\ told'[n + 1] = c
      /\ \A i \in 1..n : told'[i] = told[i]
  BY <1>3, <1>4, <1>5 DEF TextsInv
<1>7. ASSUME NEW i \in DOMAIN told'
      PROVE  told'[i].out = Shown(told'[i].enc, told'[i].mode, told'[i].each, told'[i].in)
  <2>1. CASE i = n + 1
    <3>1. told'[i] = c
      BY <1>6, <2>1
    <3>2. c.out = out /\ c.enc = enc /\ c.mode = mode /\ c.each = each /\ c.in = input
      BY <1>2
    <3>3. c.out = Shown(c.enc, c.mode, c.each, c.in)
      BY <1>1, <3>2
    <3> QED
      BY <3>1, <3>3
  <2>2. CASE i # n + 1
    <3>1. i \in 1..n
      BY <1>6, <2>2
    <3> QED
      BY <1>5, <1>6, <3>1 DEF TextsInv
  <2> QED
    BY <2>1, <2>2
<1>8. Row(output)'
  BY <1>1, RowOf DEF Row
<1>9. UNCHANGED <<input, chosen>>
  BY DEF CalcB64
<1> QED
  BY <1>6, <1>7, <1>8, <1>9 DEF TextsInv

\* Nothing is noted, and the output is something else.
LEMMA OutputKeeps ==
  ASSUME TextsInv, Row(output)', UNCHANGED <<input, chosen>>, told' = told \/ told' = <<>>
  PROVE  TextsInv'
<1>1. <<>> \in Seq(Conversions) /\ DOMAIN <<>> = {}
  OBVIOUS
<1> QED
  BY <1>1 DEF TextsInv

\* A file is converted, or a digest is calculated.
LEMMA FileOrDigestKeeps ==
  ASSUME TextsInv,
         \/ \E enc, each \in BOOLEAN, mode \in Modes : CalcB64File(enc, mode, each)
         \/ \E each \in BOOLEAN : CalcSha256(each)
         \/ CalcSha256File
  PROVE  TextsInv'
<1>1. Row(NotOpen)
  <2>1. <<111, 32, 111>> \in Seq(Nat)
    OBVIOUS
  <2> QED
    BY <2>1, RowOf DEF NotOpen
<1>2. \A x : Row(<<x>>)
  <2>1. \A x : <<x>> \in Seq({x})
    OBVIOUS
  <2> QED
    BY <2>1, RowOf
<1>3. CASE \E enc, each \in BOOLEAN, mode \in Modes : CalcB64File(enc, mode, each)
  <2>1. PICK enc \in BOOLEAN, each \in BOOLEAN, mode \in Modes : CalcB64File(enc, mode, each)
    BY <1>3
  <2>2. PICK text \in (IF each THEN AsString(chosen) ELSE {chosen}) :
          output' = IF chosen = <<>> THEN NotOpen ELSE Shown(enc, mode, each, text)
    BY <2>1 DEF CalcB64File
  <2>3. text \in Seq(Bytes)
    BY <2>2, StringTyped DEF TextsInv
  <2>4. Row(Shown(enc, mode, each, text))
    BY <2>3, ShownTyped, RowOf
  <2>5. Row(output)'
    <3>1. Row(output')
      BY <1>1, <2>2, <2>4
    <3> QED
      BY <3>1 DEF Row
  <2>6. UNCHANGED <<input, chosen>> /\ told' = <<>>
    BY <2>1 DEF CalcB64File
  <2> QED
    BY <2>5, <2>6, OutputKeeps
<1>4. CASE \E each \in BOOLEAN : CalcSha256(each)
  <2>1. PICK each \in BOOLEAN : CalcSha256(each)
    BY <1>4
  <2>2. PICK ls \in Seq(Seq(0..127)) : ls = Lines(input)
    BY LinesTyped DEF TextsInv
  <2>3. PICK n \in Nat : n = Len(ls) /\ DOMAIN ls = 1..n
    BY SeqPlaces
  <2>4. PICK f : f = [k \in 1..n |-> Digest(ls[k])]
    OBVIOUS
  <2>5. f \in Seq({Digest(ls[k]) : k \in 1..n})
    BY <2>4
  <2>6. output' = IF each THEN f ELSE <<Digest(input)>>
    BY <2>1, <2>2, <2>3, <2>4 DEF CalcSha256
  <2>7. Row(output)'
    <3>1. Row(output')
      BY <1>2, <2>5, <2>6, RowOf
    <3> QED
      BY <3>1 DEF Row
  <2>8. UNCHANGED <<input, chosen, told>>
    BY <2>1 DEF CalcSha256
  <2> QED
    BY <2>7, <2>8, OutputKeeps
<1>5. CASE CalcSha256File
  <2>1. output' = IF chosen = <<>> THEN NotOpen ELSE <<Digest(chosen)>>
    BY <1>5 DEF CalcSha256File
  <2>2. Row(output)'
    <3>1. Row(output')
      BY <1>1, <1>2, <2>1
    <3> QED
      BY <3>1 DEF Row
  <2>3. UNCHANGED <<input, chosen, told>>
    BY <1>5 DEF CalcSha256File
  <2> QED
    BY <2>2, <2>3, OutputKeeps
<1> QED
  BY <1>3, <1>4, <1>5

\* Every step keeps the invariant.
LEMMA StepTextsInv == TextsInv /\ [Next]_vars => TextsInv'
<1> SUFFICES ASSUME TextsInv, [Next]_vars PROVE TextsInv'
  OBVIOUS
<1>1. CASE UNCHANGED texts
  BY <1>1 DEF TextsInv, texts, Row
<1>2. CASE NextTexts
  <2>1. {STD, URL, IMAP} = Modes
    BY DEF Modes
  <2>2. CASE \/ \E t \in Texts : Type(t)
             \/ \E withEnd \in BOOLEAN : PasteOutput(withEnd)
             \/ \E bytes \in Contents : ChooseFile(bytes)
    BY <2>2, TypingKeeps
  <2>3. CASE \E enc, each \in BOOLEAN, mode \in Modes : CalcB64(enc, mode, each)
    BY <2>3, CalcKeeps
  <2>4. CASE \/ \E enc, each \in BOOLEAN, mode \in Modes : CalcB64File(enc, mode, each)
             \/ \E each \in BOOLEAN : CalcSha256(each)
             \/ CalcSha256File
    BY <2>4, FileOrDigestKeeps
  <2>5. CASE CalcB64FileEnds
    BY <1>1, <2>5 DEF CalcB64FileEnds
  <2> QED
    BY <1>2, <2>1, <2>2, <2>3, <2>4, <2>5, Zenon DEF NextTexts
<1>3. CASE Next /\ ~NextTexts
  BY <1>1, <1>3 DEF Next
<1>4. CASE UNCHANGED vars
  BY <1>1, <1>4 DEF vars
<1> QED
  BY <1>2, <1>3, <1>4

\* What a conversion noted has encoded, and what it has shown.
LEMMA NotedIs ==
  ASSUME TextsInv, NEW i \in DOMAIN told, told[i].enc, Encoded(i) # <<>>
  PROVE  /\ told[i].mode \in Modes /\ Encoded(i) \in Seq(Seq(Bytes) \ {<<>>})
         /\ told[i].out = Joined([k \in DOMAIN Encoded(i) |-> Encode(told[i].mode, Encoded(i)[k])])
<1>1. PICK c \in Conversions : c = told[i]
  BY DEF TextsInv
<1>2. c.mode \in Modes /\ c.each \in BOOLEAN /\ c.in \in Seq(0..127)
  BY DEF Conversions
<1>3. PICK in \in Seq(Bytes) : in = c.in
  BY <1>2, AsciiTyped
<1>4. PICK ls : ls = Encoded(i)
  OBVIOUS
<1>5. ls = IF c.each THEN LinesToConvert(in) ELSE IF in = <<>> THEN <<>> ELSE <<in>>
  BY <1>1, <1>3, <1>4 DEF Encoded
<1>6. ls \in Seq(Seq(Bytes) \ {<<>>})
  <2>1. CASE c.each
    BY <1>5, <2>1, ToConvert
  <2>2. CASE ~c.each
    <3>1. in # <<>> /\ ls = <<in>>
      BY <1>4, <1>5, <2>2
    <3>2. PICK T : T = Seq(Bytes) \ {<<>>} /\ in \in T
      BY <3>1
    <3>3. <<in>> \in Seq(T)
      BY <3>2
    <3> QED
      BY <3>1, <3>2, <3>3
  <2> QED
    BY <2>1, <2>2
<1>7. Shown(TRUE, c.mode, c.each, in) = Joined([k \in DOMAIN ls |-> Encode(c.mode, ls[k])])
  BY <1>2, <1>4, <1>5, <1>6, EncodingIs
<1>8. c.out = Shown(TRUE, c.mode, c.each, in)
  <2>1. c.enc = TRUE
    <3>1. c.enc \in BOOLEAN
      BY DEF Conversions
    <3> QED
      BY <1>1, <3>1
  <2> QED
    BY <1>1, <1>3, <2>1 DEF TextsInv
<1> QED
  BY <1>1, <1>2, <1>4, <1>6, <1>7, <1>8

\* What is shown for an encoding is RFC 4648, letter by letter, whatever the text, the
\* standard and the way its lines are taken.  (base64_encode, button_calc_b64)
THEOREM EncodingsAreRfc == Spec => []EncodedAsRfc
<1>1. TextsInv => EncodedAsRfc
  <2> SUFFICES ASSUME TextsInv, NEW i \in Encodes, Encoded(i) # <<>>
               PROVE  told[i].out = Joined([k \in DOMAIN Encoded(i) |->
                                              RfcEncode(told[i].mode, Encoded(i)[k])])
    BY DEF EncodedAsRfc
  <2>1. i \in DOMAIN told /\ told[i].enc
    BY DEF Encodes
  <2>2. PICK mode \in Modes, ls \in Seq(Seq(Bytes) \ {<<>>}) :
          /\ mode = told[i].mode /\ ls = Encoded(i)
          /\ told[i].out = Joined([k \in DOMAIN ls |-> Encode(mode, ls[k])])
    BY <2>1, NotedIs
  <2>3. \A k \in DOMAIN ls : Encode(mode, ls[k]) = RfcEncode(mode, ls[k])
    <3>1. \A k \in DOMAIN ls : ls[k] \in Seq(Bytes) /\ ls[k] # <<>>
      BY SeqPlaces
    <3> QED
      BY <3>1, EncodeIs
  <2>4. [k \in DOMAIN ls |-> Encode(mode, ls[k])] = [k \in DOMAIN ls |-> RfcEncode(mode, ls[k])]
    BY <2>3
  <2> QED
    BY <2>2, <2>4
<1> QED
  BY <1>1, InitTextsInv, StepTextsInv, PTL DEF Spec

\* What was shown for an encoding, pasted back and decoded, is what was encoded, and
\* nothing is read behind a line: for every text, whole or in lines, and in every
\* standard in which it needed no '_'.  (base64_encode, base64_decode, button_calc_b64)
THEOREM TextsComeBack == Spec => []TextRoundTrip
<1>1. TextsInv => TextRoundTrip
  <2> SUFFICES ASSUME TextsInv, NEW i \in DOMAIN told, NEW j \in DOMAIN told, Decodes(j, i)
               PROVE  /\ \A k \in DOMAIN Lines(told[j].in) : ~ReadsBehind(Lines(told[j].in)[k])
                      /\ (told[i].mode = URL => 95 \notin ToSet(told[i].out)) =>
                           told[j].out = Joined(Encoded(i))
    BY DEF TextRoundTrip
  <2>1. told[i].enc /\ ~told[j].enc /\ Encoded(i) # <<>>
    BY DEF Decodes, Encodes
  <2>a. PICK mode \in Modes, ls \in Seq(Seq(Bytes) \ {<<>>}) :
          /\ mode = told[i].mode /\ ls = Encoded(i) /\ ls # <<>>
          /\ told[i].out = Joined([k \in DOMAIN ls |-> Encode(mode, ls[k])])
    BY <2>1, NotedIs
  <2>b. PICK E : E = [k \in DOMAIN ls |-> Encode(mode, ls[k])]
    OBVIOUS
  <2>2. PICK out : out = Joined(E) /\ out = told[i].out
    BY <2>a, <2>b
  <2>3. PICK c \in Conversions : c = told[j]
    BY DEF TextsInv
  <2>4. c.mode \in Modes /\ c.each \in BOOLEAN /\ c.enc \in BOOLEAN /\ c.in \in Seq(0..127)
    BY DEF Conversions
  <2>5. PICK s \in Seq(Bytes) : s = c.in
    BY <2>4, AsciiTyped
  <2>6. \/ c.each /\ s \in {out, Front(out)}
        \/ ~c.each /\ Len(ls) = 1 /\ s = Front(out)
    BY <2>2, <2>3, <2>5, <2>a DEF Decodes
  <2>7. /\ \A k \in DOMAIN Lines(s) : ~ReadsBehind(Lines(s)[k])
        /\ (mode = URL => Underscore \notin ToSet(out)) =>
             Shown(FALSE, c.mode, c.each, s) = Joined(ls)
    <3>1. PICK other \in Modes, each \in BOOLEAN : other = c.mode /\ each = c.each
      BY <2>4
    <3>2. \/ each /\ s \in {out, Front(out)}
          \/ ~each /\ Len(ls) = 1 /\ s = Front(out)
      BY <2>6, <3>1
    <3>3. ComesBack(s, mode, out, ls, other, each)
      BY <2>2, <2>a, <2>b, <3>2, DecodingIs
    <3> QED
      BY <3>1, <3>3 DEF ComesBack
  <2>8. c.out = Shown(FALSE, c.mode, c.each, s)
    <3>1. c.enc = FALSE
      BY <2>1, <2>3, <2>4
    <3> QED
      BY <2>3, <2>5, <3>1 DEF TextsInv
  <2> QED
    BY <2>2, <2>3, <2>5, <2>7, <2>8, <2>a DEF Underscore
<1> QED
  BY <1>1, InitTextsInv, StepTextsInv, PTL DEF Spec
=============================================================================
