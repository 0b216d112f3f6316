---------------------------- MODULE AccountsProofs ----------------------------
(***************************************************************************)
(* Proofs about Accounts, for every set of users, of odd names and what    *)
(* they lead to, of passwords and password fields, every password rule's   *)
(* data and every set of faults.                                           *)
(***************************************************************************)
EXTENDS Accounts, SequenceTheorems, TLAPS

\* No two records have the same name.
Unique(s) == \A j, k \in DOMAIN s : s[j].user = s[k].user => j = k

\* A process that has not loaded its accounts shows nothing and has none.
StartInv == ~Loaded => fileJson = <<>> /\ panel = "wlcm" /\ typed = NoneTyped

\* Names are unique in memory, and in every file that is ever written.
UniqueInv == Unique(fileJson) /\ \A q \in Folders : Unique(json[q].users)

\* While an account is saved, it is the last one in memory.
SavingInv == pc \in {"open", "write", "remove", "mkdir"} => fileJson # <<>>

\* The accounts on disk are the first ones of those in memory, whichever places
\* the file was rewritten in since it was loaded.
PrefixInv ==
  Loaded /\ json[Root].state = "whole" => IsPrefix(json[Root].users, fileJson)

IInv == TypeOK /\ StartInv /\ UniqueInv /\ SavingInv /\ PrefixInv
        /\ SessionIsUsers /\ CredentialsCleared

-----------------------------------------------------------------------------
(***************************************************************************)
(* Sequences and paths.                                                    *)
(***************************************************************************)
LEMMA PrefixOfSelf ==
  ASSUME NEW S, NEW s \in Seq(S)
  PROVE  IsPrefix(s, s)
BY DEF IsPrefix

\* A sequence is a prefix of itself with one more element.
LEMMA PrefixOfAppend ==
  ASSUME NEW S, NEW s \in Seq(S), NEW t \in Seq(S), NEW x \in S, IsPrefix(s, t)
  PROVE  IsPrefix(s, Append(t, x))
BY DEF IsPrefix

\* A new name behind names without a double leaves none.
LEMMA AppendUnique ==
  ASSUME NEW s \in Seq(Record), NEW r \in Record, Unique(s),
         r.user \notin NamesIn(s)
  PROVE  Unique(Append(s, r))
BY DEF Unique, NamesIn

\* A path of a new folder: below the root or below a user's folder.
LEMMA NewFolder ==
  ASSUME NEW c \in Places, NEW u \in Plain
  PROVE  /\ Append(c, u) \in Folders
         /\ c = Root => Append(c, u) = <<u>>
         /\ c # Root => \E v \in Plain : Append(c, u) = <<v, u>>
         /\ Append(c, u) # Root
<1>1. CASE c = Root
  <2>1. Append(c, u) = <<u>>
    BY <1>1 DEF Root
  <2>2. QED BY <1>1, <2>1 DEF Places, Folders, Root
<1>2. CASE c # Root
  <2>1. PICK v \in Plain : c = <<v>>
    BY <1>2 DEF Places
  <2>2. Append(c, u) = <<v, u>>
    <3> DEFINE d == Append(c, u)
    <3>0. c \in Seq(Plain)
      BY <2>1
    <3>1. Len(c) + 1 = 2 /\ c[1] = v
      BY <2>1
    <3>2. /\ d \in Seq(Plain) /\ Len(d) = Len(c) + 1
          /\ \A k \in 1..Len(c) : d[k] = c[k]
          /\ d[Len(c) + 1] = u
      BY <3>0, AppendProperties
    <3>3. Len(d) = Len(<<v, u>>) /\ d[1] = v /\ d[2] = u
      BY <3>0, <3>1, <3>2
    <3>4. <<v, u>> \in Seq(Plain) /\ <<v, u>>[1] = v /\ <<v, u>>[2] = u
      OBVIOUS
    <3> HIDE DEF d
    <3>5. d = <<v, u>>
      <4>1. \A k \in 1..Len(d) : d[k] = <<v, u>>[k]
        <5>1. 1..Len(d) = {1, 2}
          BY <3>0, <3>1, <3>2
        <5>2. QED BY <3>3, <3>4, <5>1, Zenon
      <4>2. QED BY <3>2, <3>3, <3>4, <4>1, SeqEqual
    <3>6. QED BY <3>5 DEF d
  <2>3. QED BY <1>2, <2>2 DEF Folders, Root
<1>3. QED BY <1>1, <1>2

\* Removing the folder of u keeps every other folder of a user.
LEMMA OtherFolderNotBelow ==
  ASSUME NEW c \in Places, NEW u \in Plain, NEW v \in Plain, v # u
  PROVE  ~IsPrefix(Append(c, u), <<v>>)
<1>1. CASE c = Root
  BY <1>1, NewFolder DEF IsPrefix
<1>2. CASE c # Root
  BY <1>2, NewFolder DEF IsPrefix
<1>3. QED BY <1>1, <1>2

\* A folder is a sequence of plain names, and its users.json is one step on.
LEMMA FolderSeq ==
  ASSUME NEW q \in Folders
  PROVE  /\ q \in Seq(Plain)
         /\ Len(JsonFile(q)) = Len(q) + 1 /\ JsonFile(q)[Len(q) + 1] = "users.json"
<1>1. CASE q = Root
  <2>1. q = <<>>
    BY <1>1 DEF Root
  <2>2. q \in Seq(Plain)
    BY <2>1
  <2>3. QED BY <2>1, <2>2 DEF JsonFile
<1>2. CASE q # Root
  <2>0. \/ \E u \in Plain : q = <<u>>
        \/ \E u, v \in Plain : q = <<u, v>>
    BY <1>2 DEF Folders, Places
  <2>1. q \in Seq(Plain)
    <3>1. \A u \in Plain : <<u>> \in Seq(Plain)
      OBVIOUS
    <3>2. \A u, v \in Plain : <<u, v>> \in Seq(Plain)
      OBVIOUS
    <3>3. QED BY <2>0, <3>1, <3>2, Zenon
  <2>2. q \in Seq(Plain \union {"users.json"})
    BY <2>1
  <2>3. QED BY <2>1, <2>2, AppendProperties DEF JsonFile
<1>3. QED BY <1>1, <1>2

\* The accounts file is a path of its own, directly below users/.
LEMMA RootFile ==
  /\ Root \in Places /\ Root \in Folders /\ Root \in Paths
  /\ JsonFile(Root) = <<"users.json">> /\ JsonFile(Root) \in Paths
  /\ JsonFile(Root) # Root /\ JsonFile(Root) \notin Folders
  /\ IsPrefix(Root, JsonFile(Root)) /\ Front(JsonFile(Root)) = Root
<1>1. Root \in Places /\ Root \in Folders /\ Root \in Paths /\ JsonFile(Root) \in Paths
  BY DEF Places, Folders, Paths
<1>2. JsonFile(Root) = <<"users.json">>
  BY DEF JsonFile, Root
<1>3. JsonFile(Root) # Root
  BY <1>2 DEF Root
<1>4. JsonFile(Root) \notin Folders
  <2>1. \A u \in Plain : <<"users.json">> # <<u>>
    BY PathAssumption
  <2>2. \A u, v \in Plain : <<"users.json">> # <<u, v>>
    OBVIOUS
  <2>3. QED BY <1>2, <1>3, <2>1, <2>2 DEF Folders, Places
<1>5. IsPrefix(Root, JsonFile(Root))
  BY <1>2 DEF IsPrefix, Root
<1>6. Front(JsonFile(Root)) = Root
  <2>1. \A x : SubSeq(<<x>>, 1, 0) = <<>>
    OBVIOUS
  <2>2. Len(<<"users.json">>) - 1 = 0
    OBVIOUS
  <2>3. QED BY <1>2, <2>1, <2>2 DEF Front, Root
<1>7. QED BY <1>1, <1>2, <1>3, <1>4, <1>5, <1>6

\* Only users/ itself is at or above users/.
LEMMA PrefixOfRoot ==
  ASSUME NEW t \in Paths, IsPrefix(t, Root)
  PROVE  t = Root
<1>1. Len(t) <= 0
  BY DEF IsPrefix, Root
<1>2. CASE t \in Folders
  <2>1. \A u \in Plain : ~(Len(<<u>>) <= 0)
    OBVIOUS
  <2>2. \A u, v \in Plain : ~(Len(<<u, v>>) <= 0)
    OBVIOUS
  <2>3. QED BY <1>1, <1>2, <2>1, <2>2 DEF Folders, Places
<1>3. CASE t \notin Folders
  <2>1. PICK q \in Folders : t = JsonFile(q)
    BY <1>3 DEF Paths
  <2>2. q \in Seq(Plain) /\ Len(t) = Len(q) + 1
    BY <2>1, FolderSeq
  <2>3. Len(q) \in Nat
    BY <2>2, LenProperties
  <2>4. QED BY <1>1, <2>2, <2>3
<1>4. QED BY <1>2, <1>3

\* A plain name from a plain place leads to a folder that neither has users/ nor
\* the accounts file in it.
LEMMA PlainTarget ==
  ASSUME NEW c \in Places, NEW u \in Plain
  PROVE  /\ Target[c][u] = Append(c, u) /\ Target[c][u] \in Folders
         /\ ~IsPrefix(Target[c][u], JsonFile(Root))
         /\ Target[c][u] # JsonFile(Root)
<1>1. Target[c][u] = Append(c, u) /\ Append(c, u) \in Folders
  BY PathAssumption, NewFolder
<1>2. ~IsPrefix(Append(c, u), <<"users.json">>)
  <2>1. CASE c = Root
    <3>1. Append(c, u) = <<u>> /\ u # "users.json"
      BY <2>1, NewFolder, PathAssumption
    <3>2. QED BY <3>1 DEF IsPrefix
  <2>2. CASE c # Root
    <3>1. PICK v \in Plain : Append(c, u) = <<v, u>>
      BY <2>2, NewFolder
    <3>2. QED BY <3>1 DEF IsPrefix
  <2>3. QED BY <2>1, <2>2
<1>3. QED BY <1>1, <1>2, RootFile

\* What a users.json is before anything is written to it.
LEMMA EmptyContent ==
  /\ Whole(<<>>) \in Content /\ Torn \in Content /\ Absent \in Content
  /\ Folder \in Content /\ Unique(<<>>)
BY DEF Whole, Torn, Absent, Folder, Content, Unique

\* The newest account in memory has the name of a user.
LEMMA LastRecord ==
  ASSUME TypeOK, fileJson # <<>>
  PROVE  Newest \in Users
<1>1. Len(fileJson) \in DOMAIN fileJson
  BY EmptySeq DEF TypeOK
<1>2. fileJson[Len(fileJson)] \in Record
  BY <1>1 DEF TypeOK
<1>3. QED BY <1>2 DEF Newest, Record

-----------------------------------------------------------------------------
\* No field has a password in it, and each panel has a field.
LEMMA NoneTypedType ==
  /\ NoneTyped \in [Fields -> Typeable] /\ Panels \subseteq Fields
  /\ \A q \in Panels : NoneTyped[q] = Empty
BY DEF NoneTyped, Fields, Typeable

\* The program starts with nobody logged in and nothing read.
LEMMA InitIInv == Init => IInv
<1> SUFFICES ASSUME Init PROVE IInv
  OBVIOUS
<1>1. json \in [Folders -> Content] /\ fileJson \in Seq(Record) /\ dirs \subseteq Folders
  BY EmptyContent DEF Init, FreshMemory
<1>2. typed \in [Fields -> Typeable] /\ panel \in Panels /\ cwd \in Folders
  BY NoneTypedType, RootFile DEF Init, FreshMemory, Panels
<1>3. TypeOK
  BY <1>1, <1>2 DEF Init, FreshMemory, TypeOK, Pcs
<1>4. QED BY <1>3, EmptyContent, NoneTypedType
          DEF Init, FreshMemory, IInv, StartInv, UniqueInv, SavingInv, PrefixInv,
              SessionIsUsers, CredentialsCleared, Loaded, Absent

-----------------------------------------------------------------------------
(***************************************************************************)
(* The steps that only touch the panels and their fields.                  *)
(***************************************************************************)
PanelStep ==
  \/ ButtonBack \/ ButtonNewUser \/ ButtonRecPwd \/ ButtonRecoveryPersonal
  \/ \E f \in Fields, p \in Typeable : TypePassword(f, p)
  \/ \E u \in Users \union {NoName} : LoginRefused(u) \/ AddRefused(u) \/ AddWeak(u)

\* A button that only changes the panel leaves the disk and the accounts alone.
LEMMA PanelFrame ==
  ASSUME IInv, PanelStep
  PROVE  /\ pc = "ready" /\ UNCHANGED <<disk, pc, memory, session>>
         /\ panel' \in Panels /\ typed' \in [Fields -> Typeable]
         /\ CredentialsCleared'
         /\ panel' = "login_successfully" => panel = "login_successfully"
<1>1. panel \in Panels /\ typed \in [Fields -> Typeable] /\ CredentialsCleared
  BY DEF IInv, TypeOK
<1> USE <1>1, FieldAssumption DEF Panels, Fields, Typeable, SwitchPanel, ClearField,
        CredentialsCleared, window
<1>2. CASE ButtonBack
  BY <1>2 DEF ButtonBack
<1>3. CASE ButtonNewUser
  BY <1>3 DEF ButtonNewUser
<1>4. CASE ButtonRecPwd
  BY <1>4 DEF ButtonRecPwd
<1>5. CASE ButtonRecoveryPersonal
  BY <1>5 DEF ButtonRecoveryPersonal
<1>6. CASE \E f \in Fields, p \in Typeable : TypePassword(f, p)
  BY <1>6 DEF TypePassword
<1>7. CASE \E u \in Users \union {NoName} : LoginRefused(u)
  BY <1>7 DEF LoginRefused
<1>8. CASE \E u \in Users \union {NoName} : AddRefused(u)
  BY <1>8 DEF AddRefused, vars
<1>9. CASE \E u \in Users \union {NoName} : AddWeak(u)
  BY <1>9 DEF AddWeak
<1>10. QED BY <1>2, <1>3, <1>4, <1>5, <1>6, <1>7, <1>8, <1>9 DEF PanelStep

\* A button that only changes the panel keeps the invariant.
LEMMA PanelIInv == IInv /\ PanelStep => IInv'
<1> SUFFICES ASSUME IInv, PanelStep PROVE IInv'
  OBVIOUS
<1>1. /\ pc = "ready" /\ UNCHANGED <<disk, pc, memory, session>>
      /\ panel' \in Panels /\ typed' \in [Fields -> Typeable]
      /\ CredentialsCleared'
      /\ panel' = "login_successfully" => panel = "login_successfully"
  BY PanelFrame
<1> USE DEF disk, memory, session
<1>2. TypeOK'
  BY <1>1 DEF IInv, TypeOK
<1>3. StartInv' /\ UniqueInv' /\ SavingInv'
  BY <1>1 DEF IInv, StartInv, UniqueInv, SavingInv, Loaded
<1>4. PrefixInv'
  BY <1>1 DEF IInv, PrefixInv, Loaded
<1>5. SessionIsUsers'
  BY <1>1 DEF IInv, SessionIsUsers
<1>6. QED BY <1>1, <1>2, <1>3, <1>4, <1>5 DEF IInv

-----------------------------------------------------------------------------
(***************************************************************************)
(* Login.                                                                  *)
(***************************************************************************)
LEMMA LoginIInv ==
  ASSUME IInv, NEW u \in Users \union {NoName}, LoginNoFolder(u) \/ Login(u)
  PROVE  IInv'
<1>1. /\ pc = "ready" /\ pc' = pc /\ UNCHANGED <<disk, fileJson, oneOrMore>>
      /\ panel = "wlcm" /\ typed' = [typed EXCEPT ![panel] = Empty]
      /\ Accepted(u, typed[panel])
      /\ label' = u /\ key' = Digest(typed[panel])
  BY DEF LoginNoFolder, Login, SwitchPanel, ClearField
<1>2. \/ panel' = "wlcm" /\ cwd' = Root
      \/ /\ panel' = "login_successfully"
         /\ cwd' = IF Target[Root][u] \in Folders THEN Target[Root][u] ELSE Elsewhere
         /\ Target[Root][u] = Elsewhere \/ IsFolder(Target[Root][u])
  BY DEF LoginNoFolder, Login, SwitchPanel
<1>3. typed[panel] \in Typeable /\ typed \in [Fields -> Typeable] /\ Empty \in Typeable
  BY <1>1 DEF IInv, TypeOK, Panels, Fields, Typeable
<1>4. PICK k \in DOMAIN fileJson :
        fileJson[k].user = u /\ fileJson[k].secret = Secret(u, typed[panel])
  BY <1>1 DEF Accepted
<1>5. fileJson[k] \in Record
  BY <1>4 DEF IInv, TypeOK
<1>6. u \in Users /\ fileJson[k] = [user |-> u, secret |-> Secret(u, typed[panel])]
  BY <1>4, <1>5 DEF Record
<1> USE DEF disk
<1>7. TypeOK'
  <2>1. cwd' \in Folders \union {Elsewhere} /\ panel' \in Panels
    BY <1>2, RootFile DEF Panels
  <2>2. QED BY <1>1, <1>3, <1>6, <2>1 DEF IInv, TypeOK
<1>8. StartInv' /\ UniqueInv' /\ SavingInv'
  BY <1>1 DEF IInv, StartInv, UniqueInv, SavingInv, Loaded
<1>9. PrefixInv'
  BY <1>1 DEF IInv, PrefixInv, Loaded
<1>10. SessionIsUsers'
  <2>1. ASSUME u \in Plain, panel' = "login_successfully"
        PROVE  cwd' = <<u>> /\ cwd' \in dirs
    <3>1. Target[Root][u] = <<u>> /\ <<u>> \in Folders
      BY <2>1, RootFile, PlainTarget, NewFolder
    <3>2. \A q \in Folders : JsonFile(q) # <<u>>
      <4> SUFFICES ASSUME NEW q \in Folders, JsonFile(q) = <<u>> PROVE FALSE
        OBVIOUS
      <4>1. /\ q \in Seq(Plain) /\ Len(<<u>>) = Len(q) + 1
            /\ <<u>>[Len(q) + 1] = "users.json"
        BY FolderSeq
      <4>2. Len(q) = 0 /\ <<u>>[1] = u
        BY <4>1
      <4>3. QED BY <2>1, <4>1, <4>2, PathAssumption
    <3>3. Elsewhere \notin Folders
      BY PathAssumption DEF Paths
    <3>4. QED BY <1>2, <2>1, <3>1, <3>2, <3>3 DEF IsFolder
  <2>2. QED BY <1>1, <1>3, <1>4, <1>6, <2>1 DEF SessionIsUsers
<1>11. CredentialsCleared'
  BY <1>1, <1>2, <1>3 DEF IInv, CredentialsCleared, Panels, Fields
<1>12. QED BY <1>7, <1>8, <1>9, <1>10, <1>11 DEF IInv

-----------------------------------------------------------------------------
(***************************************************************************)
(* Start-up, and the end of the process.                                   *)
(***************************************************************************)
LEMMA StartIInv == IInv /\ Start => IInv'
<1> SUFFICES ASSUME IInv, Start PROVE IInv'
  OBVIOUS
<1> USE RootFile DEF disk, memory, window, session
<1>1. CASE Launch
  BY <1>1 DEF Launch, IInv, TypeOK, Pcs, StartInv, UniqueInv, SavingInv,
              PrefixInv, SessionIsUsers, CredentialsCleared, Loaded
<1>2. CASE UsersFolder
  BY <1>2 DEF UsersFolder, IInv, TypeOK, Pcs, StartInv, UniqueInv,
              SavingInv, PrefixInv, SessionIsUsers, CredentialsCleared, Loaded
<1>3. CASE CreateJson
  BY <1>3, EmptyContent
     DEF CreateJson, IInv, TypeOK, Pcs, Torn, StartInv, UniqueInv,
         SavingInv, PrefixInv, SessionIsUsers, CredentialsCleared, Loaded
<1>4. CASE StartJson
  BY <1>4, EmptyContent
     DEF StartJson, IInv, TypeOK, Pcs, Whole, StartInv, UniqueInv,
         SavingInv, PrefixInv, SessionIsUsers, CredentialsCleared, Loaded
<1>5. CASE CreateJsonFails \/ LoadBlocked
  BY <1>5 DEF CreateJsonFails, LoadBlocked, IInv, TypeOK, Pcs, StartInv, UniqueInv,
              SavingInv, PrefixInv, SessionIsUsers, CredentialsCleared, Loaded
<1>6. CASE StartJsonFails
  BY <1>6 DEF StartJsonFails, IInv, TypeOK, Pcs, StartInv, UniqueInv,
              SavingInv, PrefixInv, SessionIsUsers, CredentialsCleared, Loaded
<1>7. CASE LoadJson
  <2>1. json[Root].users \in Seq(Record)
    BY DEF IInv, TypeOK, Content
  <2>2. IsPrefix(json[Root].users, json[Root].users)
    BY <2>1, PrefixOfSelf
  <2>3. typed = NoneTyped
    BY <1>7 DEF LoadJson, IInv, StartInv, Loaded
  <2>4. QED BY <1>7, <2>1, <2>2, <2>3, NoneTypedType
            DEF LoadJson, IInv, TypeOK, Pcs, Panels, StartInv, UniqueInv,
                SavingInv, PrefixInv, SessionIsUsers, CredentialsCleared, Loaded
<1>8. QED BY <1>1, <1>2, <1>3, <1>4, <1>5, <1>6, <1>7 DEF Start

\* Deleting files and folders leaves what is on disk of its type, the names in it
\* unique, and the accounts of the root what they were or none.
LEMMA DeleteDisk ==
  ASSUME IInv, NEW gone, Delete(gone)
  PROVE  /\ dirs' \subseteq Folders /\ json' \in [Folders -> Content]
         /\ recorded' = recorded /\ harm' \subseteq {"cut", "taken"}
         /\ \A q \in Folders : Unique(json'[q].users)
         /\ json'[Root] = json[Root] \/ json'[Root] = Absent
<1>1. /\ dirs \subseteq Folders /\ json \in [Folders -> Content]
      /\ harm \subseteq {"cut", "taken"} /\ \A q \in Folders : Unique(json[q].users)
  BY DEF IInv, TypeOK, UniqueInv
<1>2. json' = [q \in Folders |-> IF JsonFile(q) \in gone THEN Absent ELSE json[q]]
  BY DEF Delete
<1>3. dirs' \subseteq Folders /\ recorded' = recorded /\ harm' \subseteq {"cut", "taken"}
  BY <1>1 DEF Delete
<1>4. \A q \in Folders : json'[q] = json[q] \/ json'[q] = Absent
  BY <1>2
<1>5. json' \in [Folders -> Content]
  BY <1>1, <1>2, EmptyContent
<1>6. Absent.users = <<>>
  BY DEF Absent
<1>7. \A q \in Folders : Unique(json'[q].users)
  BY <1>1, <1>4, <1>6, EmptyContent
<1>8. QED BY <1>3, <1>4, <1>5, <1>7, RootFile

\* The end of the process, wanted or not, keeps what the disk has, or deletes
\* some of it.
LEMMA EndIInv == IInv /\ End => IInv'
<1> SUFFICES ASSUME IInv, End PROVE IInv'
  OBVIOUS
<1>1. ProcessEnds
  BY DEF End, OnExit, Crash, LoginThrows, RemoveThrows, MakeThrows
<1>2. /\ dirs' \subseteq Folders /\ json' \in [Folders -> Content]
      /\ recorded' = recorded /\ harm' \subseteq {"cut", "taken"}
      /\ \A q \in Folders : Unique(json'[q].users)
  <2>1. CASE RemoveThrows
    <3>1. PICK gone : Delete(gone)
      BY <2>1 DEF RemoveThrows
    <3>2. QED BY <3>1, DeleteDisk
  <2>2. CASE ~RemoveThrows
    BY <2>2 DEF End, OnExit, Crash, LoginThrows, MakeThrows, disk, IInv, TypeOK, UniqueInv
  <2>3. QED BY <2>1, <2>2
<1>3. TypeOK'
  BY <1>1, <1>2, NoneTypedType, RootFile
     DEF ProcessEnds, IInv, TypeOK, Pcs, Panels, Typeable
<1>4. QED BY <1>1, <1>2, <1>3, EmptyContent, NoneTypedType
          DEF ProcessEnds, IInv, StartInv, UniqueInv, SavingInv, PrefixInv,
              SessionIsUsers, CredentialsCleared, Loaded

-----------------------------------------------------------------------------
(***************************************************************************)
(* Adding a user.                                                          *)
(***************************************************************************)
LEMMA AddUserIInv ==
  ASSUME IInv, NEW u \in Users \union {NoName}, AddUser(u)
  PROVE  IInv'
<1> DEFINE r == [user |-> u, secret |-> Secret(u, typed[panel])]
<1>1. /\ pc = "ready" /\ pc' = "open" /\ panel = "add_user"
      /\ UNCHANGED <<dirs, json, recorded, harm, cwd, oneOrMore, panel, label, key>>
      /\ u \in Users /\ u \notin NamesIn(fileJson)
      /\ fileJson' = Append(fileJson, r)
      /\ typed' = [typed EXCEPT ![panel] = Empty]
  BY DEF AddUser, disk, session, ClearField
<1>2. /\ fileJson \in Seq(Record) /\ Unique(fileJson)
      /\ typed \in [Fields -> Typeable] /\ panel \in Panels /\ Empty \in Typeable
  BY DEF IInv, TypeOK, UniqueInv, Typeable
<1>3. r \in Record /\ r.user = u
  <2>1. typed[panel] \in Typeable
    BY <1>2, NoneTypedType
  <2>2. QED BY <1>1, <2>1 DEF Record
<1> HIDE DEF r
<1>4. /\ fileJson' \in Seq(Record) /\ fileJson' # <<>>
  BY <1>1, <1>2, <1>3, AppendProperties
<1>5. Unique(fileJson')
  BY <1>1, <1>2, <1>3, AppendUnique
<1>6. TypeOK'
  BY <1>1, <1>2, <1>4 DEF IInv, TypeOK, Pcs
<1>7. StartInv' /\ UniqueInv' /\ SavingInv'
  BY <1>1, <1>4, <1>5 DEF IInv, StartInv, UniqueInv, SavingInv, Loaded
<1>8. PrefixInv'
  <2> SUFFICES ASSUME json[Root].state = "whole"
               PROVE  IsPrefix(json[Root].users, fileJson')
    BY <1>1 DEF PrefixInv
  <2>1. json[Root].users \in Seq(Record) /\ IsPrefix(json[Root].users, fileJson)
    BY <1>1, RootFile DEF IInv, PrefixInv, Loaded, TypeOK, Content
  <2>2. QED BY <1>1, <1>2, <1>3, <2>1, PrefixOfAppend
<1>9. SessionIsUsers'
  BY <1>1 DEF SessionIsUsers
<1>10. CredentialsCleared'
  BY <1>1, <1>2 DEF IInv, CredentialsCleared
<1>11. QED BY <1>6, <1>7, <1>8, <1>9, <1>10 DEF IInv

\* save_new_user opens the file, which truncates it, or fails to; a write that
\* fails leaves it so.
LEMMA OpenIInv ==
  ASSUME IInv, OpenJson \/ OpenJsonFails \/ WriteJsonFails
  PROVE  IInv'
<1>1. /\ pc \in {"open", "write"} /\ pc' \in {"write", "remove"}
      /\ UNCHANGED <<dirs, recorded, memory, window, session>>
      /\ harm' \subseteq harm \union {"cut"}
      /\ \/ json' = json
         \/ json' = [q \in Folders |-> IF q = cwd THEN Torn ELSE json[q]]
  BY DEF OpenJson, OpenJsonFails, WriteJsonFails, disk
<1>2. json \in [Folders -> Content]
  BY DEF IInv, TypeOK
<1>3. \A q \in Folders : json'[q] = json[q] \/ json'[q] = Torn
  BY <1>1, <1>2
<1>4. json' \in [Folders -> Content]
  BY <1>1, <1>2, EmptyContent
<1> USE DEF memory, window, session
<1>5. TypeOK'
  BY <1>1, <1>4 DEF IInv, TypeOK, Pcs
<1>6. StartInv' /\ UniqueInv' /\ SavingInv'
  <2>1. \A q \in Folders : Unique(json'[q].users)
    BY <1>3, EmptyContent DEF IInv, UniqueInv, Torn
  <2>2. QED BY <1>1, <2>1 DEF IInv, StartInv, UniqueInv, SavingInv, Loaded
<1>7. PrefixInv'
  BY <1>1, <1>3, RootFile DEF IInv, PrefixInv, Loaded, Torn
<1>8. SessionIsUsers' /\ CredentialsCleared'
  BY <1>1 DEF IInv, SessionIsUsers, CredentialsCleared
<1>9. QED BY <1>5, <1>6, <1>7, <1>8 DEF IInv

\* The accounts of memory are written into the file that was opened.
LEMMA WriteJsonIInv ==
  ASSUME IInv, WriteJson
  PROVE  IInv'
<1>1. /\ pc = "write" /\ pc' = "remove"
      /\ UNCHANGED <<dirs, harm, memory, window, session>>
      /\ json' = [q \in Folders |-> IF q = cwd THEN Whole(fileJson) ELSE json[q]]
      /\ recorded' \subseteq recorded \union ToSet(fileJson)
  BY DEF WriteJson
<1>2. /\ fileJson \in Seq(Record) /\ json \in [Folders -> Content]
  BY DEF IInv, TypeOK
<1>3. Whole(fileJson) \in Content /\ Whole(fileJson).users = fileJson
  BY <1>2 DEF Whole, Content
<1>4. \A q \in Folders : json'[q] = json[q] \/ json'[q] = Whole(fileJson)
  BY <1>1
<1> USE DEF memory, window, session
<1>5. TypeOK'
  <2>1. json' \in [Folders -> Content] /\ ToSet(fileJson) \subseteq Record
    BY <1>1, <1>2, <1>3 DEF ToSet
  <2>2. QED BY <1>1, <2>1 DEF IInv, TypeOK, Pcs
<1>6. StartInv' /\ UniqueInv' /\ SavingInv'
  BY <1>1, <1>3, <1>4 DEF IInv, StartInv, UniqueInv, SavingInv, Loaded
<1>7. PrefixInv'
  <2>1. IsPrefix(fileJson, fileJson)
    BY <1>2, PrefixOfSelf
  <2>2. QED BY <1>1, <1>3, <1>4, <2>1, RootFile DEF IInv, PrefixInv, Loaded
<1>8. SessionIsUsers' /\ CredentialsCleared'
  BY <1>1 DEF IInv, SessionIsUsers, CredentialsCleared
<1>9. QED BY <1>5, <1>6, <1>7, <1>8 DEF IInv

\* What has the newest name is removed.
LEMMA RemoveOldIInv ==
  ASSUME IInv, RemoveOld
  PROVE  IInv'
<1>1. PICK gone : Delete(gone) /\ cwd' = IF cwd \in gone THEN Elsewhere ELSE cwd
  BY DEF RemoveOld
<1>2. /\ pc = "remove" /\ pc' = "mkdir"
      /\ UNCHANGED <<fileJson, oneOrMore, window, session>>
  BY DEF RemoveOld
<1>3. /\ dirs' \subseteq Folders /\ json' \in [Folders -> Content]
      /\ recorded' = recorded /\ harm' \subseteq {"cut", "taken"}
      /\ \A q \in Folders : Unique(json'[q].users)
      /\ json'[Root] = json[Root] \/ json'[Root] = Absent
  BY <1>1, DeleteDisk
<1> USE DEF window, session
<1>4. TypeOK'
  BY <1>1, <1>2, <1>3 DEF IInv, TypeOK, Pcs
<1>5. StartInv' /\ UniqueInv' /\ SavingInv'
  BY <1>2, <1>3 DEF IInv, StartInv, UniqueInv, SavingInv, Loaded
<1>6. PrefixInv'
  BY <1>2, <1>3 DEF IInv, PrefixInv, Loaded, Absent
<1>7. panel # "login_successfully" \/ pc' # "ready"
  BY <1>2
<1>8. SessionIsUsers' /\ CredentialsCleared'
  BY <1>2 DEF IInv, SessionIsUsers, CredentialsCleared
<1>9. QED BY <1>4, <1>5, <1>6, <1>8 DEF IInv

\* The folder of the new user is made, and the save is over.
LEMMA MakeFolderIInv ==
  ASSUME IInv, MakeFolder
  PROVE  IInv'
<1>1. /\ pc = "mkdir" /\ pc' = "ready" /\ panel' = "wlcm" /\ oneOrMore' = TRUE
      /\ UNCHANGED <<recorded, cwd, fileJson, session>>
      /\ typed' = [typed EXCEPT ![panel] = Empty]
  BY DEF MakeFolder, SwitchPanel, ClearField
<1>2. PICK t : /\ dirs' = dirs \union ({t} \intersect Folders)
               /\ json' = [q \in Folders |-> IF t = JsonFile(q) THEN Folder ELSE json[q]]
               /\ harm' \subseteq harm \union {"taken"}
  BY DEF MakeFolder
<1>3. json \in [Folders -> Content] /\ json' \in [Folders -> Content]
  BY <1>2, EmptyContent DEF IInv, TypeOK
<1>4. \A q \in Folders : json'[q] = json[q] \/ json'[q] = Folder
  BY <1>2
<1> USE DEF session
<1>5. TypeOK'
  BY <1>1, <1>2, <1>3 DEF IInv, TypeOK, Pcs, Panels, Typeable
<1>6. StartInv' /\ UniqueInv' /\ SavingInv'
  <2>1. \A q \in Folders : Unique(json'[q].users)
    BY <1>4, EmptyContent DEF IInv, UniqueInv, Folder
  <2>2. QED BY <1>1, <2>1 DEF IInv, StartInv, UniqueInv, SavingInv, Loaded
<1>7. PrefixInv'
  BY <1>1, <1>4, RootFile DEF IInv, PrefixInv, Loaded, Folder
<1>8. SessionIsUsers' /\ CredentialsCleared'
  BY <1>1, NoneTypedType DEF IInv, TypeOK, SessionIsUsers, CredentialsCleared, Panels, Typeable
<1>9. QED BY <1>5, <1>6, <1>7, <1>8 DEF IInv

-----------------------------------------------------------------------------
\* Every step keeps the invariant.
LEMMA NextIInv == IInv /\ [Next]_vars => IInv'
<1> SUFFICES ASSUME IInv, [Next]_vars PROVE IInv'
  OBVIOUS
<1>1. CASE Start
  BY <1>1, StartIInv
<1>2. CASE Button
  BY <1>2, PanelIInv, LoginIInv, AddUserIInv DEF Button, PanelStep
<1>3. CASE Save
  BY <1>3, OpenIInv, WriteJsonIInv, RemoveOldIInv, MakeFolderIInv DEF Save
<1>4. CASE End
  BY <1>4, EndIInv
<1>5. CASE UNCHANGED vars
  BY <1>5 DEF vars, disk, memory, window, session, IInv, TypeOK, StartInv, UniqueInv,
              SavingInv, PrefixInv, SessionIsUsers, CredentialsCleared, Loaded
<1>6. QED BY <1>1, <1>2, <1>3, <1>4, <1>5 DEF Next

\* The accounts on disk and in memory belong together after any history.
\* (start-up, login, save_new_user, exit and crash)
THEOREM Invariance == Spec => []IInv
BY InitIInv, NextIInv, PTL DEF Spec

(***************************************************************************)
(* Files, folders, accounts and panels keep their types.                   *)
(***************************************************************************)
THEOREM TypeCorrect == Spec => []TypeOK
<1>1. IInv => TypeOK
  BY DEF IInv
<1>2. QED BY <1>1, Invariance, PTL

(***************************************************************************)
(* The tools always run in the folder, and with a key, of the user who is  *)
(* logged in.                                                              *)
(***************************************************************************)
THEOREM SessionCorrect == Spec => []SessionIsUsers
<1>1. IInv => SessionIsUsers
  BY DEF IInv
<1>2. QED BY <1>1, Invariance, PTL

(***************************************************************************)
(* No password stays in the field that a hidden panel had in use.          *)
(***************************************************************************)
THEOREM FieldsCleared == Spec => []CredentialsCleared
<1>1. IInv => CredentialsCleared
  BY DEF IInv
<1>2. QED BY <1>1, Invariance, PTL

(***************************************************************************)
(* A new user with a plain name deletes no folder of another one.  The     *)
(* names in memory are unique, so an account other than the newest one has *)
(* another name; and a folder below a user's folder is not the root's.     *)
(***************************************************************************)
THEOREM FoldersKept == Spec => OthersFoldersKept
<1> DEFINE Kept == Loaded => \A k \in DOMAIN fileJson :
       /\ fileJson[k].user \in Plain /\ <<fileJson[k].user>> \in dirs
       /\ pc = "remove" => k < Len(fileJson) /\ OneStepDown
       => <<fileJson[k].user>> \in dirs'
<1>1. IInv /\ [Next]_vars => [Kept]_vars
  <2> SUFFICES ASSUME IInv, [Next]_vars, Loaded, NEW k \in DOMAIN fileJson,
                      fileJson[k].user \in Plain, <<fileJson[k].user>> \in dirs,
                      pc = "remove" => k < Len(fileJson) /\ OneStepDown
               PROVE  <<fileJson[k].user>> \in dirs'
    OBVIOUS
  <2>1. CASE RemoveOld \/ RemoveThrows
    <3>1. /\ fileJson \in Seq(Record) /\ Unique(fileJson) /\ fileJson # <<>>
          /\ k < Len(fileJson) /\ cwd \in Places /\ Newest \in Plain
      BY <2>1 DEF IInv, TypeOK, UniqueInv, SavingInv, RemoveOld, RemoveThrows, OneStepDown
    <3>2. Len(fileJson) \in DOMAIN fileJson /\ Len(fileJson) # k
      BY <3>1, EmptySeq
    <3>3. fileJson[k].user # Newest
      BY <3>1, <3>2 DEF Unique, Newest
    <3>4. /\ cwd \in Folders /\ Target[cwd][Newest] = Append(cwd, Newest)
          /\ Append(cwd, Newest) \in Paths
      <4>1. Target[cwd][Newest] = Append(cwd, Newest) /\ Target[cwd][Newest] \in Folders
        BY <3>1, PlainTarget
      <4>2. cwd \in Folders
        BY <3>1 DEF Folders
      <4>3. QED BY <4>1, <4>2 DEF Paths
    <3>5. ~IsPrefix(Append(cwd, Newest), <<fileJson[k].user>>)
      BY <3>1, <3>3, OtherFolderNotBelow
    <3>6. PICK t \in Reached : \E all \in AtOrBelow(t) : \E gone \in SUBSET all : Delete(gone)
      BY <2>1 DEF RemoveOld, RemoveThrows
    <3>7. t = Append(cwd, Newest)
      BY <3>4, <3>6 DEF Reached
    <3>8. PICK gone : Delete(gone) /\ \A p \in gone : IsPrefix(Append(cwd, Newest), p)
      BY <3>4, <3>6, <3>7 DEF AtOrBelow
    <3>9. <<fileJson[k].user>> \notin gone
      BY <3>5, <3>8
    <3>10. QED BY <3>8, <3>9 DEF Delete
  <2>2. CASE ~RemoveOld /\ ~RemoveThrows
    <3>1. dirs \subseteq dirs'
      BY <2>2 DEF Next, vars, disk, Start, Launch, UsersFolder, CreateJson,
           CreateJsonFails, StartJson, StartJsonFails, LoadBlocked, LoadJson, Button,
           ButtonBack, ButtonNewUser, ButtonRecPwd, ButtonRecoveryPersonal,
           TypePassword, LoginRefused, LoginNoFolder, Login, AddRefused, AddWeak,
           AddUser, Save, OpenJson, OpenJsonFails, WriteJson, WriteJsonFails,
           MakeFolder, End, OnExit, Crash, LoginThrows, MakeThrows
    <3>2. QED BY <3>1
  <2>3. QED BY <2>1, <2>2
<1>2. QED BY <1>1, Invariance, PTL DEF Spec, OthersFoldersKept

-----------------------------------------------------------------------------
(***************************************************************************)
(* What start-up finds on disk.                                            *)
(***************************************************************************)

\* The accounts file of the program.
RootJson == json[Root]

\* What it ever held is in memory from the load on, and in it when it is whole.
KeptInv ==
  /\ pc = "create" => RootJson.state = "absent"
  /\ pc = "start" => RootJson.state = "torn"
  /\ "taken" \notin harm =>
       /\ RootJson.state = "absent" \/ pc = "start" => recorded = {}
       /\ RootJson.state = "whole" => recorded \subseteq ToSet(RootJson.users)
       /\ Loaded => recorded \subseteq ToSet(fileJson)

\* It is cut short only while it is written, or after a harm.
TornInv ==
  harm = {} /\ RootJson.state \notin {"absent", "whole"} =>
    pc = "start" \/ (pc = "write" /\ cwd = Root)

\* one_or_more_user is still what users/ and the accounts in it say.
WelcomeInv ==
  /\ RootJson.state # "absent" => Root \in dirs
  /\ pc \in {"create", "start", "load"} => cwd = Root /\ Root \in dirs
  /\ Loaded /\ cwd \in Folders => cwd \in dirs
  /\ pc \in {"off", "folder"} => oneOrMore
  /\ pc = "load" /\ RootJson.state = "whole" /\ RootJson.users # <<>> => oneOrMore

LifeInv == KeptInv /\ TornInv /\ WelcomeInv /\ WelcomeNeedsUser

\* A fresh disk has no accounts file.
LEMMA InitLifeInv == Init => LifeInv
BY RootFile DEF Init, FreshMemory, LifeInv, KeptInv, RootJson, TornInv, WelcomeInv,
       WelcomeNeedsUser, Absent, Loaded

\* Start-up makes the file or loads it, and is stopped by any other one.
LEMMA StartLifeInv == IInv /\ LifeInv /\ Start => LifeInv'
<1> SUFFICES ASSUME IInv, LifeInv, Start PROVE LifeInv'
  OBVIOUS
<1>0. json \in [Folders -> Content] /\ Root \in Folders
  BY RootFile DEF IInv, TypeOK
<1> USE DEF disk, memory, window, session, LifeInv, KeptInv, RootJson, TornInv,
            WelcomeInv, WelcomeNeedsUser, Loaded
<1>1. CASE Launch
  BY <1>1 DEF Launch
<1>2. CASE UsersFolder
  BY <1>2 DEF UsersFolder
<1>3. CASE CreateJson
  BY <1>0, <1>3 DEF CreateJson, Torn
<1>4. CASE StartJson
  BY <1>0, <1>4 DEF StartJson, Whole
<1>5. CASE CreateJsonFails
  BY <1>5 DEF CreateJsonFails
<1>6. CASE StartJsonFails
  BY <1>6 DEF StartJsonFails
<1>7. CASE LoadBlocked
  BY <1>7 DEF LoadBlocked
<1>8. CASE LoadJson
  BY <1>8 DEF LoadJson
<1>9. QED BY <1>1, <1>2, <1>3, <1>4, <1>5, <1>6, <1>7, <1>8 DEF Start

\* More accounts in memory have those that were there.
LEMMA ToSetAppend ==
  ASSUME NEW s \in Seq(Record), NEW r \in Record
  PROVE  ToSet(s) \subseteq ToSet(Append(s, r))
<1>1. /\ Append(s, r) \in Seq(Record) /\ Len(Append(s, r)) = Len(s) + 1
      /\ \A i \in 1..Len(s) : Append(s, r)[i] = s[i]
  BY AppendProperties
<1>2. \A i \in 1..Len(s) : i \in 1..Len(Append(s, r))
  BY <1>1, LenProperties
<1>3. DOMAIN s = 1..Len(s) /\ DOMAIN Append(s, r) = 1..Len(Append(s, r))
  BY <1>1, LenProperties
<1>4. QED BY <1>1, <1>2, <1>3 DEF ToSet

\* The buttons leave the files, and one_or_more_user follows the accounts.
LEMMA ButtonLifeInv == IInv /\ LifeInv /\ Button => LifeInv'
<1> SUFFICES ASSUME IInv, LifeInv, Button PROVE LifeInv'
  OBVIOUS
<1>0. Elsewhere \notin Folders
  BY PathAssumption DEF Paths
<1> USE DEF disk, memory, session, LifeInv, KeptInv, RootJson, TornInv, WelcomeInv,
            WelcomeNeedsUser, Loaded
<1>1. CASE PanelStep
  <2>1. pc = "ready" /\ UNCHANGED <<disk, pc, memory, session>>
    BY <1>1, PanelFrame
  <2>2. panel' = "wlcm" => panel = "wlcm" \/ oneOrMore
    BY <1>1 DEF PanelStep, ButtonBack, ButtonNewUser, ButtonRecPwd,
         ButtonRecoveryPersonal, TypePassword, LoginRefused, AddRefused, AddWeak, vars,
         window, SwitchPanel
  <2>3. QED BY <2>1, <2>2
<1>2. ASSUME NEW u \in Users \union {NoName}, LoginNoFolder(u)
      PROVE  LifeInv'
  BY <1>2 DEF LoginNoFolder
<1>3. ASSUME NEW u \in Users \union {NoName}, Login(u)
      PROVE  LifeInv'
  <2>1. \A q \in Folders : JsonFile(q) \notin Folders
    <3> SUFFICES ASSUME NEW q \in Folders, JsonFile(q) \in Folders PROVE FALSE
      OBVIOUS
    <3>1. /\ JsonFile(q) \in Seq(Plain) /\ q \in Seq(Plain)
          /\ Len(JsonFile(q)) = Len(q) + 1 /\ JsonFile(q)[Len(q) + 1] = "users.json"
      BY FolderSeq
    <3>2. Len(q) + 1 \in DOMAIN JsonFile(q)
      BY <3>1, LenProperties
    <3>3. JsonFile(q)[Len(q) + 1] \in Plain
      BY <3>1, <3>2, LenProperties
    <3>4. QED BY <3>1, <3>3, PathAssumption
  <2>2. cwd' \in Folders => cwd' \in dirs
    BY <1>0, <1>3, <2>1 DEF Login, IsFolder
  <2>3. QED BY <1>3, <2>2 DEF Login, SwitchPanel
<1>4. ASSUME NEW u \in Users \union {NoName}, AddUser(u)
      PROVE  LifeInv'
  <2>1. typed[panel] \in Typeable /\ fileJson \in Seq(Record) /\ u \in Users
    BY <1>4, NoneTypedType DEF IInv, TypeOK, AddUser
  <2>2. [user |-> u, secret |-> Secret(u, typed[panel])] \in Record
    BY <2>1 DEF Record
  <2>3. ToSet(fileJson) \subseteq ToSet(fileJson')
    BY <1>4, <2>1, <2>2, ToSetAppend DEF AddUser
  <2>4. QED BY <1>4, <2>3 DEF AddUser
<1>5. QED BY <1>1, <1>2, <1>3, <1>4 DEF Button, PanelStep

\* A deletion either leaves the accounts file, and users/ with it, or takes it and
\* says so.
LEMMA DeleteRoot ==
  ASSUME IInv, RootJson.state # "absent" => Root \in dirs,
         NEW t \in Reached, NEW all \in AtOrBelow(t), NEW gone \in SUBSET all,
         \A p \in gone, q \in all : IsPrefix(p, q) => q \in gone,
         Delete(gone), Newest \in Users
  PROVE  /\ recorded' = recorded /\ harm \subseteq harm'
         /\ \/ RootJson' = RootJson
            \/ RootJson'.state = "absent" /\ "taken" \in harm'
         /\ RootJson'.state # "absent" => Root \in dirs'
<1>1. /\ recorded' = recorded /\ harm \subseteq harm'
      /\ RootJson' = IF JsonFile(Root) \in gone THEN Absent ELSE RootJson
      /\ dirs' = dirs \ gone
      /\ JsonFile(Root) \in gone /\ ~OneStepDown => "taken" \in harm'
  BY RootFile DEF Delete, RootJson
<1>2. JsonFile(Root) \in gone => ~OneStepDown
  <2> SUFFICES ASSUME JsonFile(Root) \in gone, OneStepDown PROVE FALSE
    OBVIOUS
  <2>1. /\ cwd \in Folders /\ Target[cwd][Newest] \in Paths
        /\ ~IsPrefix(Target[cwd][Newest], JsonFile(Root))
    BY PlainTarget DEF OneStepDown, Folders, Paths
  <2>2. t = Target[cwd][Newest]
    BY <2>1 DEF Reached
  <2>3. QED BY <2>1, <2>2 DEF AtOrBelow
<1>3. ASSUME RootJson.state # "absent", Root \in gone
      PROVE  JsonFile(Root) \in gone
  <2>1. JsonFile(Root) \in OnDisk
    BY <1>3, RootFile DEF OnDisk, RootJson
  <2>2. JsonFile(Root) \in all
    <3>1. CASE t \in Paths
      <4>1. t = Root
        BY <1>3, <3>1, PrefixOfRoot DEF AtOrBelow
      <4>2. QED BY <2>1, <3>1, <4>1, RootFile DEF AtOrBelow
    <3>2. CASE t \notin Paths
      BY <1>3, <2>1, <3>2 DEF AtOrBelow
    <3>3. QED BY <3>1, <3>2
  <2>3. QED BY <1>3, <2>2, RootFile
<1>4. Absent.state = "absent"
  BY DEF Absent
<1>5. QED BY <1>1, <1>2, <1>3, <1>4

\* A save tears the file when it opens it and mends it when it writes.
LEMMA SaveLifeInv == IInv /\ LifeInv /\ Save => LifeInv'
<1> SUFFICES ASSUME IInv, LifeInv, Save PROVE LifeInv'
  OBVIOUS
<1>0. fileJson # <<>> /\ Newest \in Users /\ json \in [Folders -> Content]
  BY LastRecord DEF IInv, TypeOK, SavingInv, Save, OpenJson, OpenJsonFails,
                    WriteJson, WriteJsonFails, RemoveOld, MakeFolder
<1> USE RootFile DEF disk, memory, window, session, LifeInv, KeptInv, RootJson, TornInv,
            WelcomeInv, WelcomeNeedsUser, Loaded
<1>1. CASE OpenJson
  BY <1>0, <1>1 DEF OpenJson, Torn
<1>2. CASE OpenJsonFails
  BY <1>2 DEF OpenJsonFails
<1>3. CASE WriteJson
  BY <1>0, <1>3 DEF WriteJson, Whole
<1>4. CASE WriteJsonFails
  BY <1>4 DEF WriteJsonFails
<1>5. CASE RemoveOld
  <2>0. PICK t \in Reached : \E gone \in AtOrBelow(t) :
          Delete(gone) /\ cwd' = IF cwd \in gone THEN Elsewhere ELSE cwd
    BY <1>5 DEF RemoveOld
  <2>1. PICK gone \in AtOrBelow(t) :
          Delete(gone) /\ cwd' = IF cwd \in gone THEN Elsewhere ELSE cwd
    BY <2>0
  <2>2. /\ recorded' = recorded /\ harm \subseteq harm'
        /\ \/ RootJson' = RootJson
           \/ RootJson'.state = "absent" /\ "taken" \in harm'
        /\ RootJson'.state # "absent" => Root \in dirs'
    BY <1>0, <2>1, DeleteRoot
  <2>3. cwd' \in Folders => cwd' \in dirs'
    BY <1>5, <2>1, PathAssumption DEF RemoveOld, Delete, Paths
  <2>4. pc = "remove" /\ pc' = "mkdir" /\ fileJson' = fileJson
    BY <1>5 DEF RemoveOld
  <2>5. QED BY <2>2, <2>3, <2>4
<1>6. CASE MakeFolder
  <2>1. PICK t \in Reached :
          /\ ~IsFile(t)
          /\ t \in Paths \ {Root} => Front(t) \in dirs
          /\ dirs' = dirs \union ({t} \intersect Folders)
          /\ json' = [q \in Folders |-> IF t = JsonFile(q) THEN Folder ELSE json[q]]
          /\ harm' = IF t = JsonFile(Root) THEN harm \union {"taken"} ELSE harm
    BY <1>6 DEF MakeFolder
  <2>2. /\ pc = "mkdir" /\ pc' = "ready" /\ panel' = "wlcm" /\ oneOrMore' = TRUE
        /\ UNCHANGED <<recorded, cwd, fileJson>>
    BY <1>6 DEF MakeFolder, SwitchPanel
  <2>3. CASE t = JsonFile(Root)
    <3>1. Root \in dirs /\ "taken" \in harm'
      BY <2>1, <2>3
    <3>2. QED BY <1>0, <2>1, <2>2, <2>3, <3>1
  <2>4. CASE t # JsonFile(Root)
    <3>1. json'[Root] = json[Root] /\ harm' = harm /\ dirs \subseteq dirs'
      BY <2>1, <2>4
    <3>2. QED BY <1>0, <2>2, <3>1
  <2>5. QED BY <2>3, <2>4
<1>7. QED BY <1>1, <1>2, <1>3, <1>4, <1>5, <1>6 DEF Save

\* An end of the process in a save is remembered by harm.
LEMMA EndLifeInv == IInv /\ LifeInv /\ End => LifeInv'
<1> SUFFICES ASSUME IInv, LifeInv, End PROVE LifeInv'
  OBVIOUS
<1>1. ProcessEnds
  BY DEF End, OnExit, Crash, LoginThrows, RemoveThrows, MakeThrows
<1>2. pc' = "off" /\ oneOrMore' /\ fileJson' = <<>> /\ cwd' = Root
  BY <1>1 DEF ProcessEnds
<1> USE DEF LifeInv, KeptInv, TornInv, WelcomeInv, WelcomeNeedsUser, Loaded
<1>3. CASE RemoveThrows
  <2>0. PICK t \in Reached : \E all \in AtOrBelow(t) : \E gone \in SUBSET all :
          /\ \A p \in gone, q \in all : IsPrefix(p, q) => q \in gone
          /\ Delete(gone)
    BY <1>3 DEF RemoveThrows
  <2>1. PICK all \in AtOrBelow(t) : \E gone \in SUBSET all :
          /\ \A p \in gone, q \in all : IsPrefix(p, q) => q \in gone
          /\ Delete(gone)
    BY <2>0
  <2>2. PICK gone \in SUBSET all :
          /\ \A p \in gone, q \in all : IsPrefix(p, q) => q \in gone
          /\ Delete(gone)
    BY <2>1
  <2>3. Newest \in Users
    BY <1>3, LastRecord DEF RemoveThrows, IInv, SavingInv
  <2>4. /\ recorded' = recorded /\ harm \subseteq harm'
        /\ \/ RootJson' = RootJson
           \/ RootJson'.state = "absent" /\ "taken" \in harm'
        /\ RootJson'.state # "absent" => Root \in dirs'
    BY <2>2, <2>3, DeleteRoot
  <2>5. pc = "remove"
    BY <1>3 DEF RemoveThrows
  <2>6. QED BY <1>2, <2>4, <2>5
<1>4. CASE Crash
  BY <1>2, <1>4 DEF Crash, RootJson
<1>5. CASE OnExit
  BY <1>2, <1>5 DEF OnExit, RootJson, disk
<1>6. CASE MakeThrows
  BY <1>2, <1>6 DEF MakeThrows, RootJson, disk
<1>7. CASE \E u \in Users : LoginThrows(u)
  BY <1>2, <1>7 DEF LoginThrows, RootJson, disk
<1>8. QED BY <1>3, <1>4, <1>5, <1>6, <1>7 DEF End

\* A file that is cut short is being written, or was harmed.
LEMMA LifeInvariance == Spec => []LifeInv
<1>1. IInv /\ LifeInv /\ [Next]_vars => LifeInv'
  <2>1. IInv /\ LifeInv /\ UNCHANGED vars => LifeInv'
    BY DEF vars, disk, memory, window, session, LifeInv, KeptInv, RootJson, TornInv,
           WelcomeInv, WelcomeNeedsUser, Loaded
  <2>2. QED BY <2>1, StartLifeInv, ButtonLifeInv, SaveLifeInv, EndLifeInv DEF Next
<1>2. QED BY <1>1, InitLifeInv, Invariance, PTL DEF Spec

(***************************************************************************)
(* No account that users/users.json ever held is missing from a whole one, *)
(* or from what is being written into it, unless a user with an odd name   *)
(* took the file; with crashes, failing opens and writes at any step.      *)
(***************************************************************************)
THEOREM NoAccountLost == Spec => []AccountsKept
<1>1. LifeInv => AccountsKept
  BY DEF LifeInv, KeptInv, RootJson, AccountsKept, Loaded
<1>2. QED BY <1>1, LifeInvariance, PTL

(***************************************************************************)
(* Only a crash or a failing write between the truncation of the accounts  *)
(* file and its contents, or a user with an odd name, can leave a file     *)
(* that the program never starts from.                                     *)
(***************************************************************************)
THEOREM StartsAfterAll == Spec => []StartsAgain
<1>1. LifeInv => StartsAgain
  BY DEF LifeInv, TornInv, RootJson, StartsAgain
<1>2. QED BY <1>1, LifeInvariance, PTL

(***************************************************************************)
(* one_or_more_user and the welcome panel agree with the accounts, after   *)
(* any history of the disk.                                                *)
(***************************************************************************)
THEOREM WelcomeCorrect == Spec => []WelcomeNeedsUser
<1>1. LifeInv => WelcomeNeedsUser
  BY DEF LifeInv
<1>2. QED BY <1>1, LifeInvariance, PTL
=============================================================================
