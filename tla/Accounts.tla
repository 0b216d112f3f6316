------------------------------- MODULE Accounts -------------------------------
(***************************************************************************)
(* The accounts of MyFrame (src/source/src/gui.cpp): start-up, login, new  *)
(* user and the panels between them, over the files they live in, with     *)
(* exits, crashes and restarts.                                            *)
(*                                                                         *)
(* The program keeps its accounts in users/users.json and a folder         *)
(* users/<name> for each.  It loads the file once, keeps the list in       *)
(* memory, and rewrites the whole file for a new account.  Login changes   *)
(* the working directory of the process to the user's folder; the file and *)
(* the folder of a new account are named relative to it.                   *)
(*                                                                         *)
(* A path is the sequence of names below users/: <<>> is users/ itself.    *)
(* A user name is used as a path as it was typed.  A plain one is one step *)
(* down from the working directory; an odd one ("..", "../bob", "/tmp",    *)
(* "users.json") leads anywhere.                                           *)
(***************************************************************************)
EXTENDS Integers, Sequences, SequencesExt

CONSTANTS
  Users,       \* user names
  Odd,         \* those that are not the name of one folder below
  Elsewhere,   \* every place that is not among the paths below
  Target,      \* what a name leads to from a working directory
  NoName,      \* the empty user name
  Passwords,   \* passwords that can be typed
  Empty,       \* the empty password field
  Others,      \* password fields of the tools that no panel has in use
  Length,      \* number of letters of a password
  Kinds,       \* kinds of letters in a password
  Short,       \* the 8 hex digits of its hash that enter the secret
  Faults       \* what may go wrong: "crash", "open", "write", "folder"

AllKinds == {"lower", "upper", "number", "symbol"}
Typeable == Passwords \union {Empty}

Root    == <<>>
Plain   == Users \ Odd
Places  == {Root} \union {<<u>> : u \in Plain}
Folders == Places \union {<<u, v>> : u, v \in Plain}

JsonFile(q) == Append(q, "users.json")
Paths       == Folders \union {JsonFile(q) : q \in Folders}

ASSUME NoNameAssumption == NoName \notin Users
ASSUME PathAssumption ==
  /\ Odd \subseteq Users /\ "users.json" \notin Plain
  /\ Elsewhere \notin Paths
  /\ Target \in [Folders -> [Users -> Paths \union {Elsewhere}]]
  /\ \A q \in Places, u \in Plain : Target[q][u] = Append(q, u)
ASSUME PasswordAssumption ==
  /\ Empty \notin Passwords
  /\ Length \in [Typeable -> Nat] /\ Kinds \in [Typeable -> SUBSET AllKinds]
  /\ Length[Empty] = 0

VARIABLES
  dirs,       \* the folders on disk
  json,       \* the users.json file in each place
  recorded,   \* history: every account that a whole users/users.json had
  harm,       \* history: what befell this file: "cut" short, "taken" by an odd name
  pc,         \* what the process is doing
  cwd,        \* its working directory
  fileJson,   \* file_json, the accounts in memory
  oneOrMore,  \* one_or_more_user
  panel,      \* the panel shown
  typed,      \* the password fields: the one each panel has in use, and Others
  label,      \* the user name on the personal page
  key         \* local_hash_pwd

disk    == <<dirs, json, recorded, harm>>
memory  == <<cwd, fileJson, oneOrMore>>
window  == <<panel, typed>>
session == <<label, key>>
vars    == <<disk, pc, memory, window, session>>

Panels == {"wlcm", "add_user", "recovery_pwd", "login_successfully"}
Fields == Panels \union Others
ASSUME FieldAssumption == Panels \intersect Others = {}

Pcs    == {"off", "folder", "create", "start", "load", "blocked", "ready",
           "open", "write", "remove", "mkdir"}

\* sha256 of the password, and sha256(user;first 8 digits of that).
Digest(p)    == <<"sha256", p>>
NoKey        == <<"none", Empty>>
Secret(u, p) == <<u, Short[p]>>

Record == [user : Users, secret : {Secret(u, p) : u \in Users, p \in Typeable}]
Whole(s) == [state |-> "whole", users |-> s]
Absent   == [state |-> "absent", users |-> <<>>]
Torn     == [state |-> "torn", users |-> <<>>]
Folder   == [state |-> "folder", users |-> <<>>]   \* a folder of that name
Content  == [state : {"absent", "torn", "folder", "whole"}, users : Seq(Record)]

NamesIn(s) == {s[k].user : k \in DOMAIN s}
Newest     == fileJson[Len(fileJson)].user

NoneTyped == [f \in Fields |-> Empty]

TypeOK ==
  /\ dirs \subseteq Folders
  /\ json \in [Folders -> Content]
  /\ recorded \subseteq Record /\ harm \subseteq {"cut", "taken"}
  /\ pc \in Pcs
  /\ cwd \in Folders \union {Elsewhere}
  /\ fileJson \in Seq(Record)
  /\ oneOrMore \in BOOLEAN
  /\ panel \in Panels
  /\ typed \in [Fields -> Typeable]
  /\ label \in Users \union {NoName}
  /\ key \in {Digest(p) : p \in Typeable} \union {NoKey}

\* A process that has just been started, or none.
FreshMemory ==
  /\ cwd = Root /\ fileJson = <<>> /\ oneOrMore = TRUE
  /\ panel = "wlcm" /\ typed = NoneTyped
  /\ label = NoName /\ key = NoKey

Init ==
  /\ dirs = {} /\ json = [q \in Folders |-> Absent] /\ recorded = {} /\ harm = {}
  /\ pc = "off" /\ FreshMemory

-----------------------------------------------------------------------------
(***************************************************************************)
(* ctrl_user_at_start and the constructor of MyFrame.                      *)
(***************************************************************************)
Launch ==
  /\ pc = "off" /\ pc' = "folder"
  /\ UNCHANGED <<disk, memory, window, session>>

\* Create users/ if it is missing, and change to it.
UsersFolder ==
  /\ pc = "folder"
  /\ dirs' = dirs \union {Root}
  /\ cwd' = Root
  /\ oneOrMore' = (oneOrMore /\ Root \in dirs)
  /\ pc' = IF json[Root].state = "absent" THEN "create" ELSE "load"
  /\ UNCHANGED <<json, recorded, harm, fileJson, window, session>>

\* A missing users.json is opened with trunc ...
CreateJson ==
  /\ pc = "create"
  /\ json' = [json EXCEPT ![Root] = Torn]
  /\ pc' = "start"
  /\ UNCHANGED <<dirs, recorded, harm, memory, window, session>>

\* ... and when this open fails, the write does nothing: there is no file.
CreateJsonFails ==
  /\ pc = "create" /\ "open" \in Faults
  /\ oneOrMore' = FALSE
  /\ pc' = "load"
  /\ UNCHANGED <<disk, cwd, fileJson, window, session>>

\* Mutant of StartJson: nothing is written into the new file.
StartJsonEmpty ==
  /\ pc = "start"
  /\ oneOrMore' = FALSE
  /\ pc' = "load"
  /\ UNCHANGED <<disk, cwd, fileJson, window, session>>

\* It is closed with an empty array in it ...
StartJson ==
  /\ pc = "start"
  /\ json' = [json EXCEPT ![Root] = Whole(<<>>)]
  /\ oneOrMore' = FALSE
  /\ pc' = "load"
  /\ UNCHANGED <<dirs, recorded, harm, cwd, fileJson, window, session>>

\* ... or without, when the write fails: nobody looks.
StartJsonFails ==
  /\ pc = "start" /\ "write" \in Faults
  /\ harm' = harm \union {"cut"}
  /\ oneOrMore' = FALSE
  /\ pc' = "load"
  /\ UNCHANGED <<dirs, json, recorded, cwd, fileJson, window, session>>

\* A file that cannot be opened or does not parse stops the constructor: no
\* panel is made.
LoadBlocked ==
  /\ pc = "load" /\ (json[Root].state # "whole" \/ "open" \in Faults)
  /\ oneOrMore' = FALSE
  /\ pc' = "blocked"
  /\ UNCHANGED <<disk, cwd, fileJson, window, session>>

\* Mutant of LoadJson: the empty file is not told apart.
LoadJsonWelcome ==
  /\ pc = "load" /\ json[Root].state = "whole"
  /\ fileJson' = json[Root].users
  /\ panel' = "wlcm"
  /\ pc' = "ready"
  /\ UNCHANGED <<disk, cwd, oneOrMore, typed, session>>

\* No account yet: the first panel is the one to add a user.
LoadJson ==
  /\ pc = "load" /\ json[Root].state = "whole"
  /\ fileJson' = json[Root].users
  /\ oneOrMore' = (oneOrMore /\ fileJson' # <<>>)
  /\ panel' = IF fileJson' = <<>> THEN "add_user" ELSE "wlcm"
  /\ pc' = "ready"
  /\ UNCHANGED <<disk, cwd, typed, session>>

-----------------------------------------------------------------------------
(***************************************************************************)
(* The panels.  switch_panel clears the password field in use, which is    *)
(* the one of the panel that is left; nothing ever clears the Others.      *)
(***************************************************************************)
ClearField == typed' = [typed EXCEPT ![panel] = Empty]

\* Mutant of SwitchPanel: the field of the panel that is entered is cleared.
SwitchPanelNew(q) ==
  /\ panel' = q
  /\ typed' = [typed EXCEPT ![q] = Empty]

SwitchPanel(q) ==
  /\ panel' = q
  /\ ClearField

TypePassword(f, p) ==
  /\ pc = "ready"
  /\ f = panel \/ (f \in Others /\ panel = "login_successfully")
  /\ typed' = [typed EXCEPT ![f] = p]
  /\ UNCHANGED <<disk, pc, memory, panel, session>>

\* button_back is a menu entry: it can be chosen on every panel.  (With no
\* user, or on the welcome panel, it only shows a message.)
ButtonBack ==
  /\ pc = "ready" /\ oneOrMore /\ panel # "wlcm"
  /\ SwitchPanel("wlcm")
  /\ UNCHANGED <<disk, pc, memory, session>>

ButtonNewUser ==
  /\ pc = "ready" /\ panel = "wlcm"
  /\ SwitchPanel("add_user")
  /\ UNCHANGED <<disk, pc, memory, session>>

ButtonRecPwd ==
  /\ pc = "ready" /\ panel = "wlcm"
  /\ SwitchPanel("recovery_pwd")
  /\ UNCHANGED <<disk, pc, memory, session>>

ButtonRecoveryPersonal ==
  /\ pc = "ready" /\ panel = "login_successfully"
  /\ ClearField
  /\ UNCHANGED <<disk, pc, memory, panel, session>>

-----------------------------------------------------------------------------
(***************************************************************************)
(* button_enter_login.                                                     *)
(***************************************************************************)

\* The account of that name and its secret fit the typed password.
Accepted(u, p) ==
  \E k \in DOMAIN fileJson :
    /\ fileJson[k].user = u
    /\ \A j \in 1..(k - 1) : fileJson[j].user # u
    /\ fileJson[k].secret = Secret(u, p)

LoginRefused(u) ==
  /\ pc = "ready" /\ panel = "wlcm"
  /\ ~Accepted(u, typed[panel])
  /\ ClearField
  /\ UNCHANGED <<disk, pc, memory, panel, session>>

\* What is at a path below users/.
IsFile(p)   == \E q \in Folders : p = JsonFile(q) /\ json[q].state \in {"torn", "whole"}
IsFolder(p) == p \in dirs \/ \E q \in Folders : p = JsonFile(q) /\ json[q].state = "folder"

\* The session's name and key are set, and the directory is changed to users/,
\* before the folder is looked for.
LoginNoFolder(u) ==
  /\ pc = "ready" /\ panel = "wlcm"
  /\ Accepted(u, typed[panel]) /\ Root \in dirs
  /\ ~IsFile(Target[Root][u]) /\ ~IsFolder(Target[Root][u])
  /\ label' = u /\ key' = Digest(typed[panel])
  /\ cwd' = Root
  /\ ClearField
  /\ UNCHANGED <<disk, pc, fileJson, oneOrMore, panel>>

\* Mutant of Login: the directory is not changed to users/ first.
LoginFromHere(u) ==
  /\ pc = "ready" /\ panel = "wlcm"
  /\ Accepted(u, typed[panel]) /\ Root \in dirs
  /\ LET home == IF cwd \in Folders THEN Target[cwd][u] ELSE Elsewhere
     IN  /\ home = Elsewhere \/ IsFolder(home)
         /\ cwd' = IF home \in Folders THEN home ELSE Elsewhere
  /\ label' = u /\ key' = Digest(typed[panel])
  /\ SwitchPanel("login_successfully")
  /\ UNCHANGED <<disk, pc, fileJson, oneOrMore>>

\* What the name leads to is made the working directory.
Login(u) ==
  /\ pc = "ready" /\ panel = "wlcm"
  /\ Accepted(u, typed[panel]) /\ Root \in dirs
  /\ LET home == Target[Root][u]
     IN  /\ home = Elsewhere \/ IsFolder(home)
         /\ cwd' = IF home \in Folders THEN home ELSE Elsewhere
  /\ label' = u /\ key' = Digest(typed[panel])
  /\ SwitchPanel("login_successfully")
  /\ UNCHANGED <<disk, pc, fileJson, oneOrMore>>

-----------------------------------------------------------------------------
(***************************************************************************)
(* button_add_user and save_new_user.                                      *)
(***************************************************************************)
LongEnough(p) == Length[p] \in 8..100

\* No name, a name that is taken or a password of a bad length: the form is
\* left as it is.
AddRefused(u) ==
  /\ pc = "ready" /\ panel = "add_user"
  /\ u = NoName \/ u \in NamesIn(fileJson) \/ ~LongEnough(typed[panel])
  /\ UNCHANGED vars

\* A password that lacks a kind of letter: the field was already cleared.
AddWeak(u) ==
  /\ pc = "ready" /\ panel = "add_user"
  /\ u # NoName /\ u \notin NamesIn(fileJson) /\ LongEnough(typed[panel])
  /\ Kinds[typed[panel]] # AllKinds
  /\ ClearField
  /\ UNCHANGED <<disk, pc, memory, panel, session>>

\* Mutant of AddUser: a name that is taken is not refused.
AddUserTwice(u) ==
  /\ pc = "ready" /\ panel = "add_user"
  /\ u # NoName /\ LongEnough(typed[panel]) /\ Kinds[typed[panel]] = AllKinds
  /\ fileJson' = Append(fileJson, [user |-> u, secret |-> Secret(u, typed[panel])])
  /\ ClearField
  /\ pc' = "open"
  /\ UNCHANGED <<disk, cwd, oneOrMore, panel, session>>

\* Mutant of AddUser: the empty name is not refused.
AddUserUnnamed(u) ==
  /\ pc = "ready" /\ panel = "add_user"
  /\ u \notin NamesIn(fileJson) /\ LongEnough(typed[panel])
  /\ Kinds[typed[panel]] = AllKinds
  /\ fileJson' = Append(fileJson, [user |-> u, secret |-> Secret(u, typed[panel])])
  /\ ClearField
  /\ pc' = "open"
  /\ UNCHANGED <<disk, cwd, oneOrMore, panel, session>>

AddUser(u) ==
  /\ pc = "ready" /\ panel = "add_user"
  /\ u # NoName /\ u \notin NamesIn(fileJson) /\ LongEnough(typed[panel])
  /\ Kinds[typed[panel]] = AllKinds
  /\ fileJson' = Append(fileJson, [user |-> u, secret |-> Secret(u, typed[panel])])
  /\ ClearField
  /\ pc' = "open"
  /\ UNCHANGED <<disk, cwd, oneOrMore, panel, session>>

\* The places whose users.json is not a folder.
Openable == {q \in Folders : json[q].state # "folder"}

\* users.json is opened, which truncates it, in the working directory.
OpenJson ==
  /\ pc = "open"
  /\ cwd \in Openable \union {Elsewhere}
  /\ json' = [q \in Folders |-> IF q = cwd THEN Torn ELSE json[q]]
  /\ pc' = "write"
  /\ UNCHANGED <<dirs, recorded, harm, memory, window, session>>

\* An open that fails is not noticed: the writes do nothing.
OpenJsonFails ==
  /\ pc = "open"
  /\ "open" \in Faults \/ cwd \notin Openable
  /\ pc' = "remove"
  /\ UNCHANGED <<disk, memory, window, session>>

\* Mutant of WriteJson: only the new account is written.
WriteJsonNewOnly ==
  /\ pc = "write"
  /\ json' = [json EXCEPT ![cwd] = Whole(<<fileJson[Len(fileJson)]>>)]
  /\ recorded' = IF cwd = Root THEN recorded \union {fileJson[Len(fileJson)]} ELSE recorded
  /\ pc' = "remove"
  /\ UNCHANGED <<dirs, harm, memory, window, session>>

WriteJson ==
  /\ pc = "write"
  /\ json' = [q \in Folders |-> IF q = cwd THEN Whole(fileJson) ELSE json[q]]
  /\ recorded' = IF cwd = Root THEN recorded \union ToSet(fileJson) ELSE recorded
  /\ pc' = "remove"
  /\ UNCHANGED <<dirs, harm, memory, window, session>>

\* Nor is a write that fails.
WriteJsonFails ==
  /\ pc = "write" /\ "write" \in Faults
  /\ harm' = IF cwd = Root THEN harm \union {"cut"} ELSE harm
  /\ pc' = "remove"
  /\ UNCHANGED <<dirs, json, recorded, memory, window, session>>

\* A name that is one step down from users/ or from the folder of a user.
OneStepDown == Newest \in Plain /\ cwd \in Places

\* What the newest name may lead to, and what is at and below it.  A place
\* elsewhere may be above users/.
Reached == IF cwd \in Folders THEN {Target[cwd][Newest]} ELSE Paths \union {Elsewhere}
OnDisk == dirs \union {JsonFile(q) : q \in {r \in Folders : json[r].state # "absent"}}
AtOrBelow(t) ==
  IF t \in Paths THEN {{p \in OnDisk : IsPrefix(t, p)}} ELSE {{}, OnDisk}

\* The paths gone are deleted, and with them, perhaps, the working directory.
Delete(gone) ==
  /\ dirs' = dirs \ gone
  /\ json' = [q \in Folders |-> IF JsonFile(q) \in gone THEN Absent ELSE json[q]]
  /\ harm' = IF JsonFile(Root) \in gone /\ ~OneStepDown
               THEN harm \union {"taken"} ELSE harm
  /\ UNCHANGED recorded

\* remove_all of what has the new user's name, with all it contains.
RemoveOld ==
  /\ pc = "remove"
  /\ \E t \in Reached : \E gone \in AtOrBelow(t) :
       /\ Delete(gone)
       /\ cwd' = IF cwd \in gone THEN Elsewhere ELSE cwd
  /\ pc' = "mkdir"
  /\ UNCHANGED <<fileJson, oneOrMore, window, session>>

MakeFolder ==
  /\ pc = "mkdir"
  /\ \E t \in Reached :
       /\ ~IsFile(t)
       /\ t \in Paths \ {Root} => Front(t) \in dirs
       /\ dirs' = dirs \union ({t} \intersect Folders)
       /\ json' = [q \in Folders |-> IF t = JsonFile(q) THEN Folder ELSE json[q]]
       /\ harm' = IF t = JsonFile(Root) THEN harm \union {"taken"} ELSE harm
  /\ oneOrMore' = TRUE
  /\ SwitchPanel("wlcm")
  /\ pc' = "ready"
  /\ UNCHANGED <<recorded, cwd, fileJson, session>>

-----------------------------------------------------------------------------
ProcessEnds ==
  /\ pc' = "off"
  /\ cwd' = Root /\ fileJson' = <<>> /\ oneOrMore' = TRUE
  /\ panel' = "wlcm" /\ typed' = NoneTyped
  /\ label' = NoName /\ key' = NoKey

OnExit == pc \in {"ready", "blocked"} /\ ProcessEnds /\ UNCHANGED disk

\* The history notes a crash between the truncation of the file and its contents.
Crash ==
  /\ "crash" \in Faults /\ pc # "off"
  /\ ProcessEnds
  /\ harm' = IF pc = "start" \/ (pc = "write" /\ cwd = Root)
               THEN harm \union {"cut"} ELSE harm
  /\ UNCHANGED <<dirs, json, recorded>>

\* What std::filesystem throws is not caught, and ends the process: when users/
\* or the folder of the user cannot be entered, ...
LoginThrows(u) ==
  /\ pc = "ready" /\ panel = "wlcm"
  /\ Accepted(u, typed[panel])
  /\ \/ "folder" \in Faults \/ Root \notin dirs
     \/ Target[Root][u] = Elsewhere \/ IsFile(Target[Root][u])
  /\ ProcessEnds /\ UNCHANGED disk

\* ... when remove_all stops, with some of it done, contents before folders, ...
RemoveThrows ==
  /\ pc = "remove" /\ ("folder" \in Faults \/ ~OneStepDown)
  /\ \E t \in Reached : \E all \in AtOrBelow(t) : \E gone \in SUBSET all :
       /\ \A p \in gone, q \in all : IsPrefix(p, q) => q \in gone
       /\ Delete(gone)
  /\ ProcessEnds

\* ... and when the new folder cannot be made.
MakeThrows ==
  /\ pc = "mkdir" /\ ("folder" \in Faults \/ ~OneStepDown)
  /\ ProcessEnds /\ UNCHANGED disk

Start  == \/ Launch \/ UsersFolder \/ CreateJson \/ CreateJsonFails
          \/ StartJson \/ StartJsonFails \/ LoadBlocked \/ LoadJson
Button == \/ ButtonBack \/ ButtonNewUser \/ ButtonRecPwd \/ ButtonRecoveryPersonal
          \/ \E f \in Fields, p \in Typeable : TypePassword(f, p)
          \/ \E u \in Users \union {NoName} :
               \/ LoginRefused(u) \/ LoginNoFolder(u) \/ Login(u)
               \/ AddRefused(u) \/ AddWeak(u) \/ AddUser(u)
Save   == \/ OpenJson \/ OpenJsonFails \/ WriteJson \/ WriteJsonFails
          \/ RemoveOld \/ MakeFolder
End    == \/ OnExit \/ Crash \/ RemoveThrows \/ MakeThrows
          \/ \E u \in Users : LoginThrows(u)

Next == Start \/ Button \/ Save \/ End

Spec == Init /\ [][Next]_vars

-----------------------------------------------------------------------------
Loaded == pc \in {"ready", "open", "write", "remove", "mkdir"}

(***************************************************************************)
(* save_new_user and start-up lose no account: whatever accounts           *)
(* users/users.json ever held are in it whenever it is whole, nothing was  *)
(* ever recorded when there is no such file, and while it is rewritten     *)
(* they are all in memory, from where they are written.  A crash or a      *)
(* write that fails may leave it cut short, but no whole file without      *)
(* them; only remove_all of an odd name takes the file itself.             *)
(***************************************************************************)
AccountsKept ==
  "taken" \notin harm =>
    /\ json[Root].state = "absent" => recorded = {}
    /\ json[Root].state = "whole" => recorded \subseteq ToSet(json[Root].users)
    /\ pc = "write" /\ cwd = Root => recorded \subseteq ToSet(fileJson)

(***************************************************************************)
(* While the tools are shown, the key they encrypt with is the digest of a *)
(* password that opens the account named on the personal page, and the     *)
(* process works in this user's folder, unless the name is an odd one.     *)
(***************************************************************************)
SessionIsUsers ==
  pc = "ready" /\ panel = "login_successfully" =>
    /\ label \in Plain => cwd = <<label>> /\ cwd \in dirs
    /\ \E k \in DOMAIN fileJson, p \in Typeable :
         /\ fileJson[k] = [user |-> label, secret |-> Secret(label, p)]
         /\ key = Digest(p)

(***************************************************************************)
(* No password that opened or makes an account stays in the field of a     *)
(* panel that is not shown, whatever path leads away from it:              *)
(* _password_in_use follows the panels.  Nothing is said of the Others,    *)
(* which keep their text.                                                  *)
(***************************************************************************)
CredentialsCleared == \A q \in Panels \ {panel} : typed[q] = Empty

(***************************************************************************)
(* remove_all in save_new_user takes the folder of the new user only: the  *)
(* folder of an account with a plain name is never deleted for another     *)
(* user with such a name, neither at the root nor from within the folder   *)
(* of a user.                                                              *)
(***************************************************************************)
OthersFoldersKept ==
  [][Loaded => \A k \in DOMAIN fileJson :
       /\ fileJson[k].user \in Plain /\ <<fileJson[k].user>> \in dirs
       /\ pc = "remove" => k < Len(fileJson) /\ OneStepDown
       => <<fileJson[k].user>> \in dirs']_vars

(***************************************************************************)
(* The program locks itself out for good in two ways only: a crash or a    *)
(* failing write between the truncation of users/users.json and its new    *)
(* contents, and a user with an odd name.  After every other exit, crash,  *)
(* failed open or start that was refused, the file is one that the next    *)
(* start can load, or there is none yet.                                   *)
(***************************************************************************)
StartsAgain ==
  pc \in {"off", "blocked"} /\ harm = {} => json[Root].state \in {"absent", "whole"}

(***************************************************************************)
(* one_or_more_user tells whether there is an account: the welcome panel,  *)
(* where one can only log in, is not reached without one, and the way back *)
(* to it is open as soon as there is one.                                  *)
(***************************************************************************)
WelcomeNeedsUser ==
  pc = "ready" =>
    /\ oneOrMore <=> fileJson # <<>>
    /\ panel = "wlcm" => fileJson # <<>>

(***************************************************************************)
(* gui.cpp:599, what save_new_user begins with: "CREATE NEW VALUE AND      *)
(* UPDATE .JSON": when it is done, the file that the program starts from   *)
(* holds the accounts.                                                     *)
(***************************************************************************)
JsonUpdated == pc = "ready" => json[Root] = Whole(fileJson)
=============================================================================
