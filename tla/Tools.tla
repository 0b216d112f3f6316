--------------------------------- MODULE Tools ---------------------------------
(***************************************************************************)
(* The tools of one window (src/source/src/gui.cpp): users log in and go   *)
(* back, and press the buttons of FileTools, TextTools and KeyTools.  The  *)
(* tools of the three share nothing but the user and the end of the        *)
(* program, so a behaviour is about one of the tabs.                       *)
(***************************************************************************)
EXTENDS FileTools, TextTools, KeyTools

CONSTANT Tabs     \* among "files" (hide, seek and aes256), "b64", "sha256", "dfhl"

vars == <<session, files, texts, keys>>

Init ==
  /\ user = Nobody /\ tab \in Tabs /\ ended = FALSE /\ ops = 0
  /\ InitFiles /\ InitTexts /\ InitKeys

Next ==
  \/ \E u \in Users : Login(u) /\ UNCHANGED <<files, texts, keys>>
  \/ Back /\ UNCHANGED <<files, texts, keys>>
  \/ NextFiles /\ UNCHANGED <<texts, keys>>
  \/ NextTexts /\ UNCHANGED <<files, keys>>
  \/ NextKeys /\ UNCHANGED <<files, texts>>

Spec == Init /\ [][Next]_vars
=============================================================================
