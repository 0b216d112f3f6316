-------------------------------- MODULE Session --------------------------------
(***************************************************************************)
(* What the tools of MyFrame (src/source/src/gui.cpp) have in common: one  *)
(* window, used by one user after the other.  Login sets the working       *)
(* directory and local_hash_pwd together (module Accounts), the tools are  *)
(* reached from the page of a user only, and a read outside of memory ends *)
(* the program for all of them.                                            *)
(***************************************************************************)
EXTENDS Integers, Sequences

CONSTANTS
  Users,      \* the accounts
  MaxOps      \* bound, for each tab: buttons pressed; then the user stays, too

Nobody == "nobody"

ASSUME NobodyAssumption == Nobody \notin Users
ASSUME MaxOpsAssumption == \A t \in DOMAIN MaxOps : MaxOps[t] \in Nat

VARIABLES
  user,      \* whose page is shown
  tab,       \* the tool that a behaviour is about, the tools share no state but this
  ended,     \* the program was ended by a read outside of memory
  ops        \* the buttons pressed

session == <<user, tab, ended, ops>>

\* button_enter_login, when name and password are right and the folder is there.
Login(u) ==
  /\ user = Nobody /\ ~ended /\ ops < MaxOps[tab]
  /\ user' = u
  /\ UNCHANGED <<tab, ended, ops>>

\* button_back.
Back ==
  /\ user # Nobody /\ ~ended /\ ops < MaxOps[tab]
  /\ user' = Nobody
  /\ UNCHANGED <<tab, ended, ops>>

\* A button of tool t is pressed.
Press(t) ==
  /\ tab = t /\ user # Nobody /\ ~ended /\ ops < MaxOps[tab]
  /\ ops' = ops + 1
  /\ UNCHANGED <<user, tab>>
=============================================================================
