-------------------------------- MODULE KeyTools --------------------------------
(***************************************************************************)
(* The tab Diffie-Hellman: button_calc_dfhl (src/source/src/gui.cpp).  Two *)
(* users make a half-key each, note the two strings, and type their own    *)
(* private one and the public one of the other.                            *)
(***************************************************************************)
EXTENDS Session, DiffieHellman

CONSTANT OddKeys     \* other strings that are typed, as sequences of numbers

ASSUME OddKeysAssumption == OddKeys \subseteq Seq(Nat)

NoKey == <<>>

VARIABLES
  notes,      \* for each user the half-key generated last
  shared      \* for each user the key shown last, and what it was made from

keys == <<notes, shared>>

InitKeys ==
  /\ notes = [u \in Users |-> [priv |-> NoKey, pub |-> NoKey]]
  /\ shared = [u \in Users |-> [key |-> NoKey, priv |-> NoKey, pub |-> NoKey]]

\* string_is_hex_key for 256 bits.
IsHexKey(s) == Len(s) = Words * Chars /\ \A k \in DOMAIN s : s[k] \in HexDigit

CalcHalfKey ==
  /\ Press("dfhl")
  /\ \E drawn \in [1..Words -> 1..(Q - 1)] :
       notes' = [notes EXCEPT ![user] =
                   [priv |-> KeyOf(drawn), pub |-> KeyOf(PublicNumbers(drawn))]]
  /\ UNCHANGED <<ended, shared>>

\* A key with an invalid string is refused.  The logarithm of a zero is minus
\* infinity: as a number of zeros to append it ends the program.
CalcKey(priv, pub) ==
  /\ Press("dfhl")
  /\ IF ~IsHexKey(priv) \/ ~IsHexKey(pub) THEN UNCHANGED <<ended, shared>>
     ELSE LET numbers == SharedNumbers(priv, pub)
          IN  /\ ended' = (0 \in ToSet(numbers))
              /\ shared' = IF ended' THEN shared
                           ELSE [shared EXCEPT ![user] =
                                   [key |-> KeyOf(numbers), priv |-> priv, pub |-> pub]]
  /\ UNCHANGED notes

Typed == {notes[u].priv : u \in {user} \cap Users} \cup {notes[u].pub : u \in Users} \cup OddKeys

NextKeys ==
  \/ CalcHalfKey
  \/ \E priv, pub \in Typed : CalcKey(priv, pub)

-----------------------------------------------------------------------------
HasNote(u) == notes[u].priv # NoKey

\* Two users who typed what they noted and what the other one noted see the same
\* key.  (calc_exp_mod over each number of the strings, and the strings' layout)
SharedAgree ==
  \A u, v \in Users :
    /\ HasNote(u) /\ HasNote(v) /\ u # v
    /\ shared[u].priv = notes[u].priv /\ shared[u].pub = notes[v].pub
    /\ shared[v].priv = notes[v].priv /\ shared[v].pub = notes[u].pub
    => shared[u].key = shared[v].key

\* Every string that the tool has shown is one that it accepts, whatever zeros the
\* numbers begin with, and two generated half-keys never give the number zero that
\* hex32bit_append_to_string cannot write.
KeysWhole ==
  \A u \in Users :
    /\ HasNote(u) => IsHexKey(notes[u].priv) /\ IsHexKey(notes[u].pub)
    /\ shared[u].key # NoKey => IsHexKey(shared[u].key)
    /\ \A v \in Users : HasNote(u) /\ HasNote(v) =>
         0 \notin ToSet(SharedNumbers(notes[u].priv, notes[v].pub))
=============================================================================
