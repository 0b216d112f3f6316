------------------------------ MODULE MCAccounts ------------------------------
(***************************************************************************)
(* Instances of Accounts for TLC: users with plain names, and two whose    *)
(* names are paths; passwords that are accepted, one that is too short and  *)
(* one that has no symbol.                                                 *)
(***************************************************************************)
EXTENDS Accounts, FiniteSets

CONSTANTS alice, bob, up, file, good, other, short, weak, new

MCNone      == {}
MCTwoUsers  == {alice, bob}
MCAllUsers  == {alice, bob, up, file}
MCPaths     == {up, file}
MCPasswords == {good, other, short, weak}
MCNew       == {new}

MCLength == [p \in Passwords \union {Empty} |->
               CASE p = Empty -> 0 [] p = short -> 7 [] OTHER -> 8]
MCKinds  == [p \in Passwords \union {Empty} |->
               CASE p = Empty -> {} [] p = weak -> AllKinds \ {"symbol"}
                 [] OTHER -> AllKinds]
\* Different passwords have different digits.
MCShort  == [p \in Passwords \union {Empty} |-> p]

\* A plain name is one step down, as far as the paths go; up is "..", which
\* leads out of users/ from there; file is "users.json".
MCTarget == [q \in Folders |-> [u \in Users |->
  CASE u = up    -> IF q = Root THEN Elsewhere ELSE Front(q)
    [] u = file  -> JsonFile(q)
    [] OTHER     -> IF Append(q, u) \in Paths THEN Append(q, u) ELSE Elsewhere]]

MCNoFaults  == {}
MCAllFaults == {"crash", "open", "write", "folder"}

\* Both plain names are interchangeable, and so are the two accepted passwords.
MCSymmetry == Permutations(MCTwoUsers) \union Permutations({good, other})

(***************************************************************************)
(* A bound: an odd name meets one other name and one password; what is     *)
(* typed into Others is the short password.                                *)
(***************************************************************************)
Used  == NamesIn(fileJson) \union {r.user : r \in recorded} \union UNION {ToSet(q) : q \in dirs}
Words == {typed[q] : q \in Panels} \union {r.secret[2] : r \in recorded \union ToSet(fileJson)}
MCBound ==
  /\ \A f \in Others : typed[f] \in {Empty, short}
  /\ Used \intersect Odd # {} \/ "taken" \in harm =>
       /\ Cardinality(Used) <= 2
       /\ Words \intersect {short, weak} = {} /\ Cardinality(Words \ {Empty}) <= 1
       /\ \A f \in Others : typed[f] = Empty
=============================================================================
