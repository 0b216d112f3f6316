------------------------------ MODULE ShaDigest ------------------------------
(***************************************************************************)
(* What sha256::compute_hash promises, with no thread, list or lock in     *)
(* sight: the blocks of the padded message (FIPS 180-4) are folded into    *)
(* the digest one after the other, the first one first, and the call       *)
(* returns when and only when all of them have been.                       *)
(***************************************************************************)
EXTENDS ShaBlocks

CONSTANT Sizes

VARIABLES size, digest, returned

absVars == <<size, digest, returned>>

AbsInit ==
  /\ size \in Sizes
  /\ digest = <<>>
  /\ returned = FALSE

\* One more block is folded in.
Absorb ==
  /\ ~returned
  /\ Len(digest) < FipsBlockCount(size)
  /\ digest' = Append(digest, FipsBlock(size, Len(digest) + 1))
  /\ UNCHANGED <<size, returned>>

\* The call returns with the digest of the whole message.
Deliver ==
  /\ ~returned
  /\ digest' = FipsMessage(size)
  /\ returned' = TRUE
  /\ UNCHANGED size

AbsNext == Absorb \/ Deliver

AbsSpec     == AbsInit /\ [][AbsNext]_absVars
AbsFairSpec == AbsSpec /\ WF_absVars(Absorb) /\ WF_absVars(Deliver)
=============================================================================
