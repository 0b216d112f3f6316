------------------------------ MODULE MCAesRotate ------------------------------
(***************************************************************************)
(* Instances of AesRotate for TLC.  2^16 and 2^32 have the same remainders *)
(* modulo 1 to 6.                                                          *)
(***************************************************************************)
EXTENDS AesRotate

MCSquares == {<<n, n>> : n \in 1..4} \union {<<6, 6>>}
MCRounds  == 0..7
MCModulus == 2^16
=============================================================================
