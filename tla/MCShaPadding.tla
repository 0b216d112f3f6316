----------------------------- MODULE MCShaPadding -----------------------------
(***************************************************************************)
(* Instances of ShaPadding for TLC: every length up to three blocks, which *)
(* crosses the boundaries at 55/56 and 63/64 bytes modulo 64 three times.  *)
(***************************************************************************)
EXTENDS ShaPadding

MCSizes == 1..193
=============================================================================
