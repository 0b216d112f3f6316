--------------------------- MODULE MCShaPipeline ---------------------------
(***************************************************************************)
(* Instances of ShaPipeline for TLC.                                       *)
(***************************************************************************)
EXTENDS ShaPipeline

\* No block, a lone tail, a tail with an extra block (on both sides of the
\* boundary at 56 bytes), an empty tail behind a full block, and several full
\* blocks with and without an extra one.
MCSizes == {0, 1, 55, 56, 63, 64, 130, 188, 200, 256, 316, 448}
=============================================================================
