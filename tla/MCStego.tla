------------------------------- MODULE MCStego -------------------------------
(***************************************************************************)
(* Instances of Stego for TLC.  The images are narrower than the header,   *)
(* as wide, just wider, one row, too small to hide or to seek in, with the *)
(* last byte of some file at the end of a row (31 and 33 columns), and     *)
(* filled to the last colour (24 columns, 19 bytes).                       *)
(***************************************************************************)
EXTENDS Stego

MCImages == {[rows |-> s[1], cols |-> s[2]] :
              s \in {<<1, 28>>, <<1, 40>>, <<1, 70>>, <<2, 33>>, <<2, 40>>,
                     <<3, 22>>, <<3, 24>>, <<3, 31>>, <<4, 20>>, <<4, 21>>}}

\* Three to nine bytes with the length of the name, and 19; one name is cut.
MCFiles == {[data |-> f[1], name |-> f[2]] :
             f \in {<<1, 1>>, <<1, 2>>, <<2, 2>>, <<3, 2>>, <<3, 5>>, <<5, 2>>,
                    <<5, 3>>, <<15, 3>>}}

\* One ordinary image, and six bytes.
MCPlainImages == {[rows |-> 3, cols |-> 30]}
MCPlainFiles == {[data |-> 3, name |-> 2]}
=============================================================================
