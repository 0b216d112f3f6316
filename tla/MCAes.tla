---------------------------------- MODULE MCAes ---------------------------------
(***************************************************************************)
(* Instances of Aes for TLC: blocks of four bytes of two bits, two keys.   *)
(* The inputs are of one to nine bytes, with whole blocks that end like a  *)
(* padding of one, two or three bytes and ones that do not.                *)
(***************************************************************************)
EXTENDS Aes, Bitwise

MCXor == [p \in (0..3) \X (0..3) |-> p[1] ^^ p[2]]

\* Start counters with a carry into the third byte, and into every byte.
MCKeys     == 0..1
MCStartOf  == [k \in MCKeys |-> IF k = 0 THEN <<0, 1, 2, 3>> ELSE <<3, 3, 3, 3>>]
MCCounters == {MCStartOf[k] : k \in MCKeys}

\* One to one for a key: each byte of the counter is shifted by the ones before it.
MCBlockOf ==
  [t \in MCKeys \X [1..4 -> 0..3] |->
     LET c == t[2]
         before == <<0, c[1], c[1] + c[2], c[1] + c[2] + c[3]>>
     IN  [i \in 1..4 |-> (c[i] + t[1] * (before[i] + 1) + i) % 4]]

MCInputs ==
  { <<1>>, <<2, 0, 1>>,
    <<0, 1, 2, 0>>, <<0, 1, 2, 1>>, <<0, 1, 2, 2>>, <<0, 3, 3, 3>>,
    <<3, 1, 0, 0, 2>>, <<3, 1, 0, 1, 2, 3>>, <<3, 1, 2, 3, 2, 3, 1>>,
    <<0, 1, 2, 0, 1, 2, 2, 0>>, <<0, 1, 2, 0, 1, 2, 2, 0, 3>> }

\* For the operations after a round trip: one block, or one and a part.
MCShortInputs == { <<1>>, <<2, 0, 1>>, <<0, 1, 2, 2>>, <<3, 1, 0, 0, 2>>, <<3, 1, 0, 1, 2, 3>> }
=============================================================================
