-------------------------------- MODULE AesRotate -------------------------------
(***************************************************************************)
(* rotate_left, rotate_right, rotate_up and rotate_down of aes256.cpp,     *)
(* which shift_rows and inv_shift_rows are made of: one row or column of a *)
(* matrix is rotated in place, cycle by cycle, as many cycles as the       *)
(* greatest common divisor of the movement and the length.                 *)
(***************************************************************************)
EXTENDS Integers

CONSTANTS
  Shapes,    \* <<num_rows, num_cols>> of the matrices
  Rounds,    \* positions to rotate
  Modulus    \* 2^32, the modulus of uint32_t

ASSUME ShapeAssumption == Shapes \subseteq (Nat \ {0}) \X (Nat \ {0})

\* round is an int32_t, so it is less than the modulus of uint32_t.
ASSUME RoundAssumption == /\ Rounds \subseteq Int /\ Modulus \in Nat \ {0}
                          /\ \A r \in Rounds : r < Modulus

VARIABLES dir, shape, line, round,   \* the call
          arr,                       \* the matrix, row after row
          cycle, place, temp,        \* i, j and the value taken out of the cycle
          stage
call == <<dir, shape, line, round>>
rotateVars == <<call, arr, cycle, place, temp, stage>>

Rows == shape[1]
Cols == shape[2]
Flat == dir \in {"left", "right"}

\* The elements of the row or column, as places in the matrix.
Count     == IF Flat THEN Cols ELSE Rows
Offset(k) == IF Flat THEN line * Cols + k ELSE line + k * Cols
Original  == [x \in 0..(Rows * Cols - 1) |-> x]

\* round is converted to uint32_t: num_rows and num_cols are unsigned.
\* rotate_down divides by the number of columns, as the ones along a row do.
Remainder == (round % Modulus) % (IF dir = "up" THEN Rows ELSE Cols)
Movement  == IF dir \in {"left", "up"} THEN Remainder ELSE Count - Remainder

gcd[p \in Nat \X Nat] == IF p[2] = 0 THEN p[1] ELSE gcd[<<p[2], p[1] % p[2]>>]

\* Mutant of Cycles: one cycle is enough.
CyclesOne(m, n) == 1
Cycles(m, n)    == gcd[<<m, n>>]

InitRotate ==
  /\ dir \in {"left", "right", "up", "down"} /\ shape \in Shapes /\ round \in Rounds
  /\ line \in 0..((IF Flat THEN Rows ELSE Cols) - 1)
  /\ arr = Original
  /\ cycle = 0 /\ place = 0 /\ temp = arr[Offset(0)]
  /\ stage = IF Remainder = 0 THEN "done" ELSE "moving"

\* k: the place that follows in the cycle.
Following == IF place + Movement >= Count THEN place + Movement - Count ELSE place + Movement

\* Mutant of Closes: every cycle is taken to begin at the first element.
ClosesAtZero(k) == k = 0
Closes(k)       == k = cycle

Move ==
  /\ stage = "moving" /\ ~Closes(Following)
  /\ arr' = [arr EXCEPT ![Offset(place)] = arr[Offset(Following)]]
  /\ place' = Following
  /\ UNCHANGED <<call, cycle, temp, stage>>

Close ==
  /\ stage = "moving" /\ Closes(Following)
  /\ arr' = [arr EXCEPT ![Offset(place)] = temp]
  /\ IF cycle + 1 < Cycles(Movement, Count)
     THEN /\ cycle' = cycle + 1 /\ place' = cycle + 1 /\ temp' = arr'[Offset(cycle + 1)]
          /\ UNCHANGED stage
     ELSE stage' = "done" /\ UNCHANGED <<cycle, place, temp>>
  /\ UNCHANGED call

NextRotate == Move \/ Close
RotateSpec == InitRotate /\ [][NextRotate]_rotateVars /\ WF_rotateVars(NextRotate)

-----------------------------------------------------------------------------
\* The reference: element x of the line comes from x + r, or from x - r.
RotatedBy(r) ==
  \A x \in 0..(Count - 1) :
    arr[Offset(x)] = Original[Offset((IF dir \in {"left", "up"} THEN x + r ELSE x - r) % Count)]

LineOnly ==
  \A p \in DOMAIN arr : (\A k \in 0..(Count - 1) : p # Offset(k)) => arr[p] = Original[p]

(***************************************************************************)
(* The line is rotated by the round and nothing else is touched: the       *)
(* cycles meet every element exactly once.  (For rotate_down on a square   *)
(* matrix, the only one it is called for.)                                 *)
(***************************************************************************)
Rotated ==
  stage = "done" /\ round >= 0 /\ (dir = "down" => Rows = Cols) =>
    RotatedBy(round) /\ LineOnly

(***************************************************************************)
(* Every cycle comes back to where it began, so the loop ends.             *)
(***************************************************************************)
Ends == <>(stage = "done")
=============================================================================
