---------------------------- MODULE MatrixProduct ----------------------------
(***************************************************************************)
(* What a matrix product with per-channel requantization promises: every   *)
(* element of the result is computed once, from its own row of the left    *)
(* and its own row of the transposed right matrix, with the bias and the   *)
(* quantization of its own column.  A sum is the set of <<right, left>>    *)
(* pairs of flat indices it multiplies.                                    *)
(***************************************************************************)
EXTENDS Integers

CONSTANT Undefined   \* an element not computed yet

VARIABLES shape, dst

vars == <<shape, dst>>

Cells == (0 .. shape.lhs_rows - 1) \X (0 .. shape.rhs_rows - 1)

Value(cell) ==
  [channel |-> cell[2],
   sum |-> { <<cell[2] * shape.rhs_cols + k, cell[1] * shape.rhs_cols + k>> :
               k \in 0 .. shape.rhs_cols - 1 }]

Init == dst = [cell \in Cells |-> Undefined]

\* Some of the missing elements get their value; no other element changes.
Compute ==
  /\ \A cell \in Cells :
       \/ dst'[cell] = dst[cell]
       \/ dst[cell] = Undefined /\ dst'[cell] = Value(cell)
  /\ UNCHANGED shape

Spec == Init /\ [][Compute]_vars

\* Every element is the one it should be.
Complete == \A cell \in Cells : dst[cell] = Value(cell)

\* The product is finished.
Completes == <>(\A cell \in Cells : dst[cell] # Undefined)
=============================================================================
