------------------------------ MODULE MCMatMul ------------------------------
(***************************************************************************)
(* Calls for MatMulNtT.                                                    *)
(***************************************************************************)
EXTENDS MatMulNtT

Rectangles(target, lhs_rows, rhs_rows, rhs_cols) ==
  [build : {target},
   shape : [lhs_rows : lhs_rows, rhs_rows : rhs_rows, rhs_cols : rhs_cols]]

\* The scalar build with every number of rows and columns modulo its blocks and
\* pairs; the packed build with rows of whole words, one, two and three blocks
\* and at most one right row left over; and with rows that begin at every
\* distance from a word boundary, no pairs to four, with and without an odd row.
AllRows ==
  Rectangles("scalar", 1 .. 6, 1 .. 6, {1, 2, 5})
    \cup Rectangles("packed", 1 .. 6, {1, 4, 5, 8, 12, 13}, {4, 8})
    \cup Rectangles("packed", 1 .. 9, {4, 5}, 5 .. 7)

\* The packed build with several right rows left over or rows that end within
\* a word.
Leftovers == Rectangles("packed", 1 .. 2, {4, 6, 7}, {4, 5})
=============================================================================
