------------------------------ MODULE MatMulNtT ------------------------------
(***************************************************************************)
(* muriscv_nn_mat_mult_nt_t_s8(), the product the pointwise convolution    *)
(* and the leftovers of the general one are computed with.  It takes       *)
(* blocks of right rows (two, or four in the packed build) times pairs of  *)
(* left rows; an odd left row and the right rows that fill no block are    *)
(* code of their own.  The packed build reads four values as one word, and *)
(* where a row does not start on a word boundary shifts them out of two;   *)
(* how far is looked up once per pair of left rows.                        *)
(*                                                                         *)
(* A result is the record of the channel whose bias and quantization it    *)
(* took and of the products in its sum (see MatrixProduct).  The code adds *)
(* the left offset once per right row instead of once per value, from the  *)
(* same rows.                                                              *)
(***************************************************************************)
EXTENDS Integers

CONSTANTS
  Calls,      \* records of a build, "scalar" (the vector build's code too) or
              \* "packed", and a shape: lhs_rows, rhs_rows and rhs_cols
  Undefined   \* an element nobody wrote yet

ASSUME MmCallsAssumption ==
  Calls \subseteq [build : {"scalar", "packed"},
                  shape : [lhs_rows : Nat \ {0}, rhs_rows : Nat \ {0}, rhs_cols : Nat \ {0}]]

VARIABLES
  shape,
  build,
  pc,
  rhs_rows_idx,   \* first right row of the block
  rhs,            \* that row, relative to the right matrix
  dst,            \* its column, relative to the result
  lhs_rows_idx,   \* pairs of left rows to go
  lhs_ptr,        \* the pair, relative to the left matrix
  dst_ptr,        \* its row of results
  leftover,       \* right rows to go that fill no block
  result          \* the result matrix

dims == <<shape, build>>
vars == <<dims, pc, rhs_rows_idx, rhs, dst, lhs_rows_idx, lhs_ptr, dst_ptr, leftover, result>>

LhsRows == shape.lhs_rows
RhsRows == shape.rhs_rows
Cols    == shape.rhs_cols

Block == IF build = "packed" THEN 4 ELSE 2

\* The values of a row that are read a word at a time.
InWords == IF build = "packed" THEN 0 .. 4 * (Cols \div 4) - 1 ELSE {}

Init ==
  /\ \E call \in Calls : build = call.build /\ shape = call.shape
  /\ pc = "block"
  /\ rhs_rows_idx = 0 /\ rhs = 0 /\ dst = 0
  /\ lhs_rows_idx = 0 /\ lhs_ptr = 0 /\ dst_ptr = 0
  /\ leftover = 0
  /\ result = [i \in 0 .. LhsRows * RhsRows - 1 |-> Undefined]

-----------------------------------------------------------------------------
\* A result behind the matrix would be kept, and make it longer.
Store(results) ==
  result' = [i \in DOMAIN result \cup DOMAIN results |->
    IF i \in DOMAIN results THEN results[i] ELSE result[i]]

Garbage == -1   \* a word shifted by an indeterminate number of bits

(***************************************************************************)
(* How far behind a word boundary the code takes a row to begin: row j of  *)
(* the block; the first and the second row of a pair of left rows, from    *)
(* the parity of a counter that runs down to 0; the odd left row.          *)
(***************************************************************************)
RightAlign(j) ==
  CASE j = 0 -> 0
    [] j = 1 -> Cols % 4
    [] j = 2 -> (Cols % 2) * 2
    [] j = 3 -> (4 - (Cols % 4)) % 4

Align0 == IF lhs_rows_idx % 2 = 1 THEN 0 ELSE RightAlign(2)

\* Mutation of Align1: the two cases of the lookup are exchanged.
Align1Exchanged == IF lhs_rows_idx % 2 = 1 THEN RightAlign(3) ELSE RightAlign(1)

Align1 == IF lhs_rows_idx % 2 = 1 THEN RightAlign(1) ELSE RightAlign(3)

\* Mutation of OddAlign: the lookup of the pairs, with the counter at 0.
OddAlignAsPair == Align0

OddAlign == IF LhsRows % 4 = 1 THEN 0 ELSE RightAlign(2)

\* The second row's number of bits is left uninitialized (the assignment to it
\* names another variable) and used when the row is not aligned.
SecondRowReads == IF build = "packed" /\ Align1 # 0 THEN {TRUE, FALSE} ELSE {TRUE}

\* Mutation of LastBlock: blocks are begun as long as there is a row.
LastBlockRow == RhsRows - 1

\* Mutation of LastBlock: < in place of <= in the loop's condition.
LastBlockStrict == RhsRows - Block - 1

\* The last right row a whole block can begin at.
LastBlock == RhsRows - Block

Begin ==
  /\ pc = "block"
  /\ rhs_rows_idx <= LastBlock
  /\ lhs_ptr' = 0 /\ dst_ptr' = dst
  /\ lhs_rows_idx' = LhsRows \div 2
  /\ pc' = "pair"
  /\ UNCHANGED <<dims, rhs_rows_idx, rhs, dst, leftover, result>>

\* Value k of the pair's first or second row.
Left(intact, row, k) ==
  IF row = 1 /\ ~intact /\ k \in InWords THEN Garbage ELSE lhs_ptr + row * Cols + k

PairResult(intact, row, j) ==
  [channel |-> rhs_rows_idx + j,
   sum |-> {<<rhs + j * Cols + k, Left(intact, row, k)>> : k \in 0 .. Cols - 1}]

PairCells == {dst_ptr + row * RhsRows + j : row \in 0 .. 1, j \in 0 .. Block - 1}

\* The results of one row come before those of the next.
PairResults(intact) ==
  [i \in PairCells |->
     IF i < dst_ptr + Block
     THEN PairResult(intact, 0, i - dst_ptr) ELSE PairResult(intact, 1, i - dst_ptr - RhsRows)]

\* Two left rows times the block.
Pair ==
  /\ pc = "pair"
  /\ lhs_rows_idx > 0
  /\ \E intact \in SecondRowReads : Store(PairResults(intact))
  /\ dst_ptr' = dst_ptr + 2 * RhsRows
  /\ lhs_ptr' = lhs_ptr + 2 * Cols
  /\ lhs_rows_idx' = lhs_rows_idx - 1
  /\ UNCHANGED <<dims, pc, rhs_rows_idx, rhs, dst, leftover>>

\* The odd left row times the block.  The packed code does not move along the
\* right rows for the values behind the last word.
OddRow ==
  LET Right(j, k) == IF build = "packed" /\ k \notin InWords THEN rhs + j * Cols
                     ELSE rhs + j * Cols + k
  IN Store([i \in dst_ptr .. dst_ptr + Block - 1 |->
       [channel |-> rhs_rows_idx + i - dst_ptr,
        sum |-> {<<Right(i - dst_ptr, k), lhs_ptr + k>> : k \in 0 .. Cols - 1}]])

\* Mutation of EndBlock: the odd row is an alternative to the pairs.
EndBlockNoOdd ==
  /\ pc = "pair"
  /\ lhs_rows_idx = 0
  /\ IF LhsRows = 1 THEN OddRow ELSE UNCHANGED result
  /\ rhs_rows_idx' = rhs_rows_idx + Block
  /\ rhs' = rhs + Block * Cols
  /\ dst' = dst + Block
  /\ pc' = "block"
  /\ UNCHANGED <<dims, lhs_rows_idx, lhs_ptr, dst_ptr, leftover>>

EndBlock ==
  /\ pc = "pair"
  /\ lhs_rows_idx = 0
  /\ IF LhsRows % 2 = 1 THEN OddRow ELSE UNCHANGED result
  /\ rhs_rows_idx' = rhs_rows_idx + Block
  /\ rhs' = rhs + Block * Cols
  /\ dst' = dst + Block
  /\ pc' = "block"
  /\ UNCHANGED <<dims, lhs_rows_idx, lhs_ptr, dst_ptr, leftover>>

EndBlocks ==
  /\ pc = "block"
  /\ rhs_rows_idx > LastBlock
  /\ leftover' = RhsRows % Block
  /\ pc' = IF RhsRows % Block = 0 THEN "return" ELSE "leftover"
  /\ UNCHANGED <<dims, rhs_rows_idx, rhs, dst, lhs_rows_idx, lhs_ptr, dst_ptr, result>>

\* Mutation of LastChannel: the first channel behind the blocks before it.
LastChannelBefore == RhsRows - Block

\* The channel the leftover rows take bias and quantization from.
LastChannel == RhsRows - 1

(***************************************************************************)
(* A leftover right row times all left rows.  There is one in the scalar   *)
(* build.  The packed build has up to three and for the next one moves     *)
(* the right pointer by rhs_rows and nothing else.                         *)
(***************************************************************************)
LeftoverRow ==
  /\ pc = "leftover"
  /\ Store([i \in {dst + row * RhsRows : row \in 0 .. LhsRows - 1} |->
       [channel |-> LastChannel,
        sum |-> {<<rhs + k, ((i - dst) \div RhsRows) * Cols + k>> : k \in 0 .. Cols - 1}]])
  /\ rhs' = rhs + RhsRows
  /\ leftover' = leftover - 1
  /\ pc' = IF leftover = 1 THEN "return" ELSE pc
  /\ UNCHANGED <<dims, rhs_rows_idx, dst, lhs_rows_idx, lhs_ptr, dst_ptr>>

-----------------------------------------------------------------------------
Next == Begin \/ Pair \/ EndBlock \/ EndBlocks \/ LeftoverRow

\* The call runs to its return.
Spec == Init /\ [][Next]_vars /\ WF_vars(Next)
-----------------------------------------------------------------------------
(***************************************************************************)
(* Properties                                                              *)
(***************************************************************************)
\* Every variable has its type, and no result is stored behind the matrix.
TypeOK ==
  /\ [build |-> build, shape |-> shape] \in Calls
  /\ pc \in {"block", "pair", "leftover", "return"}
  /\ {rhs_rows_idx, rhs, dst, lhs_rows_idx, lhs_ptr, dst_ptr} \subseteq Nat
  /\ leftover \in 0 .. Block - 1
  /\ result \in [0 .. LhsRows * RhsRows - 1 ->
                   [channel : Nat, sum : SUBSET (Nat \X Int)] \cup {Undefined}]

\* The words of a row that begins at p are read at word boundaries if p is as
\* far behind one as the code takes it to be.
Aligned(p, align) == InWords # {} => (p - align) % 4 = 0

\* In the packed build every word of a block of right rows and of the odd left
\* row is read at, and every word of results that is stored without memcpy is
\* stored at, a word boundary, if the matrices start at one.  Rows need not be
\* whole words: the positions move by counters, the alignments are looked up
\* from the shape.
WordAccess ==
  build = "packed" /\ pc = "pair" =>
    /\ \A j \in 0 .. Block - 1 : Aligned(rhs + j * Cols, RightAlign(j))
    /\ lhs_rows_idx = 0 /\ LhsRows % 2 = 1 => Aligned(lhs_ptr, OddAlign)
    /\ RhsRows % 4 = 0 => dst_ptr % 4 = 0

\* The parity of the pairs to go tells that of the pairs before if there is an odd
\* number of them; it does not matter if rows are whole half-words.
ParityFits == (LhsRows \div 2) % 2 = 1 \/ Cols % 2 = 0

\* In those calls so is every word of a pair of left rows, whose alignment is
\* looked up from the number of pairs that are left.  Four left rows of five
\* columns show that the condition is needed: the first pair begins at 0 and is
\* taken to begin two values behind a boundary.
PairReads ==
  build = "packed" /\ pc = "pair" /\ lhs_rows_idx > 0 /\ ParityFits =>
    Aligned(lhs_ptr, Align0) /\ Aligned(lhs_ptr + Cols, Align1)

Product == INSTANCE MatrixProduct WITH
  dst <- [cell \in (0 .. LhsRows - 1) \X (0 .. RhsRows - 1) |->
            result[cell[1] * RhsRows + cell[2]]]

\* Each element of the result is the sum over its own rows with the bias and the
\* quantization of its own channel, whatever the numbers of rows and columns.
ImplementsProduct == Product!Spec

\* The calls the packed build computes right: rows of whole words, and at most
\* one leftover right row.  The scalar build needs neither.
Supported == build = "packed" => Cols % 4 = 0 /\ RhsRows % 4 \in {0, 1}

\* ImplementsProduct in those calls: an element is right whichever of the blocks,
\* pairs, odd or leftover rows it is computed in, and computed once.
ImplementsSupported ==
  (Supported => Product!Init) /\ [][Supported => Product!Compute]_(Product!vars)

\* In those calls, one that returns has computed the whole matrix: blocks, pairs,
\* the odd row and the leftover row leave none of it out between them.
ReturnsComplete == pc = "return" /\ Supported => Product!Complete

\* The call returns, with a result in every place of the matrix.
Completes == Product!Completes
=============================================================================
