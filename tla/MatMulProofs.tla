---------------------------- MODULE MatMulProofs ----------------------------
(***************************************************************************)
(* Proofs about MatMulNtT, for every set of calls.  Positions holds where  *)
(* the pointers of the code are: products of the loop counters, which the  *)
(* code never multiplies but steps along.  TypeOK follows for every call.  *)
(* That the calls compute the product (ProductRefinement) is proved for    *)
(* those the packed build computes right.                                  *)
(***************************************************************************)
EXTENDS MatMulNtT, RowMajor

\* Pairs of left rows the current block has behind it.
Done == LhsRows \div 2 - lhs_rows_idx

Positions ==
  /\ [build |-> build, shape |-> shape] \in Calls
  /\ pc \in {"block", "pair", "leftover", "return"}
  /\ rhs_rows_idx \in 0 .. RhsRows /\ rhs_rows_idx % Block = 0
  /\ dst = rhs_rows_idx
  /\ {rhs, lhs_ptr, dst_ptr} \subseteq Nat
  /\ lhs_rows_idx \in 0 .. LhsRows \div 2
  /\ leftover \in 0 .. Block - 1
  /\ pc \in {"block", "pair"} => rhs = rhs_rows_idx * Cols
  /\ pc = "pair" =>
       /\ rhs_rows_idx + Block <= RhsRows
       /\ lhs_ptr = (2 * Done) * Cols
       /\ dst_ptr = (2 * Done) * RhsRows + rhs_rows_idx
  /\ pc = "leftover" =>
       /\ rhs_rows_idx + (RhsRows % Block) = RhsRows
       /\ leftover \in 1 .. RhsRows % Block
       /\ leftover = RhsRows % Block => rhs = rhs_rows_idx * Cols

Results == [channel : Nat, sum : SUBSET (Nat \X Int)]
Indices == 0 .. LhsRows * RhsRows - 1

ResultType == result \in [Indices -> Results \cup {Undefined}]

\* The inductive invariant behind TypeOK.
IInv == Positions /\ ResultType

-----------------------------------------------------------------------------
\* The dimensions of a call are positive, its blocks have two or four rows.
LEMMA Dimensions ==
  ASSUME [build |-> build, shape |-> shape] \in Calls
  PROVE  /\ LhsRows \in Nat \ {0} /\ RhsRows \in Nat \ {0} /\ Cols \in Nat \ {0}
         /\ build \in {"scalar", "packed"}
         /\ Block = IF build = "packed" THEN 4 ELSE 2
         /\ Block \in {2, 4}
<1>1. [build |-> build, shape |-> shape]
        \in [build : {"scalar", "packed"},
             shape : [lhs_rows : Nat \ {0}, rhs_rows : Nat \ {0}, rhs_cols : Nat \ {0}]]
  BY MmCallsAssumption
<1>2. build \in {"scalar", "packed"}
      /\ shape \in [lhs_rows : Nat \ {0}, rhs_rows : Nat \ {0}, rhs_cols : Nat \ {0}]
  BY <1>1
<1> QED BY <1>2 DEF LhsRows, RhsRows, Cols, Block

\* What storing results inside the matrix does.
LEMMA StoreInside ==
  ASSUME NEW S, S \subseteq Indices, NEW f \in [S -> Results],
         ResultType, Store(f)
  PROVE  /\ result' \in [Indices -> Results \cup {Undefined}]
         /\ \A i \in Indices : result'[i] = IF i \in S THEN f[i] ELSE result[i]
<1>1. DOMAIN result \cup DOMAIN f = Indices BY DEF ResultType
<1>2. result' = [i \in Indices |-> IF i \in S THEN f[i] ELSE result[i]]
  BY <1>1 DEF Store, ResultType
<1> QED BY <1>2 DEF ResultType

\* A row of the pair, times the row length, is stepped to by adding.
LEMMA Steps ==
  ASSUME NEW q \in Int, NEW n \in Int
  PROVE  /\ (q + 1) * n = q * n + n
         /\ (q + 2) * n = q * n + 2 * n
         /\ (2 * (q + 1)) * n = (2 * q) * n + 2 * n
         /\ q * n \in Int /\ (2 * q) * n \in Int
OBVIOUS

\* The results of a pair are in the matrix, and each is named by its row and
\* column.
LEMMA PairInside ==
  ASSUME Positions, pc = "pair", lhs_rows_idx > 0,
         NEW row \in 0 .. 1, NEW j \in 0 .. Block - 1
  PROVE  /\ dst_ptr + row * RhsRows + j = (2 * Done + row) * RhsRows + (rhs_rows_idx + j)
         /\ 2 * Done + row \in 0 .. LhsRows - 1
         /\ rhs_rows_idx + j \in 0 .. RhsRows - 1
         /\ dst_ptr + row * RhsRows + j \in Indices
<1>1. /\ LhsRows \in Nat \ {0} /\ RhsRows \in Nat \ {0} /\ Cols \in Nat \ {0}
      /\ Block \in {2, 4}
  BY Dimensions DEF Positions
<1>2. Done \in Nat /\ 2 * Done + row \in 0 .. LhsRows - 1
  BY <1>1 DEF Positions, Done
<1>3. rhs_rows_idx + j \in 0 .. RhsRows - 1
  BY <1>1 DEF Positions
<1>4. dst_ptr = (2 * Done) * RhsRows + rhs_rows_idx
  BY DEF Positions
<1>5. (2 * Done + row) * RhsRows = (2 * Done) * RhsRows + row * RhsRows
  BY <1>1, <1>2
<1>6. dst_ptr + row * RhsRows + j = (2 * Done + row) * RhsRows + (rhs_rows_idx + j)
  <2>1. (2 * Done) * RhsRows \in Int /\ row * RhsRows \in Int
    BY <1>1, <1>2
  <2>2. rhs_rows_idx \in Int /\ j \in Int
    BY <1>1 DEF Positions
  <2> QED BY <1>4, <1>5, <2>1, <2>2
<1>7. (2 * Done + row) * RhsRows + (rhs_rows_idx + j) \in 0 .. LhsRows * RhsRows - 1
  BY <1>1, <1>2, <1>3, RowMajorBound
<1> QED BY <1>2, <1>3, <1>6, <1>7 DEF Indices

\* The results of the odd left row are in the last row of the matrix.
LEMMA OddInside ==
  ASSUME Positions, pc = "pair", lhs_rows_idx = 0, LhsRows % 2 = 1,
         NEW j \in 0 .. Block - 1
  PROVE  /\ dst_ptr + j = (2 * Done) * RhsRows + (rhs_rows_idx + j)
         /\ 2 * Done = LhsRows - 1
         /\ rhs_rows_idx + j \in 0 .. RhsRows - 1
         /\ dst_ptr + j \in Indices
<1>1. /\ LhsRows \in Nat \ {0} /\ RhsRows \in Nat \ {0} /\ Cols \in Nat \ {0}
      /\ Block \in {2, 4}
  BY Dimensions DEF Positions
<1>2. Done \in Nat /\ 2 * Done = LhsRows - 1
  BY <1>1 DEF Positions, Done
<1>3. rhs_rows_idx + j \in 0 .. RhsRows - 1
  BY <1>1 DEF Positions
<1>4. dst_ptr + j = (2 * Done) * RhsRows + (rhs_rows_idx + j)
  <2>1. (2 * Done) * RhsRows \in Int
    BY <1>1, <1>2
  <2>2. rhs_rows_idx \in Int /\ j \in Int
    BY <1>1 DEF Positions
  <2> QED BY <2>1, <2>2 DEF Positions
<1>5. (2 * Done) * RhsRows + (rhs_rows_idx + j) \in 0 .. LhsRows * RhsRows - 1
  BY <1>1, <1>2, <1>3, RowMajorBound
<1> QED BY <1>2, <1>3, <1>4, <1>5 DEF Indices

\* The results of a leftover right row are in one column of the matrix.
LEMMA LeftoverInside ==
  ASSUME Positions, pc = "leftover", NEW row \in 0 .. LhsRows - 1
  PROVE  /\ dst + row * RhsRows \in Indices
         /\ dst \in 0 .. RhsRows - 1
<1>1. /\ LhsRows \in Nat \ {0} /\ RhsRows \in Nat \ {0} /\ Block \in {2, 4}
  BY Dimensions DEF Positions
<1>2. RhsRows % Block \in Nat /\ leftover \in 1 .. RhsRows % Block
  BY <1>1 DEF Positions
<1>3. dst \in 0 .. RhsRows - 1
  BY <1>1, <1>2 DEF Positions
<1> QED BY <1>1, <1>3, RowMajorBound DEF Indices

-----------------------------------------------------------------------------
\* No step changes the call.
LEMMA SameCall ==
  ASSUME UNCHANGED dims
  PROVE  /\ build' = build /\ shape' = shape
         /\ LhsRows' = LhsRows /\ RhsRows' = RhsRows /\ Cols' = Cols /\ Block' = Block
         /\ Indices' = Indices
BY DEF dims, LhsRows, RhsRows, Cols, Block, Indices

\* Every initial state satisfies the invariant.
LEMMA InitInvariant == Init => IInv
<1> SUFFICES ASSUME Init PROVE IInv
  OBVIOUS
<1>1. [build |-> build, shape |-> shape] \in Calls
  <2>1. PICK call \in Calls : build = call.build /\ shape = call.shape
    BY DEF Init
  <2>2. call \in [build : {"scalar", "packed"},
                  shape : [lhs_rows : Nat \ {0}, rhs_rows : Nat \ {0}, rhs_cols : Nat \ {0}]]
    BY MmCallsAssumption
  <2>3. call = [build |-> build, shape |-> shape]
    BY <2>1, <2>2
  <2> QED BY <2>3
<1>2. /\ LhsRows \in Nat \ {0} /\ RhsRows \in Nat \ {0} /\ Cols \in Nat \ {0}
      /\ Block \in {2, 4}
  BY <1>1, Dimensions
<1>3. Positions
  <2>1. 0 * Cols = 0
    BY <1>2
  <2> QED BY <1>1, <1>2, <2>1 DEF Init, Positions
<1>4. ResultType
  BY DEF Init, ResultType, Indices
<1> QED BY <1>3, <1>4 DEF IInv

\* Begin puts the pointers at the first pair of left rows.
LEMMA BeginPositions == Positions /\ Begin => Positions'
<1> SUFFICES ASSUME Positions, Begin PROVE Positions'
  OBVIOUS
<1>1. /\ LhsRows \in Nat \ {0} /\ RhsRows \in Nat \ {0} /\ Cols \in Nat \ {0}
      /\ Block \in {2, 4}
  BY Dimensions DEF Positions
<1>2. /\ build' = build /\ shape' = shape
      /\ LhsRows' = LhsRows /\ RhsRows' = RhsRows /\ Cols' = Cols /\ Block' = Block
  BY SameCall DEF Begin
<1>3. Done' = 0
  BY <1>1, <1>2 DEF Done, Begin
<1>4. (2 * Done') * Cols = 0 /\ (2 * Done') * RhsRows = 0
  BY <1>1, <1>3
<1> QED BY <1>1, <1>2, <1>4 DEF Positions, Begin, LastBlock

\* Pair steps the pointers to the next pair of left rows.
LEMMA PairPositions == Positions /\ Pair => Positions'
<1> SUFFICES ASSUME Positions, Pair PROVE Positions'
  OBVIOUS
<1>1. /\ LhsRows \in Nat \ {0} /\ RhsRows \in Nat \ {0} /\ Cols \in Nat \ {0}
      /\ Block \in {2, 4}
  BY Dimensions DEF Positions
<1>2. /\ build' = build /\ shape' = shape
      /\ LhsRows' = LhsRows /\ RhsRows' = RhsRows /\ Cols' = Cols /\ Block' = Block
  BY SameCall DEF Pair
<1>3. /\ pc = "pair" /\ lhs_rows_idx > 0 /\ lhs_rows_idx' = lhs_rows_idx - 1
      /\ dst_ptr' = dst_ptr + 2 * RhsRows /\ lhs_ptr' = lhs_ptr + 2 * Cols
      /\ UNCHANGED <<pc, rhs_rows_idx, rhs, dst, leftover>>
  BY DEF Pair
<1>4. Done \in Nat /\ Done' = Done + 1
  BY <1>1, <1>2, <1>3 DEF Positions, Done
<1>5. /\ (2 * Done') * Cols = (2 * Done) * Cols + 2 * Cols
      /\ (2 * Done') * RhsRows = (2 * Done) * RhsRows + 2 * RhsRows
      /\ (2 * Done) * Cols \in Int /\ (2 * Done) * RhsRows \in Int
  BY <1>1, <1>4, Steps
<1>6. lhs_ptr' = (2 * Done') * Cols /\ dst_ptr' = (2 * Done') * RhsRows + rhs_rows_idx
  BY <1>1, <1>3, <1>5 DEF Positions
<1>7. lhs_ptr' \in Nat /\ dst_ptr' \in Nat
  BY <1>1, <1>3 DEF Positions
<1>8. lhs_rows_idx' \in 0 .. LhsRows \div 2
  BY <1>1, <1>3 DEF Positions
<1> HIDE DEF Done
<1> QED BY <1>1, <1>2, <1>3, <1>6, <1>7, <1>8 DEF Positions

\* EndBlock moves on by a block of right rows.
LEMMA EndBlockPositions == Positions /\ EndBlock => Positions'
<1> SUFFICES ASSUME Positions, EndBlock PROVE Positions'
  OBVIOUS
<1>1. /\ LhsRows \in Nat \ {0} /\ RhsRows \in Nat \ {0} /\ Cols \in Nat \ {0}
      /\ Block \in {2, 4}
  BY Dimensions DEF Positions
<1>2. /\ build' = build /\ shape' = shape
      /\ LhsRows' = LhsRows /\ RhsRows' = RhsRows /\ Cols' = Cols /\ Block' = Block
  BY SameCall DEF EndBlock
<1>3. /\ pc = "pair" /\ pc' = "block"
      /\ rhs_rows_idx' = rhs_rows_idx + Block
      /\ rhs' = rhs + Block * Cols /\ dst' = dst + Block
      /\ UNCHANGED <<lhs_rows_idx, lhs_ptr, dst_ptr, leftover>>
  BY DEF EndBlock
<1>4. /\ (rhs_rows_idx + Block) * Cols = rhs_rows_idx * Cols + Block * Cols
      /\ Block * Cols \in Nat
  BY <1>1 DEF Positions
<1>5. rhs' = rhs_rows_idx' * Cols /\ rhs' \in Nat
  BY <1>3, <1>4 DEF Positions
<1>6. rhs_rows_idx' \in 0 .. RhsRows /\ rhs_rows_idx' % Block = 0
  <2>1. CASE Block = 2 BY <1>1, <1>3, <2>1 DEF Positions
  <2>2. CASE Block = 4 BY <1>1, <1>3, <2>2 DEF Positions
  <2> QED BY <1>1, <2>1, <2>2
<1> QED BY <1>1, <1>2, <1>3, <1>5, <1>6 DEF Positions

\* Behind the last block the right rows left over are those modulo the block.
LEMMA EndBlocksPositions == Positions /\ EndBlocks => Positions'
<1> SUFFICES ASSUME Positions, EndBlocks PROVE Positions'
  OBVIOUS
<1>1. /\ LhsRows \in Nat \ {0} /\ RhsRows \in Nat \ {0} /\ Cols \in Nat \ {0}
      /\ Block \in {2, 4}
  BY Dimensions DEF Positions
<1>2. /\ build' = build /\ shape' = shape
      /\ LhsRows' = LhsRows /\ RhsRows' = RhsRows /\ Cols' = Cols /\ Block' = Block
  BY SameCall DEF EndBlocks
<1>3. rhs_rows_idx + (RhsRows % Block) = RhsRows /\ RhsRows % Block \in 0 .. Block - 1
  <2>1. rhs_rows_idx > RhsRows - Block
    BY DEF EndBlocks, LastBlock
  <2>2. CASE Block = 2 BY <1>1, <2>1, <2>2 DEF Positions
  <2>3. CASE Block = 4 BY <1>1, <2>1, <2>3 DEF Positions
  <2> QED BY <1>1, <2>2, <2>3
<1>4. pc = "block" /\ pc' \in {"return", "leftover"}
      /\ (pc' = "leftover" => RhsRows % Block # 0)
      /\ leftover' = RhsRows % Block
      /\ UNCHANGED <<rhs_rows_idx, rhs, dst, lhs_rows_idx, lhs_ptr, dst_ptr>>
  BY DEF EndBlocks
<1> QED BY <1>1, <1>2, <1>3, <1>4 DEF Positions

\* LeftoverRow counts the leftover rows down.
LEMMA LeftoverPositions == Positions /\ LeftoverRow => Positions'
<1> SUFFICES ASSUME Positions, LeftoverRow PROVE Positions'
  OBVIOUS
<1>1. /\ LhsRows \in Nat \ {0} /\ RhsRows \in Nat \ {0} /\ Cols \in Nat \ {0}
      /\ Block \in {2, 4}
  BY Dimensions DEF Positions
<1>2. /\ build' = build /\ shape' = shape
      /\ LhsRows' = LhsRows /\ RhsRows' = RhsRows /\ Cols' = Cols /\ Block' = Block
  BY SameCall DEF LeftoverRow
<1>3. /\ pc = "leftover" /\ pc' \in {"leftover", "return"}
      /\ (pc' = "leftover" => leftover # 1)
      /\ rhs' = rhs + RhsRows /\ leftover' = leftover - 1
      /\ UNCHANGED <<rhs_rows_idx, dst, lhs_rows_idx, lhs_ptr, dst_ptr>>
  BY DEF LeftoverRow
<1>4. RhsRows % Block \in 0 .. Block - 1 /\ leftover \in 1 .. RhsRows % Block
  BY <1>1, <1>3 DEF Positions
<1> QED BY <1>1, <1>2, <1>3, <1>4 DEF Positions

-----------------------------------------------------------------------------
(* What the actions store, as functions.                                   *)

OddRight(j, k) ==
  IF build = "packed" /\ k \notin InWords THEN rhs + j * Cols ELSE rhs + j * Cols + k

OddSum(j) == {<<OddRight(j, k), lhs_ptr + k>> : k \in 0 .. Cols - 1}

OddResults == [i \in dst_ptr .. dst_ptr + Block - 1 |->
  [channel |-> rhs_rows_idx + i - dst_ptr, sum |-> OddSum(i - dst_ptr)]]

LeftoverCells == {dst + row * RhsRows : row \in 0 .. LhsRows - 1}

LeftoverSum(row) == {<<rhs + k, row * Cols + k>> : k \in 0 .. Cols - 1}

LeftoverResults == [i \in LeftoverCells |->
  [channel |-> LastChannel, sum |-> LeftoverSum((i - dst) \div RhsRows)]]

\* Pair stores the results of its two rows.
LEMMA PairStores == Pair => \E intact \in SecondRowReads : Store(PairResults(intact))
BY DEF Pair

\* The odd row stores the results of one row.
LEMMA OddStores == OddRow => Store(OddResults)
BY DEF OddRow, OddResults, OddSum, OddRight

\* A leftover right row stores a column.
LEMMA LeftoverStores == LeftoverRow => Store(LeftoverResults)
BY DEF LeftoverRow, LeftoverResults, LeftoverSum, LeftoverCells

\* A pair's result is a result.
LEMMA PairResultType ==
  ASSUME Positions, pc = "pair", NEW intact, NEW row \in 0 .. 1, NEW j \in 0 .. Block - 1
  PROVE  PairResult(intact, row, j) \in Results
<1>1. RhsRows \in Nat /\ Cols \in Nat \ {0} /\ Block \in {2, 4}
  BY Dimensions DEF Positions
<1>2. j \in Nat /\ row \in Nat /\ rhs \in Nat /\ lhs_ptr \in Nat /\ rhs_rows_idx \in Nat
  BY <1>1 DEF Positions
<1>3. j * Cols \in Nat /\ row * Cols \in Nat
  BY <1>1, <1>2
<1>4. ASSUME NEW k \in 0 .. Cols - 1
      PROVE  <<rhs + j * Cols + k, Left(intact, row, k)>> \in Nat \X Int
  <2>1. rhs + j * Cols + k \in Nat BY <1>1, <1>2, <1>3
  <2>2. lhs_ptr + row * Cols + k \in Int BY <1>1, <1>2, <1>3
  <2>3. Left(intact, row, k) \in Int BY <2>2 DEF Left, Garbage
  <2> QED BY <2>1, <2>3
<1>5. rhs_rows_idx + j \in Nat BY <1>2
<1> QED BY <1>4, <1>5 DEF PairResult, Results

\* The odd row's results are results.
LEMMA OddValueType ==
  ASSUME Positions, pc = "pair", NEW i \in dst_ptr .. dst_ptr + Block - 1
  PROVE  OddResults[i] \in Results
<1>1. RhsRows \in Nat /\ Cols \in Nat \ {0} /\ Block \in {2, 4}
  BY Dimensions DEF Positions
<1>2. i - dst_ptr \in Nat /\ rhs \in Nat /\ lhs_ptr \in Nat /\ rhs_rows_idx \in Nat
      /\ dst_ptr \in Nat
  BY <1>1 DEF Positions
<1>3. (i - dst_ptr) * Cols \in Nat
  BY <1>1, <1>2
<1>4. ASSUME NEW k \in 0 .. Cols - 1
      PROVE  <<OddRight(i - dst_ptr, k), lhs_ptr + k>> \in Nat \X Int
  <2>1. OddRight(i - dst_ptr, k) \in Nat BY <1>1, <1>2, <1>3 DEF OddRight
  <2> QED BY <1>1, <1>2, <2>1
<1>5. rhs_rows_idx + i - dst_ptr \in Nat BY <1>2
<1> QED BY <1>4, <1>5 DEF OddResults, OddSum, Results

\* The leftover results are results.
LEMMA LeftoverValueType ==
  ASSUME Positions, pc = "leftover", NEW i \in LeftoverCells
  PROVE  LeftoverResults[i] \in Results
<1>1. RhsRows \in Nat \ {0} /\ Cols \in Nat \ {0} /\ LhsRows \in Nat \ {0}
  BY Dimensions DEF Positions
<1>2. PICK row \in 0 .. LhsRows - 1 : i = dst + row * RhsRows
  BY DEF LeftoverCells
<1>3. dst \in Nat /\ rhs \in Nat /\ i - dst \in Int
  BY <1>1, <1>2 DEF Positions
<1>4. (i - dst) \div RhsRows \in Int
  BY <1>1, <1>3
<1>5. ((i - dst) \div RhsRows) * Cols \in Int
  BY <1>1, <1>4
<1>6. ASSUME NEW k \in 0 .. Cols - 1
      PROVE  <<rhs + k, ((i - dst) \div RhsRows) * Cols + k>> \in Nat \X Int
  <2> DEFINE base == ((i - dst) \div RhsRows) * Cols
  <2>1. base \in Int BY <1>5
  <2> HIDE DEF base
  <2>2. base + k \in Int /\ rhs + k \in Nat BY <1>1, <1>3, <2>1
  <2> QED BY <2>2 DEF base
<1>7. LastChannel \in Nat BY <1>1 DEF LastChannel
<1> QED BY <1>6, <1>7 DEF LeftoverResults, LeftoverSum, Results

-----------------------------------------------------------------------------
\* Pair stores results inside the matrix.
LEMMA PairStored ==
  ASSUME IInv, Pair
  PROVE  \E intact \in SecondRowReads :
           /\ PairCells \subseteq Indices
           /\ PairResults(intact) \in [PairCells -> Results]
           /\ Store(PairResults(intact))
<1>1. PICK intact \in SecondRowReads : Store(PairResults(intact))
  BY PairStores
<1>2. pc = "pair" /\ lhs_rows_idx > 0
  BY DEF Pair
<1>3. RhsRows \in Nat \ {0} /\ Cols \in Nat \ {0} /\ Block \in {2, 4} /\ dst_ptr \in Nat
      /\ rhs_rows_idx \in Nat /\ rhs_rows_idx + Block <= RhsRows
  BY <1>2, Dimensions DEF IInv, Positions
<1>4. PairCells \subseteq Indices
  BY <1>2, PairInside DEF IInv, PairCells
<1>5. ASSUME NEW i \in PairCells PROVE PairResults(intact)[i] \in Results
  <2>1. PICK row \in 0 .. 1, j \in 0 .. Block - 1 : i = dst_ptr + row * RhsRows + j
    BY DEF PairCells
  <2>2. CASE row = 0
    <3>1. i = dst_ptr + j /\ j \in Int BY <1>3, <2>1, <2>2
    <3>2. i < dst_ptr + Block /\ i - dst_ptr = j BY <1>3, <3>1
    <3>3. PairResults(intact)[i] = PairResult(intact, 0, j) BY <3>2 DEF PairResults
    <3> QED BY <1>2, <3>3, PairResultType DEF IInv
  <2>3. CASE row = 1
    <3>1. i = dst_ptr + RhsRows + j /\ j \in Nat BY <1>3, <2>1, <2>3
    <3>2. ~(i < dst_ptr + Block) /\ i - dst_ptr - RhsRows = j BY <1>3, <3>1
    <3>3. PairResults(intact)[i] = PairResult(intact, 1, j) BY <3>2 DEF PairResults
    <3> QED BY <1>2, <3>3, PairResultType DEF IInv
  <2> QED BY <2>2, <2>3
<1>6. PairResults(intact) \in [PairCells -> Results]
  BY <1>5 DEF PairResults
<1> QED BY <1>1, <1>4, <1>6

\* So does the odd row.
LEMMA OddStored ==
  ASSUME IInv, pc = "pair", lhs_rows_idx = 0, LhsRows % 2 = 1, OddRow
  PROVE  /\ dst_ptr .. dst_ptr + Block - 1 \subseteq Indices
         /\ OddResults \in [dst_ptr .. dst_ptr + Block - 1 -> Results]
         /\ Store(OddResults)
<1>1. Block \in {2, 4} /\ dst_ptr \in Nat
  BY Dimensions DEF IInv, Positions
<1>2. ASSUME NEW i \in dst_ptr .. dst_ptr + Block - 1 PROVE i \in Indices
  <2>1. i - dst_ptr \in 0 .. Block - 1 /\ dst_ptr + (i - dst_ptr) = i BY <1>1
  <2>2. dst_ptr + (i - dst_ptr) \in Indices BY <2>1, OddInside DEF IInv
  <2> QED BY <2>1, <2>2
<1>3. OddResults \in [dst_ptr .. dst_ptr + Block - 1 -> Results]
  BY OddValueType DEF IInv, OddResults
<1> QED BY <1>2, <1>3, OddStores

\* And a leftover right row.
LEMMA LeftoverStored ==
  ASSUME IInv, LeftoverRow
  PROVE  /\ LeftoverCells \subseteq Indices
         /\ LeftoverResults \in [LeftoverCells -> Results]
         /\ Store(LeftoverResults)
<1>1. pc = "leftover"
  BY DEF LeftoverRow
<1>2. LeftoverCells \subseteq Indices
  BY <1>1, LeftoverInside DEF IInv, LeftoverCells
<1>3. LeftoverResults \in [LeftoverCells -> Results]
  BY <1>1, LeftoverValueType DEF IInv, LeftoverResults
<1> QED BY <1>2, <1>3, LeftoverStores

\* Every step keeps the invariant.
LEMMA StepInvariant == IInv /\ [Next]_vars => IInv'
<1> SUFFICES ASSUME IInv, [Next]_vars PROVE IInv'
  OBVIOUS
<1>1. CASE Begin
  <2>1. UNCHANGED <<dims, result>> BY <1>1 DEF Begin
  <2>2. ResultType' BY <2>1, SameCall DEF IInv, ResultType
  <2> QED BY <1>1, <2>2, BeginPositions DEF IInv
<1>2. CASE Pair
  <2>1. UNCHANGED dims BY <1>2 DEF Pair
  <2>2. PICK intact \in SecondRowReads :
          /\ PairCells \subseteq Indices
          /\ PairResults(intact) \in [PairCells -> Results]
          /\ Store(PairResults(intact))
    BY <1>2, PairStored
  <2>3. result' \in [Indices -> Results \cup {Undefined}]
    BY <2>2, StoreInside DEF IInv
  <2>4. ResultType' BY <2>1, <2>3, SameCall DEF ResultType
  <2> QED BY <1>2, <2>4, PairPositions DEF IInv
<1>3. CASE EndBlock
  <2>1. UNCHANGED dims /\ pc = "pair" /\ lhs_rows_idx = 0 BY <1>3 DEF EndBlock
  <2>2. ResultType'
    <3>1. CASE LhsRows % 2 = 1
      <4>1. OddRow BY <1>3, <3>1 DEF EndBlock
      <4>2. result' \in [Indices -> Results \cup {Undefined}]
        BY <2>1, <3>1, <4>1, OddStored, StoreInside DEF IInv
      <4> QED BY <2>1, <4>2, SameCall DEF ResultType
    <3>2. CASE LhsRows % 2 # 1
      <4>1. UNCHANGED result BY <1>3, <3>2 DEF EndBlock
      <4> QED BY <2>1, <4>1, SameCall DEF IInv, ResultType
    <3> QED BY <3>1, <3>2
  <2> QED BY <1>3, <2>2, EndBlockPositions DEF IInv
<1>4. CASE EndBlocks
  <2>1. UNCHANGED <<dims, result>> BY <1>4 DEF EndBlocks
  <2>2. ResultType' BY <2>1, SameCall DEF IInv, ResultType
  <2> QED BY <1>4, <2>2, EndBlocksPositions DEF IInv
<1>5. CASE LeftoverRow
  <2>1. UNCHANGED dims BY <1>5 DEF LeftoverRow
  <2>2. result' \in [Indices -> Results \cup {Undefined}]
    BY <1>5, LeftoverStored, StoreInside DEF IInv
  <2>3. ResultType' BY <2>1, <2>2, SameCall DEF ResultType
  <2> QED BY <1>5, <2>3, LeftoverPositions DEF IInv
<1>6. CASE UNCHANGED vars
  <2>1. UNCHANGED dims BY <1>6 DEF vars
  <2>2. Done' = Done BY <1>6, <2>1, SameCall DEF vars, Done
  <2> QED BY <1>6, <2>1, <2>2, SameCall DEF vars, IInv, Positions, ResultType
<1> QED BY <1>1, <1>2, <1>3, <1>4, <1>5, <1>6 DEF Next

\* The invariant is one.
LEMMA Invariance == Spec => []IInv
BY InitInvariant, StepInvariant, PTL DEF Spec

\* For every set of calls, in both builds and for all numbers of rows and
\* columns, muriscv_nn_mat_mult_nt_t_s8 stores results inside the matrix only.
THEOREM TypeCorrect == Spec => []TypeOK
<1>1. IInv => TypeOK
  <2> SUFFICES ASSUME IInv PROVE TypeOK
    OBVIOUS
  <2>1. Block \in {2, 4} /\ RhsRows \in Nat
    BY Dimensions DEF IInv, Positions
  <2>2. {rhs_rows_idx, rhs, dst, lhs_rows_idx, lhs_ptr, dst_ptr} \subseteq Nat
    BY <2>1 DEF IInv, Positions
  <2> QED BY <2>2 DEF IInv, Positions, ResultType, Results, Indices, TypeOK
<1> QED BY <1>1, Invariance, PTL

-----------------------------------------------------------------------------
(***************************************************************************)
(* Word boundaries.  Rows need not be whole words: what the code looks up  *)
(* from the shape has to be what the positions come to.                    *)
(***************************************************************************)
\* A multiple of a row of whole words is one of whole words.
LEMMA WholeWords ==
  ASSUME NEW q \in Nat, NEW n \in Nat, n % 4 = 0
  PROVE  (q * n) % 4 = 0
<1>1. PICK m \in Nat : n = 4 * m
  <2>1. n \div 4 \in Nat /\ n = 4 * (n \div 4) OBVIOUS
  <2> QED BY <2>1
<1>2. PICK p \in Nat : q * n = 4 * p
  <2>1. q * n = 4 * (q * m) /\ q * m \in Nat BY <1>1
  <2> QED BY <2>1
<1>3. (4 * p) % 4 = 0 OBVIOUS
<1> QED BY <1>2, <1>3

\* Of four rows of n values from a boundary on, the code knows where each begins.
LEMMA FourRows ==
  ASSUME NEW p \in Nat, p % 4 = 0, NEW n \in Nat
  PROVE  /\ (p - 0) % 4 = 0
         /\ ((p + n) - (n % 4)) % 4 = 0
         /\ ((p + 2 * n) - ((n % 2) * 2)) % 4 = 0
         /\ ((p + 3 * n) - ((4 - (n % 4)) % 4)) % 4 = 0
<1>1. PICK q \in Nat : p = 4 * q
  <2>1. p \div 4 \in Nat /\ p = 4 * (p \div 4) OBVIOUS
  <2> QED BY <2>1
<1>2. PICK m \in Nat, r \in 0 .. 3 : n = 4 * m + r
  <2>1. n \div 4 \in Nat /\ n % 4 \in 0 .. 3 /\ n = 4 * (n \div 4) + (n % 4) OBVIOUS
  <2> QED BY <2>1
<1>3. n % 4 = r /\ n % 2 = r % 2 BY <1>2
<1>4. CASE r = 0 BY <1>1, <1>2, <1>3, <1>4
<1>5. CASE r = 1 BY <1>1, <1>2, <1>3, <1>5
<1>6. CASE r = 2 BY <1>1, <1>2, <1>3, <1>6
<1>7. CASE r = 3 BY <1>1, <1>2, <1>3, <1>7
<1> QED BY <1>2, <1>4, <1>5, <1>6, <1>7

\* Row 2 * d of a matrix begins at a boundary if d is even, or two rows behind one.
LEMMA PairBegins ==
  ASSUME NEW d \in Nat, NEW n \in Nat
  PROVE  /\ d % 2 = 0 => ((2 * d) * n) % 4 = 0
         /\ d % 2 = 1 => \E p \in Nat : p % 4 = 0 /\ (2 * d) * n = p + 2 * n
         /\ n % 2 = 0 => ((2 * d) * n) % 4 = 0
<1>1. ASSUME NEW e \in Nat PROVE (4 * e) % 4 = 0
  OBVIOUS
<1>2. ASSUME d % 2 = 0 PROVE ((2 * d) * n) % 4 = 0
  <2>1. PICK e \in Nat : d = 2 * e
    <3>1. d \div 2 \in Nat /\ d = 2 * (d \div 2) BY <1>2
    <3> QED BY <3>1
  <2>2. (2 * d) * n = 4 * (e * n) /\ e * n \in Nat BY <2>1
  <2> QED BY <1>1, <2>2
<1>3. ASSUME d % 2 = 1 PROVE \E p \in Nat : p % 4 = 0 /\ (2 * d) * n = p + 2 * n
  <2>1. PICK e \in Nat : d = 2 * e + 1
    <3>1. d \div 2 \in Nat /\ d = 2 * (d \div 2) + 1 BY <1>3
    <3> QED BY <3>1
  <2>2. (2 * d) * n = 4 * (e * n) + 2 * n /\ e * n \in Nat BY <2>1
  <2>3. 4 * (e * n) \in Nat BY <2>2
  <2>4. (4 * (e * n)) % 4 = 0 BY <1>1, <2>2
  <2> QED BY <2>2, <2>3, <2>4
<1>4. ASSUME n % 2 = 0 PROVE ((2 * d) * n) % 4 = 0
  <2>1. PICK m \in Nat : n = 2 * m
    <3>1. n \div 2 \in Nat /\ n = 2 * (n \div 2) BY <1>4
    <3> QED BY <3>1
  <2>2. (2 * d) * n = 4 * (d * m) /\ d * m \in Nat BY <2>1
  <2> QED BY <1>1, <2>2
<1> QED BY <1>2, <1>3, <1>4

\* The block's right rows begin where the code takes them to begin.
LEMMA RightRows ==
  ASSUME Positions, build = "packed", pc = "pair", NEW j \in 0 .. 3
  PROVE  ((rhs + j * Cols) - RightAlign(j)) % 4 = 0
<1>1. RhsRows \in Nat /\ Cols \in Nat /\ Block = 4
  BY Dimensions DEF Positions
<1>2. rhs \in Nat /\ rhs % 4 = 0
  <2>1. rhs_rows_idx \in Nat /\ rhs_rows_idx % 4 = 0 BY <1>1 DEF Positions
  <2>2. rhs = Cols * rhs_rows_idx BY <1>1, <2>1 DEF Positions
  <2> QED BY <1>1, <2>1, <2>2, WholeWords DEF Positions
<1>3. PICK p \in Nat, n \in Nat : p = rhs /\ n = Cols
  BY <1>1, <1>2
<1>4. /\ (p - 0) % 4 = 0
      /\ ((p + n) - (n % 4)) % 4 = 0
      /\ ((p + 2 * n) - ((n % 2) * 2)) % 4 = 0
      /\ ((p + 3 * n) - ((4 - (n % 4)) % 4)) % 4 = 0
  BY <1>2, <1>3, FourRows
<1>5. CASE j = 0 BY <1>3, <1>4, <1>5 DEF RightAlign
<1>6. CASE j = 1 BY <1>3, <1>4, <1>6 DEF RightAlign
<1>7. CASE j = 2 BY <1>3, <1>4, <1>7 DEF RightAlign
<1>8. CASE j = 3 BY <1>3, <1>4, <1>8 DEF RightAlign
<1> QED BY <1>5, <1>6, <1>7, <1>8

\* The odd left row begins where the code takes it to begin.
LEMMA OddLeftRow ==
  ASSUME Positions, build = "packed", pc = "pair", lhs_rows_idx = 0, LhsRows % 2 = 1
  PROVE  (lhs_ptr - OddAlign) % 4 = 0
<1>1. LhsRows \in Nat /\ Cols \in Nat
  BY Dimensions DEF Positions
<1>2. Done = LhsRows \div 2 /\ Done \in Nat
  BY <1>1 DEF Done
<1>3. lhs_ptr = (2 * Done) * Cols /\ lhs_ptr \in Nat
  BY DEF Positions
<1>4. PICK d \in Nat, n \in Nat : d = Done /\ n = Cols
  BY <1>1, <1>2
<1>5. CASE LhsRows % 4 = 1
  <2>1. d % 2 = 0 BY <1>1, <1>2, <1>4, <1>5
  <2>2. lhs_ptr % 4 = 0 BY <1>3, <1>4, <2>1, PairBegins
  <2> QED BY <1>3, <1>5, <2>2 DEF OddAlign
<1>6. CASE LhsRows % 4 = 3
  <2>1. d % 2 = 1 BY <1>1, <1>2, <1>4, <1>6
  <2>2. PICK p \in Nat : p % 4 = 0 /\ (2 * d) * n = p + 2 * n
    BY <2>1, PairBegins
  <2>3. ((p + 2 * n) - ((n % 2) * 2)) % 4 = 0
    BY <2>2, FourRows
  <2>4. OddAlign = (n % 2) * 2
    BY <1>4, <1>6 DEF OddAlign, RightAlign
  <2> QED BY <1>3, <1>4, <2>2, <2>3, <2>4
<1>7. LhsRows % 4 \in {1, 3}
  BY <1>1
<1> QED BY <1>5, <1>6, <1>7

\* For all calls, with rows of any length, the packed build reads the right rows
\* and the odd left row, and stores whole words of results, at word boundaries
\* only.
THEOREM WordBoundaries == Spec => []WordAccess
<1>1. IInv => WordAccess
  <2> SUFFICES ASSUME IInv, build = "packed", pc = "pair"
               PROVE  /\ \A j \in 0 .. Block - 1 : Aligned(rhs + j * Cols, RightAlign(j))
                      /\ lhs_rows_idx = 0 /\ LhsRows % 2 = 1 => Aligned(lhs_ptr, OddAlign)
                      /\ RhsRows % 4 = 0 => dst_ptr % 4 = 0
    BY DEF WordAccess
  <2>1. /\ LhsRows \in Nat /\ RhsRows \in Nat /\ Cols \in Nat /\ Block = 4
    BY Dimensions DEF IInv, Positions
  <2>2. \A j \in 0 .. Block - 1 : Aligned(rhs + j * Cols, RightAlign(j))
    BY <2>1, RightRows DEF IInv, Aligned
  <2>3. lhs_rows_idx = 0 /\ LhsRows % 2 = 1 => Aligned(lhs_ptr, OddAlign)
    BY OddLeftRow DEF IInv, Aligned
  <2>4. ASSUME RhsRows % 4 = 0 PROVE dst_ptr % 4 = 0
    <3>1. 2 * Done \in Nat
      BY <2>1 DEF IInv, Positions, Done
    <3>2. ((2 * Done) * RhsRows) % 4 = 0 BY <2>1, <3>1, <2>4, WholeWords
    <3>3. (2 * Done) * RhsRows \in Nat BY <2>1, <3>1
    <3>4. dst_ptr = (2 * Done) * RhsRows + rhs_rows_idx BY DEF IInv, Positions
    <3>5. rhs_rows_idx \in Nat /\ rhs_rows_idx % 4 = 0 BY <2>1 DEF IInv, Positions
    <3> QED BY <3>2, <3>3, <3>4, <3>5
  <2> QED BY <2>2, <2>3, <2>4
<1> QED BY <1>1, Invariance, PTL

\* Both rows of a pair begin where the code takes them to begin.
LEMMA PairRows ==
  ASSUME Positions, pc = "pair", lhs_rows_idx > 0,
         ParityFits
  PROVE  (lhs_ptr - Align0) % 4 = 0 /\ ((lhs_ptr + Cols) - Align1) % 4 = 0
<1>1. LhsRows \in Nat /\ Cols \in Nat
  BY Dimensions DEF Positions
<1>2. Done \in Nat /\ lhs_rows_idx \in Nat /\ Done + lhs_rows_idx = LhsRows \div 2
  BY <1>1 DEF Done, Positions
<1>3. lhs_ptr = (2 * Done) * Cols /\ lhs_ptr \in Nat
  BY DEF Positions
<1>4. PICK d \in Nat, n \in Nat, left \in Nat :
        d = Done /\ n = Cols /\ left = lhs_rows_idx /\ d + left = LhsRows \div 2
  BY <1>1, <1>2
<1>0. (d + left) % 2 = 1 \/ n % 2 = 0
  BY <1>4 DEF ParityFits
<1>5. /\ Align0 = IF left % 2 = 1 THEN 0 ELSE (n % 2) * 2
      /\ Align1 = IF left % 2 = 1 THEN n % 4 ELSE (4 - (n % 4)) % 4
  <2>1. RightAlign(1) = n % 4 /\ RightAlign(2) = (n % 2) * 2
        /\ RightAlign(3) = (4 - (n % 4)) % 4
    BY <1>4 DEF RightAlign
  <2> QED BY <1>4, <2>1 DEF Align0, Align1
<1>6. CASE n % 2 = 0
  <2>1. lhs_ptr % 4 = 0 BY <1>3, <1>4, <1>6, PairBegins
  <2>2. PICK p \in Nat : p = lhs_ptr BY <1>3
  <2>3. (p - 0) % 4 = 0 /\ ((p + n) - (n % 4)) % 4 = 0
    BY <2>1, <2>2, FourRows
  <2>4. n % 4 = (4 - (n % 4)) % 4 /\ (n % 2) * 2 = 0
    BY <1>6
  <2> QED BY <1>4, <1>5, <2>2, <2>3, <2>4
<1>7. CASE n % 2 # 0 /\ d % 2 = 0
  <2>1. (d + left) % 2 = 1 BY <1>0, <1>4, <1>7
  <2>2. left % 2 = 1 BY <1>7, <2>1
  <2>3. lhs_ptr % 4 = 0 BY <1>3, <1>4, <1>7, PairBegins
  <2>4. PICK p \in Nat : p = lhs_ptr BY <1>3
  <2>5. (p - 0) % 4 = 0 /\ ((p + n) - (n % 4)) % 4 = 0
    BY <2>3, <2>4, FourRows
  <2> QED BY <1>4, <1>5, <2>2, <2>4, <2>5
<1>8. CASE n % 2 # 0 /\ d % 2 = 1
  <2>1. (d + left) % 2 = 1 BY <1>0, <1>4, <1>8
  <2>2. left % 2 # 1 BY <1>8, <2>1
  <2>3. PICK p \in Nat : p % 4 = 0 /\ (2 * d) * n = p + 2 * n
    BY <1>8, PairBegins
  <2>4. /\ ((p + 2 * n) - ((n % 2) * 2)) % 4 = 0
        /\ ((p + 3 * n) - ((4 - (n % 4)) % 4)) % 4 = 0
    BY <2>3, FourRows
  <2>5. lhs_ptr = p + 2 * n /\ lhs_ptr + Cols = p + 3 * n
    BY <1>3, <1>4, <2>3
  <2> QED BY <1>5, <2>2, <2>4, <2>5
<1>9. d % 2 \in {0, 1}
  OBVIOUS
<1> QED BY <1>6, <1>7, <1>8, <1>9

\* For all calls with an odd number of pairs or an even number of columns, the
\* packed build reads the pairs of left rows at word boundaries only.
THEOREM PairBoundaries == Spec => []PairReads
<1>1. IInv => PairReads
  BY PairRows DEF PairReads, Aligned, IInv
<1> QED BY <1>1, Invariance, PTL

-----------------------------------------------------------------------------
\* What the element of a row and a column of the result should be.
Val(row, col) ==
  [channel |-> col, sum |-> {<<col * Cols + k, row * Cols + k>> : k \in 0 .. Cols - 1}]

\* The elements the code is done with.
Computed(row, col) ==
  \/ pc = "return"
  \/ col < rhs_rows_idx
  \/ pc = "pair" /\ col < rhs_rows_idx + Block /\ row < 2 * Done

At(row, col) == row * RhsRows + col

\* Those are what they should be, and nothing is stored where it is not done.
Filled ==
  \A row \in 0 .. LhsRows - 1, col \in 0 .. RhsRows - 1 :
    result[At(row, col)] = IF Computed(row, col) THEN Val(row, col) ELSE Undefined

\* A step stores the elements it gets done with and no others.
Stepped(row, col) ==
  /\ Computed(row, col) => Computed(row, col)'
  /\ result'[At(row, col)] = IF Computed(row, col)' /\ ~Computed(row, col)
                              THEN Val(row, col) ELSE result[At(row, col)]

\* Every element has its place in the flat result.
LEMMA Places ==
  ASSUME Positions, NEW row \in 0 .. LhsRows - 1, NEW col \in 0 .. RhsRows - 1
  PROVE  /\ At(row, col) \in Indices
         /\ \A row2 \in 0 .. LhsRows - 1, col2 \in 0 .. RhsRows - 1 :
              At(row, col) = At(row2, col2) => row = row2 /\ col = col2
<1>1. LhsRows \in Nat \ {0} /\ RhsRows \in Nat \ {0}
  BY Dimensions DEF Positions
<1>2. At(row, col) \in Indices
  BY <1>1, RowMajorBound DEF At, Indices
<1>3. ASSUME NEW row2 \in 0 .. LhsRows - 1, NEW col2 \in 0 .. RhsRows - 1,
             At(row, col) = At(row2, col2)
      PROVE  row = row2 /\ col = col2
  <2>1. row \in Nat /\ row2 \in Nat BY <1>1
  <2> QED BY <1>1, <1>3, <2>1, RowMajorUnique DEF At
<1> QED BY <1>2, <1>3

\* A supported pair's result is the one it should be.
LEMMA PairValue ==
  ASSUME Positions, Supported, pc = "pair", lhs_rows_idx > 0,
         NEW intact \in SecondRowReads, NEW r \in 0 .. 1, NEW j \in 0 .. Block - 1
  PROVE  PairResult(intact, r, j) = Val(2 * Done + r, rhs_rows_idx + j)
<1>1. /\ LhsRows \in Nat /\ RhsRows \in Nat /\ Cols \in Nat \ {0} /\ Block \in {2, 4}
  BY Dimensions DEF Positions
<1>2. intact = TRUE
  <2>1. CASE build = "packed"
    <3>1. Align1 = 0 BY <1>1, <2>1 DEF Supported, Align1, RightAlign
    <3> QED BY <3>1 DEF SecondRowReads
  <2>2. CASE build # "packed"
    BY <2>2 DEF SecondRowReads
  <2> QED BY <2>1, <2>2
<1>3. Done \in Nat /\ rhs_rows_idx \in Nat /\ j \in Nat /\ r \in Nat
  BY <1>1 DEF Positions, Done
<1>4. rhs + j * Cols = (rhs_rows_idx + j) * Cols
  BY <1>1, <1>3 DEF Positions
<1>5. lhs_ptr + r * Cols = (2 * Done + r) * Cols
  BY <1>1, <1>3 DEF Positions
<1>6. \A k : Left(intact, r, k) = lhs_ptr + r * Cols + k
  BY <1>2 DEF Left
<1> QED BY <1>4, <1>5, <1>6 DEF PairResult, Val

\* So is the odd row's.
LEMMA OddValue ==
  ASSUME Positions, Supported, pc = "pair", lhs_rows_idx = 0, LhsRows % 2 = 1,
         NEW j \in 0 .. Block - 1
  PROVE  OddResults[dst_ptr + j] = Val(LhsRows - 1, rhs_rows_idx + j)
<1>1. /\ LhsRows \in Nat /\ RhsRows \in Nat /\ Cols \in Nat \ {0} /\ Block \in {2, 4}
  BY Dimensions DEF Positions
<1>2. rhs_rows_idx \in Nat /\ j \in Nat /\ dst_ptr \in Nat
  BY <1>1 DEF Positions
<1>3. dst_ptr + j \in dst_ptr .. dst_ptr + Block - 1 /\ dst_ptr + j - dst_ptr = j
      /\ rhs_rows_idx + (dst_ptr + j) - dst_ptr = rhs_rows_idx + j
  BY <1>1, <1>2
<1>4. rhs + j * Cols = (rhs_rows_idx + j) * Cols
  BY <1>1, <1>2 DEF Positions
<1>5. lhs_ptr = (LhsRows - 1) * Cols
  <2>1. 2 * Done = LhsRows - 1 BY OddInside
  <2> QED BY <2>1 DEF Positions
<1>6. \A k \in 0 .. Cols - 1 : OddRight(j, k) = rhs + j * Cols + k
  <2>1. build = "packed" => 4 * (Cols \div 4) = Cols BY <1>1 DEF Supported
  <2> QED BY <2>1 DEF OddRight, InWords
<1>7. OddResults[dst_ptr + j] = [channel |-> rhs_rows_idx + j, sum |-> OddSum(j)]
  BY <1>1, <1>2, <1>3 DEF OddResults
<1>8. OddSum(j)
        = {<<(rhs_rows_idx + j) * Cols + k, (LhsRows - 1) * Cols + k>> : k \in 0 .. Cols - 1}
  BY <1>4, <1>5, <1>6 DEF OddSum
<1> QED BY <1>7, <1>8 DEF Val

\* And that of the single leftover right row.
LEMMA LeftoverValue ==
  ASSUME Positions, Supported, pc = "leftover", NEW row \in 0 .. LhsRows - 1
  PROVE  /\ leftover = 1 /\ dst = RhsRows - 1
         /\ LeftoverResults[dst + row * RhsRows] = Val(row, RhsRows - 1)
<1>1. /\ LhsRows \in Nat \ {0} /\ RhsRows \in Nat \ {0} /\ Cols \in Nat \ {0} /\ Block \in {2, 4}
      /\ Block = IF build = "packed" THEN 4 ELSE 2
  BY Dimensions DEF Positions
<1>2. leftover = 1 /\ RhsRows % Block = 1
  BY <1>1 DEF Positions, Supported
<1>3. rhs_rows_idx = RhsRows - 1 /\ dst = RhsRows - 1 /\ rhs = (RhsRows - 1) * Cols
  BY <1>1, <1>2 DEF Positions
<1>4. PICK i \in LeftoverCells : i = dst + row * RhsRows
  BY DEF LeftoverCells
<1>5. (i - dst) \div RhsRows = row
  <2>1. row * RhsRows \in Int /\ dst \in Int BY <1>1, <1>3
  <2>2. i - dst = row * RhsRows BY <1>4, <2>1
  <2>3. (row * RhsRows) \div RhsRows = row BY <1>1
  <2> QED BY <2>2, <2>3
<1>6. LeftoverResults[i] = [channel |-> LastChannel, sum |-> LeftoverSum(row)]
  BY <1>5 DEF LeftoverResults
<1> QED BY <1>2, <1>3, <1>4, <1>6 DEF Val, LastChannel, LeftoverSum

-----------------------------------------------------------------------------
\* Pair computes the elements of its two rows and the block's columns.
LEMMA PairSteps ==
  ASSUME IInv, Supported, Pair,
         NEW row \in 0 .. LhsRows - 1, NEW col \in 0 .. RhsRows - 1
  PROVE  Stepped(row, col)
<1>1. /\ LhsRows \in Nat /\ RhsRows \in Nat \ {0} /\ Block \in {2, 4}
  BY Dimensions DEF IInv, Positions
<1>2. /\ pc = "pair" /\ lhs_rows_idx > 0 /\ lhs_rows_idx' = lhs_rows_idx - 1
      /\ UNCHANGED <<dims, pc, rhs_rows_idx>>
  BY DEF Pair
<1>3. LhsRows' = LhsRows /\ Block' = Block
  BY <1>2, SameCall
<1>4. Done \in Nat /\ Done' = Done + 1 /\ rhs_rows_idx \in Nat
  BY <1>1, <1>2, <1>3 DEF IInv, Positions, Done
<1>5. PICK intact \in SecondRowReads :
        /\ PairCells \subseteq Indices
        /\ PairResults(intact) \in [PairCells -> Results]
        /\ Store(PairResults(intact))
  BY PairStored
<1>6. \A i \in Indices :
        result'[i] = IF i \in PairCells THEN PairResults(intact)[i] ELSE result[i]
  BY <1>5, StoreInside DEF IInv
<1>7. At(row, col) \in Indices
  BY Places DEF IInv
<1>8. Computed(row, col) => Computed(row, col)'
  <2> HIDE DEF Done
  <2> QED BY <1>1, <1>2, <1>3, <1>4 DEF Computed
<1>9. CASE At(row, col) \notin PairCells
  <2>1. ~(Computed(row, col)' /\ ~Computed(row, col))
    <3> SUFFICES ASSUME Computed(row, col)', ~Computed(row, col) PROVE FALSE
      OBVIOUS
    <3>1. /\ ~(col < rhs_rows_idx) /\ col < rhs_rows_idx + Block
          /\ ~(row < 2 * Done) /\ row < 2 * (Done + 1)
      <4> HIDE DEF Done
      <4> QED BY <1>1, <1>2, <1>3, <1>4 DEF Computed
    <3>2. PICK r \in 0 .. 1 : row = 2 * Done + r
      <4>1. row - 2 * Done \in 0 .. 1 /\ row = 2 * Done + (row - 2 * Done)
        BY <1>1, <1>4, <3>1
      <4> QED BY <4>1
    <3>3. PICK j \in 0 .. Block - 1 : col = rhs_rows_idx + j
      <4>1. col - rhs_rows_idx \in 0 .. Block - 1 /\ col = rhs_rows_idx + (col - rhs_rows_idx)
        BY <1>1, <1>4, <3>1
      <4> QED BY <4>1
    <3>4. At(row, col) = dst_ptr + r * RhsRows + j
      BY <1>2, <3>2, <3>3, PairInside DEF IInv, At
    <3> QED BY <1>9, <3>4 DEF PairCells
  <2> QED BY <1>6, <1>7, <1>8, <1>9, <2>1 DEF Stepped
<1>10. CASE At(row, col) \in PairCells
  <2>1. PICK r \in 0 .. 1, j \in 0 .. Block - 1 : At(row, col) = dst_ptr + r * RhsRows + j
    BY <1>10 DEF PairCells
  <2>2. /\ 2 * Done + r \in 0 .. LhsRows - 1 /\ rhs_rows_idx + j \in 0 .. RhsRows - 1
        /\ At(row, col) = At(2 * Done + r, rhs_rows_idx + j)
    BY <1>2, <2>1, PairInside DEF IInv, At
  <2>3. row = 2 * Done + r /\ col = rhs_rows_idx + j
    BY <2>2, Places DEF IInv
  <2>4. ~Computed(row, col) /\ Computed(row, col)'
    <3> HIDE DEF Done
    <3>1. r \in Nat /\ r <= 1 /\ j \in Nat /\ j < Block BY <1>1
    <3>2. ~(col < rhs_rows_idx) /\ ~(row < 2 * Done) BY <1>4, <2>3, <3>1
    <3>3. col < rhs_rows_idx + Block /\ row < 2 * (Done + 1) BY <1>1, <1>4, <2>3, <3>1
    <3> QED BY <1>2, <1>3, <1>4, <3>2, <3>3 DEF Computed
  <2>5. PairResults(intact)[At(row, col)] = PairResult(intact, r, j)
    <3>1. dst_ptr \in Nat /\ j \in Nat /\ j < Block /\ rhs_rows_idx + Block <= RhsRows
      BY <1>1, <1>2 DEF IInv, Positions
    <3>2. CASE r = 0
      <4>1. At(row, col) = dst_ptr + j BY <1>1, <2>1, <3>1, <3>2
      <4>2. At(row, col) < dst_ptr + Block /\ At(row, col) - dst_ptr = j
        BY <1>1, <3>1, <4>1
      <4> QED BY <1>10, <3>2, <4>2 DEF PairResults
    <3>3. CASE r = 1
      <4>1. At(row, col) = dst_ptr + RhsRows + j BY <1>1, <2>1, <3>1, <3>3
      <4>2. ~(At(row, col) < dst_ptr + Block) /\ At(row, col) - dst_ptr - RhsRows = j
        BY <1>1, <1>4, <3>1, <4>1
      <4> QED BY <1>10, <3>3, <4>2 DEF PairResults
    <3> QED BY <3>2, <3>3
  <2>6. PairResult(intact, r, j) = Val(row, col)
    BY <1>2, <2>3, PairValue DEF IInv
  <2> QED BY <1>6, <1>7, <1>8, <1>10, <2>4, <2>5, <2>6 DEF Stepped
<1> QED BY <1>9, <1>10

\* EndBlock computes the elements of the odd row, if there is one.
LEMMA EndBlockSteps ==
  ASSUME IInv, Supported, EndBlock,
         NEW row \in 0 .. LhsRows - 1, NEW col \in 0 .. RhsRows - 1
  PROVE  Stepped(row, col)
<1>1. /\ LhsRows \in Nat \ {0} /\ RhsRows \in Nat \ {0} /\ Block \in {2, 4}
  BY Dimensions DEF IInv, Positions
<1>2. /\ pc = "pair" /\ lhs_rows_idx = 0 /\ pc' = "block"
      /\ rhs_rows_idx' = rhs_rows_idx + Block
  BY DEF EndBlock
<1>3. rhs_rows_idx \in Nat
  BY <1>1 DEF IInv, Positions
<1>4. At(row, col) \in Indices
  BY Places DEF IInv
<1>5. Computed(row, col) => Computed(row, col)'
  BY <1>1, <1>2, <1>3 DEF Computed
<1>6. Computed(row, col)' /\ ~Computed(row, col)
          => col - rhs_rows_idx \in 0 .. Block - 1 /\ ~(row < 2 * Done)
  <2>1. ASSUME Computed(row, col)', ~Computed(row, col)
        PROVE  col - rhs_rows_idx \in 0 .. Block - 1 /\ ~(row < 2 * Done)
    <3> HIDE DEF Done
    <3>1. col < rhs_rows_idx' BY <1>2, <2>1 DEF Computed
    <3>2. ~(col < rhs_rows_idx) BY <2>1 DEF Computed
    <3>3. col \in Nat /\ col < rhs_rows_idx + Block BY <1>1, <1>2, <3>1
    <3>4. ~(row < 2 * Done) BY <1>2, <2>1, <3>3 DEF Computed
    <3> QED BY <1>1, <1>3, <3>2, <3>3, <3>4
  <2> QED BY <2>1
<1>7. CASE LhsRows % 2 # 1
  <2>1. row < 2 * Done
    BY <1>1, <1>2, <1>7 DEF Done
  <2>2. result' = result BY <1>7 DEF EndBlock
  <2> QED BY <1>5, <1>6, <2>1, <2>2 DEF Stepped
<1>8. CASE LhsRows % 2 = 1
  <2>1. OddRow
    BY <1>8 DEF EndBlock
  <2>2. \A i \in Indices :
          result'[i] = IF i \in dst_ptr .. dst_ptr + Block - 1 THEN OddResults[i] ELSE result[i]
    BY <1>2, <1>8, <2>1, OddStored, StoreInside DEF IInv
  <2>3. CASE At(row, col) \notin dst_ptr .. dst_ptr + Block - 1
    <3>1. ~(Computed(row, col)' /\ ~Computed(row, col))
      <4> SUFFICES ASSUME Computed(row, col)', ~Computed(row, col) PROVE FALSE
        OBVIOUS
      <4>1. col - rhs_rows_idx \in 0 .. Block - 1 /\ ~(row < 2 * Done) BY <1>6
      <4>2. PICK j \in 0 .. Block - 1 : j = col - rhs_rows_idx BY <4>1
      <4>3. dst_ptr + j = (2 * Done) * RhsRows + (rhs_rows_idx + j) /\ 2 * Done = LhsRows - 1
        BY <1>2, <1>8, OddInside DEF IInv
      <4>4. row = 2 * Done /\ col = rhs_rows_idx + j
        <5> HIDE DEF Done
        <5> QED BY <1>1, <1>3, <4>1, <4>2, <4>3
      <4>5. At(row, col) = dst_ptr + j BY <4>3, <4>4 DEF At
      <4>6. dst_ptr \in Nat BY DEF IInv, Positions
      <4>7. dst_ptr + j \in dst_ptr .. dst_ptr + Block - 1 BY <1>1, <4>6
      <4> QED BY <2>3, <4>5, <4>7
    <3> QED BY <1>4, <1>5, <2>2, <2>3, <3>1 DEF Stepped
  <2>4. CASE At(row, col) \in dst_ptr .. dst_ptr + Block - 1
    <3>1. dst_ptr \in Nat BY DEF IInv, Positions
    <3>2. PICK j \in 0 .. Block - 1 : At(row, col) = dst_ptr + j
      <4>1. At(row, col) - dst_ptr \in 0 .. Block - 1
            /\ At(row, col) = dst_ptr + (At(row, col) - dst_ptr)
        BY <1>1, <2>4, <3>1
      <4> QED BY <4>1
    <3>3. /\ rhs_rows_idx + j \in 0 .. RhsRows - 1 /\ 2 * Done = LhsRows - 1
          /\ At(row, col) = At(LhsRows - 1, rhs_rows_idx + j)
      BY <1>2, <1>8, <3>2, OddInside DEF IInv, At
    <3>4. LhsRows - 1 \in 0 .. LhsRows - 1 BY <1>1
    <3>5. row = LhsRows - 1 /\ col = rhs_rows_idx + j
      BY <3>3, <3>4, Places DEF IInv
    <3>6. ~Computed(row, col) /\ Computed(row, col)'
      <4>1. j \in Nat /\ j < Block BY <1>1
      <4>2. ~(col < rhs_rows_idx) /\ col < rhs_rows_idx + Block BY <1>1, <1>3, <3>5, <4>1
      <4>3. ~(row < 2 * Done) BY <1>1, <3>3, <3>5
      <4> QED BY <1>2, <4>2, <4>3 DEF Computed
    <3>7. OddResults[At(row, col)] = Val(row, col)
      BY <1>2, <1>8, <3>2, <3>5, OddValue DEF IInv
    <3> QED BY <1>4, <1>5, <2>2, <2>4, <3>6, <3>7 DEF Stepped
  <2> QED BY <2>3, <2>4
<1> QED BY <1>7, <1>8

\* The leftover right row computes the last column, and is the last step.
LEMMA LeftoverSteps ==
  ASSUME IInv, Supported, LeftoverRow,
         NEW row \in 0 .. LhsRows - 1, NEW col \in 0 .. RhsRows - 1
  PROVE  Stepped(row, col)
<1>1. /\ LhsRows \in Nat \ {0} /\ RhsRows \in Nat \ {0} /\ Block \in {2, 4}
  BY Dimensions DEF IInv, Positions
<1>2. pc = "leftover" /\ dst = rhs_rows_idx
  BY DEF LeftoverRow, IInv, Positions
<1>3. leftover = 1 /\ dst = RhsRows - 1
  BY <1>1, <1>2, LeftoverValue DEF IInv
<1>4. Computed(row, col)'
  BY <1>3 DEF LeftoverRow, Computed
<1>5. At(row, col) \in Indices
  BY Places DEF IInv
<1>6. \A i \in Indices :
        result'[i] = IF i \in LeftoverCells THEN LeftoverResults[i] ELSE result[i]
  BY LeftoverStored, StoreInside DEF IInv
<1>7. CASE At(row, col) \notin LeftoverCells
  <2>1. Computed(row, col)
    <3>1. CASE col < rhs_rows_idx BY <3>1 DEF Computed
    <3>2. CASE ~(col < rhs_rows_idx)
      <4>1. col = RhsRows - 1 BY <1>1, <1>2, <1>3, <3>2
      <4>2. At(row, col) = dst + row * RhsRows
        <5>1. row * RhsRows \in Int BY <1>1
        <5> QED BY <1>1, <1>3, <4>1, <5>1 DEF At
      <4> QED BY <1>7, <4>2 DEF LeftoverCells
    <3> QED BY <3>1, <3>2
  <2> QED BY <1>4, <1>5, <1>6, <1>7, <2>1 DEF Stepped
<1>8. CASE At(row, col) \in LeftoverCells
  <2>1. PICK r \in 0 .. LhsRows - 1 : At(row, col) = dst + r * RhsRows
    BY <1>8 DEF LeftoverCells
  <2>2. RhsRows - 1 \in 0 .. RhsRows - 1 /\ At(row, col) = At(r, RhsRows - 1)
    <3>1. r * RhsRows \in Int BY <1>1
    <3> QED BY <1>1, <1>3, <2>1, <3>1 DEF At
  <2>3. row = r /\ col = RhsRows - 1
    BY <2>2, Places DEF IInv
  <2>4. ~Computed(row, col)
    BY <1>1, <1>2, <1>3, <2>3 DEF Computed
  <2>5. LeftoverResults[At(row, col)] = Val(row, col)
    BY <1>2, <2>1, <2>3, LeftoverValue DEF IInv
  <2> QED BY <1>4, <1>5, <1>6, <1>8, <2>4, <2>5 DEF Stepped
<1> QED BY <1>7, <1>8

\* Without leftover rows the last block ends with the last column.
LEMMA AllBlocks ==
  ASSUME Positions, EndBlocks, pc' = "return", NEW col \in 0 .. RhsRows - 1
  PROVE  col < rhs_rows_idx
<1>1. RhsRows \in Nat \ {0} /\ Block \in {2, 4}
  BY Dimensions DEF Positions
<1>2. /\ RhsRows % Block = 0 /\ rhs_rows_idx > RhsRows - Block
      /\ rhs_rows_idx \in 0 .. RhsRows /\ rhs_rows_idx % Block = 0
  BY DEF EndBlocks, LastBlock, Positions
<1>3. rhs_rows_idx = RhsRows
  BY <1>1, <1>2
<1> QED BY <1>1, <1>3

\* Every step computes missing elements, or none.
LEMMA EveryStep ==
  ASSUME IInv, Supported, [Next]_vars,
         NEW row \in 0 .. LhsRows - 1, NEW col \in 0 .. RhsRows - 1
  PROVE  Stepped(row, col)
<1>1. CASE Begin
  <2>1. /\ LhsRows \in Nat /\ LhsRows' = LhsRows
        /\ pc = "block" /\ pc' = "pair" /\ UNCHANGED <<rhs_rows_idx, result>>
    BY <1>1, Dimensions, SameCall DEF IInv, Positions, Begin
  <2>2. ~(row < 2 * Done')
    <3>1. Done' = 0 BY <1>1, <2>1 DEF Begin, Done
    <3> QED BY <2>1, <3>1
  <2> QED BY <2>1, <2>2 DEF Stepped, Computed
<1>2. CASE EndBlocks
  <2>1. pc = "block" /\ pc' \in {"leftover", "return"} /\ UNCHANGED <<rhs_rows_idx, result>>
    BY <1>2 DEF EndBlocks
  <2>2. pc' = "return" => col < rhs_rows_idx
    BY <1>2, AllBlocks DEF IInv
  <2> QED BY <2>1, <2>2 DEF Stepped, Computed
<1>3. CASE UNCHANGED vars
  <2>1. UNCHANGED <<dims, pc, rhs_rows_idx, lhs_rows_idx, result>> BY <1>3 DEF vars
  <2>2. Done' = Done /\ Block' = Block BY <2>1, SameCall DEF Done
  <2> QED BY <2>1, <2>2 DEF Stepped, Computed
<1> QED BY <1>1, <1>2, <1>3, PairSteps, EndBlockSteps, LeftoverSteps DEF Next

-----------------------------------------------------------------------------
(* Refinement.                                                             *)

\* The result as the abstract product sees it.
AbstractDst ==
  [cell \in (0 .. LhsRows - 1) \X (0 .. RhsRows - 1) |-> result[cell[1] * RhsRows + cell[2]]]

\* The supported calls stay supported.
LEMMA SupportedStays == [Next]_vars => Supported' = Supported
<1>1. [Next]_vars => UNCHANGED dims
  BY DEF Next, Begin, Pair, EndBlock, EndBlocks, LeftoverRow, vars
<1> QED BY <1>1, SameCall DEF Supported, dims

\* Nothing is computed in an initial state.
LEMMA InitFilled == Init => Filled
<1> SUFFICES ASSUME Init, NEW row \in 0 .. LhsRows - 1, NEW col \in 0 .. RhsRows - 1
             PROVE  result[At(row, col)] = Undefined /\ ~Computed(row, col)
  BY DEF Filled
<1>1. IInv
  BY InitInvariant
<1>2. At(row, col) \in Indices
  BY <1>1, Places DEF IInv
<1>3. LhsRows \in Nat /\ RhsRows \in Nat
  BY <1>1, Dimensions DEF IInv, Positions
<1> QED BY <1>2, <1>3 DEF Init, Indices, Computed

\* Every step fills in what it gets done with.
LEMMA NextFilled ==
  ASSUME IInv, Supported, Filled, [Next]_vars
  PROVE  Filled'
<1>1. UNCHANGED dims
  BY DEF Next, Begin, Pair, EndBlock, EndBlocks, LeftoverRow, vars
<1>2. LhsRows' = LhsRows /\ RhsRows' = RhsRows /\ Cols' = Cols
  BY <1>1, SameCall
<1>3. ASSUME NEW row \in 0 .. LhsRows - 1, NEW col \in 0 .. RhsRows - 1
      PROVE  result'[At(row, col)] = IF Computed(row, col)' THEN Val(row, col) ELSE Undefined
  BY EveryStep DEF Stepped, Filled
<1>4. \A row, col : At(row, col)' = At(row, col) /\ Val(row, col)' = Val(row, col)
  BY <1>2 DEF At, Val
<1> QED BY <1>2, <1>3, <1>4 DEF Filled

\* An initial state is a product nobody began.
LEMMA InitRefines == Init => Product!Init
<1> SUFFICES ASSUME Init PROVE Product!Init
  OBVIOUS
<1>1. ASSUME NEW cell \in (0 .. LhsRows - 1) \X (0 .. RhsRows - 1)
      PROVE  result[cell[1] * RhsRows + cell[2]] = Undefined
  <2>1. cell[1] * RhsRows + cell[2] \in Indices
    BY InitInvariant, Places DEF IInv, At
  <2> QED BY <2>1 DEF Init, Indices
<1> QED BY <1>1 DEF Product!Init, Product!Cells, LhsRows, RhsRows

\* Every step computes some of the missing elements.
LEMMA NextRefines ==
  ASSUME IInv, Supported, Filled, [Next]_vars
  PROVE  Product!Compute
<1>1. UNCHANGED dims
  BY DEF Next, Begin, Pair, EndBlock, EndBlocks, LeftoverRow, vars
<1>2. LhsRows' = LhsRows /\ RhsRows' = RhsRows /\ shape' = shape
  BY <1>1, SameCall
<1>3. AbstractDst' =
        [cell \in (0 .. LhsRows - 1) \X (0 .. RhsRows - 1) |->
           result'[cell[1] * RhsRows + cell[2]]]
  BY <1>2 DEF AbstractDst
<1>4. ASSUME NEW cell \in (0 .. LhsRows - 1) \X (0 .. RhsRows - 1)
      PROVE  \/ AbstractDst'[cell] = AbstractDst[cell]
             \/ AbstractDst[cell] = Undefined /\ AbstractDst'[cell] = Product!Value(cell)
  <2>1. cell[1] \in 0 .. LhsRows - 1 /\ cell[2] \in 0 .. RhsRows - 1
    OBVIOUS
  <2>2. Stepped(cell[1], cell[2])
    BY <2>1, EveryStep
  <2>3. AbstractDst[cell] = result[At(cell[1], cell[2])]
        /\ AbstractDst'[cell] = result'[At(cell[1], cell[2])]
    BY <1>3 DEF AbstractDst, At
  <2>4. Product!Value(cell) = Val(cell[1], cell[2])
    BY DEF Product!Value, Val, Cols
  <2>5. Computed(cell[1], cell[2]) \/ result[At(cell[1], cell[2])] = Undefined
    BY <2>1 DEF Filled
  <2> QED BY <2>2, <2>3, <2>4, <2>5 DEF Stepped
<1> QED BY <1>2, <1>4 DEF Product!Compute, Product!Cells, AbstractDst, LhsRows, RhsRows

\* At all times exactly the elements the code is done with are computed.
LEMMA AlwaysFilled == Spec => [](Supported => Filled)
<1>1. IInv /\ (Supported => Filled) /\ [Next]_vars => (Supported => Filled)'
  BY NextFilled, SupportedStays
<1>2. Init => (Supported => Filled)
  BY InitFilled
<1> QED BY <1>1, <1>2, Invariance, PTL DEF Spec

\* The scalar build for all numbers of rows and columns, and the packed build
\* for rows of whole words with at most one leftover right row, compute the
\* product: each element once, from its own rows and channel.
THEOREM ProductRefinement == Spec => ImplementsSupported
<1>1. Init => (Supported => Product!Init)
  BY InitRefines
<1>2. IInv /\ (Supported => Filled) /\ [Next]_vars
        => [Supported => Product!Compute]_(Product!vars)
  BY NextRefines
<1> QED BY <1>1, <1>2, AlwaysFilled, Invariance, PTL DEF Spec, ImplementsSupported

\* For the same calls: what is returned is the product, complete.
THEOREM ReturnedProduct == Spec => []ReturnsComplete
<1>1. (Supported => Filled) => ReturnsComplete
  <2> SUFFICES ASSUME Filled, pc = "return",
                      NEW cell \in (0 .. LhsRows - 1) \X (0 .. RhsRows - 1)
               PROVE  result[cell[1] * RhsRows + cell[2]] = Product!Value(cell)
    BY DEF ReturnsComplete, Product!Complete, Product!Cells, LhsRows, RhsRows
  <2>1. cell[1] \in 0 .. LhsRows - 1 /\ cell[2] \in 0 .. RhsRows - 1
    OBVIOUS
  <2>2. result[At(cell[1], cell[2])] = Val(cell[1], cell[2])
    BY <2>1 DEF Filled, Computed
  <2>3. Product!Value(cell) = Val(cell[1], cell[2])
    BY DEF Product!Value, Val, Cols
  <2> QED BY <2>2, <2>3 DEF At
<1> QED BY <1>1, AlwaysFilled, PTL
=============================================================================
