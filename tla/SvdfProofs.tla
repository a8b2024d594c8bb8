----------------------------- MODULE SvdfProofs -----------------------------
(***************************************************************************)
(* Svdf is right for every number of batches, filters, ranks and slots and *)
(* for every number of calls, in the builds whose kernel honours the       *)
(* address offset.                                                         *)
(***************************************************************************)
EXTENDS Svdf, RowMajor, TLAPS

\* The builds the theorems are about.
StridedBuilds == "vext_s8" \notin Builds

-----------------------------------------------------------------------------
(* Index arithmetic.                                                       *)

\* The facts about the layout of the state tensor that the proofs use; the
\* arithmetic of Cell is not expanded anywhere else.
LEMMA CellType ==
  ASSUME NEW b \in Batch, NEW f \in Feature, NEW j \in Slot
  PROVE  Cell(b, f, j) \in Cells
<1> USE DimsAssumption DEF Batch, Feature, Slot
<1>1. b * Features + f \in 0 .. Batches * Features - 1
  BY RowMajorBound
<1>2. Batches * Features \in Nat OBVIOUS
<1>3. (b * Features + f) * TimeBatches + j \in 0 .. (Batches * Features) * TimeBatches - 1
  BY <1>1, <1>2, RowMajorBound
<1> QED BY <1>3 DEF Cell, Cells

\* Different slots of the state have different addresses.
LEMMA CellUnique ==
  ASSUME NEW b \in Batch, NEW f \in Feature, NEW j \in Slot,
         NEW b2 \in Batch, NEW f2 \in Feature, NEW j2 \in Slot,
         Cell(b, f, j) = Cell(b2, f2, j2)
  PROVE  b = b2 /\ f = f2 /\ j = j2
<1> USE DimsAssumption DEF Batch, Feature, Slot
<1>1. b * Features + f \in Nat /\ b2 * Features + f2 \in Nat OBVIOUS
<1>2. b * Features + f = b2 * Features + f2 /\ j = j2
  BY <1>1, RowMajorUnique DEF Cell
<1>3. b = b2 /\ f = f2 BY <1>2, RowMajorUnique
<1> QED BY <1>2, <1>3

\* The slots of a row are adjacent.
LEMMA CellNext ==
  ASSUME NEW b \in Batch, NEW f \in Feature, NEW j \in Slot
  PROVE  /\ Cell(b, f, j) + 1 = Cell(b, f, j + 1)
         /\ Cell(b, f, 0) + j = Cell(b, f, j)
BY DimsAssumption DEF Cell, Batch, Feature, Slot

\* A stride of TimeBatches leads to the newest slot of the next row.
LEMMA CellStride ==
  ASSUME NEW b \in Batch, NEW f \in Feature, NEW i \in Nat
  PROVE  /\ Cell(b, f, TimeBatches - 1) + i * TimeBatches = Cell(b, f + i, TimeBatches - 1)
         /\ ResPtr(b) + f * TimeBatches = Cell(b, f, TimeBatches - 1)
<1> USE DimsAssumption DEF Batch, Feature
<1>1. ((b * Features + f) * TimeBatches + (TimeBatches - 1)) + i * TimeBatches
        = (b * Features + (f + i)) * TimeBatches + (TimeBatches - 1)
  OBVIOUS
<1>2. (TimeBatches * b * Features + (TimeBatches - 1)) + f * TimeBatches
        = (b * Features + f) * TimeBatches + (TimeBatches - 1)
  OBVIOUS
<1> QED BY <1>1, <1>2 DEF Cell, ResPtr

\* After the last filter of a batch comes the first filter of the next one.
LEMMA CellWrap ==
  ASSUME NEW b \in Batch
  PROVE  /\ Cell(b, Features - 1, 0) + TimeBatches = Cell(b + 1, 0, 0)
         /\ \A f \in Feature : Cell(b, f, 0) + TimeBatches = Cell(b, f + 1, 0)
<1> USE DimsAssumption DEF Batch, Feature
<1>1. (b * Features + (Features - 1)) * TimeBatches + 0 + TimeBatches
        = ((b + 1) * Features + 0) * TimeBatches + 0
  OBVIOUS
<1>2. ASSUME NEW f \in Feature
      PROVE  (b * Features + f) * TimeBatches + 0 + TimeBatches
               = (b * Features + (f + 1)) * TimeBatches + 0
  OBVIOUS
<1> QED BY <1>1, <1>2 DEF Cell

\* One call later every activation is one slot older.
LEMMA ActivationAges ==
  ASSUME NEW n \in Int, NEW b, NEW f, NEW j \in Slot
  PROVE  /\ Activation(n + 1, b, f, j) = Activation(n, b, f, j + 1)
         /\ Activation(n, b, f, TimeBatches - 1) = <<n, b, f>>
<1> USE DimsAssumption DEF Slot
<1>1. (n + 1) - (TimeBatches - 1) + j = n - (TimeBatches - 1) + (j + 1) OBVIOUS
<1>2. n - (TimeBatches - 1) + (TimeBatches - 1) = n OBVIOUS
<1> QED BY <1>1, <1>2 DEF Activation

-----------------------------------------------------------------------------
(* The inductive invariant.                                                *)

\* b, f is a row the feature loop has passed.
Passed(b, f) == b < i_batch \/ (b = i_batch /\ f < i_row)

\* In the feature loop the state has been shifted: the old slots already hold
\* the window of the call in progress, the newest slots only in the rows passed.
FeatureInv ==
  pc = "feature" =>
    /\ dst = Cell(i_batch, i_row, TimeBatches - 1)
    /\ \A b \in Batch, f \in Feature, j \in Slot :
         j < TimeBatches - 1 \/ Passed(b, f) =>
           state_data[Cell(b, f, j)] = Activation(calls + 1, b, f, j)

\* The state tensor part of the invariant is inductive on its own.
StateInv ==
  /\ build \in Builds
  /\ calls \in Nat
  /\ state_data \in [Cells -> Activations]
  /\ i_batch \in Batch
  /\ i_row \in Feature
  /\ rank \in 1 .. Features
  /\ unit_count \in 1 .. Features
  /\ HistoryIsWindow
  /\ FeatureInv

\* What StoreRows does to the rows of a strided kernel, cell by cell.
LEMMA StoredRows ==
  ASSUME state_data \in [Cells -> Activations], calls \in Nat,
         i_batch \in Batch, i_row \in Feature,
         dst = Cell(i_batch, i_row, TimeBatches - 1),
         NEW n \in Nat, i_row + n <= Features,
         StoreRows(n, TimeBatches)
  PROVE  /\ state_data' \in [Cells -> Activations]
         /\ \A b \in Batch, f \in Feature, j \in Slot :
              state_data'[Cell(b, f, j)] =
                IF b = i_batch /\ j = TimeBatches - 1 /\ i_row <= f /\ f < i_row + n
                THEN Newest(b, f) ELSE state_data[Cell(b, f, j)]
<1> USE DimsAssumption
<1>0. TimeBatches - 1 \in Slot BY DEF Slot
<1>1. ASSUME NEW i \in 0 .. n - 1
      PROVE  /\ i_row + i \in Feature
             /\ dst + i * TimeBatches = Cell(i_batch, i_row + i, TimeBatches - 1)
  BY CellStride DEF Feature
<1>2. ASSUME NEW k \in Cells, \E i \in 0 .. n - 1 : k = dst + i * TimeBatches
      PROVE  Newest(i_batch, i_row + (CHOOSE i \in 0 .. n - 1 : k = dst + i * TimeBatches))
               \in Activations
  <2> DEFINE c == CHOOSE i \in 0 .. n - 1 : k = dst + i * TimeBatches
  <2>1. c \in 0 .. n - 1 BY <1>2
  <2>2. i_row + c \in Feature BY <2>1, <1>1
  <2> QED BY <2>2 DEF Newest, Activations
<1>3. state_data' \in [Cells -> Activations]
  BY <1>2 DEF StoreRows
<1>4. ASSUME NEW b \in Batch, NEW f \in Feature, NEW j \in Slot
      PROVE  state_data'[Cell(b, f, j)] =
               IF b = i_batch /\ j = TimeBatches - 1 /\ i_row <= f /\ f < i_row + n
               THEN Newest(b, f) ELSE state_data[Cell(b, f, j)]
  <2> DEFINE k == Cell(b, f, j)
  <2>1. k \in Cells BY CellType
  <2>2. CASE b = i_batch /\ j = TimeBatches - 1 /\ i_row <= f /\ f < i_row + n
    <3>1. f - i_row \in 0 .. n - 1 /\ i_row + (f - i_row) = f BY <2>2 DEF Feature
    <3>2. k = dst + (f - i_row) * TimeBatches BY <3>1, <1>1, <2>2
    <3> DEFINE c == CHOOSE i \in 0 .. n - 1 : k = dst + i * TimeBatches
    <3>3. c \in 0 .. n - 1 /\ k = dst + c * TimeBatches BY <3>1, <3>2
    <3>4. Cell(b, f, j) = Cell(i_batch, i_row + c, TimeBatches - 1) BY <3>3, <1>1
    <3>5. i_row + c = f
      <4>1. i_row + c \in Feature BY <3>3, <1>1
      <4>2. \A g \in Feature :
              Cell(b, f, j) = Cell(i_batch, g, TimeBatches - 1) => f = g
        BY <1>0, CellUnique
      <4> HIDE DEF c
      <4> QED BY <4>1, <4>2, <3>4
    <3>6. state_data'[k] = Newest(i_batch, i_row + c)
      BY <2>1, <3>1, <3>2 DEF StoreRows
    <3> QED BY <3>5, <3>6, <2>2
  <2>3. CASE ~(b = i_batch /\ j = TimeBatches - 1 /\ i_row <= f /\ f < i_row + n)
    <3>1. ASSUME NEW i \in 0 .. n - 1, k = dst + i * TimeBatches
          PROVE  FALSE
      <4>1. Cell(b, f, j) = Cell(i_batch, i_row + i, TimeBatches - 1) BY <3>1, <1>1
      <4>2. b = i_batch /\ f = i_row + i /\ j = TimeBatches - 1
        BY <4>1, <1>1, <1>0, CellUnique
      <4> QED BY <4>2, <2>3 DEF Feature
    <3> QED BY <3>1, <2>1, <2>3 DEF StoreRows
  <2> QED BY <2>2, <2>3
<1> QED BY <1>3, <1>4

\* A state tensor of zero points is the history of no calls.
LEMMA StateInvInit == Init => StateInv
<1> SUFFICES ASSUME Init PROVE StateInv OBVIOUS
<1> USE DimsAssumption, RankAssumption DEF Init
<1>1. state_data \in [Cells -> Activations] BY StateAssumption
<1>2. i_batch \in Batch /\ i_row \in Feature BY DEF Batch, Feature
<1>3. HistoryIsWindow BY StateAssumption DEF HistoryIsWindow, Latest
<1>4. FeatureInv BY DEF FeatureInv
<1> QED BY <1>1, <1>2, <1>3, <1>4 DEF StateInv

\* Shifting the whole tensor by one ages every row by one call.
LEMMA CallKeepsStateInv ==
  ASSUME StateInv, NEW ctx, NEW ic, NEW oc, Call(ctx, ic, oc)
  PROVE  StateInv'
<1> USE DimsAssumption DEF StateInv, Call, params
<1>1. state_data' \in [Cells -> Activations] BY DEF ShiftedState
<1>2. i_batch' \in Batch /\ i_row' \in Feature BY DEF Batch, Feature
<1>3. dst' = Cell(i_batch', i_row', TimeBatches - 1)
  <2>1. 0 \in Batch /\ 0 \in Feature BY DEF Batch, Feature
  <2>2. ResPtr(0) + 0 * TimeBatches = Cell(0, 0, TimeBatches - 1) BY <2>1, CellStride
  <2>3. ResPtr(0) \in Int BY DEF ResPtr
  <2> QED BY <2>2, <2>3
<1>4. ASSUME NEW b \in Batch, NEW f \in Feature, NEW j \in Slot, j < TimeBatches - 1
      PROVE  state_data'[Cell(b, f, j)] = Activation(calls' + 1, b, f, j)
  <2>1. j + 1 \in Slot BY <1>4 DEF Slot
  <2>2. Cell(b, f, j) \in Cells /\ Cell(b, f, j + 1) \in Cells BY <2>1, CellType
  <2>3. state_data'[Cell(b, f, j)] = state_data[Cell(b, f, j + 1)]
    BY <2>2, CellNext DEF ShiftedState
  <2>4. state_data[Cell(b, f, j + 1)] = Activation(calls, b, f, j + 1)
    BY <2>1 DEF HistoryIsWindow, Latest
  <2> QED BY <2>3, <2>4, ActivationAges
<1>5. FeatureInv'
  <2>1. ASSUME NEW b \in Batch, NEW f \in Feature
        PROVE  ~Passed(b, f)'
    BY DEF Passed, Batch, Feature
  <2> QED BY <1>3, <1>4, <2>1 DEF FeatureInv
<1>6. HistoryIsWindow' BY DEF HistoryIsWindow
<1> QED BY <1>1, <1>2, <1>5, <1>6

\* A strided kernel that stores n rows completes these rows and no others.
LEMMA RowsKeepStateInv ==
  ASSUME StateInv, pc = "feature", NEW n \in Nat \ {0}, i_row + n <= Features,
         StoreRows(n, TimeBatches), AdvanceRows(n)
  PROVE  StateInv'
<1> USE DimsAssumption DEF StateInv
<1>1. dst = Cell(i_batch, i_row, TimeBatches - 1) BY DEF FeatureInv
<1>2. /\ state_data' \in [Cells -> Activations]
      /\ \A b \in Batch, f \in Feature, j \in Slot :
           state_data'[Cell(b, f, j)] =
             IF b = i_batch /\ j = TimeBatches - 1 /\ i_row <= f /\ f < i_row + n
             THEN Newest(b, f) ELSE state_data[Cell(b, f, j)]
  BY <1>1, StoredRows
<1>3. \* the rows passed, the rows of this block, and the slots shifted
      ASSUME NEW b \in Batch, NEW f \in Feature, NEW j \in Slot,
             \/ j < TimeBatches - 1
             \/ b < i_batch
             \/ b = i_batch /\ f < i_row + n
      PROVE  state_data'[Cell(b, f, j)] = Activation(calls + 1, b, f, j)
  <2>1. CASE b = i_batch /\ j = TimeBatches - 1 /\ i_row <= f /\ f < i_row + n
    BY <2>1, <1>2, ActivationAges DEF Newest
  <2>2. CASE ~(b = i_batch /\ j = TimeBatches - 1 /\ i_row <= f /\ f < i_row + n)
    <3>1. j < TimeBatches - 1 \/ Passed(b, f)
      BY <2>2, <1>3 DEF Passed, Slot, Batch, Feature
    <3>2. state_data[Cell(b, f, j)] = Activation(calls + 1, b, f, j)
      BY <3>1 DEF FeatureInv
    <3> QED BY <3>2, <2>2, <1>2
  <2> QED BY <2>1, <2>2
<1>4. /\ build' = build /\ calls' = calls
      /\ rank' = rank /\ unit_count' = unit_count
  BY DEF AdvanceRows, params
<1>5. CASE i_row + n < Features
  <2>1. /\ i_row' = i_row + n /\ i_batch' = i_batch /\ pc' = pc
        /\ dst' = dst + n * TimeBatches
    BY <1>5 DEF AdvanceRows
  <2>2. i_row' \in Feature BY <2>1, <1>5 DEF Feature
  <2>3. dst' = Cell(i_batch', i_row', TimeBatches - 1) BY <2>1, <1>1, CellStride
  <2>4. FeatureInv' BY <2>1, <2>3, <1>3, <1>4 DEF FeatureInv, Passed
  <2>5. HistoryIsWindow' BY <2>1 DEF HistoryIsWindow
  <2> QED BY <1>2, <1>4, <2>1, <2>2, <2>4, <2>5
<1>6. CASE i_row + n = Features /\ i_batch + 1 < Batches
  <2>1. /\ i_row' = 0 /\ i_batch' = i_batch + 1 /\ pc' = pc
        /\ dst' = ResPtr(i_batch + 1)
    BY <1>6 DEF AdvanceRows, Batch
  <2>2. i_batch' \in Batch /\ i_row' \in Feature BY <2>1, <1>6 DEF Batch, Feature
  <2>3. dst' = Cell(i_batch', i_row', TimeBatches - 1)
    <3>1. ResPtr(i_batch') + 0 * TimeBatches = Cell(i_batch', 0, TimeBatches - 1)
      BY <2>1, <2>2, CellStride
    <3>2. ResPtr(i_batch') \in Int BY <2>2 DEF ResPtr, Batch
    <3> QED BY <3>1, <3>2, <2>1
  <2>4. FeatureInv'
    <3>1. ASSUME NEW b \in Batch, NEW f \in Feature, Passed(b, f)'
          PROVE  b < i_batch \/ (b = i_batch /\ f < i_row + n)
      BY <3>1, <2>1, <1>6 DEF Passed, Batch, Feature
    <3> QED BY <2>3, <3>1, <1>3, <1>4 DEF FeatureInv
  <2>5. HistoryIsWindow' BY <2>1 DEF HistoryIsWindow
  <2> QED BY <1>2, <1>4, <2>2, <2>4, <2>5
<1>7. CASE i_row + n = Features /\ i_batch + 1 = Batches
  <2>1. i_row' = 0 /\ i_batch' = 0 /\ pc' = "time" BY <1>7 DEF AdvanceRows
  <2>2. i_batch' \in Batch /\ i_row' \in Feature BY <2>1 DEF Batch, Feature
  <2>3. ASSUME NEW b \in Batch, NEW f \in Feature
        PROVE  b < i_batch \/ (b = i_batch /\ f < i_row + n)
    BY <1>7 DEF Batch, Feature
  <2>4. HistoryIsWindow' BY <2>1, <2>3, <1>3, <1>4 DEF HistoryIsWindow, Latest
  <2>5. FeatureInv' BY <2>1 DEF FeatureInv
  <2> QED BY <1>2, <1>4, <2>2, <2>4, <2>5
<1>8. i_batch + 1 <= Batches BY DEF Batch
<1> QED BY <1>5, <1>6, <1>7, <1>8 DEF Feature, Batch

\* Outside the feature loop nothing but a restart writes the state tensor.
LEMMA QuietKeepsStateInv ==
  ASSUME StateInv, pc # "feature", pc' # "feature",
         UNCHANGED <<params, state_data>>, Latest' = Latest,
         calls' \in Nat, i_batch' \in Batch, i_row' \in Feature
  PROVE  StateInv'
<1>1. HistoryIsWindow' BY DEF StateInv, HistoryIsWindow, Latest
<1>2. FeatureInv' BY DEF FeatureInv
<1> QED BY <1>1, <1>2 DEF StateInv, params

\* The history through the memmove, the feature product, failures and restarts.
LEMMA StateInvNext ==
  ASSUME StridedBuilds, StateInv, [Next]_vars
  PROVE  StateInv'
<1> USE DimsAssumption
<1>1. ASSUME NEW ctx \in BOOLEAN, NEW ic \in BOOLEAN, NEW oc \in BOOLEAN, Call(ctx, ic, oc)
      PROVE  StateInv'
  BY <1>1, CallKeepsStateInv
<1>2. ASSUME NEW ctx \in BOOLEAN, NEW ic \in BOOLEAN, NEW oc \in BOOLEAN,
             CallFails(ctx, ic, oc)
      PROVE  StateInv'
  BY <1>2, QuietKeepsStateInv DEF CallFails, StateInv, Latest, tensors, loop
<1>3. CASE Restart
  <2>1. state_data' \in [Cells -> Activations] BY <1>3, StateAssumption DEF Restart
  <2>2. HistoryIsWindow'
    BY <1>3, StateAssumption DEF Restart, HistoryIsWindow, Latest
  <2>3. FeatureInv' BY <1>3 DEF Restart, FeatureInv
  <2> QED BY <1>3, <2>1, <2>2, <2>3 DEF Restart, StateInv, params, loop
<1>4. build # "vext_s8" /\ Unroll \in Nat \ {0}
  BY BuildsAssumption DEF StridedBuilds, StateInv, Unroll
<1>5. CASE FeatureBlock
  BY <1>4, <1>5, RowsKeepStateInv DEF FeatureBlock, BlockLanes, BlockStride
<1>6. CASE FeatureLeftover
  <2>1. i_row + 1 <= Features BY DEF StateInv, Feature
  <2> QED BY <1>6, <2>1, RowsKeepStateInv DEF FeatureLeftover
<1>7. CASE TimeRow
  <2>1. i_batch' \in Batch /\ i_row' \in Feature
    BY <1>7 DEF TimeRow, StateInv, Batch, Feature
  <2> QED BY <1>7, <2>1, QuietKeepsStateInv DEF TimeRow, StateInv, Latest
<1>8. ASSUME pc = "reduce", AdvanceUnits
      PROVE  StateInv'
  <2>1. i_batch' \in Batch /\ i_row' \in Feature
    BY <1>8 DEF AdvanceUnits, StateInv, Batch, Feature
  <2> QED BY <1>8, <2>1, QuietKeepsStateInv DEF AdvanceUnits, StateInv, Latest
<1>9. CASE AddBias BY <1>8, <1>9 DEF AddBias
<1>10. CASE ReduceRank BY <1>8, <1>10 DEF ReduceRank
<1>11. CASE Requantize
  BY <1>11, QuietKeepsStateInv DEF Requantize, StateInv, Latest, loop
<1>12. CASE UNCHANGED vars
  <2>1. HistoryIsWindow' BY <1>12 DEF StateInv, HistoryIsWindow, Latest, vars, tensors
  <2>2. FeatureInv' BY <1>12 DEF StateInv, FeatureInv, Passed, vars, tensors, loop
  <2> QED BY <1>12, <2>1, <2>2 DEF StateInv, vars, tensors, loop, params
<1> QED BY <1>1, <1>2, <1>3, <1>5, <1>6, <1>7, <1>9, <1>10, <1>11, <1>12 DEF Next, Step

\* For all dimensions: outside the feature loop of a call every row of the
\* state tensor holds its own last TimeBatches activations in order, although
\* svdf shifts the tensor as one flat array.
THEOREM HistoryCorrect ==
  ASSUME StridedBuilds
  PROVE  Spec => []HistoryIsWindow
<1>1. Init => StateInv BY StateInvInit
<1>2. StateInv /\ [Next]_vars => StateInv' BY StateInvNext
<1>3. StateInv => HistoryIsWindow BY DEF StateInv
<1> QED BY <1>1, <1>2, <1>3, PTL DEF Spec

-----------------------------------------------------------------------------
(* The scratch buffers, for every build: what a loop reads was written by  *)
(* the loop before it in the same call, and every index is in its array.   *)

\* u is a unit of the layer.
Units == 0 .. unit_count - 1

\* The state the loops after the feature loop compute from.
WindowOfCall ==
  \A b \in Batch, f \in Feature, j \in Slot :
    state_data[Cell(b, f, j)] = Activation(calls + 1, b, f, j)

TimeInv ==
  pc = "time" =>
    /\ v1 = i_row * TimeBatches
    /\ v2 = Cell(i_batch, i_row, 0)
    /\ ptr_a = i_batch * Features + i_row
    /\ \A b \in Batch, f \in Feature :
         Passed(b, f) => buffer_a[b * Features + f] = RowSum(calls + 1, b, f)

ReduceInv ==
  pc = "reduce" =>
    /\ i_row \in Units
    /\ ptr_a = i_batch * Features + i_row * rank
    /\ \A b \in Batch, f \in Feature :
         buffer_a[b * Features + f] = RowSum(calls + 1, b, f)
    /\ \A b \in Batch, u \in Units :
         Passed(b, u) => buffer_b[b * unit_count + u] = UnitSum(calls + 1, b, u)

RequantizeInv ==
  pc = "requantize" =>
    \A b \in Batch, u \in Units :
      buffer_b[b * unit_count + u] = UnitSum(calls + 1, b, u)

ScratchInv ==
  /\ has_bias \in BOOLEAN
  /\ rank \in Ranks
  /\ unit_count * rank = Features
  /\ pc \in {"idle", "feature", "time", "reduce", "requantize"}
  /\ dst \in Cells
  /\ v1 \in Nat /\ v2 \in Nat /\ ptr_a \in Nat
  /\ calls \in 0 .. MaxCalls
  /\ pc # "idle" => calls < MaxCalls
  /\ ret \in {"SUCCESS", "ARG_ERROR"}
  /\ DOMAIN buffer_a = 0 .. Batches * Features - 1
  /\ DOMAIN buffer_b = 0 .. Batches * unit_count - 1
  /\ TimeInv
  /\ ReduceInv
  /\ RequantizeInv

IInv == StateInv /\ ScratchInv

\* No scratch word is needed yet.
LEMMA ScratchInvInit == Init => ScratchInv
<1> SUFFICES ASSUME Init PROVE ScratchInv OBVIOUS
<1> USE DimsAssumption, RankAssumption
<1>1. 0 \in Cells
  <2>1. 0 \in Batch /\ 0 \in Feature /\ 0 \in Slot BY DEF Batch, Feature, Slot
  <2>2. Cell(0, 0, 0) = 0 BY DEF Cell
  <2> QED BY <2>1, <2>2, CellType
<1>2. TimeInv /\ ReduceInv /\ RequantizeInv BY DEF Init, TimeInv, ReduceInv, RequantizeInv
<1> QED BY <1>1, <1>2 DEF Init, ScratchInv

\* The feature loop and the calls leave the scratch buffers alone.
LEMMA OutsideScratch ==
  ASSUME IInv, IInv', pc' \in {"idle", "feature"},
         UNCHANGED <<params, v1, v2, ptr_a, buffer_a, buffer_b>>
  PROVE  TimeInv' /\ ReduceInv' /\ RequantizeInv'
BY DEF TimeInv, ReduceInv, RequantizeInv

\* A row index of buffer_a, and a unit index of buffer_b, names one row.
LEMMA BufferIndex ==
  ASSUME NEW m \in Nat \ {0}, NEW b \in Batch, NEW x \in 0 .. m - 1
  PROVE  /\ b * m + x \in 0 .. Batches * m - 1
         /\ \A b2 \in Batch, x2 \in 0 .. m - 1 :
              b * m + x = b2 * m + x2 => b = b2 /\ x = x2
<1> USE DimsAssumption DEF Batch
<1>1. b * m + x \in 0 .. Batches * m - 1 BY RowMajorBound
<1>2. ASSUME NEW b2 \in Batch, NEW x2 \in 0 .. m - 1, b * m + x = b2 * m + x2
      PROVE  b = b2 /\ x = x2
  BY <1>2, RowMajorUnique
<1> QED BY <1>1, <1>2

\* One row of the time loop: the state row times the weight row of its filter.
LEMMA TimeRowKeepsScratchInv ==
  ASSUME IInv, TimeRow
  PROVE  ScratchInv'
<1> USE DimsAssumption DEF IInv, StateInv, ScratchInv
<1>1. /\ pc = "time" /\ i_batch \in Batch /\ i_row \in Feature
      /\ v1 = i_row * TimeBatches /\ v2 = Cell(i_batch, i_row, 0)
      /\ ptr_a = i_batch * Features + i_row
  BY DEF TimeRow, TimeInv
<1>2. \A b \in Batch, f \in Feature :
        /\ b * Features + f \in 0 .. Batches * Features - 1
        /\ b * Features + f = ptr_a => b = i_batch /\ f = i_row
  BY <1>1, BufferIndex DEF Feature
<1>3. [j \in Slot |-> <<v1 + j, state_data[v2 + j]>>] = RowSum(calls + 1, i_batch, i_row)
  <2>1. ASSUME NEW j \in Slot
        PROVE  state_data[v2 + j] = Activation(calls + 1, i_batch, i_row, j)
    BY <1>1, CellNext DEF HistoryIsWindow, Latest
  <2> QED BY <2>1, <1>1 DEF RowSum
<1>4. ASSUME NEW b \in Batch, NEW f \in Feature,
             Passed(b, f) \/ (b = i_batch /\ f = i_row)
      PROVE  buffer_a'[b * Features + f] = RowSum(calls + 1, b, f)
  BY <1>1, <1>2, <1>3, <1>4 DEF TimeRow, TimeInv
<1>5. /\ UNCHANGED <<params, state_data, buffer_b, dst, calls, ret>>
      /\ v2' = v2 + TimeBatches
      /\ DOMAIN buffer_a' = DOMAIN buffer_a
  BY DEF TimeRow
<1>6. Cell(i_batch, i_row, 0) \in Nat /\ v1 \in Nat /\ ptr_a \in Nat
  BY <1>1 DEF Cell, Batch, Feature
<1>6a. ASSUME TimeInv', ReduceInv', RequantizeInv', v1' \in Nat, ptr_a' \in Nat,
              pc' \in {"time", "reduce"}
       PROVE  ScratchInv'
  <2>1. calls < MaxCalls BY <1>1
  <2>2. v2' \in Nat BY <1>1, <1>5, <1>6
  <2> QED BY <1>5, <1>6a, <2>1, <2>2 DEF params
<1>7. CASE i_row + 1 < Features
  <2>1. /\ i_row' = i_row + 1 /\ v1' = v1 + TimeBatches /\ ptr_a' = ptr_a + 1
        /\ i_batch' = i_batch /\ pc' = pc
    BY <1>7 DEF TimeRow
  <2>2. v2' = Cell(i_batch', i_row', 0) BY <1>1, <1>5, <2>1, CellWrap
  <2>3. v1' = i_row' * TimeBatches /\ ptr_a' = i_batch' * Features + i_row'
    BY <1>1, <2>1 DEF Feature, Batch
  <2>4. \A b \in Batch, f \in Feature :
          Passed(b, f)' => Passed(b, f) \/ (b = i_batch /\ f = i_row)
    BY <1>1, <2>1 DEF Passed, Feature, Batch
  <2>5. TimeInv' BY <1>4, <1>5, <2>2, <2>3, <2>4 DEF TimeInv
  <2>6. ReduceInv' /\ RequantizeInv' BY <1>1, <2>1 DEF ReduceInv, RequantizeInv
  <2> QED BY <1>1, <1>6, <1>6a, <2>1, <2>5, <2>6
<1>8. CASE i_row + 1 = Features /\ i_batch + 1 < Batches
  <2>1. /\ i_row' = 0 /\ v1' = 0 /\ ptr_a' = ptr_a + 1
        /\ i_batch' = i_batch + 1 /\ pc' = pc
    BY <1>8, <1>1 DEF TimeRow, Batch
  <2>2. v2' = Cell(i_batch', i_row', 0)
    <3>1. i_row = Features - 1 BY <1>8, <1>1 DEF Feature
    <3> QED BY <1>1, <1>5, <2>1, <3>1, CellWrap
  <2>3. v1' = i_row' * TimeBatches /\ ptr_a' = i_batch' * Features + i_row'
    <3>1. (i_batch + 1) * Features = i_batch * Features + Features BY <1>1 DEF Batch
    <3>2. i_batch * Features \in Int BY <1>1 DEF Batch
    <3>3. ptr_a' = (i_batch + 1) * Features BY <1>1, <1>8, <2>1, <3>1, <3>2 DEF Feature
    <3>4. 0 * TimeBatches = 0 /\ (i_batch + 1) * Features \in Int BY <1>1 DEF Batch
    <3> QED BY <3>3, <3>4, <2>1
  <2>4. \A b \in Batch, f \in Feature :
          Passed(b, f)' => Passed(b, f) \/ (b = i_batch /\ f = i_row)
    BY <1>1, <1>8, <2>1 DEF Passed, Feature, Batch
  <2>5. TimeInv' BY <1>4, <1>5, <2>2, <2>3, <2>4 DEF TimeInv
  <2>6. ReduceInv' /\ RequantizeInv' BY <1>1, <2>1 DEF ReduceInv, RequantizeInv
  <2> QED BY <1>1, <1>6, <1>6a, <2>1, <2>5, <2>6
<1>9. CASE i_row + 1 = Features /\ i_batch + 1 = Batches
  <2>1. i_row' = 0 /\ ptr_a' = 0 /\ i_batch' = 0 /\ pc' = "reduce" /\ v1' = v1
    BY <1>9, <1>1 DEF TimeRow, Batch
  <2>2. \A b \in Batch, f \in Feature : Passed(b, f) \/ (b = i_batch /\ f = i_row)
    BY <1>1, <1>9 DEF Passed, Feature, Batch
  <2>3. \A b \in Batch, u \in Units : ~Passed(b, u)'
    BY <2>1 DEF Passed, Batch, Units
  <2>4. ptr_a' = i_batch' * Features + i_row' * rank
    BY <2>1, RankAssumption
  <2>5. i_row' \in Units' BY <1>5, <2>1 DEF Units, params
  <2>6. Units' = Units BY <1>5 DEF Units, params
  <2>7. ReduceInv'
    BY <1>4, <1>5, <2>2, <2>3, <2>4, <2>5, <2>6 DEF ReduceInv, params
  <2>8. TimeInv' /\ RequantizeInv' BY <2>1 DEF TimeInv, RequantizeInv
  <2> QED BY <1>6, <1>6a, <2>1, <2>7, <2>8
<1> QED BY <1>1, <1>7, <1>8, <1>9 DEF Feature, Batch

\* The filters of a unit: every index of the inner loop of the reduction is one
\* of the features, and ptr_a walks them in order.
LEMMA UnitFilters ==
  ASSUME rank \in 1 .. Features, unit_count \in 1 .. Features, unit_count * rank = Features,
         NEW u \in Units
  PROVE  /\ u * rank \in Nat
         /\ u * rank + rank <= Features
         /\ (u + 1) * rank = u * rank + rank
         /\ \A q \in 0 .. rank - 1 : u * rank + q \in Feature
<1> USE DimsAssumption
<1>1. \A q \in 0 .. rank - 1 : u * rank + q \in Feature
  BY RowMajorBound DEF Units, Feature
<1>2. u * rank + (rank - 1) \in Feature BY <1>1
<1>3. u * rank \in Nat /\ (u + 1) * rank = u * rank + rank BY DEF Units
<1>4. u * rank + rank <= Features BY <1>2, <1>3 DEF Feature
<1> QED BY <1>1, <1>3, <1>4

\* A unit of the reduction, whichever branch computed it: word stores the sum
\* of the unit, at the unit's index.
LEMMA ReduceKeepsScratchInv ==
  ASSUME IInv, pc = "reduce", AdvanceUnits,
         buffer_b' = [buffer_b EXCEPT
           ![i_batch * unit_count + i_row] = UnitSum(calls + 1, i_batch, i_row)]
  PROVE  ScratchInv'
<1> USE DimsAssumption DEF IInv, StateInv, ScratchInv
<1>1. /\ i_row \in Units /\ i_batch \in Batch
      /\ ptr_a = i_batch * Features + i_row * rank
      /\ rank \in 1 .. Features /\ unit_count \in 1 .. Features
  BY DEF ReduceInv
<1>2. \A b \in Batch, u \in Units :
        /\ b * unit_count + u \in 0 .. Batches * unit_count - 1
        /\ b * unit_count + u = i_batch * unit_count + i_row => b = i_batch /\ u = i_row
  BY <1>1, BufferIndex DEF Units
<1>3. ASSUME NEW b \in Batch, NEW u \in Units,
             Passed(b, u) \/ (b = i_batch /\ u = i_row)
      PROVE  buffer_b'[b * unit_count + u] = UnitSum(calls + 1, b, u)
  <2>1. CASE b = i_batch /\ u = i_row BY <1>1, <1>2, <2>1
  <2>2. CASE ~(b = i_batch /\ u = i_row) BY <1>1, <1>2, <1>3, <2>2 DEF ReduceInv
  <2> QED BY <2>1, <2>2
<1>4. /\ UNCHANGED <<params, state_data, buffer_a, dst, v1, v2, calls, ret>>
      /\ DOMAIN buffer_b' = DOMAIN buffer_b
      /\ Units' = Units
  BY DEF AdvanceUnits, Units, params
<1>5. \A b \in Batch, u \in Units : UnitSum(calls + 1, b, u)' = UnitSum(calls + 1, b, u)
  BY <1>4 DEF UnitSum, params
<1>6. /\ i_batch * Features \in Nat /\ i_row * rank \in Nat
      /\ (i_row + 1) * rank = i_row * rank + rank
  BY <1>1, UnitFilters DEF Batch
<1>7. ASSUME TimeInv', ReduceInv', RequantizeInv', ptr_a' \in Nat,
             pc' \in {"reduce", "requantize"}
      PROVE  ScratchInv'
  BY <1>4, <1>7 DEF params
<1>8. CASE i_row + 1 < unit_count
  <2>1. /\ i_row' = i_row + 1 /\ ptr_a' = ptr_a + rank
        /\ i_batch' = i_batch /\ pc' = pc
    BY <1>8 DEF AdvanceUnits
  <2>2. /\ ptr_a' = i_batch' * Features + i_row' * rank' /\ ptr_a' \in Nat
    BY <1>1, <1>4, <1>6, <2>1 DEF params
  <2>3. \A b \in Batch, u \in Units :
          Passed(b, u)' => Passed(b, u) \/ (b = i_batch /\ u = i_row)
    BY <1>1, <2>1 DEF Passed, Units, Batch
  <2>4. i_row' \in Units' BY <1>1, <1>4, <1>8, <2>1 DEF Units, params
  <2>5. ReduceInv'
    BY <1>3, <1>4, <1>5, <2>2, <2>3, <2>4 DEF ReduceInv, params
  <2> QED BY <1>7, <2>1, <2>2, <2>5 DEF TimeInv, RequantizeInv
<1>9. CASE i_row + 1 = unit_count /\ i_batch + 1 < Batches
  <2>1. /\ i_row' = 0 /\ ptr_a' = (i_batch + 1) * Features
        /\ i_batch' = i_batch + 1 /\ pc' = pc
    BY <1>9, <1>1 DEF AdvanceUnits, Batch
  <2>2. /\ ptr_a' = i_batch' * Features + i_row' * rank' /\ ptr_a' \in Nat
    <3>1. 0 * rank' = 0 BY <1>1, <1>4 DEF params
    <3>2. (i_batch + 1) * Features \in Nat BY <1>1 DEF Batch
    <3> QED BY <2>1, <3>1, <3>2
  <2>3. \A b \in Batch, u \in Units :
          Passed(b, u)' => Passed(b, u) \/ (b = i_batch /\ u = i_row)
    BY <1>1, <1>9, <2>1 DEF Passed, Units, Batch
  <2>4. i_row' \in Units' BY <1>1, <1>4, <2>1 DEF Units, params
  <2>5. ReduceInv'
    BY <1>3, <1>4, <1>5, <2>2, <2>3, <2>4 DEF ReduceInv, params
  <2> QED BY <1>7, <2>1, <2>2, <2>5 DEF TimeInv, RequantizeInv
<1>10. CASE i_row + 1 = unit_count /\ i_batch + 1 = Batches
  <2>1. pc' = "requantize" /\ ptr_a' = ptr_a BY <1>10, <1>1 DEF AdvanceUnits, Batch
  <2>2. \A b \in Batch, u \in Units : Passed(b, u) \/ (b = i_batch /\ u = i_row)
    BY <1>1, <1>10 DEF Passed, Units, Batch
  <2>3. RequantizeInv' BY <1>3, <1>4, <1>5, <2>2 DEF RequantizeInv, params
  <2> QED BY <1>7, <2>1, <2>3 DEF TimeInv, ReduceInv
<1> QED BY <1>1, <1>8, <1>9, <1>10 DEF Units, Batch

\* One turn of the bias or of the rank reduction makes one more word final.
LEMMA UnitStepKeepsScratchInv ==
  ASSUME IInv, AddBias \/ ReduceRank
  PROVE  ScratchInv'
<1> USE DimsAssumption DEF IInv, StateInv, ScratchInv
<1>1. /\ pc = "reduce" /\ AdvanceUnits
      /\ i_row \in Units /\ i_batch \in Batch
      /\ ptr_a = i_batch * Features + i_row * rank
      /\ rank \in 1 .. Features /\ unit_count \in 1 .. Features
      /\ \A b \in Batch, f \in Feature :
           buffer_a[b * Features + f] = RowSum(calls + 1, b, f)
  BY DEF AddBias, ReduceRank, ReduceInv
<1>2. /\ i_row * rank \in Nat
      /\ \A q \in 0 .. rank - 1 : i_row * rank + q \in Feature
  BY <1>1, UnitFilters
<1>3. CASE AddBias
  <2>1. rank = 1
    <3>1. unit_count * rank = unit_count BY <1>3 DEF AddBias, RankOne
    <3>2. ~(rank >= 2)
      <4>1. ASSUME rank >= 2 PROVE unit_count * rank >= unit_count + unit_count
        <5>1. PICK d \in Nat : rank = 2 + d
          <6>1. rank - 2 \in Nat /\ rank = 2 + (rank - 2) BY <4>1, <1>1
          <6> QED BY <6>1
        <5>2. unit_count * rank = unit_count + unit_count + unit_count * d BY <5>1, <1>1
        <5>3. unit_count * d \in Nat BY <1>1
        <5> QED BY <5>2, <5>3, <1>1
      <4> QED BY <4>1, <3>1, <1>1
    <3> QED BY <3>2, <1>1
  <2>2. i_row * 1 + 0 = i_row /\ i_row \in Feature BY <1>1, <1>3 DEF AddBias, RankOne, Units, Feature
  <2>3. Unit(i_row, [q \in 0 .. 0 |-> buffer_a[i_batch * Features + i_row]])
          = UnitSum(calls + 1, i_batch, i_row)
    <3>1. buffer_a[i_batch * Features + i_row] = RowSum(calls + 1, i_batch, i_row)
      BY <1>1, <2>2
    <3>2. \A q \in 0 .. 0 : i_row * rank + q = i_row BY <2>1, <2>2
    <3>3. has_bias BY <1>3 DEF AddBias, RankOne
    <3> QED BY <2>1, <3>1, <3>2, <3>3 DEF UnitSum
  <2>4. i_batch * Features + i_row = i_batch * unit_count + i_row
    BY <1>3 DEF AddBias, RankOne
  <2> QED BY <1>1, <1>3, <2>3, <2>4, ReduceKeepsScratchInv DEF AddBias
<1>4. CASE ReduceRank
  <2>1. ASSUME NEW q \in 0 .. rank - 1
        PROVE  buffer_a[ptr_a + q] = RowSum(calls + 1, i_batch, i_row * rank + q)
    <3>1. ptr_a + q = i_batch * Features + (i_row * rank + q)
      <4>1. i_batch * Features \in Int BY <1>1 DEF Batch
      <4> QED BY <1>1, <1>2, <4>1
    <3> QED BY <3>1, <1>1, <1>2
  <2>2. Unit(IF has_bias THEN i_row ELSE NoBias, [q \in 0 .. rank - 1 |-> buffer_a[ptr_a + q]])
          = UnitSum(calls + 1, i_batch, i_row)
    BY <2>1 DEF UnitSum
  <2> QED BY <1>1, <1>4, <2>2, ReduceKeepsScratchInv DEF ReduceRank
<1> QED BY <1>3, <1>4

\* The induction, one case per action.
LEMMA IInvNext ==
  ASSUME StridedBuilds, IInv, [Next]_vars
  PROVE  IInv'
<1> USE DimsAssumption
<1>1. StateInv' BY StateInvNext DEF IInv
<1> SUFFICES ScratchInv' BY <1>1 DEF IInv
<1>2. ASSUME NEW ctx \in BOOLEAN, NEW ic \in BOOLEAN, NEW oc \in BOOLEAN, Call(ctx, ic, oc)
      PROVE  ScratchInv'
  <2>1. /\ pc' = "feature" /\ UNCHANGED <<params, buffer_a, buffer_b, v1, v2, ptr_a, calls, ret>>
        /\ calls < MaxCalls /\ dst' = ResPtr(0)
    BY <1>2 DEF Call
  <2>2. dst' \in Cells
    <3>1. 0 \in Batch /\ 0 \in Feature BY DEF Batch, Feature
    <3>2. dst' = Cell(i_batch', i_row', TimeBatches - 1)
      BY <1>1, <2>1 DEF StateInv, FeatureInv
    <3>3. i_batch' \in Batch /\ i_row' \in Feature /\ TimeBatches - 1 \in Slot
      BY <1>1 DEF StateInv, Slot
    <3> QED BY <3>2, <3>3, CellType
  <2>3. TimeInv' /\ ReduceInv' /\ RequantizeInv'
    BY <2>1 DEF TimeInv, ReduceInv, RequantizeInv
  <2> QED BY <2>1, <2>2, <2>3 DEF IInv, ScratchInv, params
<1>3. ASSUME NEW ctx \in BOOLEAN, NEW ic \in BOOLEAN, NEW oc \in BOOLEAN,
             CallFails(ctx, ic, oc)
      PROVE  ScratchInv'
  <2>1. TimeInv' /\ ReduceInv' /\ RequantizeInv'
    BY <1>3 DEF CallFails, TimeInv, ReduceInv, RequantizeInv
  <2> QED BY <1>3, <2>1 DEF CallFails, IInv, ScratchInv, params, tensors, loop
<1>4. CASE Restart
  <2>1. TimeInv' /\ ReduceInv' /\ RequantizeInv'
    BY <1>4 DEF Restart, TimeInv, ReduceInv, RequantizeInv
  <2> QED BY <1>4, <2>1 DEF Restart, IInv, ScratchInv, params, loop
<1>5. ASSUME NEW n \in Nat \ {0}, pc = "feature", AdvanceRows(n)
      PROVE  ScratchInv'
  <2>1. UNCHANGED <<params, buffer_a, buffer_b, calls, ret>> BY <1>5 DEF AdvanceRows
  <2>2. CASE pc' = "feature"
    <3>1. dst' = Cell(i_batch', i_row', TimeBatches - 1)
      BY <1>1, <2>2 DEF StateInv, FeatureInv
    <3>2. i_batch' \in Batch /\ i_row' \in Feature /\ TimeBatches - 1 \in Slot
      BY <1>1 DEF StateInv, Slot
    <3>3. dst' \in Cells BY <3>1, <3>2, CellType
    <3>4. UNCHANGED <<v1, v2, ptr_a>> BY <1>5, <2>2 DEF AdvanceRows
    <3>5. TimeInv' /\ ReduceInv' /\ RequantizeInv'
      BY <2>2 DEF TimeInv, ReduceInv, RequantizeInv
    <3> QED BY <1>5, <2>1, <2>2, <3>3, <3>4, <3>5 DEF IInv, ScratchInv, params
  <2>3. CASE pc' = "time"
    <3>1. /\ i_batch' = 0 /\ i_row' = 0 /\ v1' = 0 /\ v2' = 0 /\ ptr_a' = 0 /\ dst' = dst
      BY <1>5, <2>3 DEF AdvanceRows
    <3>2. /\ 0 * TimeBatches = 0 /\ Cell(0, 0, 0) = 0 /\ 0 * Features + 0 = 0
      BY DEF Cell
    <3>3. \A b \in Batch, f \in Feature : ~Passed(b, f)'
      BY <3>1 DEF Passed, Batch, Feature
    <3>4. TimeInv' BY <3>1, <3>2, <3>3 DEF TimeInv
    <3>5. ReduceInv' /\ RequantizeInv' BY <2>3 DEF ReduceInv, RequantizeInv
    <3> QED BY <1>5, <2>1, <2>3, <3>1, <3>4, <3>5 DEF IInv, ScratchInv, params
  <2> QED BY <1>5, <2>2, <2>3 DEF AdvanceRows
<1>6. CASE FeatureBlock
  <2>1. Unroll \in Nat \ {0} BY DEF Unroll
  <2> QED BY <1>5, <1>6, <2>1 DEF FeatureBlock
<1>7. CASE FeatureLeftover BY <1>5, <1>7 DEF FeatureLeftover
<1>8. CASE TimeRow BY <1>8, TimeRowKeepsScratchInv
<1>9. CASE AddBias \/ ReduceRank BY <1>9, UnitStepKeepsScratchInv
<1>10. CASE Requantize
  <2>1. TimeInv' /\ ReduceInv' /\ RequantizeInv'
    BY <1>10 DEF Requantize, TimeInv, ReduceInv, RequantizeInv
  <2>2. calls' \in 0 .. MaxCalls BY <1>10 DEF Requantize, IInv, ScratchInv
  <2> QED BY <1>10, <2>1, <2>2 DEF Requantize, IInv, ScratchInv, params, loop
<1>11. CASE UNCHANGED vars
  <2>1. TimeInv' /\ ReduceInv' /\ RequantizeInv'
    BY <1>11 DEF IInv, ScratchInv, TimeInv, ReduceInv, RequantizeInv, Passed,
                 RowSum, UnitSum, Units, vars, params, tensors, loop
  <2> QED BY <1>11, <2>1 DEF IInv, ScratchInv, vars, params, tensors, loop
<1> QED
  BY <1>2, <1>3, <1>4, <1>6, <1>7, <1>8, <1>9, <1>10, <1>11 DEF Next, Step

\* The history and the scratch words are right in every state.
LEMMA IInvInductive == ASSUME StridedBuilds PROVE Spec => []IInv
<1>1. Init => IInv BY StateInvInit, ScratchInvInit DEF IInv
<1>2. IInv /\ [Next]_vars => IInv' BY IInvNext
<1> QED BY <1>1, <1>2, PTL DEF Spec

\* Every index the call uses is inside its array, for all dimensions.
THEOREM TypeCorrect ==
  ASSUME StridedBuilds
  PROVE  Spec => []TypeOK
<1>1. ASSUME IInv PROVE TypeOK
  <2> USE DimsAssumption, <1>1 DEF IInv, StateInv, ScratchInv
  <2>1. ASSUME pc = "time" PROVE v2 + TimeBatches - 1 \in Cells
    <3>1. v2 = Cell(i_batch, i_row, 0) BY <2>1 DEF TimeInv
    <3>2. TimeBatches - 1 \in Slot BY DEF Slot
    <3>3. v2 + (TimeBatches - 1) \in Cells BY <3>1, <3>2, CellNext, CellType
    <3> QED BY <3>3
  <2>2. ASSUME pc = "reduce" PROVE ptr_a + rank <= Batches * Features
    <3>1. i_row \in Units /\ ptr_a = i_batch * Features + i_row * rank
      BY <2>2 DEF ReduceInv
    <3>2. i_row * rank + rank <= Features /\ i_row * rank \in Nat BY <3>1, UnitFilters
    <3>3. i_batch * Features + (Features - 1) \in 0 .. Batches * Features - 1
      BY BufferIndex
    <3>4. i_batch * Features \in Int /\ Batches * Features \in Int /\ rank \in Int
      BY DEF Batch
    <3> QED BY <3>1, <3>2, <3>3, <3>4
  <2> QED BY <2>1, <2>2 DEF TypeOK
<1> QED BY <1>1, IInvInductive, PTL

-----------------------------------------------------------------------------
(* Refinement.                                                             *)

\* The output tensor as the abstract specification sees it.
AbstractOutput ==
  [b \in Batch |-> [u \in 0 .. unit_count - 1 |-> output_data[b * unit_count + u]]]

\* An initial state is a filter that has seen nothing.
LEMMA InitRefines == Init => Stream!Init
<1> SUFFICES ASSUME Init PROVE Stream!Init OBVIOUS
<1> USE DimsAssumption, RankAssumption
<1>1. unit_count \in 1 .. Features /\ unit_count * rank = Features BY DEF Init
<1>2. ASSUME NEW b \in Batch, NEW u \in 0 .. unit_count - 1
      PROVE  output_data[b * unit_count + u] = Undefined
  BY <1>1, BufferIndex DEF Init
<1> QED BY <1>1, <1>2 DEF Init, Stream!Init, Batch

\* Requantize publishes the result the abstract layer computes.
LEMMA RequantizeRefines ==
  ASSUME IInv, Requantize
  PROVE  Stream!Finish
<1> USE DimsAssumption
<1>1. /\ unit_count \in 1 .. Features /\ rank \in 1 .. Features
      /\ unit_count * rank = Features /\ calls \in Nat
      /\ unit_count' = unit_count /\ has_bias' = has_bias /\ rank' = rank
      /\ pc = "requantize" /\ pc' = "idle" /\ calls' = calls + 1
  BY DEF Requantize, IInv, StateInv, ScratchInv, params
<1>2. ASSUME NEW b \in Batch, NEW u \in 0 .. unit_count - 1
      PROVE  output_data'[b * unit_count + u] =
               [requantized |->
                 [bias  |-> IF has_bias THEN u ELSE -1,
                  terms |-> [q \in 0 .. rank - 1 |->
                               Stream!Filtered(calls + 1, b, u * rank + q)]]]
  <2>1. b * unit_count + u \in 0 .. Batches * unit_count - 1 BY <1>1, BufferIndex
  <2>2. output_data'[b * unit_count + u] = [requantized |-> buffer_b[b * unit_count + u]]
    BY <2>1 DEF Requantize
  <2>3. buffer_b[b * unit_count + u] = UnitSum(calls + 1, b, u)
    BY <1>1 DEF IInv, ScratchInv, RequantizeInv, Units
  <2>4. \A q \in 0 .. rank - 1 :
          RowSum(calls + 1, b, u * rank + q) = Stream!Filtered(calls + 1, b, u * rank + q)
    BY DEF RowSum, Stream!Filtered, Activation, Slot
  <2> QED BY <2>2, <2>3, <2>4 DEF UnitSum, Unit, NoBias
<1>3. AbstractOutput' = Stream!Result(calls + 1)
  BY <1>1, <1>2 DEF AbstractOutput, Stream!Result, Batch
<1> QED BY <1>1, <1>3 DEF Stream!Finish, AbstractOutput

\* Every other step is a stutter, the start of a call or a restart.
LEMMA NextRefines ==
  ASSUME IInv, [Next]_vars
  PROVE  [Stream!Next]_(Stream!vars)
<1> USE DEF Stream!vars, params, tensors, loop
<1>1. ASSUME NEW ctx \in BOOLEAN, NEW ic \in BOOLEAN, NEW oc \in BOOLEAN, Call(ctx, ic, oc)
      PROVE  Stream!Begin
  BY <1>1 DEF Call, Stream!Begin
<1>2. ASSUME NEW ctx \in BOOLEAN, NEW ic \in BOOLEAN, NEW oc \in BOOLEAN,
             CallFails(ctx, ic, oc)
      PROVE  UNCHANGED Stream!vars
  BY <1>2 DEF CallFails
<1>3. CASE Restart BY <1>3 DEF Restart, Stream!Restart, Stream!Next
<1>4. ASSUME NEW n, pc = "feature", AdvanceRows(n) PROVE UNCHANGED Stream!vars
  <2>1. pc' # "idle" BY <1>4 DEF AdvanceRows
  <2> QED BY <1>4, <2>1 DEF AdvanceRows
<1>5. CASE FeatureBlock \/ FeatureLeftover
  BY <1>4, <1>5 DEF FeatureBlock, FeatureLeftover
<1>6. CASE TimeRow BY <1>6 DEF TimeRow
<1>7. CASE AddBias \/ ReduceRank BY <1>7 DEF AddBias, ReduceRank, AdvanceUnits
<1>8. CASE Requantize BY <1>8, RequantizeRefines DEF Stream!Next
<1>9. CASE UNCHANGED vars BY <1>9 DEF vars
<1> QED
  BY <1>1, <1>2, <1>3, <1>5, <1>6, <1>7, <1>8, <1>9 DEF Next, Step, Stream!Next

\* The safety part of ImplementsStream: for all dimensions the layer is a filter
\* over the last TimeBatches inputs.
THEOREM StreamRefinement ==
  ASSUME StridedBuilds
  PROVE  Spec => Stream!Init /\ [][Stream!Next]_(Stream!vars)
<1>1. Init => Stream!Init BY InitRefines
<1>2. IInv /\ [Next]_vars => [Stream!Next]_(Stream!vars) BY NextRefines
<1> QED BY <1>1, <1>2, IInvInductive, PTL DEF Spec
=============================================================================
