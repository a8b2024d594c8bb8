----------------------------- MODULE LstmProofs -----------------------------
(***************************************************************************)
(* Lstm is right for every layer and any arithmetic: its steps read and    *)
(* write inside the tensors, and where the kernel stores all batches it    *)
(* computes the recurrence.  The induction carries what each buffer holds  *)
(* between two library calls, in terms of the state of the recurrence.     *)
(***************************************************************************)
EXTENDS Lstm, RowMajor, TLAPS

\* The layers the refinement is about: the s8 kernel stores one batch.
AllStored == \A l \in Layers : l.type = "s8" => l.batch_size = 1

-----------------------------------------------------------------------------
(* Addresses.                                                              *)

\* RowMajorUnique for rows of rows.
LEMMA NestedUnique ==
  ASSUME NEW m \in Nat \ {0}, NEW n \in Nat \ {0},
         NEW q \in Nat, NEW r \in 0 .. m - 1, NEW k \in 0 .. n - 1,
         NEW q2 \in Nat, NEW r2 \in 0 .. m - 1, NEW k2 \in 0 .. n - 1,
         (q * m + r) * n + k = (q2 * m + r2) * n + k2
  PROVE  q = q2 /\ r = r2 /\ k = k2
<1> DEFINE row == q * m + r
           row2 == q2 * m + r2
<1>1. row \in Nat /\ row2 \in Nat OBVIOUS
<1>2. row * n + k = row2 * n + k2 OBVIOUS
<1>3. row = row2 /\ k = k2
  <2> HIDE DEF row, row2
  <2> QED BY <1>1, <1>2, RowMajorUnique
<1> QED BY <1>3, RowMajorUnique

\* The sizes of a layer are positive numbers.
LEMMA Dims ==
  ASSUME layer \in Layers
  PROVE  /\ batch_size \in Nat \ {0} /\ time_steps \in Nat \ {0}
         /\ input_size \in Nat \ {0} /\ hidden_size \in Nat \ {0}
         /\ layer.time_major \in BOOLEAN
         /\ layer.type \in {"s8", "s16"}
BY LayersAssumption DEF batch_size, time_steps, input_size, hidden_size

\* The loops compute the address that the layout defines.
LEMMA AddressLaw ==
  ASSUME layer \in Layers, NEW b \in Nat, NEW s \in Nat, NEW n \in Nat, NEW k \in Nat
  PROVE  RowOf(SampleRow(s, n), b, n) + k = TensorAt(b, s, n, k)
<1>1. batch_size \in Nat /\ time_steps \in Nat /\ layer.time_major \in BOOLEAN BY Dims
<1>2. CASE layer.time_major
  <2>1. s * n * batch_size + b * n * 1 + k = (s * batch_size + b) * n + k BY <1>1
  <2> QED BY <1>2, <2>1 DEF RowOf, SampleRow, TensorAt, batch_offset
<1>3. CASE ~layer.time_major
  <2>1. s * n * 1 + b * n * time_steps + k = (b * time_steps + s) * n + k BY <1>1
  <2> QED BY <1>3, <2>1 DEF RowOf, SampleRow, TensorAt, batch_offset
<1> QED BY <1>1, <1>2, <1>3

\* The address of a feature is an address of its tensor, of batch_size *
\* time_steps rows of n.
LEMMA TensorType ==
  ASSUME layer \in Layers, NEW b \in Batch, NEW s \in 0 .. time_steps - 1,
         NEW n \in Nat, NEW k \in 0 .. n - 1
  PROVE  TensorAt(b, s, n, k) \in 0 .. batch_size * time_steps * n - 1
<1> USE Dims DEF Batch
<1>1. CASE layer.time_major
  <2>1. s * batch_size + b \in 0 .. time_steps * batch_size - 1 BY RowMajorBound
  <2>2. time_steps * batch_size = batch_size * time_steps /\ batch_size * time_steps \in Nat
    OBVIOUS
  <2>3. (s * batch_size + b) * n + k \in 0 .. (batch_size * time_steps) * n - 1
    BY <2>1, <2>2, RowMajorBound
  <2> QED BY <1>1, <2>3 DEF TensorAt
<1>2. CASE ~layer.time_major
  <2>1. b * time_steps + s \in 0 .. batch_size * time_steps - 1 BY RowMajorBound
  <2>2. batch_size * time_steps \in Nat OBVIOUS
  <2>3. (b * time_steps + s) * n + k \in 0 .. (batch_size * time_steps) * n - 1
    BY <2>1, <2>2, RowMajorBound
  <2> QED BY <1>2, <2>3 DEF TensorAt
<1> QED BY <1>1, <1>2

\* Different features have different addresses.
LEMMA TensorUnique ==
  ASSUME layer \in Layers, NEW n \in Nat \ {0},
         NEW b \in Batch, NEW s \in 0 .. time_steps - 1, NEW k \in 0 .. n - 1,
         NEW b2 \in Batch, NEW s2 \in 0 .. time_steps - 1, NEW k2 \in 0 .. n - 1,
         TensorAt(b, s, n, k) = TensorAt(b2, s2, n, k2)
  PROVE  b = b2 /\ s = s2 /\ k = k2
<1>1. /\ batch_size \in Nat \ {0} /\ time_steps \in Nat \ {0}
      /\ b \in Nat /\ b2 \in Nat /\ s \in Nat /\ s2 \in Nat
  BY Dims DEF Batch
<1>2. CASE layer.time_major
  <2>1. (s * batch_size + b) * n + k = (s2 * batch_size + b2) * n + k2
    BY <1>2 DEF TensorAt
  <2> QED BY <1>1, <2>1, NestedUnique DEF Batch
<1>3. CASE ~layer.time_major
  <2>1. (b * time_steps + s) * n + k = (b2 * time_steps + s2) * n + k2
    BY <1>3 DEF TensorAt
  <2> QED BY <1>1, <2>1, NestedUnique
<1> QED BY <1>2, <1>3

-----------------------------------------------------------------------------
(* The inductive invariant: what a step has computed so far, in terms of   *)
(* the recurrence.                                                         *)

InStep == pc \notin {"idle", "return"}

\* The hidden state is the rows of the previous sample.
HiddenInv ==
  /\ t > 0 => hidden_in = SampleRow(t - 1, hidden_size)
  /\ pc = "return" => t = time_steps

ScaledCell(b, i) == Scale(Recurrence!Gate("forget", b, i), cell_before[<<b, i>>])

\* Which gate, or which stage of the cell, each buffer holds.
BufferAt(b, i) ==
  /\ pc \in {"forget_gate", "scale_cell"} => cell_state[<<b, i>>] = cell_before[<<b, i>>]
  /\ pc = "scale_cell" => temp1[<<b, i>>] = Recurrence!Gate("forget", b, i)
  /\ pc \in {"input_gate", "cell_gate", "accumulate_cell"} =>
       cell_state[<<b, i>>] = ScaledCell(b, i)
  /\ pc \in {"cell_gate", "accumulate_cell"} => temp1[<<b, i>>] = Recurrence!Gate("input", b, i)
  /\ pc = "accumulate_cell" => temp2[<<b, i>>] = Recurrence!Gate("cell", b, i)
  /\ pc \in {"output_gate", "tanh", "hidden"} => cell_state[<<b, i>>] = Recurrence!NextCell(b, i)
  /\ pc \in {"tanh", "hidden"} => temp1[<<b, i>>] = Recurrence!Gate("output", b, i)
  /\ pc = "hidden" => temp2[<<b, i>>] = Tanh(Recurrence!NextCell(b, i))

BufferInv == \A b \in Batch, i \in Unit : BufferAt(b, i)

IInv == TypeOK /\ HiddenInv /\ BufferInv

-----------------------------------------------------------------------------
(* Rows.                                                                   *)

\* Every address of a step is the one of the layout.
LEMMA StoreLaw ==
  ASSUME TypeOK, NEW b \in Batch, NEW i \in Unit
  PROVE  StoreAt(<<b, i>>) = TensorAt(b, t, hidden_size, i)
<1>1. b \in Nat /\ i \in Nat /\ t \in Nat /\ hidden_size \in Nat
  BY Dims DEF TypeOK, Batch, Unit
<1>2. StoreAt(<<b, i>>) = RowOf(SampleRow(t, hidden_size), b, hidden_size) + i
  BY DEF StoreAt, hidden_out
<1> QED BY <1>1, <1>2, AddressLaw DEF TypeOK

\* vec_mat_mul_result_acc reads the sample of its batch.
LEMMA InputLaw ==
  ASSUME TypeOK, NEW b \in Batch, NEW k \in 0 .. input_size - 1
  PROVE  RowOf(data_in, b, input_size) + k = TensorAt(b, t, input_size, k)
<1>1. b \in Nat /\ k \in Nat /\ t \in Nat /\ input_size \in Nat
  BY Dims DEF TypeOK, Batch
<1> QED BY <1>1, AddressLaw DEF TypeOK, data_in

\* After the first sample it reads the row of the sample before.
LEMMA HiddenLaw ==
  ASSUME TypeOK, HiddenInv, t > 0, NEW b \in Batch, NEW i \in Unit
  PROVE  RowOf(hidden_in, b, hidden_size) + i = TensorAt(b, t - 1, hidden_size, i)
<1>1. b \in Nat /\ i \in Nat /\ t - 1 \in Nat /\ hidden_size \in Nat
  BY Dims DEF TypeOK, Batch, Unit
<1>2. hidden_in = SampleRow(t - 1, hidden_size) BY DEF HiddenInv
<1> QED BY <1>1, <1>2, AddressLaw DEF TypeOK

\* The rows a step touches are inside their tensors.
LEMMA Inside ==
  ASSUME TypeOK, HiddenInv
  PROVE  RowsInside
<1> SUFFICES ASSUME InStep, NEW b \in Batch
             PROVE  /\ \A k \in 0 .. input_size - 1 : RowOf(data_in, b, input_size) + k \in InputCells
                    /\ \A i \in Unit :
                         /\ StoreAt(<<b, i>>) \in OutputCells
                         /\ hidden_in # NULL =>
                              /\ RowOf(hidden_in, b, hidden_size) + i \in OutputCells
                              /\ \A w \in Words : StoreAt(w) # RowOf(hidden_in, b, hidden_size) + i
  BY DEF RowsInside, InStep
<1>0. /\ layer \in Layers /\ t \in 0 .. time_steps - 1
      /\ input_size \in Nat /\ hidden_size \in Nat \ {0} /\ time_steps \in Nat
  BY Dims DEF TypeOK, InStep
<1>1. ASSUME NEW k \in 0 .. input_size - 1
      PROVE  RowOf(data_in, b, input_size) + k \in InputCells
  BY <1>0, InputLaw, TensorType DEF InputCells
<1>2. ASSUME NEW i \in Unit
      PROVE  StoreAt(<<b, i>>) \in OutputCells
  BY <1>0, StoreLaw, TensorType DEF OutputCells, Unit
<1>3. ASSUME NEW i \in Unit, hidden_in # NULL
      PROVE  /\ RowOf(hidden_in, b, hidden_size) + i \in OutputCells
             /\ \A w \in Words : StoreAt(w) # RowOf(hidden_in, b, hidden_size) + i
  <2>1. t > 0 /\ t - 1 \in 0 .. time_steps - 1 BY <1>0, <1>3 DEF TypeOK
  <2>2. RowOf(hidden_in, b, hidden_size) + i = TensorAt(b, t - 1, hidden_size, i)
    BY <2>1, HiddenLaw
  <2>3. RowOf(hidden_in, b, hidden_size) + i \in OutputCells
    BY <1>0, <2>1, <2>2, TensorType DEF OutputCells, Unit
  <2>4. ASSUME NEW b2 \in Batch, NEW i2 \in Unit
        PROVE  StoreAt(<<b2, i2>>) # RowOf(hidden_in, b, hidden_size) + i
    <3>1. StoreAt(<<b2, i2>>) = TensorAt(b2, t, hidden_size, i2) BY StoreLaw
    <3>2. TensorAt(b2, t, hidden_size, i2) = TensorAt(b, t - 1, hidden_size, i) => t = t - 1
      BY <1>0, <2>1, TensorUnique DEF Unit
    <3> QED BY <1>0, <2>2, <3>1, <3>2
  <2> QED BY <2>3, <2>4 DEF Words
<1> QED BY <1>1, <1>2, <1>3

-----------------------------------------------------------------------------
(* Types and the hidden state.                                             *)

\* The first cell of a row of the output is a cell of the output.
LEMMA RowStart ==
  ASSUME TypeOK, t < time_steps
  PROVE  hidden_out \in OutputCells /\ hidden_out \in Nat
<1>1. 0 \in Batch /\ 0 \in Unit /\ t \in 0 .. time_steps - 1 /\ hidden_size \in Nat \ {0}
  BY Dims DEF TypeOK, Batch, Unit
<1>2. batch_offset \in Nat /\ hidden_out \in Nat
  BY Dims, <1>1 DEF batch_offset, hidden_out, SampleRow, TypeOK
<1>3. hidden_out = RowOf(hidden_out, 0, hidden_size) + 0
  BY <1>1, <1>2 DEF RowOf
<1>4. hidden_out = TensorAt(0, t, hidden_size, 0)
  BY <1>1, <1>3, AddressLaw DEF hidden_out, TypeOK
<1> QED BY <1>1, <1>2, <1>4, TensorType DEF OutputCells, TypeOK, Unit

\* A layer that no call has used yet.
LEMMA InitTypes == Init => TypeOK /\ HiddenInv
<1> SUFFICES ASSUME Init PROVE TypeOK /\ HiddenInv
  OBVIOUS
<1>1. time_steps \in Nat \ {0} BY Dims DEF Init
<1> QED BY <1>1 DEF Init, TypeOK, HiddenInv

\* Every call of the library keeps the types, and the hidden state where the
\* next sample expects it.
LEMMA NextTypes == TypeOK /\ HiddenInv /\ [Next]_vars => (TypeOK /\ HiddenInv)'
<1> SUFFICES ASSUME TypeOK, HiddenInv, [Next]_vars
             PROVE  TypeOK' /\ HiddenInv'
  OBVIOUS
<1> USE DEF vars, scratch, Words, Batch, Unit, InputCells, OutputCells,
            batch_size, time_steps, input_size, hidden_size
<1>1. CASE Call
  <2>1. layer.time_steps \in Nat \ {0} BY Dims DEF TypeOK
  <2> QED BY <1>1, <2>1 DEF Call, ClearedCell, TypeOK, HiddenInv
<1>2. CASE ForgetGate \/ InputGate \/ OutputGate
  BY <1>2 DEF ForgetGate, InputGate, OutputGate, GateTo1, CalculateGate, TypeOK, HiddenInv,
              SampleRow
<1>3. CASE ScaleCell
  BY <1>3 DEF ScaleCell, TypeOK, HiddenInv, SampleRow
<1>4. CASE CellGate
  BY <1>4 DEF CellGate, CalculateGate, TypeOK, HiddenInv, SampleRow
<1>5. CASE AccumulateCell
  BY <1>5 DEF AccumulateCell, TypeOK, HiddenInv, SampleRow
<1>6. CASE TanhCell
  BY <1>6 DEF TanhCell, TypeOK, HiddenInv, SampleRow
<1>7. CASE Hidden
  <2>1. /\ hidden_out \in OutputCells /\ hidden_out \in Nat
        /\ t \in Nat /\ t < time_steps /\ time_steps \in Nat
    BY <1>7, Dims, RowStart DEF Hidden, TypeOK
  <2>2. TypeOK'
    BY <1>7, <2>1, NullAssumption DEF Hidden, TypeOK
  <2>3. HiddenInv'
    BY <1>7, <2>1 DEF Hidden, HiddenInv, hidden_out, SampleRow
  <2> QED BY <2>2, <2>3
<1>8. CASE Return
  BY <1>8 DEF Return, TypeOK, HiddenInv, SampleRow
<1>9. CASE UNCHANGED vars
  BY <1>9 DEF TypeOK, HiddenInv, SampleRow
<1> QED BY <1>1, <1>2, <1>3, <1>4, <1>5, <1>6, <1>7, <1>8, <1>9 DEF Next, Step

\* The buffers keep their shapes, and the loop its counter and its pointers,
\* for every layer.
THEOREM TypeCorrect == Spec => []TypeOK
<1>1. Init => TypeOK /\ HiddenInv BY InitTypes
<1>2. TypeOK /\ HiddenInv /\ [Next]_vars => (TypeOK /\ HiddenInv)' BY NextTypes
<1> QED BY <1>1, <1>2, PTL DEF Spec

\* In both layouts every row of a step is inside its tensor and no row of the
\* hidden state it reads is among those it writes.
THEOREM RowsStayInside == Spec => []RowsInside
<1>1. Init => TypeOK /\ HiddenInv BY InitTypes
<1>2. TypeOK /\ HiddenInv /\ [Next]_vars => (TypeOK /\ HiddenInv)' BY NextTypes
<1>3. TypeOK /\ HiddenInv => RowsInside BY Inside
<1> QED BY <1>1, <1>2, <1>3, PTL DEF Spec

-----------------------------------------------------------------------------
(* The recurrence.                                                         *)

\* The two products of a gate, over the rows the loops read, are those of the
\* recurrence.
LEMMA GateLaw ==
  ASSUME TypeOK, HiddenInv, InStep, NEW gate, NEW b \in Batch, NEW i \in Unit
  PROVE  CalculateGate(gate)[<<b, i>>] = Recurrence!Gate(gate, b, i)
<1> DEFINE sample == [k \in 0 .. input_size - 1 |-> input[RowOf(data_in, b, input_size) + k]]
           hidden == [k \in 0 .. hidden_size - 1 |-> output[RowOf(hidden_in, b, hidden_size) + k]]
           sum    == Accumulate(gate, "input", i, Zero, sample)
           sums   == VecMatMulResultAcc(gate, "input", input, data_in, input_size,
                                        [w \in Words |-> Zero])
<1>1. t \in 0 .. time_steps - 1 /\ time_steps \in Nat /\ <<b, i>> \in Words
  BY Dims DEF TypeOK, InStep, Words
<1>2. sample = Row(input, b, t, input_size)
  BY InputLaw DEF Row
<1>3. sums[<<b, i>>] = sum
  BY <1>1 DEF VecMatMulResultAcc
<1>4. t > 0 => hidden = Row(output, b, t - 1, hidden_size)
  BY HiddenLaw DEF Row, Unit
<1>5. hidden_in = NULL <=> t = 0
  BY DEF TypeOK
<1>6. CASE t = 0
  <2>1. CalculateGate(gate)[<<b, i>>] = Activate(gate, sum)
    BY <1>1, <1>3, <1>5, <1>6 DEF CalculateGate
  <2>2. Recurrence!Gate(gate, b, i)
          = Activate(gate, Accumulate(gate, "input", i, Zero, Row(input, b, t, input_size)))
    BY <1>1, <1>6 DEF Recurrence!Gate
  <2> QED BY <1>2, <2>1, <2>2
<1>7. CASE t > 0
  <2>1. CalculateGate(gate)[<<b, i>>]
          = Activate(gate, VecMatMulResultAcc(gate, "hidden", output, hidden_in, hidden_size,
                                              sums)[<<b, i>>])
    BY <1>1, <1>5, <1>7 DEF CalculateGate
  <2>2. VecMatMulResultAcc(gate, "hidden", output, hidden_in, hidden_size, sums)[<<b, i>>]
          = Accumulate(gate, "hidden", i, sum, hidden)
    BY <1>1, <1>3 DEF VecMatMulResultAcc
  <2>3. Recurrence!Gate(gate, b, i)
          = Activate(gate, Accumulate(gate, "hidden", i,
                             Accumulate(gate, "input", i, Zero, Row(input, b, t, input_size)),
                             Row(output, b, t - 1, hidden_size)))
    BY <1>1, <1>7 DEF Recurrence!Gate
  <2> QED BY <1>2, <1>4, <1>7, <2>1, <2>2, <2>3
<1> QED BY <1>1, <1>6, <1>7

\* A gate of the recurrence depends on the state between two samples only.
LEMMA GateFrame ==
  ASSUME UNCHANGED <<layer, input, output, t, cell_before>>
  PROVE  \A gate, b, i : /\ Recurrence!Gate(gate, b, i)' = Recurrence!Gate(gate, b, i)
                         /\ Recurrence!NextCell(b, i)' = Recurrence!NextCell(b, i)
                         /\ ScaledCell(b, i)' = ScaledCell(b, i)
<1>1. /\ Batch' = Batch /\ Unit' = Unit /\ time_steps' = time_steps
      /\ input_size' = input_size /\ hidden_size' = hidden_size /\ t' = t
      /\ cell_before' = cell_before
  BY DEF Batch, Unit, time_steps, input_size, hidden_size, batch_size
<1>2. ASSUME NEW gate, NEW b, NEW i
      PROVE  Recurrence!Gate(gate, b, i)' = Recurrence!Gate(gate, b, i)
  BY DEF Recurrence!Gate, Row, TensorAt, Batch, time_steps, input_size, hidden_size, batch_size
<1>3. ASSUME NEW b, NEW i
      PROVE  Recurrence!NextCell(b, i)' = Recurrence!NextCell(b, i)
  BY <1>1, <1>2 DEF Recurrence!NextCell
<1>4. ASSUME NEW b, NEW i
      PROVE  ScaledCell(b, i)' = ScaledCell(b, i)
  BY <1>1, <1>2 DEF ScaledCell
<1> QED BY <1>2, <1>3, <1>4

\* A buffer or the cell between two samples, word by word.
LEMMA NextBuffers ==
  ASSUME TypeOK, HiddenInv, BufferInv, [Next]_vars
  PROVE  BufferInv'
<1> USE DEF vars, scratch
<1>1. CASE Call
  <2>1. cell_state' = cell_before' /\ pc' = "forget_gate" BY <1>1 DEF Call
  <2> QED BY <2>1 DEF BufferInv, BufferAt
<1>2. CASE Hidden
  <2>1. cell_state' = cell_before' /\ pc' \in {"forget_gate", "return"} BY <1>2 DEF Hidden
  <2> QED BY <2>1 DEF BufferInv, BufferAt
<1>3. CASE Return
  BY <1>3 DEF Return, BufferInv, BufferAt
<1>4. ASSUME ForgetGate \/ ScaleCell \/ InputGate \/ CellGate \/ AccumulateCell
               \/ OutputGate \/ TanhCell \/ UNCHANGED vars
      PROVE  BufferInv'
  <2>1. UNCHANGED <<layer, input, output, t, cell_before>>
    BY <1>4 DEF ForgetGate, InputGate, OutputGate, GateTo1, ScaleCell, CellGate,
                AccumulateCell, TanhCell
  <2>2. Batch' = Batch /\ Unit' = Unit /\ Words' = Words
    BY <2>1 DEF Batch, Unit, Words, batch_size, hidden_size
  <2> SUFFICES ASSUME NEW b \in Batch, NEW i \in Unit
               PROVE  BufferAt(b, i)'
    BY <2>2 DEF BufferInv
  <2> SUFFICES
        /\ pc' \in {"forget_gate", "scale_cell"} => cell_state'[<<b, i>>] = cell_before[<<b, i>>]
        /\ pc' = "scale_cell" => temp1'[<<b, i>>] = Recurrence!Gate("forget", b, i)
        /\ pc' \in {"input_gate", "cell_gate", "accumulate_cell"} =>
             cell_state'[<<b, i>>] = ScaledCell(b, i)
        /\ pc' \in {"cell_gate", "accumulate_cell"} =>
             temp1'[<<b, i>>] = Recurrence!Gate("input", b, i)
        /\ pc' = "accumulate_cell" => temp2'[<<b, i>>] = Recurrence!Gate("cell", b, i)
        /\ pc' \in {"output_gate", "tanh", "hidden"} =>
             cell_state'[<<b, i>>] = Recurrence!NextCell(b, i)
        /\ pc' \in {"tanh", "hidden"} => temp1'[<<b, i>>] = Recurrence!Gate("output", b, i)
        /\ pc' = "hidden" => temp2'[<<b, i>>] = Tanh(Recurrence!NextCell(b, i))
    <3>1. /\ Recurrence!Gate("forget", b, i)' = Recurrence!Gate("forget", b, i)
          /\ Recurrence!Gate("input", b, i)' = Recurrence!Gate("input", b, i)
          /\ Recurrence!Gate("cell", b, i)' = Recurrence!Gate("cell", b, i)
          /\ Recurrence!Gate("output", b, i)' = Recurrence!Gate("output", b, i)
          /\ Recurrence!NextCell(b, i)' = Recurrence!NextCell(b, i)
          /\ ScaledCell(b, i)' = ScaledCell(b, i)
      BY <2>1, GateFrame
    <3> QED BY <2>1, <3>1 DEF BufferAt
  <2>0. BufferAt(b, i) BY DEF BufferInv
  <2>3. <<b, i>> \in Words BY DEF Words
  <2>4. InStep => \A gate : CalculateGate(gate)[<<b, i>>] = Recurrence!Gate(gate, b, i)
    BY GateLaw
  <2>5. CASE ForgetGate
    BY <2>0, <2>4, <2>5 DEF ForgetGate, GateTo1, BufferAt, InStep
  <2>6. CASE ScaleCell
    <3>1. cell_state'[<<b, i>>] = Scale(temp1[<<b, i>>], cell_state[<<b, i>>])
      BY <2>3, <2>6 DEF ScaleCell
    <3>2. /\ cell_state[<<b, i>>] = cell_before[<<b, i>>]
          /\ temp1[<<b, i>>] = Recurrence!Gate("forget", b, i)
      BY <2>0, <2>6 DEF ScaleCell, BufferAt
    <3>3. cell_state'[<<b, i>>] = ScaledCell(b, i)
      BY <3>1, <3>2 DEF ScaledCell
    <3> QED BY <2>6, <3>3 DEF ScaleCell
  <2>7. CASE InputGate
    BY <2>0, <2>4, <2>7 DEF InputGate, GateTo1, BufferAt, InStep
  <2>8. CASE CellGate
    BY <2>0, <2>4, <2>8 DEF CellGate, BufferAt, InStep
  <2>9. CASE AccumulateCell
    <3>1. cell_state'[<<b, i>>] = ScaleAdd(cell_state[<<b, i>>], temp1[<<b, i>>], temp2[<<b, i>>])
      BY <2>3, <2>9 DEF AccumulateCell
    <3>2. /\ cell_state[<<b, i>>] = ScaledCell(b, i)
          /\ temp1[<<b, i>>] = Recurrence!Gate("input", b, i)
          /\ temp2[<<b, i>>] = Recurrence!Gate("cell", b, i)
      BY <2>0, <2>9 DEF AccumulateCell, BufferAt
    <3>3. cell_state'[<<b, i>>] = Recurrence!NextCell(b, i)
      BY <3>1, <3>2 DEF ScaledCell, Recurrence!NextCell
    <3> QED BY <2>9, <3>3 DEF AccumulateCell
  <2>10. CASE OutputGate
    BY <2>0, <2>4, <2>10 DEF OutputGate, GateTo1, BufferAt, InStep
  <2>11. CASE TanhCell
    <3>1. temp2'[<<b, i>>] = Tanh(cell_state[<<b, i>>])
      BY <2>3, <2>11 DEF TanhCell
    <3> QED BY <2>0, <2>11, <3>1 DEF TanhCell, BufferAt
  <2>12. CASE UNCHANGED vars
    BY <2>0, <2>12 DEF BufferAt
  <2> QED BY <1>4, <2>5, <2>6, <2>7, <2>8, <2>9, <2>10, <2>11, <2>12
<1> QED BY <1>1, <1>2, <1>3, <1>4 DEF Next, Step

-----------------------------------------------------------------------------
(* Refinement.                                                             *)

\* A sample ends with one row more per batch, the hidden state of the
\* recurrence, and with the rows of the earlier samples as they were.
LEMMA HiddenRows ==
  ASSUME AllStored, IInv, Hidden,
         NEW b \in Batch, NEW s \in 0 .. t, NEW i \in Unit
  PROVE  Row(output, b, s, hidden_size)'[i]
           = IF s < t THEN Row(output, b, s, hidden_size)[i] ELSE Recurrence!NextHidden(b, i)
<1>1. /\ layer \in Layers /\ t \in 0 .. time_steps - 1 /\ s \in 0 .. time_steps - 1
      /\ time_steps \in Nat /\ hidden_size \in Nat \ {0}
  BY Dims DEF IInv, TypeOK, Hidden
<1>2. StoredWords = Words
  <2>1. layer.type = "s8" => Batch = {0}
    BY <1>1 DEF AllStored, Batch, batch_size
  <2> QED BY <1>1, <2>1, Dims DEF StoredWords, Words
<1>3. TensorAt(b, s, hidden_size, i) \in OutputCells
  BY <1>1, TensorType DEF OutputCells, Unit
<1>4. /\ Row(output, b, s, hidden_size)[i] = output[TensorAt(b, s, hidden_size, i)]
      /\ Row(output, b, s, hidden_size)'[i] = output'[TensorAt(b, s, hidden_size, i)]
  BY DEF Hidden, Row, TensorAt, Unit, hidden_size, time_steps, batch_size
<1>5. ASSUME NEW w \in Words, StoreAt(w) = TensorAt(b, s, hidden_size, i)
      PROVE  s = t /\ w = <<b, i>>
  <2>1. PICK b2 \in Batch, i2 \in Unit : w = <<b2, i2>> BY DEF Words
  <2>2. TensorAt(b2, t, hidden_size, i2) = TensorAt(b, s, hidden_size, i)
    BY <1>5, <2>1, StoreLaw DEF IInv
  <2> QED BY <1>1, <2>1, <2>2, TensorUnique DEF Unit
<1>6. CASE s < t
  <2>1. ~\E w \in StoredWords : StoreAt(w) = TensorAt(b, s, hidden_size, i)
    BY <1>1, <1>2, <1>5, <1>6
  <2>2. output'[TensorAt(b, s, hidden_size, i)] = output[TensorAt(b, s, hidden_size, i)]
    BY <1>3, <2>1 DEF Hidden
  <2> QED BY <1>4, <1>6, <2>2
<1>7. CASE s = t
  <2>1. <<b, i>> \in StoredWords /\ StoreAt(<<b, i>>) = TensorAt(b, s, hidden_size, i)
    BY <1>2, <1>7, StoreLaw DEF Words, IInv
  <2>2. (CHOOSE w \in StoredWords : StoreAt(w) = TensorAt(b, s, hidden_size, i)) = <<b, i>>
    BY <1>2, <1>5, <2>1
  <2>3. output'[TensorAt(b, s, hidden_size, i)] = Product(temp1[<<b, i>>], temp2[<<b, i>>])
    BY <1>3, <2>1, <2>2 DEF Hidden
  <2>4. /\ temp1[<<b, i>>] = Recurrence!Gate("output", b, i)
        /\ temp2[<<b, i>>] = Tanh(Recurrence!NextCell(b, i))
    BY DEF IInv, BufferInv, BufferAt, Hidden
  <2>5. Recurrence!NextHidden(b, i) = Product(temp1[<<b, i>>], temp2[<<b, i>>])
    BY <2>4 DEF Recurrence!NextHidden
  <2>6. ~(s < t) BY <1>1, <1>7
  <2> QED BY <1>4, <2>3, <2>5, <2>6
<1> QED BY <1>1, <1>6, <1>7

\* An unused layer is a recurrence that has not begun.
LEMMA InitRefines == Init => Recurrence!Init
BY Dims DEF Init, Recurrence!Init

\* Hidden ends a sample of the recurrence, Call and Return begin and end a
\* call, every other action is a stuttering step.
LEMMA NextRefines ==
  ASSUME AllStored, IInv, [Next]_vars
  PROVE  [Recurrence!Next]_Recurrence!vars
<1> USE DEF Recurrence!layer, Recurrence!Batch, Recurrence!Unit
<1>1. CASE Call
  <2>1. /\ Batch' = Batch /\ Unit' = Unit
        /\ batch_size' = batch_size /\ time_steps' = time_steps /\ hidden_size' = hidden_size
    BY <1>1 DEF Call, Batch, Unit, batch_size, time_steps, hidden_size
  <2>2. \A b \in Batch, i \in Unit : cell_before'[<<b, i>>] = Zero
    BY <1>1 DEF Call, ClearedCell, Words
  <2>3. Recurrence!Begin
    BY <1>1, <2>1, <2>2 DEF Call, Recurrence!Begin, Batch, Unit
  <2> QED BY <2>3 DEF Recurrence!Next
<1>2. CASE Hidden
  <2>1. /\ Batch' = Batch /\ Unit' = Unit /\ t \in Nat /\ t < time_steps
        /\ batch_size' = batch_size /\ time_steps' = time_steps /\ hidden_size' = hidden_size
        /\ input_size' = input_size /\ input' = input /\ layer' = layer
    BY <1>2 DEF Hidden, Batch, Unit, batch_size, time_steps, hidden_size, input_size,
                IInv, TypeOK
  <2>2. \A b \in Batch, i \in Unit : cell_before'[<<b, i>>] = Recurrence!NextCell(b, i)
    BY <1>2 DEF Hidden, IInv, BufferInv, BufferAt
  <2>3. \A b \in Batch, s \in 0 .. t :
          Row(output, b, s, hidden_size)'
          = IF s < t THEN Row(output, b, s, hidden_size)
            ELSE [i \in Unit |-> Recurrence!NextHidden(b, i)]
    BY <1>2, <2>1, HiddenRows DEF Row, Unit
  <2>4. [b \in Batch |-> [s \in 0 .. time_steps - 1 |-> Row(input, b, s, input_size)]]'
        = [b \in Batch |-> [s \in 0 .. time_steps - 1 |-> Row(input, b, s, input_size)]]
    BY <2>1 DEF Row, TensorAt, Batch, batch_size, time_steps, input_size
  <2>5. [b \in Batch |-> [s \in 0 .. t - 1 |-> Row(output, b, s, hidden_size)]]'
        = [b \in Batch |-> [s \in 0 .. t |->
             IF s < t THEN Row(output, b, s, hidden_size)
             ELSE [i \in Unit |-> Recurrence!NextHidden(b, i)]]]
    <3>1. t' - 1 = t BY <1>2, <2>1 DEF Hidden
    <3> QED BY <2>1, <2>3, <3>1
  <2>6. [b \in Batch |-> [s \in 0 .. t - 1 |-> Row(output, b, s, hidden_size)]]'
        = [b \in Batch |-> [s \in 0 .. t |->
             IF s < t
             THEN [r \in Batch |-> [q \in 0 .. t - 1 |-> Row(output, r, q, hidden_size)]][b][s]
             ELSE [i \in Unit |-> Recurrence!NextHidden(b, i)]]]
    BY <2>1, <2>5
  <2>7. [b \in Batch |-> [i \in Unit |-> cell_before[<<b, i>>]]]'
        = [b \in Batch |-> [i \in Unit |-> Recurrence!NextCell(b, i)]]
    BY <2>1, <2>2
  <2>8. /\ pc # "idle" /\ (pc # "idle")' = (pc # "idle") /\ t' = t + 1
    BY <1>2 DEF Hidden
  <2>9. Recurrence!TimeStep
    BY <2>1, <2>4, <2>6, <2>7, <2>8 DEF Recurrence!TimeStep, Batch, Unit
  <2> QED BY <2>9 DEF Recurrence!Next
<1>3. CASE Return
  <2>1. Recurrence!Finish
    BY <1>3 DEF Return, Recurrence!Finish, IInv, HiddenInv, Row, TensorAt, Batch, Unit,
                batch_size, time_steps, hidden_size, input_size
  <2> QED BY <2>1 DEF Recurrence!Next
<1>4. ASSUME ForgetGate \/ ScaleCell \/ InputGate \/ CellGate \/ AccumulateCell
               \/ OutputGate \/ TanhCell \/ UNCHANGED vars
      PROVE  UNCHANGED Recurrence!vars
  <2>1. /\ UNCHANGED <<layer, input, output, t, cell_before>>
        /\ (pc' # "idle") = (pc # "idle")
    BY <1>4 DEF ForgetGate, InputGate, OutputGate, GateTo1, ScaleCell, CellGate,
                AccumulateCell, TanhCell, vars
  <2> QED BY <2>1 DEF Recurrence!vars, Row, TensorAt, Batch, Unit, batch_size, time_steps,
                     hidden_size, input_size
<1> QED BY <1>1, <1>2, <1>3, <1>4 DEF Next, Step

\* The induction, for an unused layer.
LEMMA InitInv == Init => IInv
BY InitTypes DEF Init, IInv, BufferInv, BufferAt

\* The induction, for a call of the library.
LEMMA NextInv == IInv /\ [Next]_vars => IInv'
BY NextTypes, NextBuffers DEF IInv

\* The safety half of ImplementsRecurrence: whatever the arithmetic, the number
\* of samples, batches and units and the layout, the layer computes the
\* recurrence.  The premise excludes the calls of the s8 kernel that
\* EveryBatchStored is about.
THEOREM RecurrenceComputed ==
  AllStored /\ Spec => Recurrence!Init /\ [][Recurrence!Next]_Recurrence!vars
<1>1. AllStored /\ [Next]_vars => AllStored'
  BY DEF AllStored
<1>2. Init => IInv BY InitInv
<1>3. IInv /\ [Next]_vars => IInv' BY NextInv
<1>4. Init => Recurrence!Init BY InitRefines
<1>5. AllStored /\ IInv /\ [Next]_vars => [Recurrence!Next]_Recurrence!vars
  BY NextRefines
<1> QED BY <1>1, <1>2, <1>3, <1>4, <1>5, PTL DEF Spec
=============================================================================
