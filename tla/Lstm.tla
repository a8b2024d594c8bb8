-------------------------------- MODULE Lstm --------------------------------
(***************************************************************************)
(* muriscv_nn_lstm_unidirectional_s8() and _s16() with the step and the    *)
(* gate kernels they call.  One action is one library call of the step.    *)
(* Four gates, the hyperbolic tangent of the cell and the cell itself      *)
(* share three scratch buffers (temp1, temp2, cell_state): a gate is       *)
(* overwritten by the next one once the cell has consumed it.  The rows    *)
(* already written to the output tensor are read back as hidden state.     *)
(*                                                                         *)
(* Scratch buffers are dense: their word <<b, i>> is at b * hidden_size +  *)
(* i.  The input and output tensors keep their flat addresses, because two *)
(* layouts share the code: time major (sample, batch, feature) and batch   *)
(* major (batch, sample, feature).  The arithmetic is a parameter.         *)
(***************************************************************************)
EXTENDS Integers

CONSTANTS
  Layers,    \* the layers to consider, see LayersAssumption
  Samples,   \* possible contents of the input tensor, functions on Nat
  Undefined, \* a word nobody wrote yet
  NULL,
  Zero, Accumulate(_, _, _, _, _), Activate(_, _), Scale(_, _),
  ScaleAdd(_, _, _), Tanh(_), Product(_, _)  \* see LstmRecurrence

ASSUME LayersAssumption ==
  Layers \subseteq [type : {"s8", "s16"}, time_major : BOOLEAN,
                    batch_size : Nat \ {0}, time_steps : Nat \ {0},
                    input_size : Nat \ {0}, hidden_size : Nat \ {0}]

ASSUME NullAssumption == NULL \notin Nat

VARIABLES
  layer,       \* type of the kernel and muriscv_nn_lstm_params
  input,       \* the input tensor
  output,      \* the output tensor
  temp1, temp2, cell_state,  \* muriscv_nn_lstm_context
  hidden_in,   \* index into output, or NULL
  t,           \* the sample
  pc,          \* the next library call of the step, "idle" between calls
  cell_before  \* cell_state at the top of the step (history)

scratch == <<temp1, temp2, cell_state>>
vars == <<layer, input, output, scratch, hidden_in, t, pc, cell_before>>

batch_size  == layer.batch_size
time_steps  == layer.time_steps
input_size  == layer.input_size
hidden_size == layer.hidden_size

Batch == 0 .. batch_size - 1
Unit  == 0 .. hidden_size - 1
Words == Batch \X Unit

InputCells  == 0 .. batch_size * time_steps * input_size - 1
OutputCells == 0 .. batch_size * time_steps * hidden_size - 1

\* Where a tensor with rows of n features keeps the rows of sample s, and how
\* many rows apart the batches of one sample are.
SampleRow(s, n) == s * n * (IF layer.time_major THEN batch_size ELSE 1)
\* Mutation of batch_offset: the batch-major distance for both layouts.
BatchOffsetMajor == time_steps
batch_offset    == IF layer.time_major THEN 1 ELSE time_steps

data_in    == SampleRow(t, input_size)
\* Mutation of hidden_out: the row of the next sample.
HiddenOutNext == SampleRow(t + 1, hidden_size)
hidden_out == SampleRow(t, hidden_size)

\* The row of batch b of a sample whose rows of n features start at base.
RowOf(base, b, n) == base + b * n * batch_offset

Init ==
  /\ layer \in Layers
  /\ input = [a \in InputCells |-> Undefined]
  /\ output = [a \in OutputCells |-> Undefined]
  /\ temp1 = [w \in Words |-> Undefined]
  /\ temp2 = [w \in Words |-> Undefined]
  /\ cell_state = [w \in Words |-> Undefined]
  /\ hidden_in = NULL
  /\ t = 0
  /\ pc = "idle"
  /\ cell_before = cell_state

-----------------------------------------------------------------------------
\* Mutation of ClearedCell: without the memset.
KeptCell == cell_state

\* memset of the cell state, the one scratch buffer that is read before it is
\* written.
ClearedCell == [w \in Words |-> Zero]

\* The scratch buffers and the output still hold what the last call left.
Call ==
  /\ pc = "idle"
  /\ \E s \in Samples : input' = [a \in InputCells |-> s[a]]
  /\ cell_state' = ClearedCell
  /\ cell_before' = cell_state'
  /\ hidden_in' = NULL
  /\ t' = 0
  /\ pc' = "forget_gate"
  /\ UNCHANGED <<layer, output, temp1, temp2>>

-----------------------------------------------------------------------------
(***************************************************************************)
(* lstm_calculate_gate: memset, accumulate the product of the input        *)
(* weights with the sample and, with a hidden state, the product of the    *)
(* hidden weights with it, then apply the activation in place.             *)
(***************************************************************************)
\* vec_mat_mul_result_acc: the rows of lhs are batch_offset rows apart, those
\* of dst are adjacent.
VecMatMulResultAcc(gate, weights, lhs, base, cols, dst) ==
  [w \in Words |->
     Accumulate(gate, weights, w[2], dst[w],
                [k \in 0 .. cols - 1 |-> lhs[RowOf(base, w[1], cols) + k]])]

CalculateGate(gate) ==
  LET cleared == [w \in Words |-> Zero]
      sum == VecMatMulResultAcc(gate, "input", input, data_in, input_size, cleared)
      acc == IF hidden_in = NULL THEN sum
             ELSE VecMatMulResultAcc(gate, "hidden", output, hidden_in, hidden_size, sum)
  IN  [w \in Words |-> Activate(gate, acc[w])]

-----------------------------------------------------------------------------
(***************************************************************************)
(* lstm_step: forget_gate, input_gate and output_gate are temp1; cell_gate *)
(* and hidden_temp are temp2.                                              *)
(***************************************************************************)
GateTo1(here, gate, next) ==
  /\ pc = here
  /\ temp1' = CalculateGate(gate)
  /\ pc' = next
  /\ UNCHANGED <<layer, input, output, temp2, cell_state, hidden_in, t, cell_before>>

ForgetGate == GateTo1("forget_gate", "forget", "scale_cell")
InputGate  == GateTo1("input_gate", "input", "cell_gate")
OutputGate == GateTo1("output_gate", "output", "tanh")

ScaleCell ==
  /\ pc = "scale_cell"
  /\ cell_state' = [w \in Words |-> Scale(temp1[w], cell_state[w])]
  /\ pc' = "input_gate"
  /\ UNCHANGED <<layer, input, output, temp1, temp2, hidden_in, t, cell_before>>

CellGate ==
  /\ pc = "cell_gate"
  /\ temp2' = CalculateGate("cell")
  /\ pc' = "accumulate_cell"
  /\ UNCHANGED <<layer, input, output, temp1, cell_state, hidden_in, t, cell_before>>

AccumulateCell ==
  /\ pc = "accumulate_cell"
  /\ cell_state' = [w \in Words |-> ScaleAdd(cell_state[w], temp1[w], temp2[w])]
  /\ pc' = "output_gate"
  /\ UNCHANGED <<layer, input, output, temp1, temp2, hidden_in, t, cell_before>>

TanhCell ==
  /\ pc = "tanh"
  /\ temp2' = [w \in Words |-> Tanh(cell_state[w])]
  /\ pc' = "hidden"
  /\ UNCHANGED <<layer, input, output, temp1, cell_state, hidden_in, t, cell_before>>

\* The words the last multiplication stores: elementwise_mul_s16_batch_offset
\* loops over the batches, elementwise_mul_s16_s8 ignores batch_size.
StoredWords == IF layer.type = "s16" THEN Words ELSE {0} \X Unit

\* Where it stores a word.
StoreAt(w) == RowOf(hidden_out, w[1], hidden_size) + w[2]

\* The product goes to the output tensor, the rows just written become the
\* hidden state of the next sample.
Hidden ==
  /\ pc = "hidden"
  /\ output' = [a \in OutputCells |->
                  IF \E w \in StoredWords : StoreAt(w) = a
                  THEN LET w == CHOOSE w \in StoredWords : StoreAt(w) = a
                       IN  Product(temp1[w], temp2[w])
                  ELSE output[a]]
  /\ hidden_in' = hidden_out
  /\ t' = t + 1
  /\ pc' = IF t + 1 < time_steps THEN "forget_gate" ELSE "return"
  /\ cell_before' = cell_state
  /\ UNCHANGED <<layer, input, scratch>>

Return ==
  /\ pc = "return"
  /\ pc' = "idle"
  /\ UNCHANGED <<layer, input, output, scratch, hidden_in, t, cell_before>>

-----------------------------------------------------------------------------
Step ==
  \/ ForgetGate \/ ScaleCell \/ InputGate \/ CellGate \/ AccumulateCell
  \/ OutputGate \/ TanhCell \/ Hidden \/ Return

Next == Call \/ Step

\* A call runs to its end: the loops do not wait for anything.
Spec == Init /\ [][Next]_vars /\ WF_vars(Step)

-----------------------------------------------------------------------------
\* The index of feature k of sample s of batch b in a tensor with rows of n
\* features, as the layout defines it and not as the loops compute it.
TensorAt(b, s, n, k) ==
  IF layer.time_major THEN (s * batch_size + b) * n + k ELSE (b * time_steps + s) * n + k

Row(tensor, b, s, n) == [k \in 0 .. n - 1 |-> tensor[TensorAt(b, s, n, k)]]

Recurrence == INSTANCE LstmRecurrence WITH
  sequence <- [b \in Batch |-> [s \in 0 .. time_steps - 1 |-> Row(input, b, s, input_size)]],
  running  <- pc # "idle",
  time     <- t,
  cell     <- [b \in Batch |-> [i \in Unit |-> cell_before[<<b, i>>]]],
  result   <- [b \in Batch |-> [s \in 0 .. t - 1 |-> Row(output, b, s, hidden_size)]]

TypeOK ==
  /\ layer \in Layers
  /\ DOMAIN input = InputCells
  /\ DOMAIN output = OutputCells
  /\ \A buffer \in {temp1, temp2, cell_state, cell_before} : DOMAIN buffer = Words
  /\ hidden_in \in OutputCells \cup {NULL}
  /\ t \in 0 .. time_steps
  /\ pc \in {"idle", "forget_gate", "scale_cell", "input_gate", "cell_gate",
             "accumulate_cell", "output_gate", "tanh", "hidden", "return"}
  /\ pc \notin {"idle", "return"} => t < time_steps
  /\ hidden_in = NULL <=> t = 0

\* Whatever the layout, every row a step reads or writes lies inside its
\* tensor, and the hidden state it reads was written by the previous step and
\* is not among the rows it overwrites.
RowsInside ==
  pc \notin {"idle", "return"} =>
    \A b \in Batch :
      /\ \A k \in 0 .. input_size - 1 : RowOf(data_in, b, input_size) + k \in InputCells
      /\ \A i \in Unit :
           /\ StoreAt(<<b, i>>) \in OutputCells
           /\ hidden_in # NULL =>
                /\ RowOf(hidden_in, b, hidden_size) + i \in OutputCells
                /\ \A w \in Words : StoreAt(w) # RowOf(hidden_in, b, hidden_size) + i

\* The layer computes the recurrence: sample by sample the output tensor gains
\* one row per batch, the hidden state of the recurrence, and the rows already
\* there stay; the in-place updates of the cell and the shared scratch buffers
\* never lose or mix a gate, a batch or a call; and the call returns.
ImplementsRecurrence == Recurrence!Spec

\* What muriscv_nn_support_functions.h says of elementwise_mul_s16_s8, which
\* is told the number of batches: the products of every batch are stored,
\* batch_offset rows apart.
EveryBatchStored ==
  t > 0 /\ pc \in {"forget_gate", "return"} =>
    \A w \in Words :
      output[RowOf(hidden_in, w[1], hidden_size) + w[2]] = Product(temp1[w], temp2[w])
=============================================================================
