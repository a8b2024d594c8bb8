--------------------------- MODULE LstmRecurrence ---------------------------
(***************************************************************************)
(* What a unidirectional LSTM layer promises its caller: the LSTM          *)
(* recurrence.  Every batch starts from a zero cell and without a hidden   *)
(* state; a sample gives it a new cell, computed from the sample, the old  *)
(* cell and the hidden state, and a new hidden state, which is the row of  *)
(* the result for that sample.  Nothing is said of layouts, scratch        *)
(* buffers or the order in which the gates are computed.                   *)
(*                                                                         *)
(* The arithmetic is a parameter: what is said here holds of any           *)
(* quantization of it.                                                     *)
(***************************************************************************)
EXTENDS Integers

CONSTANTS
  Zero,                       \* the number 0
  Accumulate(_, _, _, _, _),  \* gate, weights, row, sum so far, vector
  Activate(_, _),             \* gate, sum
  Scale(_, _),                \* forget gate, cell
  ScaleAdd(_, _, _),          \* cell, input gate, cell gate
  Tanh(_),
  Product(_, _)               \* output gate, hyperbolic tangent of the cell

VARIABLES
  batch_size, time_steps, hidden_size,
  sequence,  \* sequence[b][s]: the vector of sample s of batch b
  running,   \* inside a call?
  time,      \* samples processed
  cell,      \* cell[b][i]: unit i of the cell of batch b
  result     \* result[b][s]: the hidden state of batch b after sample s

layer == <<batch_size, time_steps, hidden_size>>
vars  == <<layer, sequence, running, time, cell, result>>

Batch == 0 .. batch_size - 1
Unit  == 0 .. hidden_size - 1

\* Unit i of a gate of batch b for the next sample.
Gate(g, b, i) ==
  LET sum == Accumulate(g, "input", i, Zero, sequence[b][time])
  IN  Activate(g, IF time = 0 THEN sum
                  ELSE Accumulate(g, "hidden", i, sum, result[b][time - 1]))

NextCell(b, i) ==
  ScaleAdd(Scale(Gate("forget", b, i), cell[b][i]), Gate("input", b, i), Gate("cell", b, i))

NextHidden(b, i) == Product(Gate("output", b, i), Tanh(NextCell(b, i)))

Init ==
  /\ batch_size \in Nat \ {0} /\ time_steps \in Nat \ {0} /\ hidden_size \in Nat \ {0}
  /\ running = FALSE
  /\ time = 0

\* The caller passes any sequence.
Begin ==
  /\ ~running
  /\ running' = TRUE
  /\ time' = 0
  /\ cell' = [b \in Batch |-> [i \in Unit |-> Zero]]
  /\ UNCHANGED layer

\* One sample of every batch.
TimeStep ==
  /\ running
  /\ time < time_steps
  /\ time' = time + 1
  /\ cell' = [b \in Batch |-> [i \in Unit |-> NextCell(b, i)]]
  /\ result' = [b \in Batch |-> [s \in 0 .. time |->
                  IF s < time THEN result[b][s] ELSE [i \in Unit |-> NextHidden(b, i)]]]
  /\ UNCHANGED <<layer, sequence, running>>

Finish ==
  /\ running
  /\ time = time_steps
  /\ running' = FALSE
  /\ UNCHANGED <<layer, sequence, time, cell, result>>

Next == Begin \/ TimeStep \/ Finish

\* A call that has begun returns.
Spec == Init /\ [][Next]_vars /\ WF_vars(TimeStep \/ Finish)
=============================================================================
