------------------------------- MODULE MCLstm -------------------------------
(***************************************************************************)
(* Lstm with free arithmetic: a number is the expression that computed it, *)
(* so that two numbers are equal only if they were computed the same way   *)
(* from the same samples.                                                  *)
(***************************************************************************)
EXTENDS Lstm

\* The batches to consider for each kernel.
CONSTANTS BatchesS8, BatchesS16

MCLayers ==
  LET Shape(type, batches) ==
        [type : {type}, time_major : BOOLEAN, batch_size : batches,
         time_steps : {1, 3}, input_size : {1, 3}, hidden_size : {1, 2}]
  IN  Shape("s8", BatchesS8) \cup Shape("s16", BatchesS16)

\* Two calls with different tensors.
MCSamples == { [a \in 0 .. 26 |-> <<call, a>>] : call \in {"x", "y"} }

MCAccumulate(gate, weights, row, sum, vector) == <<"acc", gate, weights, row, sum, vector>>
MCActivate(gate, sum) == <<"act", gate, sum>>
MCScale(gate, cell) == <<"scale", gate, cell>>
MCScaleAdd(cell, gate, gate2) == <<"add", cell, gate, gate2>>
MCTanh(cell) == <<"tanh", cell>>
MCProduct(gate, tanh) == <<"product", gate, tanh>>
=============================================================================
