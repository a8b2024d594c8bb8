----------------------------- MODULE SvdfStream -----------------------------
(***************************************************************************)
(* What an SVDF layer promises its caller: the result of call n is a       *)
(* function of the inputs of the last TimeBatches calls, batch by batch    *)
(* and unit by unit.  Nothing is said of tensors, buffers or loops.        *)
(*                                                                         *)
(* Numbers are represented as in Svdf: the activation of filter f for the  *)
(* input of batch b at call n is <<n, b, f>>.                              *)
(***************************************************************************)
EXTENDS Integers

CONSTANTS Batches, Features, TimeBatches, Undefined

VARIABLES has_bias, rank, unit_count, calls, running, output

vars == <<has_bias, rank, unit_count, calls, running, output>>

\* The time weights of filter f applied to its window at call n.
Filtered(n, b, f) ==
  [j \in 0 .. TimeBatches - 1 |->
     <<f * TimeBatches + j, <<n - (TimeBatches - 1) + j, b, f>>>>]

\* The result of call n: bias plus the filters of the unit, requantized.
Result(n) ==
  [b \in 0 .. Batches - 1 |-> [u \in 0 .. unit_count - 1 |->
     [requantized |->
        [bias  |-> IF has_bias THEN u ELSE -1,
         terms |-> [q \in 0 .. rank - 1 |-> Filtered(n, b, u * rank + q)]]]]]

Init ==
  /\ has_bias \in BOOLEAN
  /\ rank \in 1 .. Features
  /\ unit_count \in 1 .. Features
  /\ unit_count * rank = Features
  /\ calls = 0
  /\ running = FALSE
  /\ output = [b \in 0 .. Batches - 1 |-> [u \in 0 .. unit_count - 1 |-> Undefined]]

Begin ==
  /\ ~running
  /\ running' = TRUE
  /\ UNCHANGED <<has_bias, rank, unit_count, calls, output>>

Finish ==
  /\ running
  /\ running' = FALSE
  /\ calls' = calls + 1
  /\ output' = Result(calls + 1)
  /\ UNCHANGED <<has_bias, rank, unit_count>>

Restart ==
  /\ ~running
  /\ calls' = 0
  /\ UNCHANGED <<has_bias, rank, unit_count, running, output>>

Next == Begin \/ Finish \/ Restart

\* A call that has begun returns.
Spec == Init /\ [][Next]_vars /\ WF_vars(Finish)
=============================================================================
