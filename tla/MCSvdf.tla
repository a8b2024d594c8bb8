------------------------------- MODULE MCSvdf -------------------------------
(***************************************************************************)
(* Two batches, six filters, a window of two: every block size leaves a    *)
(* leftover (3+3, 4+1+1, 5+1), and the ranks give one, two, three and six  *)
(* units.  The stream starts with TimeBatches different activations in     *)
(* every row, so that a value out of place is seen as one.                 *)
(***************************************************************************)
EXTENDS Svdf

\* Slot and row of a cell of the initial state tensor.
MCState ==
  [k \in 0 .. Batches * Features * TimeBatches - 1 |->
     LET row == k \div TimeBatches IN
     <<(k % TimeBatches) - (TimeBatches - 1), row \div Features, row % Features>>]
=============================================================================
