-------------------------------- MODULE Svdf --------------------------------
(***************************************************************************)
(* muriscv_nn_svdf_state_s16_s8() and muriscv_nn_svdf_s8(): a layer whose  *)
(* state tensor survives from one invocation to the next.  The state is    *)
(* ONE flat array holding, for every batch and every feature filter, the   *)
(* last TimeBatches activations of that filter, oldest first.  A call      *)
(* shifts the whole array left by one element, without looking at the row  *)
(* boundaries, and then overwrites the last slot of every row with the     *)
(* newest activation.                                                      *)
(*                                                                         *)
(* Numbers are represented by where they come from.  An activation is      *)
(* <<n, b, f>>: the (requantized, clamped) product of the input of batch b *)
(* of call n with row f of the feature weights.  A sum of products is a    *)
(* function from the summation index to the pair of operands.              *)
(***************************************************************************)
EXTENDS Rvv

CONSTANTS
  Batches,      \* input_dims->n
  Features,     \* weights_feature_dims->n
  TimeBatches,  \* weights_time_dims->h
  Ranks,        \* the values of svdf_params->rank to consider
  Builds,       \* the kernels to consider, see Unroll
  VLMAX,        \* 32-bit lanes of a register group of two (vector build)
  svdf_state,   \* contents of the state tensor when a stream starts
  Undefined,    \* a word nobody wrote yet
  MaxCalls      \* bound on the calls of one stream

Cells == 0 .. Batches * Features * TimeBatches - 1

\* Where the state tensor keeps slot j of the row of filter f in batch b.
Cell(b, f, j) == (b * Features + f) * TimeBatches + j

Batch   == 0 .. Batches - 1
Feature == 0 .. Features - 1
Slot    == 0 .. TimeBatches - 1

Activations == Int \X Batch \X Feature

\* The window of n calls: slot j of a row is the activation of call
\* n-(TimeBatches-1)+j; calls 0, -1, ... name what the stream started with.
Activation(n, b, f, j) == <<n - (TimeBatches - 1) + j, b, f>>

ASSUME DimsAssumption ==
  /\ Batches \in Nat \ {0}
  /\ Features \in Nat \ {0}
  /\ TimeBatches \in Nat \ {0}
  /\ VLMAX \in Nat \ {0}
  /\ MaxCalls \in Nat

\* feature_batches is a multiple of rank: unit_count is an exact division.
ASSUME RankAssumption == Ranks \subseteq 1 .. Features

ASSUME BuildsAssumption ==
  Builds \subseteq {"scalar_s16", "scalar_s8", "pext_s8", "vext_s8"}

ASSUME StateAssumption ==
  /\ svdf_state \in [Cells -> Activations]
  /\ \A b \in Batch, f \in Feature, j \in Slot :
        svdf_state[Cell(b, f, j)] = Activation(0, b, f, j)

VARIABLES
  build,       \* which kernel the library was built with
  has_bias,    \* bias_data # NULL
  rank,        \* svdf_params->rank
  unit_count,  \* feature_batches / rank
  state_data,  \* the state tensor
  buffer_a,    \* input_ctx->buf
  buffer_b,    \* output_ctx->buf
  output_data, \* the output tensor
  pc,          \* the loop the call is in, "idle" between calls
  i_batch, i_row, \* batch and row (or unit) of that loop
  dst,         \* store pointer of the kernel, as an index of state_data
  v1, v2,      \* read pointers of the time loop
  ptr_a,       \* pointer into buffer_a
  calls,       \* completed calls of this stream
  ret          \* status of the last call

params == <<build, has_bias, rank, unit_count>>
loop   == <<i_batch, i_row, dst, v1, v2, ptr_a>>
tensors == <<state_data, buffer_a, buffer_b, output_data>>
vars == <<params, tensors, pc, loop, calls, ret>>

Init ==
  /\ build \in Builds
  /\ has_bias \in BOOLEAN
  /\ rank \in Ranks
  /\ unit_count \in {u \in 1 .. Features : u * rank = Features}
  /\ state_data = svdf_state
  /\ buffer_a = [i \in 0 .. Batches * Features - 1 |-> Undefined]
  /\ buffer_b = [i \in 0 .. Batches * unit_count - 1 |-> Undefined]
  /\ output_data = [i \in 0 .. Batches * unit_count - 1 |-> Undefined]
  /\ pc = "idle"
  /\ i_batch = 0 /\ i_row = 0 /\ dst = 0 /\ v1 = 0 /\ v2 = 0 /\ ptr_a = 0
  /\ calls = 0
  /\ ret = "SUCCESS"

-----------------------------------------------------------------------------
(***************************************************************************)
(* Entry: the NULL checks precede every write.  The vector build of        *)
(* svdf_s8 also requires ctx->buf.                                         *)
(***************************************************************************)
BuffersGiven(ctx, input_ctx, output_ctx) ==
  /\ build = "vext_s8" => ctx
  /\ input_ctx
  /\ output_ctx

CallFails(ctx, input_ctx, output_ctx) ==
  /\ pc = "idle"
  /\ ~BuffersGiven(ctx, input_ctx, output_ctx)
  /\ ret' = "ARG_ERROR"
  /\ UNCHANGED <<params, tensors, pc, loop, calls>>

\* Mutation of ShiftedState: the length misses the factor of the batches.
ShiftOneBatch ==
  [k \in Cells |-> IF k + 1 < Features * TimeBatches THEN state_data[k + 1] ELSE state_data[k]]

\* memmove(state_data, state_data + 1, (total - 1) elements).
ShiftedState ==
  [k \in Cells |-> IF k + 1 \in Cells THEN state_data[k + 1] ELSE state_data[k]]

\* Mutation of ResPtr: one past the newest slot.
ResPtrPastRow(batch) == TimeBatches * batch * Features + TimeBatches

\* res_ptr of a batch: the newest slot of the batch's first row.
ResPtr(batch) == TimeBatches * batch * Features + (TimeBatches - 1)

Call(ctx, input_ctx, output_ctx) ==
  /\ pc = "idle"
  /\ calls < MaxCalls
  /\ BuffersGiven(ctx, input_ctx, output_ctx)
  /\ state_data' = ShiftedState
  /\ pc' = "feature"
  /\ i_batch' = 0 /\ i_row' = 0 /\ dst' = ResPtr(0)
  /\ UNCHANGED <<params, buffer_a, buffer_b, output_data, v1, v2, ptr_a, calls, ret>>

\* The application starts a new stream: it copies the initial state back.
Restart ==
  /\ pc = "idle"
  /\ calls > 0
  /\ state_data' = svdf_state
  /\ calls' = 0
  /\ UNCHANGED <<params, buffer_a, buffer_b, output_data, pc, loop, ret>>

-----------------------------------------------------------------------------
(***************************************************************************)
(* The feature product: muriscv_nn_vec_mat_mult_t_svdf_s8() for the 16-bit *)
(* state, muriscv_nn_vec_mat_mult_t_s8() for the 8-bit state.  Rows are    *)
(* taken Unroll at a time, the leftover rows one at a time.                *)
(***************************************************************************)
Unroll == CASE build = "scalar_s16" -> 3
            [] build = "pext_s8"    -> 4
            [] OTHER                -> 5

\* One activation of the call in progress.
Newest(batch, feat) == <<calls + 1, batch, feat>>

\* n results leave the kernel for state_data, stride elements apart.
StoreRows(n, stride) ==
  state_data' = [k \in Cells |->
    IF \E i \in 0 .. n - 1 : k = dst + i * stride
    THEN Newest(i_batch, i_row + (CHOOSE i \in 0 .. n - 1 : k = dst + i * stride))
    ELSE state_data[k]]

\* The kernel and, after its last row, the batch loop around it move on.
AdvanceRows(n) ==
  /\ \/ /\ i_row + n < Features
        /\ i_row' = i_row + n /\ dst' = dst + n * TimeBatches
        /\ UNCHANGED <<i_batch, pc, v1, v2, ptr_a>>
     \/ /\ i_row + n = Features /\ i_batch + 1 < Batches
        /\ i_batch' = i_batch + 1 /\ i_row' = 0 /\ dst' = ResPtr(i_batch + 1)
        /\ UNCHANGED <<pc, v1, v2, ptr_a>>
     \/ /\ i_row + n = Features /\ i_batch + 1 = Batches
        /\ pc' = "time" /\ i_batch' = 0 /\ i_row' = 0
        /\ v1' = 0 /\ v2' = 0 /\ ptr_a' = 0
        /\ UNCHANGED dst
  /\ UNCHANGED <<params, buffer_a, buffer_b, output_data, calls, ret>>

\* What a block stores, and how far apart.  The vector kernel packs the results
\* in one register group and stores its vl elements contiguously.
BlockLanes  == IF build = "vext_s8" THEN Vsetvl(Unroll, VLMAX) ELSE {Unroll}
BlockStride == IF build = "vext_s8" THEN 1 ELSE TimeBatches

FeatureBlock ==
  /\ pc = "feature"
  /\ i_row + Unroll <= Features
  /\ \E lanes \in BlockLanes : StoreRows(lanes, BlockStride)
  /\ AdvanceRows(Unroll)

FeatureLeftover ==
  /\ pc = "feature"
  /\ i_row + Unroll > Features
  /\ StoreRows(1, TimeBatches)
  /\ AdvanceRows(1)

-----------------------------------------------------------------------------
\* One row of the state times its row of the time weights.  v1 restarts with
\* every batch, v2 runs through the whole state tensor.
TimeRow ==
  /\ pc = "time"
  /\ buffer_a' = [buffer_a EXCEPT
       ![ptr_a] = [j \in Slot |-> <<v1 + j, state_data[v2 + j]>>]]
  /\ v2' = v2 + TimeBatches
  /\ \/ /\ i_row + 1 < Features
        /\ i_row' = i_row + 1 /\ v1' = v1 + TimeBatches /\ ptr_a' = ptr_a + 1
        /\ UNCHANGED <<i_batch, pc>>
     \/ /\ i_row + 1 = Features /\ i_batch + 1 < Batches
        /\ i_batch' = i_batch + 1 /\ i_row' = 0 /\ v1' = 0 /\ ptr_a' = ptr_a + 1
        /\ UNCHANGED pc
     \/ /\ i_row + 1 = Features /\ i_batch + 1 = Batches
        /\ pc' = "reduce" /\ i_batch' = 0 /\ i_row' = 0 /\ ptr_a' = 0
        /\ UNCHANGED v1
  /\ UNCHANGED <<params, state_data, buffer_b, output_data, dst, calls, ret>>

(***************************************************************************)
(* The reduction over the ranks of a unit.  With a bias and one row per    *)
(* unit the code indexes buffer_a and buffer_b in parallel; otherwise it   *)
(* walks buffer_a with ptr_a, which it resets for every batch.             *)
(***************************************************************************)
NoBias == -1
Unit(bias, terms) == [bias |-> bias, terms |-> terms]

\* Mutation of RankOne: the test of the bias is lost.
AnyRankOne == unit_count = Features

RankOne == has_bias /\ unit_count = Features

AdvanceUnits ==
  /\ \/ /\ i_row + 1 < unit_count
        /\ i_row' = i_row + 1 /\ ptr_a' = ptr_a + rank
        /\ UNCHANGED <<i_batch, pc>>
     \/ /\ i_row + 1 = unit_count /\ i_batch + 1 < Batches
        /\ i_batch' = i_batch + 1 /\ i_row' = 0 /\ ptr_a' = (i_batch + 1) * Features
        /\ UNCHANGED pc
     \/ /\ i_row + 1 = unit_count /\ i_batch + 1 = Batches
        /\ pc' = "requantize" /\ i_batch' = 0 /\ i_row' = 0
        /\ UNCHANGED ptr_a
  /\ UNCHANGED <<params, state_data, buffer_a, output_data, dst, v1, v2, calls, ret>>

AddBias ==
  /\ pc = "reduce"
  /\ RankOne
  /\ buffer_b' = [buffer_b EXCEPT
       ![i_batch * Features + i_row] = Unit(i_row, [q \in 0 .. 0 |-> buffer_a[i_batch * Features + i_row]])]
  /\ AdvanceUnits

ReduceRank ==
  /\ pc = "reduce"
  /\ ~RankOne
  /\ buffer_b' = [buffer_b EXCEPT
       ![i_batch * unit_count + i_row] =
          Unit(IF has_bias THEN i_row ELSE NoBias, [q \in 0 .. rank - 1 |-> buffer_a[ptr_a + q]])]
  /\ AdvanceUnits

\* Requantize and clamp every word of buffer_b with the per-tensor parameters,
\* and return.
Requantize ==
  /\ pc = "requantize"
  /\ output_data' = [i \in 0 .. Batches * unit_count - 1 |-> [requantized |-> buffer_b[i]]]
  /\ pc' = "idle"
  /\ calls' = calls + 1
  /\ ret' = "SUCCESS"
  /\ UNCHANGED <<params, state_data, buffer_a, buffer_b, loop>>

-----------------------------------------------------------------------------
\* A step of the library once it has been called.
Step ==
  \/ FeatureBlock \/ FeatureLeftover
  \/ TimeRow
  \/ AddBias \/ ReduceRank
  \/ Requantize

Next ==
  \/ \E ctx, input_ctx, output_ctx \in BOOLEAN :
        \/ Call(ctx, input_ctx, output_ctx)
        \/ CallFails(ctx, input_ctx, output_ctx)
  \/ Restart
  \/ Step

\* The caller may stop calling; the library, once called, runs to its return.
Spec == Init /\ [][Next]_vars /\ WF_vars(Step)
-----------------------------------------------------------------------------
(***************************************************************************)
(* Properties                                                              *)
(***************************************************************************)
\* The sum a word of buffer_a holds when its row has just been multiplied.
RowSum(n, b, f) ==
  [j \in Slot |-> <<f * TimeBatches + j, Activation(n, b, f, j)>>]

\* The sum a word of buffer_b holds for unit u of batch b.
UnitSum(n, b, u) ==
  Unit(IF has_bias THEN u ELSE NoBias,
       [q \in 0 .. rank - 1 |-> RowSum(n, b, u * rank + q)])

\* Every variable has its type: in particular every index stays in its array,
\* which is all the memory the application gave the call.
TypeOK ==
  /\ build \in Builds
  /\ has_bias \in BOOLEAN
  /\ rank \in Ranks
  /\ unit_count \in 1 .. Features
  /\ unit_count * rank = Features
  /\ state_data \in [Cells -> Activations]
  /\ pc \in {"idle", "feature", "time", "reduce", "requantize"}
  /\ i_batch \in Batch
  /\ i_row \in Feature
  /\ dst \in Cells
  /\ v1 \in Nat
  /\ v2 \in Nat
  /\ ptr_a \in Nat
  /\ pc = "time" => v2 + TimeBatches - 1 \in Cells
  /\ pc = "reduce" => ptr_a + rank <= Batches * Features
  /\ calls \in 0 .. MaxCalls
  /\ ret \in {"SUCCESS", "ARG_ERROR"}

\* The call number whose window the state tensor holds.
Latest == IF pc = "idle" THEN calls ELSE calls + 1

\* Outside the feature loop every row of the state holds exactly its own last
\* TimeBatches activations, in order: the flat memmove never leaves a
\* neighbour's value behind, a call that fails loses nothing, and a restarted
\* stream remembers nothing of the one before.
HistoryIsWindow ==
  pc # "feature" =>
    \A b \in Batch, f \in Feature, j \in Slot :
      state_data[Cell(b, f, j)] = Activation(Latest, b, f, j)

\* When the kernel has stored the results of a batch, result f is at
\* dst + f * address_offset.
ResultsAtAddressOffset ==
  pc = "time" =>
    \A b \in Batch, f \in Feature :
      state_data[ResPtr(b) + f * TimeBatches] = Newest(b, f)

(***************************************************************************)
(* The layer promises a filter over a sliding window.                      *)
(***************************************************************************)
Stream == INSTANCE SvdfStream WITH
  running <- pc # "idle",
  output  <- [b \in Batch |->
               [u \in 0 .. unit_count - 1 |-> output_data[b * unit_count + u]]]

ImplementsStream == Stream!Spec
=============================================================================
