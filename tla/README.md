# A TLA+ development for muRISCV-NN

muRISCV-NN is a library of neural network kernels (a port of CMSIS-NN) that is
built in three variants: plain C, with the packed extension (PEXT) and with the
vector extension (VEXT). The kernels are sequential, but they share memory in
ways a unit test of one call does not exercise: state tensors that survive a
call, scratch memory that was sized by another function and used by another
layer, output tensors that are read back as input, blocks of rows with
leftovers, and pointers that run on from batch to batch. That is what is
modelled here. Paths below are relative to the repository.

## 1. Inventory

| Component | State | Operations | What is hard | What makes it correct |
|---|---|---|---|---|
| `Source/SVDFunctions` | the state tensor (survives calls), two scratch buffers | `svdf_state_s16_s8`, `svdf_s8` | one memmove over all rows; calls that fail; restarts; row blocks with a stride | every row is the sliding window of its own filter; the output is the filter of the window |
| `Source/ConvolutionFunctions`, s8 | scratch buffer owned by the application | wrapper, sizing, im2col, 1x1 fast, 1xN; 1x1 with strides, called directly | the sizing function repeats the dispatch; flush, leftover, batch reset; edge windows | every output is the sum over its window, once; the granted scratch suffices |
| same, s8 depthwise | the same, as four windows of a channel block | wrapper, sizing, 3x3, basic, optimised | channel blocks and strips of vector lanes; leftover windows; clipped windows; a buffer reused by every block | the same, with the channel's own weights, bias and quantization |
| same, s8 transposed | a column buffer and an image of 32-bit sums, owned by the application | `transpose_conv_s8` and its accumulating product, sizing | both buffers are only added to and reused by every batch; the columns are counted from the output and sized from the input | every output is its bias plus each product that falls on it, added once |
| same, s4 and s16 | as s8 | as s8 | packed weights, wide sums | as s8 |
| `Source/LSTMFunctions` with the step and gate kernels of `NNSupportFunctions` | `temp1`, `temp2`, `cell_state`, the output tensor as hidden state | `lstm_unidirectional_s8/s16`, `lstm_step`, `lstm_calculate_gate` | five values in two buffers; two layouts; buffers left by the last call | the LSTM recurrence, batch by batch |
| `Source/NNSupportFunctions`, matrix products | none | `mat_mult_nt_t`, `vec_mat_mult_t`, `mat_mul_core` | row blocks, pairs and leftovers per build; words across row ends; strip mining with vsetvl; tail lanes | the product, stored where the caller asked |
| `Include/muriscv_nn_support_functions.h` | the rounding mode register | requantize, saturating arithmetic | word widths, rounding of negatives, shifts | the vector and the scalar variant agree |
| `Include/muriscv_nn_util.h` | the cycle counter (hardware) | `rdcycle`, `rdcycle64`, profiler | two-word counter read while it runs; 32-bit overflow | the value is one the counter had; differences are exact |
| `Source/FullyConnectedFunctions` | none | batch loop around one product | sizing functions, vector sums | as the product |
| `Source/BasicMathFunctions`, `ActivationFunctions` | none (in place) | element-wise loops | pairs and leftovers, strides between batches | each word once |
| `Source/PoolingFunctions`, `SoftmaxFunctions`, `ConcatenationFunctions`, `ReshapeFunctions` | small or no buffers | window and copy loops | clipping, address functions | each output from its window |
| `Tests`, `Integration`, `Scripts`, `Sim`, `Toolchain`, `CMake`, `Wiki` | - | - | - | not modelled (test data, glue, build and simulator scripts) |

The application (TFLM, TVM or a unit test) calls one layer at a time: it asks
the sizing function for scratch memory, allocates it from an arena the layers
share, and calls the layer, which calls kernels of `NNSupportFunctions`. There
are no threads, interrupt handlers or messages in the library; the two things
that happen "between" its steps are other calls of the application and, for the
cycle counter, time.

`PROJECT.json` lists the hazards at their lines. Those with a property are
covered by a run; the others say why none does.

## 2. Modules

| Module | Models |
|---|---|
| `Rvv` | `vsetvl`: every vector length the architecture may grant |
| `SvdfStream` | abstract: result n is a filter over the last TimeBatches inputs |
| `Svdf` | both SVDF layers in four builds, call by call and row block by row block; INSTANCEs `SvdfStream` |
| `MCSvdf` | constants for TLC |
| `SvdfProofs` | theorems about `Svdf` |
| `Convolution` | abstract: every output gets the sum over its window, once and for good |
| `ConvolveS8` | wrapper, sizing, its three s8 kernels and `convolve_1x1_s8` in the plain and vector builds; INSTANCEs `Convolution` |
| `MCConvolve` | layers for TLC |
| `ConvolveProofs` | theorems about `ConvolveS8`: scratch memory, types, refinement |
| `DepthwiseConvolution` | abstract: as `Convolution`, one input channel per output channel, with bias and quantization |
| `DepthwiseS8` | wrapper, sizing and the four s8 depthwise kernels in three builds; INSTANCEs `DepthwiseConvolution`, uses `Rvv` |
| `MCDepthwise`, `DepthwiseProofs` | layers for TLC; theorems about `DepthwiseS8` |
| `TransposedConvolution` | abstract: every output gets its bias and each product that falls on it, once |
| `TransposeConvS8` | the transposed layer with its accumulating product; INSTANCEs `TransposedConvolution` |
| `MCTranspose`, `TransposeProofs` | layers for TLC; theorems about `TransposeConvS8` |
| `MatrixProduct` | abstract: every element of a product is computed once, from its own rows |
| `MatMulNtT` | `mat_mult_nt_t_s8` in the scalar and packed builds; INSTANCEs `MatrixProduct` |
| `MCMatMul`, `MatMulProofs` | calls for TLC; theorems about `MatMulNtT` |
| `LstmRecurrence` | abstract: the LSTM recurrence over uninterpreted arithmetic |
| `Lstm` | both unidirectional layers, one action per library call of the step; INSTANCEs `LstmRecurrence` |
| `RowMajor` | lemmas about row-major indices, for the proofs |
| `MCLstm`, `LstmProofs` | layers and a free arithmetic for TLC; theorems about `Lstm` |
| `CycleCounter`, `CycleCounterProofs` | `rdcycle64` and the profiler against a running counter; theorems about them |

Numbers are represented by how they were computed, not by their bits: an
activation is `<<call, batch, filter>>`, a sum the set or function of the
products in it, an LSTM value the expression tree (in `Lstm` the arithmetic
operators are CONSTANTS; `MCLstm` makes them constructors of trees). Two
values are equal only if they were computed in the same way from the same data,
so a property about them catches a wrong word wherever it comes from.
Requantization and clamping are the same for every kernel of a layer and are
left out. Column loops inside one product are abstracted to the set of products.

Correspondence:

- `Svdf`: `state_data`, `buffer_a`, `buffer_b`, `output_data` are the flat
  arrays of the code; `dst`, `v1`, `v2`, `ptr_a` are its pointers as indices.
  `CallFails` is an early return of the NULL checks, `Call` everything up to the
  first row block including the memmove, `FeatureBlock`/`FeatureLeftover` one
  turn of the row loop of the feature product (three rows in
  `vec_mat_mult_t_svdf_s8` and the scalar `vec_mat_mult_t_s8`, four packed, five
  vector), `TimeRow` one row of the time filter, `AddBias`/`ReduceRank` one unit,
  `Requantize` the last loop and the return. `Restart` is the application
  reloading the initial state, as the unit test does per repetition.
- `ConvolveS8`: `Dispatch` is the wrapper with the refusal of the general kernel;
  `Im2col`, `Flush`/`KeepFilling` are one output pixel; `Leftover`/`NoLeftover`
  with `EndBatch` the end of a batch; `Pointwise` a group of rows; `OneRow` four
  outputs of the 1xN kernel. `Call1x1` is the argument check of
  `convolve_1x1_s8`, which no wrapper calls, and `Row1x1` one turn of its row
  loop. The buffer starts with `Stale` words. "scalar" is the build without PEXT
  and VEXT.
- `DepthwiseS8`: `Dispatch` is the wrapper; `Group3x3` one group of channels of
  the 3x3 kernel, `GroupMult4` and `GroupGeneric` those of the basic kernel;
  `Im2col` the copy of one window in the optimised kernel, `FlushStrip` one
  strip of lanes of `depthwise_conv_nt_t_s8` (every length that `vsetvl` may
  grant), `LeftoverStrip` one strip of a leftover window, `EndBlock` the end of a
  channel block. An output is the record of its sum, its bias and the channel
  that quantized it, so that a sum of the right products under the wrong
  channel's multiplier is a different output.
- `TransposeConvS8`: `Clear` is the head of the batch loop (both memsets and the
  bias), `Product` one pair of input channels for one output channel, `Column`
  one column added to the image, `Requantize` the end of a batch. A sum records
  what it started from and how many additions it had, so that a product added
  twice shows.
- `MatMulNtT`: `Begin` is the head of a block of right rows, `Pair` one pair of
  left rows, `OddRow` the odd left row, `EndBlock` the pointer steps behind it,
  `LeftoverRow` a right row that fills no block. `RightAlign`, `Align0`, `Align1`
  and `OddAlign` are the alignments the packed build looks up for the right rows,
  the two rows of a pair and the odd left row; a word shifted by a number of bits
  that nobody assigned is `Garbage`. The vector build compiles the scalar code here.
- `Lstm`: `Call` is the entry with the memset; then `ForgetGate`, `ScaleCell`,
  `InputGate`, `CellGate`, `AccumulateCell`, `OutputGate`, `TanhCell`, `Hidden`
  are the library calls of `lstm_step` in order. `temp1`, `temp2` and
  `cell_state` keep what the previous call left; `cell_before` is the history
  variable that keeps the cell at the top of a step for the refinement.
- `CycleCounter`: one action per CSR read; every action takes 1..MaxTicks
  cycles. `elapsed`, `retries`, `profiled` are histories.

Definitions commented "Mutation of X" are not part of a specification: each is
X with a plausible bug, used to confirm that a property notices it.

## 3. Runs

| Run | Result | Question |
|---|---|---|
| `svdf` | pass | Is every row of the history the window of its own filter, and does the layer refine the abstract filter, in the scalar and packed builds? |
| `svdf_vector` | violation | Does the vector build store results address_offset apart, as `muriscv_nn_support_functions.h:760-761` says? No: five or more filters get a contiguous block. |
| `convolve` | pass | Does each kernel compute the convolution, within the scratch the sizing function grants, for filters of one row on one-row images and 1x1 kernels without horizontal stride? |
| `convolve_tall_filter` | violation | A filter of several rows on a one-row image passes the guard of the 1xN kernel although `muriscv_nn_functions.h:783-785` excludes it; the result is wrong. |
| `depthwise` | pass | Does every depthwise kernel of every build compute the depthwise convolution, channel blocks included, and does a layer with the scratch it asked for complete? |
| `depthwise_blocks` | violation | `muriscv_nn_support_functions.h:189-191` describes layers with several channel blocks as supported. When their pixels are no multiple of four, the leftover windows use the weights, bias and quantization of the first block and are stored at the wrong pixels. |
| `transpose` | pass | Does each product reach its output once, batch after batch in buffers that are only added to, and do the columns fit in the buffer the sizing function asked for? |
| `mat_mul` | pass | Do the blocks, pairs and leftovers share the product out between them, in the calls the packed build computes right (`Supported`)? Does the packed build read and store words at word boundaries, also when rows end within a word (pairs of left rows: only where `ParityFits`)? |
| `mat_mul_packed` | violation | `muriscv_nn_support_functions.h:589` promises a general product. The packed build is wrong when rows end within a word or more than one right row is left over. |
| `lstm` | pass | Do both layouts compute the recurrence, call after call, in reused buffers? |
| `lstm_s8_batches` | violation | `elementwise_mul_s16_s8` takes the number of batches and stores the first only. |
| `cycle_counter` | pass | Is the value of `rdcycle64` one the counter had, does the loop end, is the 32-bit difference right? |

Bounds, and why they are enough.

- SVDF: two batches (one row boundary between batches and several inside), six
  filters (each block size 3, 4, 5 leaves a leftover, and six is at least two
  blocks of three), a window of two (newest and oldest slot are neighbours of
  the next row), ranks 1, 2, 3, 6, three calls per stream with restarts and
  failed calls in between. A wrong slot is visible within TimeBatches + 1 calls.
  `svdf_vector` has eight 32-bit lanes in a group of two registers (`VLMAX`,
  VLEN=128), so that a block is always granted its five lanes: its violation is
  the contiguous store alone. Shorter vectors, which grant fewer and leave the
  fifth result unstored, are in the model and in no run (see the hazards).
- Convolution: images up to 3x3 and rows up to 9, one to three batches, one or
  two output channels, filters up to 2x3 and 1x5, strides and dilations 1 and 2,
  with and without padding; together every number of leftover columns (0..3),
  interior and edge groups of the 1xN kernel, windows wider than the image,
  channel counts on both sides of the divisible-by-four test. The passing run
  keeps to one-row filters on one-row images; the tall ones are the other run. The
  direct 1x1 calls have vertical strides, several batches and images higher than
  what is read of them, but no horizontal stride: `mat_mult_nt_t_s8` never uses
  the `lhs_cols_offset` that `convolve_1x1_s8` passes it for that purpose, and
  with a stride `ImplementsConvolution` fails (see the hazards).
- Depthwise: blocks of four channels instead of 124 and register groups of three
  lanes, so that a block takes two strips, one of them short. One to nine
  channels (none, one or two blocks behind the first, full and short), one to
  four columns, windows inside, at the edges and wider than the image, strides
  1-3, dilation, batches and channel multipliers in the basic kernel. Layers with
  several blocks have a bias: the code advances the pointer without a test. In the
  passing run their pixels are a multiple of four; the others are the other run.
- Transposed: one and two batches (the second sees what the first left), one to
  three input channels (pairs and an odd one), filters that overlap, touch and
  leave gaps. Sizes and padding are TensorFlow's, with the padding offset for an
  odd total; `TensorFlowPadding` states what follows for the padding.
- Matrix product: up to six rows and columns for the scalar build (every residue
  of block and pair), up to thirteen right rows (three blocks and one row) and rows
  of one and two words for the packed build. The alignments are checked with up to
  nine left rows (no pair to four, with and without the odd row), one block of
  right rows with and without a leftover row, and five to seven columns, so that
  rows begin at every distance from a word boundary. The products of such rows are
  the matter of `mat_mul_packed`: `ImplementsSupported` and `ReturnsComplete` say
  nothing of them, `WordAccess` and `Completes` do.
- LSTM: one to three batches (s16), one batch (s8, see the violation), one and
  three samples (first sample without hidden state, then with), rows of one and
  three features and one and two units, two different input tensors in any
  sequence of calls.
- Cycle counter: words of ten values instead of 2^32, one or two cycles per
  instruction. `TicksAssumption` (five instructions, with what interrupts them,
  take less than a turn of the low word, 43 seconds) is what makes one retry
  enough. The counter itself wraps. A profiled section begins nothing new after
  MaxProfile = 12 cycles, so that sections both shorter and longer than a turn
  are covered.

Fairness: the library is sequential code whose loops wait for nothing, so a call
once made takes its next step (WF of `Step`; of `Reading` in `CycleCounter`;
`ConvolveS8`, `DepthwiseS8`, `TransposeConvS8` and `MatMulNtT` are a single call,
WF of `Next`). The application is under no obligation to call. A single call
returns and stops, so deadlock is not an error in those four. That it gets as far
as a complete output is `SizedLayerCompletes`, `BuffersSuffice` and `Completes`;
that it does not return before the output is complete is `ReturnsComplete`, which
needs no fairness.
The other runs check deadlock.

## 4. Proofs

TLAPS proves, for every value of the constants that satisfies the modules'
assumptions and the hypotheses named:

- `SvdfProofs`: `TypeCorrect` (every pointer stays in its tensor),
  `HistoryCorrect` (`HistoryIsWindow`) and `StreamRefinement` (initial states and
  steps map to those of `SvdfStream`), for the builds that store with a stride
  (hypothesis `StridedBuilds`; the vector build violates them). The invariant is
  not inductive as stated because during the feature loop the history is half
  shifted: `StateInv` says which rows already have their newest sample
  (`Passed`) and that the slots in front are shifted; `ScratchInv` says which
  words of `buffer_a` and `buffer_b` are final. The arithmetic core is that
  row-major indices are unique and that the flat shift by one moves each slot to
  the next within a row (`CellUnique`, `CellNext`, `CellWrap`).
- `ConvolveProofs`: `ScratchSuffices` (`ScratchFits`), from `LayersAssumption` and
  `BuildsAssumption`. The invariant `IInv` says that the kernel the call is in is
  the one the sizing function counted on, and that the column pointer stands at a
  whole number of columns with room for the next one. `TypeCorrect` (`TypeOK`),
  `ConvolutionRefinement` (`ImplementsConvolution`) and `ReturnedConvolution`
  (`ReturnsComplete`) hold for every set of layers that satisfies
  `FittingLayers`: a pointwise layer keeps the size of the image, a one-row image
  has a one-row filter in the vector build, and a layer given to the 1x1 kernel
  has no horizontal stride and windows that begin in the image. `MCConvolve`
  evaluates the same condition for its layers (`PassingLayers`). The output is
  written front to back: `First` is the pixel the output pointer stands for;
  behind it all is missing (`Fresh`), in front of it all has its value
  (`Finished`). A step that stores the windows of the next pixels is then a step
  of `Convolution` (`Storing`), whichever kernel takes it. For the general kernel
  this needs `BufferInv`: column i of the scratch buffer is the window of the i-th
  pixel not yet stored, which is what makes stale words harmless. `RowIsWindow`,
  `PointIsWindow`, `PixelIsWindow` and `OneRowIsWindow` say that the four ways of
  reading the input read windows.
- `DepthwiseProofs`: `TypeCorrect` (`TypeOK`) for every layer and build, the wrong
  output pointer of the leftover loop included. `DepthwiseRefinement`
  (`ImplementsDepthwise`) and `ReturnedDepthwise` (`ReturnsComplete`) hold for
  every set of layers that satisfies `FittingLayers`: where the 3x3 kernel runs
  there is a bias and the middle column of every window is in the image, because
  the kernel reads both without looking; where the vector code runs there is one
  block of channels, or a bias and no leftover windows, because leftovers and
  missing biases of later blocks are computed wrongly (`depthwise_blocks` shows
  the former). `MCDepthwise` evaluates the same condition (`FlushedLayers`). The
  invariant has one part per style of kernel. Those without vectors write the
  output front to back (`GroupInv`, `GroupFresh`, `GroupDone`). The vector code
  goes over the pixels once per block of channels, and in a strip loop the four
  pixels of a flush are done for some channels only: `Missing` says which channel
  of which pixel is still to come, `BlockFresh` that it was not written,
  `BlockDone` that everything else has its value. `BlockInv` ties the pointers to
  the loop counters, and `WindowInv` says that each window in the scratch buffer
  is that of its pixel, in the active channels of the block. That the clipped
  kernel elements are those on the input (`ClipIs`) and that a copied window gives
  the same products (`TapSumIs`) are lemmas of their own.
- `MatMulProofs`: `TypeCorrect`, `WordBoundaries` (`WordAccess`), `PairBoundaries`
  (`PairReads`), `ProductRefinement` (`ImplementsSupported`) and `ReturnedProduct`
  (`ReturnsComplete`), for every set of calls; no theorem has a hypothesis.
  `WordAccess` is about all packed calls, rows of any length included: the four
  right rows of a block, the odd left row and the stores. Two properties have a
  condition of their own. The alignment of a pair of left rows comes from the
  parity of the pairs left, which tells that of the pairs done only if the number
  of pairs is odd or that of the columns even (`ParityFits`). Otherwise the code
  is wrong: with four left rows of five columns the first pair, at address 0, is
  taken to begin two values behind a boundary, and the word in front of the matrix
  is read, although `muriscv_nn_support_functions.h:1133` says "Always performs
  read on memory word boundaries". `PairReads` without its condition fails in the
  `mat_mul` run at that state. The product is proved for every size in the scalar
  build, and for rows of whole words with at most one leftover right row in the
  packed build (`Supported`); `mat_mul_packed` shows that the others are wrong.
  `Positions` says that the pointers, which the code only steps, are the products
  of the loop counters; `Computed` which elements are done in the middle of a
  block, and `Filled` that those have their value and all others are missing.
- `TransposeProofs`: `TypeCorrect` and `ColumnsInBuffer` (`ColumnsFit`), if no
  window starts behind the last input pixel (`FittingLayers`). The number of
  columns the last step walks comes from the output and is at most that of the
  buffer (`ColumnCounts`). `TransposedRefinement` (`ImplementsTransposed`) and
  `ReturnedResult` (`ReturnsComplete`) need that this number is also enough, that
  is, the padded output has room for the window of the last input pixel
  (`CoveringLayers`); TensorFlow's padding and output size give both, and `TensorFlowPadding`
  evaluates them for TLC's layers. `ColumnInv` says which pairs of channels each
  column has, `ImageInv` which columns each sum of the image has, counted so
  that none is added twice; `OutputFresh` and `OutputDone` which images of the
  output are still missing and which have their value.
- `CycleCounterProofs`: `TypeCorrect`, `ReadsConsistent` (`ReadsAnInstant`),
  `RetriesAtMostOnce` (`RetriesOnce`) and `ProfileExact` (`ProfilesElapsed`) for
  words of any size. The counter wraps, so no instants are compared: `HighAgo` and
  `LowAgo` are the two words k cycles ago, `Aging` moves them along with the
  counter, and `Retried` says that after a failed turn the low word has just
  overflowed and cannot again before the turn ends.
- `LstmProofs`: `TypeCorrect` (`TypeOK`), `RowsStayInside` (`RowsInside`) and
  `RecurrenceComputed`, the safety half of `ImplementsRecurrence` for any number of
  batches, samples and units, both layouts and any arithmetic, provided that the
  kernel stores every batch (`AllStored`: one batch for s8). `RowsInside` follows
  from the types and `HiddenInv` (the hidden state is the row of the previous
  sample), because the loops' addresses are those of the layout (`AddressLaw`)
  and those determine batch, sample and feature (`TensorUnique`). The
  refinement also needs `BufferInv`, which gives for every point between two
  library calls the gate or the stage of the cell each shared buffer holds.
- `RowMajor` holds the index arithmetic they rest on: row-major indices are unique
  and in range, division and remainder undo them, products are monotone.

Every invariant the passing runs check is a theorem, under the hypotheses named,
and so is the safety half of every refinement. Checked by TLC only is liveness
(`Returns`, `Completes`, `BuffersSuffice`, `SizedLayerCompletes`, the fairness halves of
`ImplementsStream` and `ImplementsRecurrence`), which is out of the prover's
reach.

## 5. What is left

1. The horizontal stride of `convolve_1x1_s8` as a run of its own, once the code or
   its documentation is settled.
2. That TensorFlow's output sizes and padding satisfy `TransposeProofs!FittingLayers`
   and `CoveringLayers`, and `DepthwiseProofs!FittingLayers` for the 3x3 kernel, for
   layers of every size: TLC evaluates them for the layers of the runs.

## 6. Not modelled

- The fixed-point arithmetic of single values (requantization, rounding mode,
  saturation, activation tables, softmax): every module takes it as one function
  of the sum. It is decided by tests over operands, not by the order of steps.
- Lanes of a vector reduction. A strip's product is exact in the modules; what
  tail lanes contribute (`mat_mul_core_4x_s8.c:94`) depends on hardware and word
  width.
- The packed build's own leftover loop in `convolve_s8` and its multiply
  instructions.
- Pooling, fully connected, concatenation, reshape, relu and the element-wise s8
  kernels: single loops over their own output, without state that two steps
  share.
- s4 and s16 kernels other than the LSTM's and SVDF's: the control of the s8
  kernels with other element widths.
- Argument checks that cannot fail for positive dimensions
  (`vec_mat_mult_t_svdf_s8.c:60`).
- `Tests` (but for how they call the layers), `Integration`, `Scripts`, `Sim`,
  `Toolchain`, `CMake`, `Wiki`: data, glue and scripts. Most lines of the
  repository are arrays of model weights and test inputs under `Integration`
  and `Tests/TestData`.
