----------------------------- MODULE ConvolveS8 -----------------------------
(***************************************************************************)
(* muriscv_nn_convolve_wrapper_s8() with the three kernels it chooses from *)
(* and muriscv_nn_convolve_1x1_s8(), which an application calls itself.    *)
(* The general one, muriscv_nn_convolve_s8(), copies the window of each    *)
(* output pixel into a column of a scratch buffer and multiplies the       *)
(* buffer by the filter whenever it holds ColumnsPerFlush columns; what is *)
(* left at the end of a batch is multiplied separately.  The application   *)
(* asks the sizing function of the wrapper how much scratch to allocate,   *)
(* before any kernel is chosen, and hands it over with whatever the        *)
(* previous layer left in it, or hands over no buffer at all.              *)
(*                                                                         *)
(* Pixels, weights and words of the scratch buffer are counted in units of *)
(* input_ch values, which the code always moves together.  A result is     *)
(* the set of <<weight, pixel>> pairs it multiplies (see Convolution); the *)
(* requantization that follows is the same for every kernel.               *)
(***************************************************************************)
EXTENDS Integers

CONSTANTS
  Layers,     \* the layers to run: records of dimensions and parameters
  Layers1x1,  \* those of them that the application also hands to convolve_1x1_s8
  Builds,     \* "scalar" or "vector"
  Undefined   \* an output element nobody wrote yet

ASSUME BuildsAssumption == Builds \subseteq {"scalar", "vector"}

\* n, c: batches and input_ch; [iko][hw]: height and width of input, kernel and
\* output; oc: output_ch; s, p, d: stride, padding and dilation along x and y.
ASSUME LayersAssumption ==
  \A l \in Layers :
    /\ {l.n, l.c, l.ih, l.iw, l.kh, l.kw, l.oh, l.ow, l.oc, l.sx, l.sy, l.dx, l.dy}
         \subseteq Nat \ {0}
    /\ {l.px, l.py} \subseteq Nat

\* That kernel does not look at the filter's size; its documentation fixes it.
ASSUME Layers1x1Assumption ==
  /\ Layers1x1 \subseteq Layers
  /\ \A l \in Layers1x1 : l.kh = 1 /\ l.kw = 1

VARIABLES
  layer,        \* the layer the application runs
  build,        \* the build of the library
  ctx_buf,      \* ctx->buf # NULL
  pc,           \* where the call is
  i_batch, i_out_y, i_out_x,
  in_base,      \* input_data, advanced by one image per batch (1x1: by rows)
  buffer,       \* the scratch buffer ctx->buf
  fill,         \* im2col_buf or two_column_buf, relative to the buffer
  out_base,     \* output_data, advanced by one image per batch
  out,          \* the output pointer of the batch
  output_data

inputs == <<layer, build, ctx_buf>>
vars == <<inputs, pc, i_batch, i_out_y, i_out_x, in_base, buffer, fill, out_base, out, output_data>>

-----------------------------------------------------------------------------
(* Arguments, dispatch and sizing.                                         *)

IsPointwise ==
  /\ layer.px = 0 /\ layer.py = 0
  /\ layer.c % 4 = 0
  /\ layer.sx = 1 /\ layer.sy = 1
  /\ layer.kw = 1 /\ layer.kh = 1
  /\ layer.dx = 1 /\ layer.dy = 1

IsOneRow == layer.ih = 1 /\ layer.ow % 4 = 0 /\ layer.dx = 1

KernelSize == layer.kw * layer.kh

Larger(a, b)  == IF a > b THEN a ELSE b
Smaller(a, b) == IF a < b THEN a ELSE b

RoundUp(n, m) == ((n + m - 1) \div m) * m

\* muriscv_nn_convolve_s8_get_buffer_size(), in bytes.
Im2colBufferSize ==
  IF build = "vector"
  THEN 4 * RoundUp(layer.c * KernelSize, 8)
  ELSE 2 * RoundUp(layer.c * KernelSize, 4) * 2

\* Mutation of BufferSize: every unpadded 1x1 layer is taken for a pointwise one,
\* as muriscv_nn_convolve_wrapper_s8_get_buffer_size_mve() does.
BufferSizeMve ==
  IF /\ layer.px = 0 /\ layer.py = 0
     /\ layer.kw = 1 /\ layer.kh = 1
     /\ layer.dx = 1 /\ layer.dy = 1
  THEN 0 ELSE Im2colBufferSize

\* muriscv_nn_convolve_wrapper_s8_get_buffer_size().
BufferSize ==
  IF IsPointwise THEN 0
  ELSE IF IsOneRow THEN IF build = "vector" THEN 0 ELSE Im2colBufferSize
  ELSE Im2colBufferSize

\* Bytes of one element of an im2col column, columns the buffer is made for.
ElementSize     == IF build = "vector" THEN 1 ELSE 2
ColumnsPerFlush == IF build = "vector" THEN 4 ELSE 2

Stale   == -2   \* left in the scratch buffer by an earlier layer
Padding == -1   \* a value that the input offset cancels

Init ==
  /\ \/ layer \in Layers /\ pc = "wrapper"
     \/ layer \in Layers1x1 /\ pc = "call_1x1"
  /\ build \in Builds
  /\ ctx_buf \in BOOLEAN
  /\ i_batch = 0 /\ i_out_y = 0 /\ i_out_x = 0
  /\ in_base = 0
  /\ buffer = [i \in 0 .. ColumnsPerFlush * KernelSize - 1 |-> Stale]
  /\ fill = 0
  /\ out_base = 0 /\ out = 0
  /\ output_data = [i \in 0 .. layer.n * layer.oh * layer.ow * layer.oc - 1 |-> Undefined]

\* Mutation of Dispatch: the wrapper stops using the 1xN kernel, the sizing
\* function is not told.
DispatchNoOneRow ==
  /\ pc = "wrapper"
  /\ pc' = IF IsPointwise THEN "pointwise"
           ELSE IF ~ctx_buf /\ Im2colBufferSize > 0 THEN "refused" ELSE "im2col"
  /\ UNCHANGED <<inputs, i_batch, i_out_y, i_out_x, in_base, buffer, fill,
                 out_base, out, output_data>>

\* The wrapper looks at the layer only; the 1xN kernel of the scalar build is
\* the general kernel, the one that needs a buffer and refuses to run without.
Dispatch ==
  /\ pc = "wrapper"
  /\ \/ /\ IsPointwise
        /\ pc' = "pointwise"
     \/ /\ ~IsPointwise
        /\ IsOneRow /\ build = "vector"
        /\ pc' = "one_row"
     \/ /\ ~IsPointwise
        /\ ~(IsOneRow /\ build = "vector")
        /\ pc' = IF ~ctx_buf /\ Im2colBufferSize > 0 THEN "refused" ELSE "im2col"
  /\ UNCHANGED <<inputs, i_batch, i_out_y, i_out_x, in_base, buffer, fill,
                 out_base, out, output_data>>

-----------------------------------------------------------------------------
(***************************************************************************)
(* GEMM: rows of memory times every output channel of the filter.  Result  *)
(* <<row i, channel ch>> goes to dest + i * output_ch + ch.  A product     *)
(* sums the weights from the given one on times the pixels of the row.     *)
(***************************************************************************)
Dot(weight, row) ==
  {<<weight + t, row[t]>> : t \in {u \in DOMAIN row : row[u] # Padding}}

Channels == 0 .. layer.oc - 1

Store(dest, rows, result) ==
  output_data' = [e \in DOMAIN output_data |->
    IF e \in dest .. dest + rows * layer.oc - 1
    THEN result[<<(e - dest) \div layer.oc, (e - dest) % layer.oc>>]
    ELSE output_data[e]]

GemmBuffer(dest, columns) ==
  Store(dest, columns, [p \in (0 .. columns - 1) \X Channels |->
    Dot(p[2] * KernelSize, [t \in 0 .. KernelSize - 1 |-> buffer[p[1] * KernelSize + t]])])

-----------------------------------------------------------------------------
(* muriscv_nn_convolve_s8(): im2col and GEMM.                              *)

\* What the column of the current pixel gets for kernel element t.
Source(t) ==
  LET k_y == layer.sy * i_out_y - layer.py + layer.dy * (t \div layer.kw)
      k_x == layer.sx * i_out_x - layer.px + layer.dx * (t % layer.kw)
  IN IF k_y < 0 \/ k_y >= layer.ih \/ k_x < 0 \/ k_x >= layer.iw
     THEN Padding
     ELSE in_base + k_y * layer.iw + k_x

Im2col ==
  /\ pc = "im2col"
  /\ buffer' = [i \in DOMAIN buffer |->
       IF i \in fill .. fill + KernelSize - 1 THEN Source(i - fill) ELSE buffer[i]]
  /\ fill' = fill + KernelSize
  /\ pc' = "column_done"
  /\ UNCHANGED <<inputs, i_batch, i_out_y, i_out_x, in_base, out_base, out, output_data>>

\* The pixel loops move on; after the last pixel come the leftover columns.
NextPixel ==
  \/ /\ i_out_x + 1 < layer.ow
     /\ i_out_x' = i_out_x + 1
     /\ pc' = "im2col"
     /\ UNCHANGED i_out_y
  \/ /\ i_out_x + 1 = layer.ow
     /\ i_out_y + 1 < layer.oh
     /\ i_out_x' = 0 /\ i_out_y' = i_out_y + 1
     /\ pc' = "im2col"
  \/ /\ i_out_x + 1 = layer.ow
     /\ i_out_y + 1 = layer.oh
     /\ pc' = "leftover"
     /\ UNCHANGED <<i_out_x, i_out_y>>

\* Mutation of Flush: the column pointer is not reset.
FlushNoReset ==
  /\ pc = "column_done"
  /\ fill = ColumnsPerFlush * KernelSize
  /\ GemmBuffer(out, ColumnsPerFlush)
  /\ out' = out + ColumnsPerFlush * layer.oc
  /\ NextPixel
  /\ UNCHANGED <<inputs, i_batch, in_base, buffer, fill, out_base>>

\* Every ColumnsPerFlush columns the buffer is multiplied and emptied.
Flush ==
  /\ pc = "column_done"
  /\ fill = ColumnsPerFlush * KernelSize
  /\ GemmBuffer(out, ColumnsPerFlush)
  /\ out' = out + ColumnsPerFlush * layer.oc
  /\ fill' = 0
  /\ NextPixel
  /\ UNCHANGED <<inputs, i_batch, in_base, buffer, out_base>>

KeepFilling ==
  /\ pc = "column_done"
  /\ fill # ColumnsPerFlush * KernelSize
  /\ NextPixel
  /\ UNCHANGED <<inputs, i_batch, in_base, buffer, fill, out_base, out, output_data>>

\* Mutation of LeftoverColumns: one in every build.
LeftoverColumnsOne == 1

\* The columns left in the buffer: the scalar code multiplies one, the vector
\* code as many as it has counted.
LeftoverColumns == IF build = "vector" THEN fill \div KernelSize ELSE 1

\* Mutation of EndBatch: the input advances by one row instead of one image.
EndBatchOneRow ==
  /\ i_batch' = i_batch + 1
  /\ i_out_y' = 0 /\ i_out_x' = 0
  /\ in_base' = in_base + layer.iw
  /\ out_base' = out_base + layer.ow * layer.oh * layer.oc
  /\ out' = out_base'
  /\ fill' = 0
  /\ pc' = IF i_batch + 1 < layer.n THEN "im2col" ELSE "return"
  /\ UNCHANGED <<inputs, buffer>>

\* The batch loop resets the column pointer and restarts the output pointer at
\* the next image.
EndBatch ==
  /\ i_batch' = i_batch + 1
  /\ i_out_y' = 0 /\ i_out_x' = 0
  /\ in_base' = in_base + layer.iw * layer.ih
  /\ out_base' = out_base + layer.ow * layer.oh * layer.oc
  /\ out' = out_base'
  /\ fill' = 0
  /\ pc' = IF i_batch + 1 < layer.n THEN "im2col" ELSE "return"
  /\ UNCHANGED <<inputs, buffer>>

Leftover ==
  /\ pc = "leftover"
  /\ fill # 0
  /\ GemmBuffer(out, LeftoverColumns)
  /\ EndBatch

NoLeftover ==
  /\ pc = "leftover"
  /\ fill = 0
  /\ EndBatch
  /\ UNCHANGED output_data

-----------------------------------------------------------------------------
(***************************************************************************)
(* muriscv_nn_convolve_1x1_s8_fast(): the images of all batches are one    *)
(* list of pixels, each of them a row.  The vector code takes four rows at *)
(* a time and then one; the scalar code is one call of the matrix product. *)
(***************************************************************************)
Rows == layer.n * layer.ih * layer.iw

RowsTogether ==
  IF build = "scalar" THEN Rows
  ELSE IF i_out_x <= Rows - 4 THEN 4 ELSE 1

Pointwise ==
  /\ pc = "pointwise"
  /\ i_out_x < Rows
  /\ Store(out, RowsTogether, [p \in (0 .. RowsTogether - 1) \X Channels |->
       Dot(p[2], [t \in {0} |-> i_out_x + p[1]])])
  /\ out' = out + RowsTogether * layer.oc
  /\ i_out_x' = i_out_x + RowsTogether
  /\ pc' = IF i_out_x' = Rows THEN "return" ELSE pc
  /\ UNCHANGED <<inputs, i_batch, i_out_y, in_base, buffer, fill, out_base>>

-----------------------------------------------------------------------------
(***************************************************************************)
(* muriscv_nn_convolve_1x1_s8(): one matrix product per output row.  The   *)
(* kernel passes the horizontal stride to the product, which does not use  *)
(* it: the rows of the product are neighbouring pixels.                    *)
(***************************************************************************)
Call1x1 ==
  /\ pc = "call_1x1"
  /\ pc' = IF layer.px # 0 \/ layer.py # 0 THEN "refused" ELSE "row_1x1"
  /\ UNCHANGED <<inputs, i_batch, i_out_y, i_out_x, in_base, buffer, fill,
                 out_base, out, output_data>>

Row1x1 ==
  /\ pc = "row_1x1"
  /\ Store(out, layer.ow, [p \in (0 .. layer.ow - 1) \X Channels |->
       Dot(p[2], [t \in {0} |-> in_base + p[1]])])
  /\ out' = out + layer.ow * layer.oc
  /\ \/ /\ i_out_y + 1 < layer.oh
        /\ i_out_y' = i_out_y + 1
        /\ in_base' = in_base + layer.iw * layer.sy
        /\ UNCHANGED <<pc, i_batch>>
     \/ /\ i_out_y + 1 = layer.oh
        /\ i_out_y' = 0
        /\ i_batch' = i_batch + 1
        /\ in_base' = (i_batch + 1) * (layer.iw * layer.ih)
        /\ pc' = IF i_batch + 1 < layer.n THEN pc ELSE "return"
  /\ UNCHANGED <<inputs, i_out_x, buffer, fill, out_base>>

-----------------------------------------------------------------------------
(***************************************************************************)
(* The vector code of muriscv_nn_convolve_1_x_n_s8(): four outputs of the  *)
(* row at a time.  When the first or the last of them has a window that    *)
(* hangs over the edge each is cut to the pixels that exist, otherwise the *)
(* four windows are read where they are.                                   *)
(***************************************************************************)
EstInputX(i) == layer.sx * (i_out_x + i) - layer.px
InputBegin(i) == Larger(0, EstInputX(i))
KerBegin(i)   == Larger(0, -EstInputX(i))
KerEnd(i)     == Smaller(layer.kw, layer.iw - EstInputX(i))

AtEdge == KerBegin(0) # 0 \/ KerEnd(3) # layer.kw

\* The sum of output i of the four, channel ch.
OneRowResult(i, ch) ==
  IF AtEdge
  THEN Dot(layer.kw * ch + KerBegin(i),
           [t \in 0 .. KerEnd(i) - KerBegin(i) - 1 |-> in_base + InputBegin(i) + t])
  ELSE Dot(layer.kw * ch,
           [t \in 0 .. layer.kw - 1 |-> in_base + InputBegin(0) + i * layer.sx + t])

OneRow ==
  /\ pc = "one_row"
  /\ Store(out, 4, [p \in (0 .. 3) \X Channels |-> OneRowResult(p[1], p[2])])
  /\ out' = out + 4 * layer.oc
  /\ \/ /\ i_out_x + 4 <= layer.ow - 4
        /\ i_out_x' = i_out_x + 4
        /\ UNCHANGED <<pc, i_batch, in_base>>
     \/ /\ i_out_x + 4 > layer.ow - 4
        /\ i_out_x' = 0
        /\ i_batch' = i_batch + 1
        /\ in_base' = in_base + layer.iw
        /\ pc' = IF i_batch + 1 < layer.n THEN pc ELSE "return"
  /\ UNCHANGED <<inputs, i_out_y, buffer, fill, out_base>>

-----------------------------------------------------------------------------
\* The call runs to its return.
Next ==
  \/ Dispatch
  \/ Im2col \/ Flush \/ KeepFilling \/ Leftover \/ NoLeftover
  \/ Pointwise
  \/ Call1x1 \/ Row1x1
  \/ OneRow

Spec == Init /\ [][Next]_vars /\ WF_vars(Next)
-----------------------------------------------------------------------------
(***************************************************************************)
(* Properties                                                              *)
(***************************************************************************)
Values == (SUBSET (Nat \X Int)) \cup {Undefined}

\* Every variable has its type: in particular the pointers stay in their
\* tensors.
TypeOK ==
  /\ layer \in Layers /\ build \in Builds /\ ctx_buf \in BOOLEAN
  /\ pc \in {"wrapper", "call_1x1", "refused", "pointwise", "row_1x1", "one_row",
             "im2col", "column_done", "leftover", "return"}
  /\ i_batch \in 0 .. layer.n
  /\ i_out_y \in 0 .. layer.oh - 1
  /\ i_out_x \in Nat
  /\ in_base \in 0 .. layer.n * layer.ih * layer.iw
  /\ buffer \in [0 .. ColumnsPerFlush * KernelSize - 1 -> Int]
  /\ fill \in 0 .. ColumnsPerFlush * KernelSize
  /\ out_base \in 0 .. layer.n * layer.oh * layer.ow * layer.oc
  /\ out \in 0 .. layer.n * layer.oh * layer.ow * layer.oc
  /\ output_data \in [0 .. layer.n * layer.oh * layer.ow * layer.oc - 1 -> Values]

\* The columns the general kernel writes fit in the buffer, whose size the
\* application got from a function that knows nothing of the kernel's choice.
ScratchFits == fill * layer.c * ElementSize <= BufferSize

(***************************************************************************)
(* The layer promises a convolution.  Its output tensor is flat, [N, H, W, *)
(* C_OUT].                                                                 *)
(***************************************************************************)
Conv == INSTANCE Convolution WITH
  output <- [o \in [batch : 0 .. layer.n - 1, y : 0 .. layer.oh - 1,
                    x : 0 .. layer.ow - 1, ch : 0 .. layer.oc - 1] |->
               output_data[((o.batch * layer.oh + o.y) * layer.ow + o.x) * layer.oc + o.ch]]

\* Whichever kernel runs, each element of the output tensor gets the sum over
\* its own window, at once and for good: no column is flushed twice or lost,
\* the leftover columns land behind the flushed ones, and nothing that an
\* earlier layer left in the scratch buffer takes part.
ImplementsConvolution == Conv!Spec

\* A call that returns has stored every output of every image: the flushes and
\* the leftover columns, the groups and the single rows, and the restart of the
\* output pointer at each batch leave no pixel out between them.
ReturnsComplete == pc = "return" => Conv!Complete

\* A call that got all the scratch the sizing function asked for, be it none,
\* computes every output, unless the padding excludes the 1x1 kernel called.
SizedLayerCompletes ==
  /\ ctx_buf \/ BufferSize = 0
  /\ pc = "call_1x1" => layer.px = 0 /\ layer.py = 0
  => Conv!Completes
=============================================================================
