--------------------------- MODULE TransposeConvS8 ---------------------------
(***************************************************************************)
(* muriscv_nn_transpose_conv_s8().  For each batch it multiplies all input *)
(* pixels by all kernel elements into a column buffer (ctx), adds the      *)
(* columns where they fall on an image of 32-bit sums (output_ctx), and    *)
(* requantizes the image into the output.  Both buffers are the caller's,  *)
(* hold what an earlier layer left in them, are used again for the next    *)
(* batch, and are only ever added to: the column buffer by a matrix        *)
(* product that accumulates, the image by the columns.                     *)
(*                                                                         *)
(* How many columns there are is computed from the output's dimensions,    *)
(* how many the buffer holds from the input's.                             *)
(***************************************************************************)
EXTENDS Integers, FiniteSets

CONSTANTS
  Layers,     \* the layers to run: records of dimensions and parameters
  Undefined   \* an output element nobody wrote yet

\* n, c: batches and input_ch; [iko][hw]: height and width of input, kernel and
\* output; oc: output_ch; s, p, q: stride, padding and padding offset along x
\* and y; bias: there is one.  The padded output is no smaller than the kernel.
ASSUME TcLayersAssumption ==
  \A l \in Layers :
    /\ {l.n, l.c, l.ih, l.iw, l.kh, l.kw, l.oh, l.ow, l.oc, l.sx, l.sy} \subseteq Nat \ {0}
    /\ {l.px, l.py, l.qx, l.qy} \subseteq Nat
    /\ l.oh + l.qy + l.py >= l.kh /\ l.ow + l.qx + l.px >= l.kw
    /\ l.bias \in BOOLEAN

VARIABLES
  layer,        \* the layer the application runs
  ctx_buf,      \* ctx->buf # NULL and output_ctx->buf # NULL
  pc,           \* where the call is
  i_batch,
  in_base,      \* input_data_ptr, relative to input_data
  col_data,     \* the column buffer ctx->buf
  img_buf,      \* the image output_ctx->buf
  i_output_ch,  \* output channel of the matrix product
  in_ch,        \* first input channel of its current pair (rhs_rows_idx)
  i_col_y, i_col_x,
  col_buf,      \* the column to add next, relative to col_data
  out,          \* output_data_ptr, relative to output_data
  output_data

inputs  == <<layer, ctx_buf>>
product == <<i_output_ch, in_ch>>
column  == <<i_col_y, i_col_x, col_buf>>
vars    == <<inputs, pc, i_batch, in_base, col_data, img_buf, product, column, out, output_data>>

-----------------------------------------------------------------------------
InputSize  == layer.iw * layer.ih
FilterSize == layer.kw * layer.kh
ImageSize  == layer.oh * layer.ow * layer.oc

\* Mutation of ImageStep: the channels of a pixel are not counted.
ImageStepPixels == InputSize

\* From an input image to the next.
ImageStep == InputSize * layer.c

\* muriscv_nn_transpose_conv_s8_get_buffer_size(), in 32-bit words.
ColBufSize == FilterSize * InputSize * layer.oc

\* Mutation of ColX: the padding is counted on both sides in full.
ColXWide == (layer.ow + layer.qx + layer.px) \div layer.sx

\* Mutation of ColY: the last row of columns is not counted.
ColYShort == (layer.oh + layer.qy + layer.py - layer.kh) \div layer.sy

ColY == (layer.oh + layer.qy + layer.py - layer.kh) \div layer.sy + 1
ColX == (layer.ow + layer.qx + layer.px - layer.kw) \div layer.sx + 1

(***************************************************************************)
(* A 32-bit sum: what it started from, its products, and the number of     *)
(* additions (see TransposedConvolution).                                  *)
(***************************************************************************)
NoBias == -1   \* started at zero
Stale  == -2   \* started at what an earlier layer left

Sum(start) == [start |-> start, sum |-> {}, adds |-> 0]

Plus(acc, other) ==
  [start |-> IF other.start = NoBias THEN acc.start ELSE other.start,
   sum   |-> acc.sum \cup other.sum,
   adds  |-> acc.adds + other.adds]

Init ==
  /\ layer \in Layers
  /\ ctx_buf \in BOOLEAN
  /\ pc = "call"
  /\ i_batch = 0 /\ in_base = 0
  /\ col_data = [i \in 0 .. ColBufSize - 1 |-> Sum(Stale)]
  /\ img_buf = [i \in 0 .. ImageSize - 1 |-> Sum(Stale)]
  /\ i_output_ch = 0 /\ in_ch = 0
  /\ i_col_y = 0 /\ i_col_x = 0 /\ col_buf = 0
  /\ out = 0
  /\ output_data = [i \in 0 .. layer.n * ImageSize - 1 |-> Undefined]

\* Mutation of Call: the optional bias is checked like the buffers.
CallNeedsBias ==
  /\ pc = "call"
  /\ pc' = IF ctx_buf /\ layer.bias THEN "clear" ELSE "refused"
  /\ UNCHANGED <<inputs, i_batch, in_base, col_data, img_buf, product, column, out, output_data>>

\* A missing buffer is refused.
Call ==
  /\ pc = "call"
  /\ pc' = IF ctx_buf THEN "clear" ELSE "refused"
  /\ UNCHANGED <<inputs, i_batch, in_base, col_data, img_buf, product, column, out, output_data>>

\* Mutation of Clear: only the first batch zeroes the column buffer.
ClearOnce ==
  /\ pc = "clear"
  /\ img_buf' = [i \in DOMAIN img_buf |-> Sum(IF layer.bias THEN i % layer.oc ELSE NoBias)]
  /\ col_data' = IF i_batch = 0 THEN [i \in DOMAIN col_data |-> Sum(NoBias)] ELSE col_data
  /\ pc' = "product"
  /\ UNCHANGED <<inputs, i_batch, in_base, product, column, out, output_data>>

\* The image starts from the bias of each channel, or from zero; the columns
\* start from zero.
Clear ==
  /\ pc = "clear"
  /\ img_buf' = [i \in DOMAIN img_buf |-> Sum(IF layer.bias THEN i % layer.oc ELSE NoBias)]
  /\ col_data' = [i \in DOMAIN col_data |-> Sum(NoBias)]
  /\ pc' = "product"
  /\ UNCHANGED <<inputs, i_batch, in_base, product, column, out, output_data>>

-----------------------------------------------------------------------------
(***************************************************************************)
(* muriscv_nn_mat_mult_nt_t_s8_s32(), called once per output channel with  *)
(* the columns of that channel: a pair of input channels, or the last one  *)
(* alone, is multiplied and added for every pixel and kernel element.      *)
(***************************************************************************)
InChannels == IF in_ch <= layer.c - 2 THEN {in_ch, in_ch + 1} ELSE {in_ch}

\* What the product of pixel r and kernel element t adds.
Term(r, t) ==
  [start |-> NoBias,
   sum   |-> { <<(i_output_ch * FilterSize + t) * layer.c + k, in_base + r * layer.c + k>> :
                 k \in InChannels },
   adds  |-> Cardinality(InChannels)]

Product ==
  /\ pc = "product"
  /\ col_data' = [i \in DOMAIN col_data |->
       LET cell == i \div layer.oc
       IN IF i % layer.oc = i_output_ch
          THEN Plus(col_data[i], Term(cell \div FilterSize, cell % FilterSize))
          ELSE col_data[i]]
  /\ \/ /\ in_ch + Cardinality(InChannels) < layer.c
        /\ in_ch' = in_ch + Cardinality(InChannels)
        /\ UNCHANGED <<i_output_ch, pc>>
     \/ /\ in_ch + Cardinality(InChannels) = layer.c
        /\ in_ch' = 0
        /\ i_output_ch' = i_output_ch + 1
        /\ pc' = IF i_output_ch + 1 < layer.oc THEN pc ELSE "column"
  /\ UNCHANGED <<inputs, i_batch, in_base, img_buf, column, out, output_data>>

-----------------------------------------------------------------------------
(* Column to image.                                                        *)

\* Where kernel element t of the current column falls, if inside the image.
PixelY(t) == i_col_y * layer.sy - layer.py + (t \div layer.kw)
PixelX(t) == i_col_x * layer.sx - layer.px + (t % layer.kw)

Falling(y, x) == {t \in 0 .. FilterSize - 1 : PixelY(t) = y /\ PixelX(t) = x}

\* Every element of a column is passed over, inside the image or not.
Column ==
  /\ pc = "column"
  /\ i_col_y < ColY
  /\ img_buf' = [i \in DOMAIN img_buf |->
       LET c == i % layer.oc
           x == (i \div layer.oc) % layer.ow
           y == (i \div layer.oc) \div layer.ow
       IN IF Falling(y, x) = {} THEN img_buf[i]
          ELSE LET t == CHOOSE u \in Falling(y, x) : TRUE
               IN Plus(img_buf[i], col_data[col_buf + t * layer.oc + c])]
  /\ col_buf' = col_buf + FilterSize * layer.oc
  /\ i_col_x' = IF i_col_x + 1 < ColX THEN i_col_x + 1 ELSE 0
  /\ i_col_y' = IF i_col_x + 1 < ColX THEN i_col_y ELSE i_col_y + 1
  /\ UNCHANGED <<inputs, pc, i_batch, in_base, col_data, product, out, output_data>>

\* The image is requantized into the output and the next batch begins.
Requantize ==
  /\ pc = "column"
  /\ i_col_y = ColY
  /\ output_data' = [e \in DOMAIN output_data |->
       IF e \in out .. out + ImageSize - 1
       THEN LET acc == img_buf[e - out]
            IN [quant |-> (e - out) % layer.oc, start |-> acc.start, sum |-> acc.sum,
                adds |-> acc.adds]
       ELSE output_data[e]]
  /\ out' = out + ImageSize
  /\ in_base' = in_base + ImageStep
  /\ i_batch' = i_batch + 1
  /\ i_output_ch' = 0 /\ UNCHANGED in_ch
  /\ i_col_y' = 0 /\ col_buf' = 0 /\ UNCHANGED i_col_x
  /\ pc' = IF i_batch + 1 < layer.n THEN "clear" ELSE "return"
  /\ UNCHANGED <<inputs, col_data, img_buf>>

-----------------------------------------------------------------------------
Next == Call \/ Clear \/ Product \/ Column \/ Requantize

\* The call runs to its return.
Spec == Init /\ [][Next]_vars /\ WF_vars(Next)
-----------------------------------------------------------------------------
(***************************************************************************)
(* Properties                                                              *)
(***************************************************************************)
Sums == [start : Int, sum : SUBSET (Nat \X Nat), adds : Nat]

\* Every variable has its type: pointers stay in their tensors and buffers.
TypeOK ==
  /\ layer \in Layers /\ ctx_buf \in BOOLEAN
  /\ pc \in {"call", "refused", "clear", "product", "column", "return"}
  /\ i_batch \in 0 .. layer.n
  /\ in_base = i_batch * InputSize * layer.c
  /\ out = i_batch * ImageSize
  /\ col_data \in [0 .. ColBufSize - 1 -> Sums]
  /\ img_buf \in [0 .. ImageSize - 1 -> Sums]
  /\ i_output_ch \in 0 .. layer.oc /\ in_ch \in 0 .. layer.c - 1
  /\ i_col_y \in 0 .. ColY /\ i_col_x \in 0 .. ColX - 1
  /\ col_buf = (i_col_y * ColX + i_col_x) * FilterSize * layer.oc
  /\ DOMAIN output_data = 0 .. layer.n * ImageSize - 1

\* The columns added to the image, counted from the output's dimensions, are all
\* in the buffer whose size, and whose zeroing, follow the input's.
ColumnsFit ==
  pc = "column" /\ i_col_y < ColY => col_buf + FilterSize * layer.oc <= ColBufSize

\* The layer promises a transposed convolution.
Conv == INSTANCE TransposedConvolution WITH
  output <- [o \in [batch : 0 .. layer.n - 1, y : 0 .. layer.oh - 1,
                    x : 0 .. layer.ow - 1, ch : 0 .. layer.oc - 1] |->
               output_data[((o.batch * layer.oh + o.y) * layer.ow + o.x) * layer.oc + o.ch]]

\* Every output is its bias plus each product that falls on it, added once:
\* nothing of the previous batch or of an earlier layer is left in either
\* buffer, and no pair of input channels is skipped or taken twice.
ImplementsTransposed == Conv!Spec

\* When the call returns, the whole output is the transposed convolution: no
\* batch, pixel or channel is left out or still holds part of its sum.
ReturnsComplete == pc = "return" => Conv!Complete

\* A call with both buffers computes every output of every batch.
BuffersSuffice == ctx_buf => Conv!Completes
=============================================================================
