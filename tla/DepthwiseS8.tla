----------------------------- MODULE DepthwiseS8 -----------------------------
(***************************************************************************)
(* muriscv_nn_depthwise_conv_wrapper_s8() and the kernels it chooses from: *)
(* the 3x3 kernel, the basic kernel with its variant for channel           *)
(* multipliers divisible by four, and the optimised kernel.  The vector    *)
(* code of the optimised kernel walks the channels in blocks of            *)
(* CH_IN_BLOCK_MVE; in a block it copies the windows of four output pixels *)
(* into the scratch buffer, multiplies the four by the filter, and treats  *)
(* the pixels that are left at the end of the block one by one.            *)
(*                                                                         *)
(* An output element is the record of what it was computed from: its sum   *)
(* of <<weight, value>> products, the bias it started with and the channel *)
(* whose multiplier and shift requantized it (see DepthwiseConvolution).   *)
(***************************************************************************)
EXTENDS Integers, Rvv

CONSTANTS
  Layers,           \* the layers to run: records of dimensions and parameters
  Builds,           \* "scalar", "packed" or "vector"
  CH_IN_BLOCK_MVE,  \* channels of a block
  VLMAX,            \* elements of the vector register group of 32-bit values
  Undefined         \* an output element nobody wrote yet

ASSUME DwBuildsAssumption == Builds \subseteq {"scalar", "packed", "vector"}

ASSUME DwBlockAssumption == CH_IN_BLOCK_MVE \in Nat \ {0} /\ VLMAX \in Nat \ {0}

\* n, c, mult: batches, input channels, channel multiplier; [iko][hw]: height
\* and width of input, kernel and output; s, p, d: stride, padding and dilation
\* along x and y; bias: there is one.
ASSUME DwLayersAssumption ==
  \A l \in Layers :
    /\ {l.n, l.c, l.mult, l.ih, l.iw, l.kh, l.kw, l.oh, l.ow, l.sx, l.sy, l.dx, l.dy}
         \subseteq Nat \ {0}
    /\ {l.px, l.py} \subseteq Nat
    /\ l.bias \in BOOLEAN

VARIABLES
  layer,        \* the layer the application runs
  build,        \* the build of the library
  ctx_buf,      \* ctx->buf # NULL
  pc,           \* where the call is
  i_batch, i_out_y, i_out_x,
  ch,           \* first channel of the group or of the block (block_offset)
  offset,       \* channels of the block the current strip loop has behind it
  buffer,       \* the scratch buffer ctx->buf
  lhs_buffer,   \* where the next window goes, relative to the buffer
  buffer_count, \* windows in the buffer
  i_buf,        \* the window the leftover loop is at
  out,          \* where the next result goes, relative to output
  output

inputs == <<layer, build, ctx_buf>>
pixel  == <<i_batch, i_out_y, i_out_x>>
lhs    == <<buffer, lhs_buffer, buffer_count>>
vars   == <<inputs, pc, pixel, ch, offset, lhs, i_buf, out, output>>

-----------------------------------------------------------------------------
(* Sizes and dispatch.                                                     *)

OutCh      == layer.c * layer.mult
KernelSize == layer.kh * layer.kw
Undilated  == layer.dx = 1 /\ layer.dy = 1
Outputs    == layer.n * layer.oh * layer.ow * OutCh

Larger(a, b)  == IF a > b THEN a ELSE b
Smaller(a, b) == IF a < b THEN a ELSE b

Is3x3 ==
  /\ build # "vector"
  /\ layer.kw = 3 /\ layer.kh = 3
  /\ layer.py <= 1 /\ layer.px <= 1

\* muriscv_nn_depthwise_conv_s8_opt_get_buffer_size(), in bytes.
OptBufferSize ==
  CASE build = "vector" -> 4 * CH_IN_BLOCK_MVE * KernelSize
    [] build = "packed" -> layer.c * KernelSize * 2
    [] build = "scalar" -> 0

\* Mutation of BufferSize: the kernel's height is left out of the dispatch.
BufferSizeWidth ==
  IF layer.c = OutCh /\ layer.n = 1 /\ Undilated
  THEN IF build # "vector" /\ layer.kw = 3 /\ layer.py <= 1 /\ layer.px <= 1
       THEN 0 ELSE OptBufferSize
  ELSE 0

\* muriscv_nn_depthwise_conv_wrapper_s8_get_buffer_size(): unlike the wrapper it
\* is not told the channel multiplier.
BufferSize ==
  IF layer.c = OutCh /\ layer.n = 1 /\ Undilated
  THEN IF Is3x3 THEN 0 ELSE OptBufferSize
  ELSE 0

Stale   == -3   \* left in the scratch buffer by an earlier layer
Padding == -2   \* a value that the input offset cancels
NoBias  == -1   \* the accumulator starts at zero
Wild    == -4   \* the bias is read through an invalid pointer

BufferLength == 4 * KernelSize * CH_IN_BLOCK_MVE

Init ==
  /\ layer \in Layers
  /\ build \in Builds
  /\ ctx_buf \in BOOLEAN
  /\ pc = "wrapper"
  /\ i_batch = 0 /\ i_out_y = 0 /\ i_out_x = 0
  /\ ch = 0 /\ offset = 0
  /\ buffer = [i \in 0 .. BufferLength - 1 |-> Stale]
  /\ lhs_buffer = 0 /\ buffer_count = 0 /\ i_buf = 0
  /\ out = 0
  /\ output = [i \in 0 .. Outputs - 1 |-> Undefined]

\* The kernel muriscv_nn_depthwise_conv_s8() calls.
BasicKernel ==
  IF layer.mult % 4 = 0 /\ layer.n = 1 /\ Undilated THEN "mult_4" ELSE "generic"

Dispatch ==
  /\ pc = "wrapper"
  /\ LET optimised == layer.mult = 1 /\ layer.n = 1 /\ Undilated
     IN \/ /\ optimised /\ Is3x3
           /\ pc' = "3x3"
        \/ /\ optimised /\ ~Is3x3
           /\ ~ctx_buf /\ OptBufferSize > 0
           /\ pc' = "refused"
        \/ /\ optimised /\ ~Is3x3
           /\ ctx_buf \/ OptBufferSize = 0
           /\ pc' = IF build = "vector" THEN "im2col" ELSE BasicKernel
        \/ /\ ~optimised
           /\ pc' = BasicKernel
  /\ UNCHANGED <<inputs, pixel, ch, offset, lhs, i_buf, out, output>>

-----------------------------------------------------------------------------
(* The kernels without vectors.                                            *)

BaseY == layer.sy * i_out_y - layer.py
BaseX == layer.sx * i_out_x - layer.px

\* Kernel elements from the first to the last that fall on one of `size` input
\* elements.  The divisions are exact where their sign could matter: a negative
\* start is raised to 0, an end below 0 leaves nothing either way.
Clip(base, kernel, size, dilation) ==
  Larger(0, (dilation - 1 - base) \div dilation)
    .. Smaller(kernel, (size - base + dilation - 1) \div dilation) - 1

ClipY == Clip(BaseY, layer.kh, layer.ih, layer.dy)
ClipX == Clip(BaseX, layer.kw, layer.iw, layer.dx)

\* Mutation of Columns3x3: the third column is added to every window.
Columns3x3All == (IF BaseX >= 0 THEN {0} ELSE {}) \cup {1, 2}

\* The columns the 3x3 kernel adds: the middle one without looking.
Columns3x3 ==
  (IF BaseX >= 0 THEN {0} ELSE {}) \cup {1} \cup (IF layer.iw - BaseX >= 3 THEN {2} ELSE {})

Products(rows, columns, in_ch, out_ch) ==
  { <<(k[1] * layer.kw + k[2]) * OutCh + out_ch,
      ((i_batch * layer.ih + BaseY + layer.dy * k[1]) * layer.iw + BaseX + layer.dx * k[2])
        * layer.c + in_ch>> : k \in rows \X columns }

NextPixel(next) ==
  \/ /\ i_out_x + 1 < layer.ow
     /\ i_out_x' = i_out_x + 1
     /\ pc' = next
     /\ UNCHANGED <<i_batch, i_out_y>>
  \/ /\ i_out_x + 1 = layer.ow
     /\ i_out_y + 1 < layer.oh
     /\ i_out_x' = 0 /\ i_out_y' = i_out_y + 1
     /\ pc' = next
     /\ UNCHANGED i_batch

\* A result behind the output tensor would be kept, and make it longer.
Store(results) ==
  output' = [e \in DOMAIN output \cup DOMAIN results |->
    IF e \in DOMAIN results THEN results[e] ELSE output[e]]

(***************************************************************************)
(* The next `width` channels of the pixel.  A kernel that does not ask     *)
(* whether there is a bias starts from `unbiased` when there is none.      *)
(***************************************************************************)
Group(width, rows, columns, unbiased) ==
  /\ Store([e \in out .. out + width - 1 |->
       LET c == ch + e - out
       IN [quant |-> c, bias |-> IF layer.bias THEN c ELSE unbiased,
           sum |-> Products(rows, columns, c \div layer.mult, c)]])
  /\ out' = out + width
  /\ \/ /\ ch + width < OutCh
        /\ ch' = ch + width
        /\ UNCHANGED <<pixel, pc>>
     \/ /\ ch + width = OutCh
        /\ ch' = 0
        /\ NextPixel(pc)
     \/ /\ ch + width = OutCh
        /\ i_out_x + 1 = layer.ow /\ i_out_y + 1 = layer.oh
        /\ ch' = 0
        /\ i_out_x' = 0 /\ i_out_y' = 0 /\ i_batch' = i_batch + 1
        /\ pc' = IF i_batch + 1 < layer.n THEN pc ELSE "return"
  /\ UNCHANGED <<inputs, offset, lhs, i_buf>>

\* muriscv_nn_depthwise_conv_3x3_s8(): four channels at a time, then one.
Group3x3 ==
  /\ pc = "3x3"
  /\ Group(IF ch <= OutCh - 4 THEN 4 ELSE 1, ClipY, Columns3x3, Wild)

\* depthwise_conv_s8_mult_4(): four outputs of one input channel.
GroupMult4 == pc = "mult_4" /\ Group(4, ClipY, ClipX, NoBias)

\* depthwise_conv_s8_generic(): one output.
GroupGeneric == pc = "generic" /\ Group(1, ClipY, ClipX, NoBias)

-----------------------------------------------------------------------------
(* The vector code of muriscv_nn_depthwise_conv_s8_opt().                  *)

\* Mutation of ActiveCh: the last block is taken for a full one.
ActiveChFull == CH_IN_BLOCK_MVE

ActiveCh == Smaller(CH_IN_BLOCK_MVE, layer.c - ch)

\* What the window of the current pixel gets for kernel element k, channel i.
Source(k, i) ==
  LET y == BaseY + (k \div layer.kw)
      x == BaseX + (k % layer.kw)
  IN IF y < 0 \/ y >= layer.ih \/ x < 0 \/ x >= layer.iw
     THEN Padding
     ELSE (y * layer.iw + x) * layer.c + ch + i

\* The pixel loops move on; behind the last pixel are the leftover windows.
NextWindow ==
  \/ NextPixel("im2col")
  \/ /\ i_out_x + 1 = layer.ow /\ i_out_y + 1 = layer.oh
     /\ pc' = "leftover"
     /\ UNCHANGED pixel

\* One window is copied, ActiveCh of the CH_IN_BLOCK_MVE channels each kernel
\* element has room for.
Im2col ==
  /\ pc = "im2col"
  /\ buffer' = [b \in DOMAIN buffer |->
       LET k == (b - lhs_buffer) \div CH_IN_BLOCK_MVE
           i == (b - lhs_buffer) % CH_IN_BLOCK_MVE
       IN IF k \in 0 .. KernelSize - 1 /\ i < ActiveCh THEN Source(k, i) ELSE buffer[b]]
  /\ buffer_count' = buffer_count + 1
  /\ \/ /\ buffer_count + 1 = 4
        /\ lhs_buffer' = 0
        /\ pc' = "flush"
        /\ UNCHANGED pixel
     \/ /\ buffer_count + 1 # 4
        /\ lhs_buffer' = lhs_buffer + KernelSize * CH_IN_BLOCK_MVE
        /\ NextWindow
  /\ UNCHANGED <<inputs, ch, offset, i_buf, out, output>>

\* The products of channel i of the block in the window'th window, with the
\* weights from `weights` on.
Dot(window, weights, i) ==
  LET word(k) == buffer[(window * KernelSize + k) * CH_IN_BLOCK_MVE + i]
  IN { <<k * layer.c + weights + i, word(k)>> :
         k \in {e \in 0 .. KernelSize - 1 : word(e) # Padding} }

(***************************************************************************)
(* muriscv_nn_depthwise_conv_nt_t_s8(): one strip of vl channels of the    *)
(* four windows.  It is handed bias + block_offset, which is no null       *)
(* pointer in a later block even if there is no bias.                      *)
(***************************************************************************)
FlushStrip ==
  /\ pc = "flush"
  /\ \E vl \in Vsetvl(ActiveCh - offset, VLMAX) :
       LET bias == IF layer.bias THEN ch ELSE IF ch = 0 THEN NoBias ELSE Wild
           At(w, i) == out + w * layer.c + i
           Result(w, i) == [quant |-> ch + i, bias |-> IF layer.bias THEN bias + i ELSE bias,
                            sum |-> Dot(w, ch, i)]
           strip == (0 .. 3) \X (offset .. offset + vl - 1)
       IN /\ Store([e \in {At(s[1], s[2]) : s \in strip} |->
                      LET s == CHOOSE t \in strip : At(t[1], t[2]) = e
                      IN Result(s[1], s[2])])
          /\ \/ /\ offset + vl < ActiveCh
                /\ offset' = offset + vl
                /\ UNCHANGED <<pc, pixel, buffer_count, out>>
             \/ /\ offset + vl = ActiveCh
                /\ offset' = 0
                /\ out' = out + 4 * layer.c
                /\ buffer_count' = 0
                /\ NextWindow
  /\ UNCHANGED <<inputs, ch, buffer, lhs_buffer, i_buf>>

\* One strip of a window the flushes have left over.  Neither the weights, the
\* bias nor the quantization take the offset of the block, and the output
\* pointer moves by the channels of the strip.
LeftoverStrip ==
  /\ pc = "leftover"
  /\ i_buf < buffer_count
  /\ \E vl \in Vsetvl(ActiveCh - offset, VLMAX) :
       /\ Store([e \in out .. out + vl - 1 |->
            LET i == offset + e - out
            IN [quant |-> i, bias |-> IF layer.bias THEN i ELSE NoBias,
                sum |-> Dot(i_buf, 0, i)]])
       /\ out' = out + vl
       /\ offset' = IF offset + vl < ActiveCh THEN offset + vl ELSE 0
       /\ i_buf' = IF offset + vl < ActiveCh THEN i_buf ELSE i_buf + 1
  /\ UNCHANGED <<inputs, pc, pixel, ch, lhs>>

\* Mutation of EndBlock: the number of blocks is not rounded up.
EndBlockFull ==
  /\ pc = "leftover"
  /\ i_buf = buffer_count
  /\ lhs_buffer' = 0 /\ buffer_count' = 0 /\ i_buf' = 0
  /\ i_out_x' = 0 /\ i_out_y' = 0
  /\ ch' = ch + CH_IN_BLOCK_MVE
  /\ out' = ch'
  /\ pc' = IF ch' + CH_IN_BLOCK_MVE <= layer.c THEN "im2col" ELSE "return"
  /\ UNCHANGED <<inputs, i_batch, offset, buffer, output>>

\* The next block of channels starts with an empty buffer at its own column of
\* the output.
EndBlock ==
  /\ pc = "leftover"
  /\ i_buf = buffer_count
  /\ lhs_buffer' = 0 /\ buffer_count' = 0 /\ i_buf' = 0
  /\ i_out_x' = 0 /\ i_out_y' = 0
  /\ ch' = ch + CH_IN_BLOCK_MVE
  /\ out' = ch'
  /\ pc' = IF ch' < layer.c THEN "im2col" ELSE "return"
  /\ UNCHANGED <<inputs, i_batch, offset, buffer, output>>

-----------------------------------------------------------------------------
Next ==
  \/ Dispatch
  \/ Group3x3 \/ GroupMult4 \/ GroupGeneric
  \/ Im2col \/ FlushStrip \/ LeftoverStrip \/ EndBlock

\* The call runs to its return.
Spec == Init /\ [][Next]_vars /\ WF_vars(Next)
-----------------------------------------------------------------------------
(***************************************************************************)
(* Properties                                                              *)
(***************************************************************************)
Results == [quant : Nat, bias : Int, sum : SUBSET (Nat \X Int)]

\* Every variable has its type: the four windows stay in the buffer, and results
\* go nowhere behind the output tensor.
TypeOK ==
  /\ layer \in Layers /\ build \in Builds /\ ctx_buf \in BOOLEAN
  /\ pc \in {"wrapper", "refused", "3x3", "mult_4", "generic", "im2col", "flush",
             "leftover", "return"}
  /\ i_batch \in 0 .. layer.n
  /\ i_out_y \in 0 .. layer.oh - 1 /\ i_out_x \in 0 .. layer.ow - 1
  /\ ch \in Nat /\ offset \in 0 .. CH_IN_BLOCK_MVE - 1
  /\ buffer \in [0 .. BufferLength - 1 -> Int]
  /\ buffer_count \in 0 .. 4 /\ i_buf \in 0 .. buffer_count
  /\ lhs_buffer \in 0 .. 3 * KernelSize * CH_IN_BLOCK_MVE
  /\ out \in Nat
  /\ output \in [0 .. Outputs - 1 -> Results \cup {Undefined}]

(***************************************************************************)
(* The layer promises a depthwise convolution.  Its output tensor is flat, *)
(* [N, H, W, C_OUT].                                                       *)
(***************************************************************************)
Conv == INSTANCE DepthwiseConvolution WITH
  output <- [o \in [batch : 0 .. layer.n - 1, y : 0 .. layer.oh - 1,
                    x : 0 .. layer.ow - 1, ch : 0 .. OutCh - 1] |->
               output[((o.batch * layer.oh + o.y) * layer.ow + o.x) * OutCh + o.ch]]

\* Whichever kernel runs, each element of the output is computed once, from its
\* own window, weights, bias and quantization: no block of channels, strip,
\* flushed or leftover window takes another's, and nothing that an earlier layer
\* or block left in the scratch buffer takes part.
ImplementsDepthwise == Conv!Spec

\* A call that returns has computed the whole output: no pixel, channel, strip,
\* block or leftover window is passed over, in whichever kernel.
ReturnsComplete == pc = "return" => Conv!Complete

\* A call that got all the scratch the wrapper's sizing function asked for, be
\* it none, is not refused by the kernel and computes every output.
SizedLayerCompletes == ctx_buf \/ BufferSize = 0 => Conv!Completes
=============================================================================
