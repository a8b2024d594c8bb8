-------------------------- MODULE DepthwiseProofs --------------------------
(***************************************************************************)
(* What holds of the s8 depthwise convolution for every layer and every    *)
(* build: pointers stay in their tensors and buffers, and, for the layers  *)
(* FittingLayers admits, the output is a depthwise convolution.            *)
(*                                                                         *)
(* The kernels without vectors write the output front to back, as many     *)
(* channels at a time as they treat (GroupInv, GroupFresh).  The vector    *)
(* code walks the pixels once per block of channels: Row is the first      *)
(* pixel of the block that is not done, and what is missing are the        *)
(* block's channels from Row on and the channels of later blocks           *)
(* (BlockFresh); all the others have their value (BlockDone).              *)
(* The windows in the scratch buffer are those of the pixels visited last  *)
(* (WindowInv).                                                            *)
(***************************************************************************)
EXTENDS DepthwiseS8, RowMajor, TLAPS

\* The 3x3 kernel reads the bias and the middle column of each window without
\* looking; only the first block of the vector code finds out that there is no
\* bias, and only the first treats pixels that are left over at its end.
FittingLayers ==
  \A l \in Layers :
    l.mult = 1 /\ l.n = 1 /\ l.dx = 1 /\ l.dy = 1 =>
      /\ Builds # {"vector"} /\ l.kw = 3 /\ l.kh = 3 /\ l.px <= 1 /\ l.py <= 1
           => l.bias /\ (l.ow - 1) * l.sx - l.px + 1 < l.iw
      /\ "vector" \in Builds
           => l.c <= CH_IN_BLOCK_MVE \/ (l.bias /\ (l.oh * l.ow) % 4 = 0)

Groups == {"3x3", "mult_4", "generic"}
Blocks == {"im2col", "flush", "leftover"}

ImagePixels == layer.oh * layer.ow

\* Pixel <<b, y, x>> of the output, counted through all images.
Flat(b, y, x) == (b * layer.oh + y) * layer.ow + x

\* The pixels of a block the im2col loop has been at, and the flushed ones.
Pix     == i_out_y * layer.ow + i_out_x
Seen    == IF pc = "im2col" THEN Pix ELSE Pix + 1
Flushed == Seen - buffer_count
Row     == Flushed + i_buf

\* Room for one window.
WindowLength == KernelSize * CH_IN_BLOCK_MVE

WrapperInv ==
  pc = "wrapper" =>
    /\ i_batch = 0 /\ i_out_y = 0 /\ i_out_x = 0
    /\ ch = 0 /\ offset = 0 /\ lhs_buffer = 0 /\ buffer_count = 0 /\ i_buf = 0 /\ out = 0

GroupInv ==
  pc \in Groups =>
    /\ i_batch < layer.n
    /\ ch < OutCh
    /\ out = Flat(i_batch, i_out_y, i_out_x) * OutCh + ch
    /\ pc = "mult_4" => OutCh % 4 = 0 /\ ch % 4 = 0 /\ Undilated
    /\ pc = "3x3" => Is3x3 /\ layer.mult = 1 /\ layer.n = 1 /\ Undilated

BlockInv ==
  pc \in Blocks =>
    /\ build = "vector" /\ layer.mult = 1 /\ layer.n = 1 /\ Undilated
    /\ i_batch = 0
    /\ ch < layer.c
    /\ offset < ActiveCh
    /\ pc = "im2col" => offset = 0
    /\ pc = "leftover" /\ i_buf = buffer_count => offset = 0
    /\ pc = "leftover" => Pix + 1 = ImagePixels
    /\ pc # "leftover" => i_buf = 0
    /\ IF pc = "flush" THEN buffer_count = 4 /\ lhs_buffer = 0
                       ELSE buffer_count < 4 /\ lhs_buffer = buffer_count * WindowLength
    /\ Flushed >= 0 /\ Flushed % 4 = 0
    /\ out = ch + Flushed * layer.c + i_buf * ActiveCh
               + (IF pc = "leftover" THEN offset ELSE 0)

TInv == TypeOK /\ WrapperInv /\ GroupInv /\ BlockInv

\* What the window of pixel q has for kernel element k of channel c.
Tap(q, k, c) ==
  LET y == layer.sy * (q \div layer.ow) - layer.py + (k \div layer.kw)
      x == layer.sx * (q % layer.ow) - layer.px + (k % layer.kw)
  IN IF y < 0 \/ y >= layer.ih \/ x < 0 \/ x >= layer.iw
     THEN Padding
     ELSE (y * layer.iw + x) * layer.c + c

WindowInv ==
  pc \in Blocks =>
    \A w \in 0 .. buffer_count - 1, k \in 0 .. KernelSize - 1, i \in 0 .. ActiveCh - 1 :
      buffer[(w * KernelSize + k) * CH_IN_BLOCK_MVE + i] = Tap(Flushed + w, k, ch + i)

WrapperFresh ==
  pc = "wrapper" => \A e \in 0 .. Outputs - 1 : output[e] = Undefined

GroupFresh ==
  pc \in Groups => \A e \in 0 .. Outputs - 1 : e >= out => output[e] = Undefined

\* Channel c of pixel p is in a later block, or in this one and still to come.
Width == IF pc = "flush" THEN 4 ELSE 1

Missing(p, c) ==
  /\ c >= ch
  /\ \/ c >= ch + CH_IN_BLOCK_MVE
     \/ p >= Row + Width
     \/ p >= Row /\ c >= ch + offset

BlockFresh ==
  pc \in Blocks =>
    \A p \in 0 .. ImagePixels - 1, c \in 0 .. layer.c - 1 :
      Missing(p, c) => output[p * layer.c + c] = Undefined

\* The first block has channel 0, the others have a full one before them.
ChannelInv == pc \in Blocks => ch = 0 \/ ch >= CH_IN_BLOCK_MVE

\* Where output o is in the flat tensor.
Index(o) == Flat(o.batch, o.y, o.x) * OutCh + o.ch

\* What the words of a right window add up to.
TapSum(q, c) ==
  {<<k * layer.c + c, Tap(q, k, c)>> : k \in {e \in 0 .. KernelSize - 1 : Tap(q, e, c) # Padding}}

\* The value of channel c of pixel p.
Element(p, c) ==
  [quant |-> c, bias |-> IF layer.bias THEN c ELSE NoBias, sum |-> TapSum(p, c)]

\* What is behind the kernel has its value, and so has all of it at the return.
GroupDone ==
  pc \in Groups =>
    \A o \in Conv!Outputs : Index(o) < out => output[Index(o)] = Conv!Value(o)

BlockDone ==
  pc \in Blocks =>
    \A p \in 0 .. ImagePixels - 1, c \in 0 .. layer.c - 1 :
      Missing(p, c) \/ output[p * layer.c + c] = Element(p, c)

ReturnDone ==
  pc = "return" => \A o \in Conv!Outputs : output[Index(o)] = Conv!Value(o)

Fresh == WrapperFresh /\ GroupFresh /\ BlockFresh
Done  == GroupDone /\ BlockDone /\ ReturnDone

RInv == TInv /\ ChannelInv /\ WindowInv /\ Fresh /\ Done

StepRefines == [Conv!Compute]_(Conv!vars)

-----------------------------------------------------------------------------
(***************************************************************************)
(* Sizes                                                                   *)
(***************************************************************************)
LEMMA Sizes ==
  ASSUME TypeOK
  PROVE  /\ layer.n \in Nat \ {0} /\ layer.c \in Nat \ {0} /\ layer.mult \in Nat \ {0}
         /\ layer.ih \in Nat \ {0} /\ layer.iw \in Nat \ {0}
         /\ layer.kh \in Nat \ {0} /\ layer.kw \in Nat \ {0}
         /\ layer.oh \in Nat \ {0} /\ layer.ow \in Nat \ {0}
         /\ layer.sx \in Nat \ {0} /\ layer.sy \in Nat \ {0}
         /\ layer.dx \in Nat \ {0} /\ layer.dy \in Nat \ {0}
         /\ layer.px \in Nat /\ layer.py \in Nat
         /\ layer.bias \in BOOLEAN
BY DwLayersAssumption DEF TypeOK

LEMMA Counters ==
  ASSUME TypeOK
  PROVE  /\ i_batch \in Nat /\ i_batch <= layer.n
         /\ i_out_y \in Nat /\ i_out_y < layer.oh
         /\ i_out_x \in Nat /\ i_out_x < layer.ow
         /\ ch \in Nat /\ offset \in Nat /\ out \in Nat
         /\ buffer_count \in 0 .. 4 /\ i_buf \in Nat /\ i_buf <= buffer_count
<1>1. /\ i_batch \in 0 .. layer.n
      /\ i_out_y \in 0 .. layer.oh - 1 /\ i_out_x \in 0 .. layer.ow - 1
      /\ ch \in Nat /\ offset \in 0 .. CH_IN_BLOCK_MVE - 1 /\ out \in Nat
      /\ buffer_count \in 0 .. 4 /\ i_buf \in 0 .. buffer_count
  BY DEF TypeOK
<1>2. layer.n \in Nat /\ layer.oh \in Nat /\ layer.ow \in Nat BY Sizes
<1>3. CH_IN_BLOCK_MVE \in Nat BY DwBlockAssumption
<1> QED BY <1>1, <1>2, <1>3

LEMMA Counts ==
  ASSUME TypeOK
  PROVE  /\ OutCh \in Nat \ {0} /\ KernelSize \in Nat \ {0}
         /\ ImagePixels \in Nat \ {0} /\ layer.n * ImagePixels \in Nat \ {0}
         /\ Outputs = (layer.n * ImagePixels) * OutCh /\ Outputs \in Nat
         /\ WindowLength \in Nat \ {0}
         /\ BufferLength = (4 * KernelSize) * CH_IN_BLOCK_MVE
         /\ BufferLength = 4 * WindowLength
         /\ 3 * KernelSize * CH_IN_BLOCK_MVE = 3 * WindowLength
<1>1. \A a, b \in Nat \ {0} : a * b \in Nat \ {0} OBVIOUS
<1>2. OutCh \in Nat \ {0} /\ KernelSize \in Nat \ {0} /\ ImagePixels \in Nat \ {0}
  BY <1>1, Sizes DEF OutCh, KernelSize, ImagePixels
<1>3. layer.n * ImagePixels \in Nat \ {0} BY <1>1, <1>2, Sizes
<1>4. layer.n * layer.oh * layer.ow = layer.n * ImagePixels BY Sizes DEF ImagePixels
<1>5. Outputs = (layer.n * ImagePixels) * OutCh BY <1>4 DEF Outputs
<1>6. Outputs \in Nat BY <1>2, <1>3, <1>5
<1>7. CH_IN_BLOCK_MVE \in Nat \ {0} BY DwBlockAssumption
<1>8. WindowLength \in Nat \ {0} BY <1>1, <1>2, <1>7 DEF WindowLength
<1>9. /\ BufferLength = (4 * KernelSize) * CH_IN_BLOCK_MVE
      /\ BufferLength = 4 * WindowLength
      /\ 3 * KernelSize * CH_IN_BLOCK_MVE = 3 * WindowLength
  BY <1>2, <1>7 DEF BufferLength, WindowLength
<1> QED BY <1>2, <1>3, <1>5, <1>6, <1>8, <1>9

\* The inputs of a call never change, nor what is computed from them.
LEMMA Fixed ==
  ASSUME UNCHANGED inputs
  PROVE  /\ layer' = layer /\ build' = build /\ ctx_buf' = ctx_buf
         /\ OutCh' = OutCh /\ KernelSize' = KernelSize /\ ImagePixels' = ImagePixels
         /\ Outputs' = Outputs /\ BufferLength' = BufferLength /\ WindowLength' = WindowLength
         /\ Undilated' = Undilated /\ Is3x3' = Is3x3
BY DEF inputs, OutCh, KernelSize, ImagePixels, Outputs, BufferLength, WindowLength, Undilated,
       Is3x3

LEMMA FixedValues ==
  ASSUME UNCHANGED inputs, NEW o, NEW p, NEW c
  PROVE  /\ Conv!Outputs' = Conv!Outputs /\ Conv!Value(o)' = Conv!Value(o)
         /\ Index(o)' = Index(o) /\ Element(p, c)' = Element(p, c)
<1>1. layer' = layer /\ OutCh' = OutCh /\ KernelSize' = KernelSize BY Fixed
<1>2. Conv!Outputs' = Conv!Outputs BY <1>1 DEF Conv!Outputs, Conv!OutCh, OutCh
<1>3. Conv!Value(o)' = Conv!Value(o)
  BY <1>1 DEF Conv!Value, Conv!OutCh, Conv!Window, Conv!Taps, Conv!TapY, Conv!TapX
<1>4. Index(o)' = Index(o) BY <1>1 DEF Index, Flat
<1>5. Element(p, c)' = Element(p, c) BY <1>1 DEF Element, TapSum, Tap
<1> QED BY <1>2, <1>3, <1>4, <1>5

\* One factor more.
LEMMA OneMore ==
  ASSUME NEW a \in Nat, NEW b \in Nat
  PROVE  (a + 1) * b = a * b + b /\ a * b \in Nat
OBVIOUS

\* The pixel behind the current one, in the same row, row or image.
LEMMA FlatNext ==
  ASSUME TypeOK, NEW b \in Nat, NEW y \in Nat, NEW x \in Nat
  PROVE  /\ Flat(b, y, x) \in Nat
         /\ Flat(b, y, x + 1) = Flat(b, y, x) + 1
         /\ x + 1 = layer.ow => Flat(b, y + 1, 0) = Flat(b, y, x) + 1
         /\ x + 1 = layer.ow /\ y + 1 = layer.oh => Flat(b + 1, 0, 0) = Flat(b, y, x) + 1
<1>1. layer.oh \in Nat /\ layer.ow \in Nat BY Sizes
<1> DEFINE row == b * layer.oh + y
<1>2. row \in Nat BY <1>1
<1>3. row * layer.ow \in Nat /\ (row + 1) * layer.ow = row * layer.ow + layer.ow
  BY <1>1, <1>2
<1>4. Flat(b, y, x) = row * layer.ow + x /\ Flat(b, y, x + 1) = row * layer.ow + (x + 1)
  BY DEF Flat
<1>0. b * layer.oh \in Nat BY <1>1
<1>5. b * layer.oh + (y + 1) = row + 1 BY <1>0
<1>6. Flat(b, y + 1, 0) = (row + 1) * layer.ow + 0 BY <1>5 DEF Flat
<1>7. y + 1 = layer.oh => (b + 1) * layer.oh + 0 = row + 1 BY <1>0, <1>1, OneMore
<1>8. y + 1 = layer.oh => Flat(b + 1, 0, 0) = (row + 1) * layer.ow + 0 BY <1>7 DEF Flat
<1> HIDE DEF row
<1> QED BY <1>1, <1>2, <1>3, <1>4, <1>6, <1>8

LEMMA FlatIs ==
  ASSUME TypeOK, NEW b \in Nat, NEW y \in Nat, NEW x \in Nat
  PROVE  Flat(b, y, x) = b * ImagePixels + (y * layer.ow + x)
<1>1. layer.oh \in Nat /\ layer.ow \in Nat BY Sizes
<1>2. (b * layer.oh + y) * layer.ow = b * (layer.oh * layer.ow) + y * layer.ow
  <2>1. b * layer.oh \in Nat BY <1>1
  <2>2. (b * layer.oh + y) * layer.ow = (b * layer.oh) * layer.ow + y * layer.ow BY <1>1, <2>1
  <2>3. (b * layer.oh) * layer.ow = b * (layer.oh * layer.ow) BY <1>1
  <2> QED BY <2>2, <2>3
<1>3. b * (layer.oh * layer.ow) \in Int /\ y * layer.ow \in Int
  <2>1. layer.oh * layer.ow \in Nat BY <1>1
  <2> QED BY <1>1, <2>1
<1> QED BY <1>2, <1>3 DEF Flat, ImagePixels

\* Pixels of an image, and of the tensor.
LEMMA FlatBound ==
  ASSUME TypeOK, NEW b \in 0 .. layer.n - 1, NEW y \in 0 .. layer.oh - 1,
         NEW x \in 0 .. layer.ow - 1
  PROVE  /\ y * layer.ow + x \in 0 .. ImagePixels - 1
         /\ Flat(b, y, x) \in 0 .. layer.n * ImagePixels - 1
<1>1. layer.n \in Nat /\ ImagePixels \in Nat /\ layer.oh \in Nat /\ layer.ow \in Nat
  BY Sizes, Counts
<1>2. y * layer.ow + x \in 0 .. ImagePixels - 1 BY <1>1, RowMajorBound DEF ImagePixels
<1>3. b * ImagePixels + (y * layer.ow + x) \in 0 .. layer.n * ImagePixels - 1
  BY <1>1, <1>2, RowMajorBound
<1>4. b \in Nat /\ y \in Nat /\ x \in Nat BY <1>1
<1> QED BY <1>2, <1>3, <1>4, FlatIs

\* vsetvl returns at least one element if there is one left, and no more than
\* are left.
LEMMA StripLength ==
  ASSUME NEW avl \in Nat \ {0}, NEW vl \in Vsetvl(avl, VLMAX)
  PROVE  vl \in 1 .. avl
BY DwBlockAssumption DEF Vsetvl

\* A block has at least one channel, and no more than there are.
LEMMA Active ==
  ASSUME TypeOK, ch < layer.c
  PROVE  /\ ActiveCh \in 1 .. CH_IN_BLOCK_MVE /\ ch + ActiveCh <= layer.c
         /\ ActiveCh = CH_IN_BLOCK_MVE \/ ch + ActiveCh = layer.c
<1>1. ch \in Nat BY DEF TypeOK
<1>2. layer.c \in Nat BY Sizes
<1> QED BY <1>1, <1>2, DwBlockAssumption DEF ActiveCh, Smaller

-----------------------------------------------------------------------------
(***************************************************************************)
(* Types                                                                   *)
(***************************************************************************)

\* Results inside the output tensor keep its type.
LEMMA StoreTypes ==
  ASSUME TypeOK, UNCHANGED inputs, NEW results, Store(results),
         DOMAIN results \subseteq 0 .. Outputs - 1,
         \A e \in DOMAIN results : results[e] \in Results
  PROVE  output' \in [0 .. Outputs' - 1 -> Results \cup {Undefined}]
<1>1. Outputs' = Outputs BY Fixed
<1>2. output \in [0 .. Outputs - 1 -> Results \cup {Undefined}] BY DEF TypeOK
<1>3. DOMAIN output \cup DOMAIN results = 0 .. Outputs - 1 BY <1>2
<1> QED BY <1>1, <1>2, <1>3 DEF Store

\* What the group adds up.
LEMMA ProductsType ==
  ASSUME TypeOK, NEW rows \in SUBSET Nat, NEW columns \in SUBSET Nat,
         NEW in_ch \in Nat, NEW out_ch \in Nat
  PROVE  Products(rows, columns, in_ch, out_ch) \in SUBSET (Nat \X Int)
<1>1. /\ layer.kw \in Nat /\ layer.dy \in Nat /\ layer.dx \in Nat /\ layer.c \in Nat
      /\ layer.ih \in Nat /\ layer.iw \in Nat /\ layer.oh \in Nat /\ layer.ow \in Nat
      /\ layer.sx \in Nat /\ layer.sy \in Nat /\ layer.px \in Nat /\ layer.py \in Nat
      /\ OutCh \in Nat /\ i_batch \in Nat /\ i_out_y \in Nat /\ i_out_x \in Nat
  BY Sizes, Counts, Counters
<1>2. BaseY \in Int /\ BaseX \in Int BY <1>1 DEF BaseY, BaseX
<1>3. \A a, b \in Int : a * b \in Int OBVIOUS
<1>4. \A a, b \in Nat : a * b \in Nat OBVIOUS
<1> SUFFICES ASSUME NEW k \in rows \X columns
             PROVE  /\ (k[1] * layer.kw + k[2]) * OutCh + out_ch \in Nat
                    /\ ((i_batch * layer.ih + BaseY + layer.dy * k[1]) * layer.iw + BaseX
                          + layer.dx * k[2]) * layer.c + in_ch \in Int
  BY DEF Products
<1>5. k[1] \in Nat /\ k[2] \in Nat OBVIOUS
<1>6. k[1] * layer.kw + k[2] \in Nat BY <1>1, <1>4, <1>5
<1>7. (k[1] * layer.kw + k[2]) * OutCh + out_ch \in Nat BY <1>1, <1>4, <1>6
<1>8. i_batch * layer.ih + BaseY + layer.dy * k[1] \in Int BY <1>1, <1>2, <1>4, <1>5
<1>9. (i_batch * layer.ih + BaseY + layer.dy * k[1]) * layer.iw + BaseX + layer.dx * k[2] \in Int
  BY <1>1, <1>2, <1>3, <1>4, <1>5, <1>8
<1> QED BY <1>1, <1>3, <1>7, <1>9

\* The next group of the pixel, or the first of the next one.
LEMMA GroupMoves ==
  ASSUME TInv, pc \in Groups, NEW width \in Nat \ {0}, ch + width <= OutCh,
         pc = "mult_4" => width = 4,
         NEW rows, NEW columns, NEW unbiased, Group(width, rows, columns, unbiased)
  PROVE  /\ out + width <= Outputs
         /\ pc' \in Groups \cup {"return"} /\ (pc' = "return" => out' = Outputs)
         /\ i_batch' \in 0 .. layer.n
         /\ i_out_y' \in 0 .. layer.oh - 1 /\ i_out_x' \in 0 .. layer.ow - 1
         /\ ch' \in Nat /\ out' \in Nat
         /\ GroupInv'
<1> USE DEF TInv
<1>1. /\ layer.n \in Nat \ {0} /\ layer.oh \in Nat \ {0} /\ layer.ow \in Nat \ {0}
      /\ OutCh \in Nat \ {0} /\ ImagePixels \in Nat \ {0} /\ layer.n * ImagePixels \in Nat
      /\ Outputs = (layer.n * ImagePixels) * OutCh
  BY Sizes, Counts
<1>2. /\ i_batch \in Nat /\ i_batch < layer.n /\ ch \in Nat /\ ch < OutCh
      /\ i_out_y \in Nat /\ i_out_y < layer.oh /\ i_out_x \in Nat /\ i_out_x < layer.ow
      /\ out = Flat(i_batch, i_out_y, i_out_x) * OutCh + ch
  BY Counters DEF GroupInv
<1>3. /\ layer' = layer /\ build' = build /\ OutCh' = OutCh
      /\ Undilated' = Undilated /\ Is3x3' = Is3x3
  BY Fixed DEF Group
<1>4. PICK p \in Nat : p = Flat(i_batch, i_out_y, i_out_x) BY <1>2, FlatNext
<1>5. p + 1 <= layer.n * ImagePixels
  <2>1. i_batch \in 0 .. layer.n - 1 /\ i_out_y \in 0 .. layer.oh - 1
        /\ i_out_x \in 0 .. layer.ow - 1
    BY <1>1, <1>2
  <2>2. p \in 0 .. layer.n * ImagePixels - 1 BY <1>4, <2>1, FlatBound
  <2> QED BY <1>1, <2>2
<1>6. (p + 1) * OutCh = p * OutCh + OutCh /\ p * OutCh \in Nat BY <1>1, OneMore
<1>7. (p + 1) * OutCh <= Outputs
  BY <1>1, <1>5, Monotone
<1>8. out + width <= Outputs /\ out + width \in Nat /\ out' = out + width
  <2>1. Outputs \in Nat BY Counts
  <2>2. out' = out + width BY DEF Group
  <2>3. out = p * OutCh + ch BY <1>2, <1>4
  <2>4. (p + 1) * OutCh \in Nat BY <1>1
  <2> QED BY <1>1, <1>2, <1>6, <1>7, <2>1, <2>2, <2>3, <2>4
<1>9. ch + width = OutCh => out' = (p + 1) * OutCh + 0
  BY <1>1, <1>2, <1>4, <1>6, <1>8
<1>10. /\ Flat(i_batch, i_out_y, i_out_x + 1) = p + 1
       /\ i_out_x + 1 = layer.ow => Flat(i_batch, i_out_y + 1, 0) = p + 1
       /\ i_out_x + 1 = layer.ow /\ i_out_y + 1 = layer.oh => Flat(i_batch + 1, 0, 0) = p + 1
  BY <1>2, <1>4, FlatNext
<1>11. \A b, y, x : Flat(b, y, x)' = Flat(b, y, x) BY <1>3 DEF Flat
<1>12. pc = "mult_4" => OutCh % 4 = 0 /\ ch % 4 = 0 /\ Undilated BY DEF GroupInv
<1>13. pc = "3x3" => Is3x3 /\ layer.mult = 1 /\ layer.n = 1 /\ Undilated BY DEF GroupInv
<1>14. CASE ch + width < OutCh
  <2>1. ch' = ch + width /\ UNCHANGED <<pixel, pc>> BY <1>1, <1>2, <1>14 DEF Group
  <2>2. out' = p * OutCh + ch' BY <1>2, <1>4, <1>6, <1>8, <2>1
  <2>3. pc = "mult_4" => ch' % 4 = 0 BY <1>2, <1>12, <2>1
  <2>4. i_batch' = i_batch /\ i_out_y' = i_out_y /\ i_out_x' = i_out_x /\ pc' = pc
    BY <2>1 DEF pixel
  <2>5. GroupInv'
    BY <1>2, <1>3, <1>4, <1>11, <1>12, <1>13, <1>14, <2>1, <2>2, <2>3, <2>4 DEF GroupInv, Flat
  <2> QED BY <1>1, <1>2, <1>8, <2>1, <2>4, <2>5 DEF Groups
<1>15. CASE ch + width = OutCh
  <2>1. ch' = 0 /\ (0 % 4) = 0 BY <1>1, <1>2, <1>15 DEF Group
  <2>2. \/ i_batch' = i_batch /\ i_out_y' = i_out_y /\ i_out_x' = i_out_x + 1
           /\ i_out_x + 1 < layer.ow /\ pc' = pc
        \/ i_batch' = i_batch /\ i_out_y' = i_out_y + 1 /\ i_out_x' = 0
           /\ i_out_x + 1 = layer.ow /\ i_out_y + 1 < layer.oh /\ pc' = pc
        \/ i_batch' = i_batch + 1 /\ i_out_y' = 0 /\ i_out_x' = 0
           /\ i_out_x + 1 = layer.ow /\ i_out_y + 1 = layer.oh
           /\ pc' = (IF i_batch + 1 < layer.n THEN pc ELSE "return")
    BY <1>1, <1>2, <1>15 DEF Group, NextPixel
  <2>3. Flat(i_batch', i_out_y', i_out_x') = p + 1
    BY <1>10, <2>2
  <2>4. out' = Flat(i_batch, i_out_y, i_out_x)' * OutCh' + ch'
    BY <1>3, <1>9, <1>15, <2>1, <2>3 DEF Flat
  <2>5. pc' \in Groups \cup {"return"} /\ (pc' \in Groups => pc' = pc /\ i_batch' < layer.n)
    BY <1>1, <1>2, <2>2 DEF Groups
  <2>6. ch' < OutCh BY <1>1, <2>1
  <2>7. GroupInv'
    BY <1>3, <1>12, <1>13, <2>1, <2>4, <2>5, <2>6 DEF GroupInv
  <2>8. ASSUME pc' = "return" PROVE out' = Outputs
    <3>0. pc # "return" BY DEF Groups
    <3>1. i_batch' = i_batch + 1 /\ i_out_y' = 0 /\ i_out_x' = 0 /\ ~(i_batch + 1 < layer.n)
      BY <2>2, <2>8, <3>0
    <3>5. i_batch + 1 = layer.n BY <1>1, <1>2, <3>1
    <3>2. layer.n \in Nat /\ 0 \in Nat BY <1>1
    <3>3. Flat(layer.n, 0, 0) = layer.n * ImagePixels + (0 * layer.ow + 0) BY <3>2, FlatIs
    <3>4. p + 1 = layer.n * ImagePixels BY <1>1, <2>3, <3>1, <3>3, <3>5
    <3> QED BY <1>1, <1>6, <1>9, <1>15, <3>4
  <2> QED BY <1>1, <1>2, <1>8, <2>1, <2>2, <2>5, <2>7, <2>8
<1> QED BY <1>1, <1>2, <1>14, <1>15

\* What a group stores for channel c.
GroupResult(c, rows, columns, unbiased) ==
  [quant |-> c, bias |-> IF layer.bias THEN c ELSE unbiased,
   sum |-> Products(rows, columns, c \div layer.mult, c)]

LEMMA GroupStep ==
  ASSUME TInv, pc \in Groups, NEW width \in Nat \ {0}, ch + width <= OutCh,
         pc = "mult_4" => width = 4,
         NEW rows \in SUBSET Nat, NEW columns \in SUBSET Nat, NEW unbiased \in Int,
         Group(width, rows, columns, unbiased)
  PROVE  TInv'
<1> USE DEF TInv
<1>1. UNCHANGED inputs /\ UNCHANGED <<offset, lhs, i_buf>> BY DEF Group
<1>2. ch \in Nat /\ out \in Nat BY Counters
<1>3. PICK results : results = [e \in out .. out + width - 1 |->
         GroupResult(ch + e - out, rows, columns, unbiased)]
  OBVIOUS
<1>4. Store(results) BY <1>3 DEF Group, GroupResult
<1>5. /\ out + width <= Outputs
      /\ pc' \in Groups \cup {"return"}
      /\ i_batch' \in 0 .. layer.n
      /\ i_out_y' \in 0 .. layer.oh - 1 /\ i_out_x' \in 0 .. layer.ow - 1
      /\ ch' \in Nat /\ out' \in Nat
      /\ GroupInv'
  BY GroupMoves
<1>6. DOMAIN results \subseteq 0 .. Outputs - 1
  <2>1. DOMAIN results = out .. out + width - 1 BY <1>3
  <2>2. Outputs \in Nat BY Counts
  <2> QED BY <1>2, <1>5, <2>1, <2>2
<1>7. ASSUME NEW e \in DOMAIN results PROVE results[e] \in Results
  <2>1. e \in out .. out + width - 1 BY <1>3
  <2>2. PICK c \in Nat : c = ch + e - out BY <1>2, <2>1
  <2>3. c \div layer.mult \in Nat BY Sizes
  <2>4. PICK in_ch \in Nat : in_ch = c \div layer.mult BY <2>3
  <2>5. Products(rows, columns, in_ch, c) \in SUBSET (Nat \X Int) BY ProductsType
  <2>6. results[e] = GroupResult(c, rows, columns, unbiased) BY <1>3, <2>1, <2>2
  <2> QED BY <2>4, <2>5, <2>6 DEF GroupResult, Results
<1>8. output' \in [0 .. Outputs' - 1 -> Results \cup {Undefined}]
  BY <1>1, <1>4, <1>6, <1>7, StoreTypes
<1>9. TypeOK'
  <2>1. /\ layer' = layer /\ build' = build /\ ctx_buf' = ctx_buf
        /\ BufferLength' = BufferLength /\ KernelSize' = KernelSize
    BY <1>1, Fixed
  <2>2. offset' = offset /\ i_buf' = i_buf /\ buffer' = buffer
        /\ lhs_buffer' = lhs_buffer /\ buffer_count' = buffer_count
    BY <1>1 DEF lhs
  <2> QED BY <1>5, <1>8, <2>1, <2>2 DEF TypeOK, Groups
<1>10. WrapperInv' /\ BlockInv' BY <1>5 DEF WrapperInv, BlockInv, Groups, Blocks
<1> QED BY <1>5, <1>9, <1>10

\* Rows and columns of the windows are rows and columns of the kernel.
LEMMA ClipNat ==
  ASSUME NEW base \in Int, NEW k \in Nat, NEW size \in Int, NEW d \in Nat \ {0}
  PROVE  Clip(base, k, size, d) \in SUBSET Nat
<1>1. (d - 1 - base) \div d \in Int /\ (size - base + d - 1) \div d \in Int OBVIOUS
<1> QED BY <1>1 DEF Clip, Larger, Smaller

LEMMA Bases ==
  ASSUME TypeOK
  PROVE  BaseY \in Int /\ BaseX \in Int /\ ClipY \in SUBSET Nat /\ ClipX \in SUBSET Nat
<1>1. /\ layer.sx \in Nat /\ layer.sy \in Nat /\ layer.px \in Nat /\ layer.py \in Nat
      /\ layer.kh \in Nat /\ layer.kw \in Nat /\ layer.ih \in Int /\ layer.iw \in Int
      /\ layer.dy \in Nat \ {0} /\ layer.dx \in Nat \ {0}
      /\ i_out_y \in Nat /\ i_out_x \in Nat
  BY Sizes, Counters
<1>2. BaseY \in Int /\ BaseX \in Int BY <1>1 DEF BaseY, BaseX
<1>3. PICK y \in Int, x \in Int : y = BaseY /\ x = BaseX BY <1>2
<1>4. ClipY = Clip(y, layer.kh, layer.ih, layer.dy)
      /\ ClipX = Clip(x, layer.kw, layer.iw, layer.dx)
  BY <1>3 DEF ClipY, ClipX
<1>5. PICK kh \in Nat, ih \in Int, dy \in Nat \ {0} :
        kh = layer.kh /\ ih = layer.ih /\ dy = layer.dy
  BY <1>1
<1>6. PICK kw \in Nat, iw \in Int, dx \in Nat \ {0} :
        kw = layer.kw /\ iw = layer.iw /\ dx = layer.dx
  BY <1>1
<1>7. Clip(y, kh, ih, dy) \in SUBSET Nat BY ClipNat
<1>8. Clip(x, kw, iw, dx) \in SUBSET Nat BY ClipNat
<1> QED BY <1>2, <1>4, <1>5, <1>6, <1>7, <1>8

\* The widths of the groups: the pixel has as many channels left.
LEMMA Widths ==
  ASSUME TInv
  PROVE  /\ pc \in Groups => ch + 1 <= OutCh
         /\ pc \in Groups /\ ch <= OutCh - 4 => ch + 4 <= OutCh
         /\ pc = "mult_4" => ch + 4 <= OutCh
<1> USE DEF TInv
<1>1. ch \in Nat /\ OutCh \in Nat BY Counters, Counts
<1>2. pc \in Groups => ch < OutCh BY DEF GroupInv
<1>3. pc = "mult_4" => ch < OutCh /\ OutCh % 4 = 0 /\ ch % 4 = 0 BY DEF GroupInv, Groups
<1> QED BY <1>1, <1>2, <1>3

LEMMA Columns3x3Nat == Columns3x3 \in SUBSET Nat
BY DEF Columns3x3

LEMMA Group3x3Types == ASSUME TInv, Group3x3 PROVE TInv'
<1>1. pc \in Groups /\ pc # "mult_4" BY DEF Group3x3, Groups
<1>2. TypeOK BY DEF TInv
<1>3. ch \in Nat /\ OutCh \in Nat BY <1>2, Counters, Counts
<1>4. PICK width \in Nat \ {0} : width = IF ch <= OutCh - 4 THEN 4 ELSE 1 OBVIOUS
<1>5. ch + width <= OutCh BY <1>1, <1>3, <1>4, Widths
<1>6. PICK rows \in SUBSET Nat : rows = ClipY BY <1>2, Bases
<1>7. PICK columns \in SUBSET Nat : columns = Columns3x3 BY Columns3x3Nat
<1>8. PICK unbiased \in Int : unbiased = Wild BY DEF Wild
<1>9. Group(width, rows, columns, unbiased) BY <1>4, <1>6, <1>7, <1>8 DEF Group3x3
<1> QED BY <1>1, <1>5, <1>9, GroupStep

LEMMA GroupMult4Types == ASSUME TInv, GroupMult4 PROVE TInv'
<1>1. pc \in Groups /\ pc = "mult_4" BY DEF GroupMult4, Groups
<1>2. PICK width \in Nat \ {0} : width = 4 OBVIOUS
<1>3. ch + width <= OutCh BY <1>1, <1>2, Widths
<1>4. PICK rows \in SUBSET Nat, columns \in SUBSET Nat : rows = ClipY /\ columns = ClipX
  BY Bases DEF TInv
<1>5. PICK unbiased \in Int : unbiased = NoBias BY DEF NoBias
<1>6. Group(width, rows, columns, unbiased) BY <1>2, <1>4, <1>5 DEF GroupMult4
<1> QED BY <1>1, <1>2, <1>3, <1>6, GroupStep

LEMMA GroupGenericTypes == ASSUME TInv, GroupGeneric PROVE TInv'
<1>1. pc \in Groups /\ pc # "mult_4" BY DEF GroupGeneric, Groups
<1>2. PICK width \in Nat \ {0} : width = 1 OBVIOUS
<1>3. ch + width <= OutCh BY <1>1, <1>2, Widths
<1>4. PICK rows \in SUBSET Nat, columns \in SUBSET Nat : rows = ClipY /\ columns = ClipX
  BY Bases DEF TInv
<1>5. PICK unbiased \in Int : unbiased = NoBias BY DEF NoBias
<1>6. Group(width, rows, columns, unbiased) BY <1>2, <1>4, <1>5 DEF GroupGeneric
<1> QED BY <1>1, <1>3, <1>6, GroupStep

LEMMA DispatchTypes == ASSUME TInv, Dispatch PROVE TInv'
<1> USE DEF TInv
<1>1. /\ UNCHANGED inputs
      /\ UNCHANGED <<pixel, ch, offset, lhs, i_buf, out, output>>
      /\ pc = "wrapper"
  BY DEF Dispatch
<1>2. /\ i_batch' = i_batch /\ i_out_y' = i_out_y /\ i_out_x' = i_out_x
      /\ ch' = ch /\ offset' = offset /\ buffer' = buffer /\ lhs_buffer' = lhs_buffer
      /\ buffer_count' = buffer_count /\ i_buf' = i_buf /\ out' = out /\ output' = output
  BY <1>1 DEF pixel, lhs
<1>3. /\ layer' = layer /\ build' = build /\ ctx_buf' = ctx_buf
      /\ OutCh' = OutCh /\ KernelSize' = KernelSize /\ ImagePixels' = ImagePixels
      /\ Outputs' = Outputs /\ BufferLength' = BufferLength /\ WindowLength' = WindowLength
      /\ Undilated' = Undilated /\ Is3x3' = Is3x3
  BY <1>1, Fixed
<1>4. /\ pc' \in {"3x3", "refused", "im2col", "mult_4", "generic"}
      /\ pc' = "3x3" => Is3x3 /\ layer.mult = 1 /\ layer.n = 1 /\ Undilated
      /\ pc' = "im2col" => build = "vector" /\ layer.mult = 1 /\ layer.n = 1 /\ Undilated
      /\ pc' = "mult_4" => layer.mult % 4 = 0 /\ Undilated
  BY DEF Dispatch, BasicKernel
<1>5. TypeOK' BY <1>2, <1>3, <1>4 DEF TypeOK
<1>6. WrapperInv' BY <1>4 DEF WrapperInv
<1>7. /\ i_batch = 0 /\ i_out_y = 0 /\ i_out_x = 0
      /\ ch = 0 /\ offset = 0 /\ lhs_buffer = 0 /\ buffer_count = 0 /\ i_buf = 0 /\ out = 0
  BY <1>1 DEF WrapperInv
<1>8. /\ layer.n \in Nat \ {0} /\ layer.c \in Nat \ {0} /\ layer.mult \in Nat \ {0}
      /\ OutCh \in Nat \ {0} /\ layer.oh \in Nat /\ layer.ow \in Nat
      /\ ImagePixels \in Nat \ {0} /\ WindowLength \in Nat
  BY Sizes, Counts
<1>9. GroupInv'
  <2>1. Flat(0, 0, 0) = 0 BY <1>8 DEF Flat
  <2>2. 0 = 0 * OutCh + 0 BY <1>8
  <2>3. Flat(i_batch, i_out_y, i_out_x)' = 0 BY <1>2, <1>3, <1>7, <2>1 DEF Flat
  <2>4. layer.mult % 4 = 0 => OutCh % 4 = 0
    <3> SUFFICES ASSUME layer.mult % 4 = 0 PROVE OutCh % 4 = 0
      OBVIOUS
    <3>1. PICK d \in Nat : layer.mult = 4 * d
      <4>1. layer.mult = 4 * (layer.mult \div 4) /\ layer.mult \div 4 \in Nat BY <1>8
      <4> QED BY <4>1
    <3>2. OutCh = (layer.c * d) * 4 + 0 BY <1>8, <3>1 DEF OutCh
    <3>3. layer.c * d \in Int BY <1>8
    <3>4. PICK q \in Int : q = layer.c * d BY <3>3
    <3>5. (q * 4 + 0) % 4 = 0 BY Euclid
    <3> QED BY <3>2, <3>4, <3>5
  <2>5. (0 % 4) = 0 OBVIOUS
  <2> QED BY <1>2, <1>3, <1>4, <1>7, <1>8, <2>2, <2>3, <2>4, <2>5 DEF GroupInv, Groups
<1>10. BlockInv'
  <2> SUFFICES ASSUME pc' \in Blocks PROVE BlockInv'
    BY DEF BlockInv
  <2>1. pc' = "im2col" BY <1>4 DEF Blocks
  <2>2. Pix' = 0 /\ Seen' = 0 BY <1>2, <1>3, <1>7, <1>8, <2>1 DEF Pix, Seen
  <2>3. Flushed' = 0 /\ (0 % 4) = 0 BY <1>2, <1>7, <2>2 DEF Flushed
  <2>4. ch < layer.c BY <1>7, <1>8
  <2>5. ActiveCh' = ActiveCh /\ ActiveCh \in Nat /\ ActiveCh > 0
    <3>1. ActiveCh \in 1 .. CH_IN_BLOCK_MVE BY <2>4, Active
    <3>2. CH_IN_BLOCK_MVE \in Nat BY DwBlockAssumption
    <3> QED BY <1>2, <1>3, <3>1, <3>2 DEF ActiveCh
  <2>6. out' = ch' + Flushed' * layer'.c + i_buf' * ActiveCh' + 0
    BY <1>2, <1>3, <1>7, <1>8, <2>3, <2>5
  <2>7. lhs_buffer' = buffer_count' * WindowLength' BY <1>2, <1>3, <1>7, <1>8
  <2> QED BY <1>2, <1>3, <1>4, <1>7, <2>1, <2>3, <2>4, <2>5, <2>6, <2>7 DEF BlockInv
<1> QED BY <1>5, <1>6, <1>9, <1>10

\* The pixel loops move on; behind the last pixel is the end of the image.
LEMMA WindowMoves ==
  ASSUME TypeOK, UNCHANGED inputs, NextWindow
  PROVE  /\ pc' \in {"im2col", "leftover"} /\ i_batch' = i_batch
         /\ i_out_y' \in 0 .. layer.oh - 1 /\ i_out_x' \in 0 .. layer.ow - 1
         /\ Seen' = Pix + 1
         /\ pc' = "leftover" => Pix' + 1 = ImagePixels'
<1>1. /\ layer.oh \in Nat \ {0} /\ layer.ow \in Nat \ {0} /\ ImagePixels = layer.oh * layer.ow
      /\ i_out_y \in Nat /\ i_out_y < layer.oh /\ i_out_x \in Nat /\ i_out_x < layer.ow
  BY Sizes, Counters DEF ImagePixels
<1>2. layer' = layer /\ ImagePixels' = ImagePixels BY Fixed
<1>3. (i_out_y + 1) * layer.ow = i_out_y * layer.ow + layer.ow /\ i_out_y * layer.ow \in Nat
  BY <1>1, OneMore
<1>4. Pix = i_out_y * layer.ow + i_out_x BY DEF Pix
<1>5. CASE i_out_x + 1 < layer.ow
  <2>1. pc' = "im2col" /\ i_out_x' = i_out_x + 1 /\ i_out_y' = i_out_y /\ i_batch' = i_batch
    BY <1>1, <1>5 DEF NextWindow, NextPixel
  <2>2. Seen' = i_out_y * layer.ow + (i_out_x + 1) BY <1>2, <2>1 DEF Seen, Pix
  <2> QED BY <1>1, <1>3, <1>4, <1>5, <2>1, <2>2
<1>6. CASE i_out_x + 1 = layer.ow /\ i_out_y + 1 < layer.oh
  <2>1. pc' = "im2col" /\ i_out_x' = 0 /\ i_out_y' = i_out_y + 1 /\ i_batch' = i_batch
    BY <1>1, <1>6 DEF NextWindow, NextPixel
  <2>2. Seen' = (i_out_y + 1) * layer.ow + 0 BY <1>2, <2>1 DEF Seen, Pix
  <2> QED BY <1>1, <1>3, <1>4, <1>6, <2>1, <2>2
<1>7. CASE i_out_x + 1 = layer.ow /\ i_out_y + 1 = layer.oh
  <2>1. pc' = "leftover" /\ i_out_x' = i_out_x /\ i_out_y' = i_out_y /\ i_batch' = i_batch
    BY <1>1, <1>7 DEF NextWindow, NextPixel, pixel
  <2>2. Seen' = Pix' + 1 /\ Pix' = i_out_y * layer.ow + i_out_x
    BY <1>2, <2>1 DEF Seen, Pix
  <2>3. ImagePixels = (i_out_y + 1) * layer.ow BY <1>1, <1>7
  <2> QED BY <1>1, <1>2, <1>3, <1>4, <1>7, <2>1, <2>2, <2>3
<1> QED BY <1>1, <1>5, <1>6, <1>7 DEF NextWindow, NextPixel

\* Where a block is.
LEMMA InBlock ==
  ASSUME TInv, pc \in Blocks
  PROVE  /\ Pix \in 0 .. ImagePixels - 1 /\ Seen \in 0 .. ImagePixels
         /\ pc # "im2col" => Seen = Pix + 1
         /\ pc = "im2col" => Seen = Pix
         /\ Flushed \in Nat /\ Flushed + buffer_count = Seen
         /\ ActiveCh \in 1 .. CH_IN_BLOCK_MVE /\ ch + ActiveCh <= layer.c
         /\ ActiveCh = CH_IN_BLOCK_MVE \/ ch + ActiveCh = layer.c
         /\ Outputs = ImagePixels * layer.c
         /\ layer.c \in Nat \ {0} /\ ImagePixels \in Nat \ {0}
<1> USE DEF TInv
<1>1. /\ i_out_y \in 0 .. layer.oh - 1 /\ i_out_x \in 0 .. layer.ow - 1
      /\ 0 \in 0 .. layer.n - 1 /\ ImagePixels \in Nat \ {0} /\ layer.c \in Nat \ {0}
      /\ layer.n \in Nat
  <2>1. layer.n \in Nat \ {0} /\ ImagePixels \in Nat \ {0} /\ layer.c \in Nat \ {0}
    BY Sizes, Counts
  <2>2. i_out_y \in 0 .. layer.oh - 1 /\ i_out_x \in 0 .. layer.ow - 1 BY DEF TypeOK
  <2> QED BY <2>1, <2>2
<1>2. Pix \in 0 .. ImagePixels - 1 BY <1>1, FlatBound DEF Pix
<1>3. Seen \in 0 .. ImagePixels BY <1>1, <1>2 DEF Seen
<1>4. buffer_count \in Nat BY Counters
<1>5. Flushed >= 0 /\ ch < layer.c /\ layer.n = 1 /\ layer.mult = 1 BY DEF BlockInv
<1>6. Flushed \in Nat /\ Flushed + buffer_count = Seen
  BY <1>1, <1>3, <1>4, <1>5 DEF Flushed
<1>7. Outputs = ImagePixels * layer.c
  <2>1. Outputs = (layer.n * ImagePixels) * OutCh BY Counts
  <2> QED BY <1>1, <1>5, <2>1 DEF OutCh
<1>8. /\ ActiveCh \in 1 .. CH_IN_BLOCK_MVE /\ ch + ActiveCh <= layer.c
      /\ ActiveCh = CH_IN_BLOCK_MVE \/ ch + ActiveCh = layer.c
  BY <1>5, Active
<1> QED BY <1>1, <1>2, <1>3, <1>6, <1>7, <1>8 DEF Seen

\* Channel i of kernel element k of a window has a place in the buffer.
LEMMA InBuffer ==
  ASSUME TypeOK, NEW w \in 0 .. 3, NEW k \in 0 .. KernelSize - 1,
         NEW i \in 0 .. CH_IN_BLOCK_MVE - 1
  PROVE  (w * KernelSize + k) * CH_IN_BLOCK_MVE + i \in 0 .. BufferLength - 1
<1>1. KernelSize \in Nat /\ BufferLength = (4 * KernelSize) * CH_IN_BLOCK_MVE BY Counts
<1>2. CH_IN_BLOCK_MVE \in Nat BY DwBlockAssumption
<1>3. w * KernelSize + k \in 0 .. 4 * KernelSize - 1 BY <1>1, RowMajorBound
<1>4. 4 * KernelSize \in Nat BY <1>1
<1>5. (w * KernelSize + k) * CH_IN_BLOCK_MVE + i \in 0 .. (4 * KernelSize) * CH_IN_BLOCK_MVE - 1
  BY <1>2, <1>3, <1>4, RowMajorBound
<1> QED BY <1>1, <1>5

LEMMA DotType ==
  ASSUME TypeOK, NEW w \in 0 .. 3, NEW weights \in Nat, NEW i \in 0 .. CH_IN_BLOCK_MVE - 1
  PROVE  Dot(w, weights, i) \in SUBSET (Nat \X Int)
<1>1. layer.c \in Nat /\ KernelSize \in Nat /\ CH_IN_BLOCK_MVE \in Nat
  BY Sizes, Counts, DwBlockAssumption
<1> DEFINE word(k) == buffer[(w * KernelSize + k) * CH_IN_BLOCK_MVE + i]
<1> SUFFICES ASSUME NEW k \in 0 .. KernelSize - 1
             PROVE  k * layer.c + weights + i \in Nat /\ word(k) \in Int
  BY DEF Dot
<1>2. word(k) \in Int BY InBuffer DEF TypeOK
<1>3. k \in Nat /\ i \in Nat BY <1>1
<1>4. k * layer.c \in Nat BY <1>1, <1>3
<1> HIDE DEF word
<1> QED BY <1>2, <1>3, <1>4

LEMMA Im2colTypes == ASSUME TInv, Im2col PROVE TInv'
<1> USE DEF TInv
<1>1. /\ UNCHANGED inputs /\ UNCHANGED <<ch, offset, i_buf, out, output>>
      /\ pc = "im2col" /\ pc \in Blocks
  BY DEF Im2col, Blocks
<1>2. /\ layer' = layer /\ build' = build /\ ctx_buf' = ctx_buf
      /\ KernelSize' = KernelSize /\ ImagePixels' = ImagePixels
      /\ Outputs' = Outputs /\ BufferLength' = BufferLength /\ WindowLength' = WindowLength
      /\ Undilated' = Undilated
  BY <1>1, Fixed
<1>3. ActiveCh' = ActiveCh BY <1>1, <1>2 DEF ActiveCh
<1>4. /\ build = "vector" /\ layer.mult = 1 /\ layer.n = 1 /\ Undilated
      /\ i_batch = 0 /\ ch < layer.c /\ offset = 0 /\ i_buf = 0 /\ offset < ActiveCh
      /\ buffer_count < 4 /\ lhs_buffer = buffer_count * WindowLength
      /\ Flushed >= 0 /\ Flushed % 4 = 0
      /\ out = ch + Flushed * layer.c + i_buf * ActiveCh + 0
  BY <1>1 DEF BlockInv
<1>5. /\ buffer_count \in Nat /\ WindowLength \in Nat /\ KernelSize \in Nat
      /\ CH_IN_BLOCK_MVE \in Nat \ {0}
  BY Counters, Counts, DwBlockAssumption
<1>6. Pix \in Int /\ Seen = Pix BY <1>1, InBlock
<1>7. buffer' \in [0 .. BufferLength - 1 -> Int]
  <2>1. buffer \in [0 .. BufferLength - 1 -> Int] BY DEF TypeOK
  <2>2. PICK base \in Int : base = lhs_buffer
    <3>1. buffer_count * WindowLength \in Int BY <1>5
    <3> QED BY <1>4, <3>1
  <2>3. ASSUME NEW k \in Int, NEW i \in Int PROVE Source(k, i) \in Int
    <3>1. /\ layer.kw \in Nat \ {0} /\ layer.iw \in Nat /\ layer.c \in Nat /\ ch \in Nat
      BY Sizes, Counters
    <3>2. BaseY \in Int /\ BaseX \in Int BY Bases
    <3>3. BaseY + (k \div layer.kw) \in Int /\ BaseX + (k % layer.kw) \in Int BY <3>1, <3>2
    <3>4. \A y, x \in Int : (y * layer.iw + x) * layer.c + ch + i \in Int
      <4>1. \A a, b \in Int : a * b \in Int OBVIOUS
      <4> SUFFICES ASSUME NEW y \in Int, NEW x \in Int
                   PROVE  (y * layer.iw + x) * layer.c + ch + i \in Int
        OBVIOUS
      <4>2. y * layer.iw + x \in Int BY <3>1, <4>1
      <4>3. (y * layer.iw + x) * layer.c \in Int BY <3>1, <4>1, <4>2
      <4> QED BY <3>1, <4>3
    <3>5. PICK y \in Int, x \in Int :
            y = BaseY + (k \div layer.kw) /\ x = BaseX + (k % layer.kw)
      BY <3>3
    <3>6. Source(k, i) = Padding \/ Source(k, i) = (y * layer.iw + x) * layer.c + ch + i
      BY <3>5 DEF Source
    <3>7. (y * layer.iw + x) * layer.c + ch + i \in Int BY <3>4
    <3> QED BY <3>6, <3>7 DEF Padding
  <2>4. \A b \in 0 .. BufferLength - 1 :
          (b - base) \div CH_IN_BLOCK_MVE \in Int /\ (b - base) % CH_IN_BLOCK_MVE \in Int
    BY <1>5
  <2>5. buffer' = [b \in 0 .. BufferLength - 1 |->
          IF /\ (b - base) \div CH_IN_BLOCK_MVE \in 0 .. KernelSize - 1
             /\ (b - base) % CH_IN_BLOCK_MVE < ActiveCh
          THEN Source((b - base) \div CH_IN_BLOCK_MVE, (b - base) % CH_IN_BLOCK_MVE)
          ELSE buffer[b]]
    BY <2>1, <2>2 DEF Im2col
  <2> QED BY <2>1, <2>3, <2>4, <2>5
<1>8. buffer_count' = buffer_count + 1 BY DEF Im2col
<1>9. CASE buffer_count + 1 = 4
  <2>1. lhs_buffer' = 0 /\ pc' = "flush" /\ UNCHANGED pixel BY <1>9 DEF Im2col
  <2>2. i_batch' = i_batch /\ i_out_y' = i_out_y /\ i_out_x' = i_out_x BY <2>1 DEF pixel
  <2>3. Seen' = Pix + 1 BY <1>2, <2>1, <2>2 DEF Seen, Pix
  <2>4. Flushed' = Flushed BY <1>5, <1>6, <1>8, <2>3 DEF Flushed
  <2>5. TypeOK'
    <3>1. 0 \in 0 .. 3 * KernelSize' * CH_IN_BLOCK_MVE
      BY <1>2, <1>5, Counts
    <3>2. buffer_count' \in 0 .. 4 /\ i_buf' \in 0 .. buffer_count' BY <1>1, <1>4, <1>8, <1>9
    <3> QED BY <1>1, <1>2, <1>7, <2>1, <2>2, <3>1, <3>2 DEF TypeOK
  <2>6. BlockInv'
    BY <1>1, <1>2, <1>3, <1>4, <1>8, <1>9, <2>1, <2>2, <2>4 DEF BlockInv
  <2> QED BY <2>1, <2>5, <2>6 DEF WrapperInv, GroupInv, Groups
<1>10. CASE buffer_count + 1 # 4
  <2>1. lhs_buffer' = lhs_buffer + KernelSize * CH_IN_BLOCK_MVE /\ NextWindow
    BY <1>10 DEF Im2col
  <2>2. /\ pc' \in {"im2col", "leftover"} /\ i_batch' = i_batch
        /\ i_out_y' \in 0 .. layer.oh - 1 /\ i_out_x' \in 0 .. layer.ow - 1
        /\ Seen' = Pix + 1
        /\ pc' = "leftover" => Pix' + 1 = ImagePixels'
    BY <1>1, <2>1, WindowMoves
  <2>3. Flushed' = Flushed BY <1>5, <1>6, <1>8, <2>2 DEF Flushed
  <2>4. lhs_buffer' = (buffer_count + 1) * WindowLength
    BY <1>4, <1>5, <2>1, OneMore DEF WindowLength
  <2>5. buffer_count' \in 0 .. 3 /\ i_buf' \in 0 .. buffer_count' BY <1>1, <1>4, <1>5, <1>8, <1>10
  <2>6. lhs_buffer' \in 0 .. 3 * KernelSize' * CH_IN_BLOCK_MVE
    <3>1. (buffer_count + 1) * WindowLength <= 3 * WindowLength
      <4>1. buffer_count + 1 \in Nat /\ buffer_count + 1 <= 3 BY <1>5, <1>8, <2>5
      <4> QED BY <1>5, <4>1, Monotone
    <3>2. (buffer_count + 1) * WindowLength \in Nat BY <1>5
    <3> QED BY <1>2, <1>5, <2>4, <3>1, <3>2, Counts
  <2>7. TypeOK'
    BY <1>1, <1>2, <1>7, <2>2, <2>5, <2>6 DEF TypeOK
  <2>8. BlockInv'
    <3>1. offset' = 0 /\ i_buf' = 0 /\ offset' < ActiveCh' BY <1>1, <1>3, <1>4
    <3>2. lhs_buffer' = buffer_count' * WindowLength' /\ buffer_count' < 4
      BY <1>2, <1>5, <1>8, <2>4, <2>5
    <3>3. Flushed' >= 0 /\ Flushed' % 4 = 0 BY <1>4, <2>3
    <3>4. out' = ch' + Flushed' * layer'.c + i_buf' * ActiveCh'
                   + (IF pc' = "leftover" THEN offset' ELSE 0)
      BY <1>1, <1>2, <1>3, <1>4, <2>3
    <3>5. /\ build' = "vector" /\ layer'.mult = 1 /\ layer'.n = 1 /\ Undilated'
          /\ i_batch' = 0 /\ ch' < layer'.c /\ pc' # "flush"
          /\ pc' = "leftover" => Pix' + 1 = ImagePixels'
      BY <1>1, <1>2, <1>4, <2>2
    <3> QED BY <3>1, <3>2, <3>3, <3>4, <3>5 DEF BlockInv
  <2> QED BY <2>2, <2>7, <2>8 DEF WrapperInv, GroupInv, Groups
<1> QED BY <1>9, <1>10

\* A strip of a flush: what is stored for channel i of the block in window w.
StripBias == IF layer.bias THEN ch ELSE IF ch = 0 THEN NoBias ELSE Wild

StripResult(w, i) ==
  [quant |-> ch + i, bias |-> IF layer.bias THEN StripBias + i ELSE StripBias,
   sum |-> Dot(w, ch, i)]

\* The strip's elements are those of channels offset to offset + vl - 1 of the
\* block in the four pixels from Flushed on.
LEMMA FlushStores ==
  ASSUME TInv, pc = "flush", NEW vl, vl \in Vsetvl(ActiveCh - offset, VLMAX)
  PROVE  /\ vl \in Nat \ {0} /\ offset + vl <= ActiveCh
         /\ \A w \in 0 .. 3, i \in offset .. offset + vl - 1 :
              /\ out + w * layer.c + i = (Flushed + w) * layer.c + (ch + i)
              /\ Flushed + w \in 0 .. ImagePixels - 1 /\ ch + i \in 0 .. layer.c - 1
              /\ i \in 0 .. ActiveCh - 1 /\ i \in 0 .. CH_IN_BLOCK_MVE - 1
<1> USE DEF TInv
<1>1. pc \in Blocks BY DEF Blocks
<1>2. /\ Pix \in 0 .. ImagePixels - 1 /\ Seen = Pix + 1
      /\ Flushed \in Nat /\ Flushed + buffer_count = Seen
      /\ ActiveCh \in 1 .. CH_IN_BLOCK_MVE /\ ch + ActiveCh <= layer.c
      /\ layer.c \in Nat \ {0} /\ ImagePixels \in Nat \ {0}
  BY <1>1, InBlock
<1>3. /\ offset < ActiveCh /\ buffer_count = 4 /\ i_buf = 0
      /\ out = ch + Flushed * layer.c + i_buf * ActiveCh + 0
  BY <1>1 DEF BlockInv
<1>4. ch \in Nat /\ offset \in Nat /\ CH_IN_BLOCK_MVE \in Nat
  BY Counters, DwBlockAssumption
<1>5. PICK avl \in Nat \ {0} : avl = ActiveCh - offset BY <1>2, <1>3, <1>4
<1>6. vl \in 1 .. avl BY <1>5, StripLength
<1>7. vl \in Nat \ {0} /\ offset + vl <= ActiveCh BY <1>2, <1>4, <1>5, <1>6
<1>8. ASSUME NEW w \in 0 .. 3, NEW i \in offset .. offset + vl - 1
      PROVE  /\ out + w * layer.c + i = (Flushed + w) * layer.c + (ch + i)
             /\ Flushed + w \in 0 .. ImagePixels - 1 /\ ch + i \in 0 .. layer.c - 1
             /\ i \in 0 .. ActiveCh - 1 /\ i \in 0 .. CH_IN_BLOCK_MVE - 1
  <2>1. (Flushed + w) * layer.c = Flushed * layer.c + w * layer.c
        /\ Flushed * layer.c \in Nat /\ w * layer.c \in Nat
    BY <1>2
  <2>2. out = ch + Flushed * layer.c BY <1>2, <1>3, <1>4, <2>1
  <2>3. i \in Nat /\ i < ActiveCh BY <1>2, <1>4, <1>7
  <2>4. out + w * layer.c + i = (Flushed + w) * layer.c + (ch + i)
    BY <1>4, <2>1, <2>2, <2>3
  <2>5. Flushed + w \in 0 .. ImagePixels - 1 BY <1>2, <1>3
  <2>6. ch + i \in 0 .. layer.c - 1 /\ i \in 0 .. ActiveCh - 1 /\ i \in 0 .. CH_IN_BLOCK_MVE - 1
    BY <1>2, <1>4, <2>3
  <2> QED BY <2>4, <2>5, <2>6
<1> QED BY <1>7, <1>8

\* No two windows or channels of a strip share an element.
StripOf(results, vl) ==
  /\ DOMAIN results = {(Flushed + s[1]) * layer.c + (ch + s[2]) :
                         s \in (0 .. 3) \X (offset .. offset + vl - 1)}
  /\ \A w \in 0 .. 3, i \in offset .. offset + vl - 1 :
       results[(Flushed + w) * layer.c + (ch + i)] = StripResult(w, i)

LEMMA FlushIs ==
  ASSUME TInv, FlushStrip
  PROVE  \E vl \in Vsetvl(ActiveCh - offset, VLMAX) :
           /\ \E results : Store(results) /\ StripOf(results, vl)
           /\ \/ /\ offset + vl < ActiveCh
                 /\ offset' = offset + vl
                 /\ UNCHANGED <<pc, pixel, buffer_count, out>>
              \/ /\ offset + vl = ActiveCh
                 /\ offset' = 0
                 /\ out' = out + 4 * layer.c
                 /\ buffer_count' = 0
                 /\ NextWindow
<1> DEFINE At(w, i) == out + w * layer.c + i
           F(w, i) == (Flushed + w) * layer.c + (ch + i)
<1>1. pc = "flush" BY DEF FlushStrip
<1>2. PICK vl \in Vsetvl(ActiveCh - offset, VLMAX) :
        /\ Store([e \in {At(s[1], s[2]) : s \in (0 .. 3) \X (offset .. offset + vl - 1)} |->
              StripResult((CHOOSE t \in (0 .. 3) \X (offset .. offset + vl - 1) :
                             At(t[1], t[2]) = e)[1],
                          (CHOOSE t \in (0 .. 3) \X (offset .. offset + vl - 1) :
                             At(t[1], t[2]) = e)[2])])
        /\ \/ /\ offset + vl < ActiveCh
              /\ offset' = offset + vl
              /\ UNCHANGED <<pc, pixel, buffer_count, out>>
           \/ /\ offset + vl = ActiveCh
              /\ offset' = 0
              /\ out' = out + 4 * layer.c
              /\ buffer_count' = 0
              /\ NextWindow
  BY DEF FlushStrip, StripResult, StripBias
<1>3. PICK strip : strip = (0 .. 3) \X (offset .. offset + vl - 1) OBVIOUS
<1>4. PICK results : results = [e \in {At(s[1], s[2]) : s \in strip} |->
        StripResult((CHOOSE t \in strip : At(t[1], t[2]) = e)[1],
                    (CHOOSE t \in strip : At(t[1], t[2]) = e)[2])]
  OBVIOUS
<1>5. Store(results) BY <1>2, <1>3, <1>4
<1>6. \A w \in 0 .. 3, i \in offset .. offset + vl - 1 :
        /\ At(w, i) = F(w, i)
        /\ Flushed + w \in 0 .. ImagePixels - 1 /\ ch + i \in 0 .. layer.c - 1
  BY <1>1, <1>2, FlushStores
<1>7. /\ layer.c \in Nat \ {0} /\ ImagePixels \in Nat /\ ch \in Nat /\ offset \in Nat
      /\ Flushed \in Nat
  BY <1>1, InBlock, Counters DEF TInv, Blocks
<1>8. ASSUME NEW s \in strip, NEW t \in strip, At(s[1], s[2]) = At(t[1], t[2])
      PROVE  s = t
  <2>1. /\ s[1] \in 0 .. 3 /\ s[2] \in offset .. offset + vl - 1 /\ s = <<s[1], s[2]>>
        /\ t[1] \in 0 .. 3 /\ t[2] \in offset .. offset + vl - 1 /\ t = <<t[1], t[2]>>
    BY <1>3
  <2>2. PICK p \in Nat, q \in Nat, c \in 0 .. layer.c - 1, d \in 0 .. layer.c - 1 :
          p = Flushed + s[1] /\ q = Flushed + t[1] /\ c = ch + s[2] /\ d = ch + t[2]
    BY <1>6, <1>7, <2>1
  <2>3. p * layer.c + c = q * layer.c + d BY <1>6, <1>8, <2>1, <2>2
  <2>4. p = q /\ c = d
    <3>1. PICK m \in Nat \ {0} : m = layer.c BY <1>7
    <3>2. c \in 0 .. m - 1 /\ d \in 0 .. m - 1 /\ p * m + c = q * m + d BY <2>3, <3>1
    <3> QED BY <3>1, <3>2, RowMajorUnique
  <2>5. s[1] = t[1]
    <3>1. s[1] \in Int /\ t[1] \in Int BY <2>1
    <3> QED BY <1>7, <2>2, <2>4, <3>1
  <2>6. s[2] = t[2]
    <3>1. s[2] \in Int /\ t[2] \in Int BY <2>1
    <3> QED BY <1>7, <2>2, <2>4, <3>1
  <2> QED BY <2>1, <2>5, <2>6
<1>9. ASSUME NEW w \in 0 .. 3, NEW i \in offset .. offset + vl - 1
      PROVE  results[F(w, i)] = StripResult(w, i)
  <2>1. PICK s \in strip : s = <<w, i>> BY <1>3
  <2>2. s[1] = w /\ s[2] = i BY <2>1
  <2>3. At(s[1], s[2]) = F(w, i) BY <1>6, <2>2
  <2> HIDE DEF At, F
  <2>4. (CHOOSE t \in strip : At(t[1], t[2]) = F(w, i)) = s BY <1>8, <2>3
  <2>5. F(w, i) \in {At(u[1], u[2]) : u \in strip} BY <2>3
  <2> QED BY <1>4, <2>2, <2>4, <2>5
<1>10. DOMAIN results = {F(s[1], s[2]) : s \in strip}
  <2>1. \A s \in strip : At(s[1], s[2]) = F(s[1], s[2]) BY <1>3, <1>6
  <2> HIDE DEF At, F
  <2> QED BY <1>4, <2>1
<1>11. StripOf(results, vl) BY <1>3, <1>9, <1>10 DEF StripOf
<1> QED BY <1>2, <1>5, <1>11

\* A strip's results are results.
LEMMA StripTypes ==
  ASSUME TInv, pc = "flush", NEW vl, vl \in Vsetvl(ActiveCh - offset, VLMAX),
         NEW results, StripOf(results, vl)
  PROVE  /\ DOMAIN results \subseteq 0 .. Outputs - 1
         /\ \A e \in DOMAIN results : results[e] \in Results
<1>1. \A w \in 0 .. 3, i \in offset .. offset + vl - 1 :
        /\ Flushed + w \in 0 .. ImagePixels - 1 /\ ch + i \in 0 .. layer.c - 1
        /\ i \in 0 .. CH_IN_BLOCK_MVE - 1
  BY FlushStores
<1>2. pc \in Blocks BY DEF Blocks
<1>3. layer.c \in Nat /\ ImagePixels \in Nat /\ Outputs = ImagePixels * layer.c
  BY <1>2, InBlock
<1>4. ch \in Nat /\ offset \in Nat BY Counters DEF TInv
<1> SUFFICES ASSUME NEW e \in DOMAIN results
             PROVE  e \in 0 .. Outputs - 1 /\ results[e] \in Results
  OBVIOUS
<1>5. PICK w \in 0 .. 3, i \in offset .. offset + vl - 1 :
        e = (Flushed + w) * layer.c + (ch + i)
  BY DEF StripOf
<1>6. results[e] = StripResult(w, i) BY <1>5 DEF StripOf
<1>7. e \in 0 .. Outputs - 1
  <2>1. PICK p \in 0 .. ImagePixels - 1, c \in 0 .. layer.c - 1 :
          p = Flushed + w /\ c = ch + i
    BY <1>1
  <2>2. p * layer.c + c \in 0 .. ImagePixels * layer.c - 1 BY <1>3, RowMajorBound
  <2> QED BY <1>3, <1>5, <2>1, <2>2
<1>8. results[e] \in Results
  <2>1. PICK c \in Nat : c = ch BY <1>4
  <2>2. i \in 0 .. CH_IN_BLOCK_MVE - 1 /\ i \in Nat BY <1>1, <1>4
  <2>3. Dot(w, c, i) \in SUBSET (Nat \X Int) BY <2>2, DotType DEF TInv
  <2>4. StripBias \in Int /\ StripBias + i \in Int BY <1>4, <2>2 DEF StripBias, NoBias, Wild
  <2>5. ch + i \in Nat BY <1>4, <2>2
  <2> QED BY <1>6, <2>1, <2>3, <2>4, <2>5 DEF StripResult, Results
<1> QED BY <1>7, <1>8

LEMMA FlushTypes == ASSUME TInv, FlushStrip PROVE TInv'
<1> USE DEF TInv
<1>1. /\ UNCHANGED inputs /\ UNCHANGED <<ch, buffer, lhs_buffer, i_buf>>
      /\ pc = "flush" /\ pc \in Blocks
  BY DEF FlushStrip, Blocks
<1>2. /\ layer' = layer /\ build' = build /\ ctx_buf' = ctx_buf
      /\ KernelSize' = KernelSize /\ ImagePixels' = ImagePixels
      /\ Outputs' = Outputs /\ BufferLength' = BufferLength /\ WindowLength' = WindowLength
      /\ Undilated' = Undilated
  BY <1>1, Fixed
<1>3. ActiveCh' = ActiveCh BY <1>1, <1>2 DEF ActiveCh
<1>4. /\ build = "vector" /\ layer.mult = 1 /\ layer.n = 1 /\ Undilated
      /\ i_batch = 0 /\ ch < layer.c /\ i_buf = 0 /\ offset < ActiveCh
      /\ buffer_count = 4 /\ lhs_buffer = 0
      /\ Flushed >= 0 /\ Flushed % 4 = 0
      /\ out = ch + Flushed * layer.c + i_buf * ActiveCh + 0
  BY <1>1 DEF BlockInv
<1>5. /\ WindowLength \in Nat /\ layer.c \in Nat /\ Pix \in Int /\ Seen = Pix + 1
      /\ Flushed \in Nat /\ Flushed + buffer_count = Seen
      /\ ActiveCh \in 1 .. CH_IN_BLOCK_MVE /\ CH_IN_BLOCK_MVE \in Nat
      /\ ch \in Nat /\ offset \in Nat
  BY <1>1, InBlock, Counters, Counts, DwBlockAssumption
<1>6. PICK vl \in Vsetvl(ActiveCh - offset, VLMAX) :
        /\ \E results : Store(results) /\ StripOf(results, vl)
        /\ \/ /\ offset + vl < ActiveCh
              /\ offset' = offset + vl
              /\ UNCHANGED <<pc, pixel, buffer_count, out>>
           \/ /\ offset + vl = ActiveCh
              /\ offset' = 0
              /\ out' = out + 4 * layer.c
              /\ buffer_count' = 0
              /\ NextWindow
  BY FlushIs
<1>r. PICK results : Store(results) /\ StripOf(results, vl) BY <1>6
<1>7. vl \in Nat \ {0} BY <1>1, FlushStores
<1>8. output' \in [0 .. Outputs' - 1 -> Results \cup {Undefined}]
  BY <1>1, <1>r, StripTypes, StoreTypes
<1>9. buffer' \in [0 .. BufferLength' - 1 -> Int]
      /\ lhs_buffer' \in 0 .. 3 * KernelSize' * CH_IN_BLOCK_MVE
  BY <1>1, <1>2 DEF TypeOK
<1>10. CASE offset + vl < ActiveCh /\ offset' = offset + vl
            /\ UNCHANGED <<pc, pixel, buffer_count, out>>
  <2>1. /\ pc' = pc /\ i_batch' = i_batch /\ i_out_y' = i_out_y /\ i_out_x' = i_out_x
        /\ buffer_count' = buffer_count /\ out' = out
    BY <1>10 DEF pixel
  <2>2. offset' \in 0 .. CH_IN_BLOCK_MVE - 1 /\ offset' < ActiveCh' BY <1>3, <1>5, <1>7, <1>10
  <2>3. Flushed' = Flushed BY <1>2, <2>1 DEF Flushed, Seen, Pix
  <2>4. TypeOK' BY <1>1, <1>2, <1>8, <1>9, <2>1, <2>2 DEF TypeOK
  <2>5. BlockInv'
    BY <1>1, <1>2, <1>3, <1>4, <2>1, <2>2, <2>3 DEF BlockInv
  <2> QED BY <1>1, <2>1, <2>4, <2>5 DEF WrapperInv, GroupInv, Groups
<1>11. CASE offset + vl = ActiveCh /\ offset' = 0 /\ out' = out + 4 * layer.c
            /\ buffer_count' = 0 /\ NextWindow
  <2>1. /\ pc' \in {"im2col", "leftover"} /\ i_batch' = i_batch
        /\ i_out_y' \in 0 .. layer.oh - 1 /\ i_out_x' \in 0 .. layer.ow - 1
        /\ Seen' = Pix + 1
        /\ pc' = "leftover" => Pix' + 1 = ImagePixels'
    BY <1>1, <1>11, WindowMoves
  <2>2. Flushed' = Flushed + 4 BY <1>4, <1>5, <1>11, <2>1 DEF Flushed
  <2>3. Flushed' >= 0 /\ Flushed' % 4 = 0 BY <1>4, <1>5, <2>2
  <2>4. out' = ch + (Flushed + 4) * layer.c + i_buf' * ActiveCh'
               + (IF pc' = "leftover" THEN offset' ELSE 0)
    <3>1. (Flushed + 4) * layer.c = Flushed * layer.c + 4 * layer.c
          /\ Flushed * layer.c \in Nat /\ 4 * layer.c \in Nat
      BY <1>5
    <3>2. i_buf * ActiveCh = 0 /\ i_buf' * ActiveCh' = 0 BY <1>1, <1>3, <1>4, <1>5
    <3>3. (IF pc' = "leftover" THEN offset' ELSE 0) = 0 BY <1>11
    <3> QED BY <1>4, <1>5, <1>11, <3>1, <3>2, <3>3
  <2>5. out' \in Nat
    <3>1. out \in Nat /\ 4 * layer.c \in Nat BY <1>5, Counters
    <3> QED BY <1>11, <3>1
  <2>6. offset' \in 0 .. CH_IN_BLOCK_MVE - 1 /\ offset' < ActiveCh' BY <1>3, <1>5, <1>11
  <2>7. buffer_count' \in 0 .. 4 /\ i_buf' \in 0 .. buffer_count' BY <1>1, <1>4, <1>11
  <2>8. TypeOK'
    BY <1>1, <1>2, <1>8, <1>9, <2>1, <2>5, <2>6, <2>7 DEF TypeOK
  <2>9. BlockInv'
    <3>1. lhs_buffer' = buffer_count' * WindowLength' BY <1>1, <1>2, <1>4, <1>5, <1>11
    <3>2. /\ build' = "vector" /\ layer'.mult = 1 /\ layer'.n = 1 /\ Undilated'
          /\ i_batch' = 0 /\ ch' < layer'.c /\ pc' # "flush" /\ offset' = 0 /\ i_buf' = 0
      BY <1>1, <1>2, <1>4, <1>11, <2>1
    <3>3. out' = ch' + Flushed' * layer'.c + i_buf' * ActiveCh'
                   + (IF pc' = "leftover" THEN offset' ELSE 0)
      BY <1>1, <1>2, <2>2, <2>4
    <3>4. buffer_count' < 4 BY <1>11
    <3> QED BY <2>1, <2>3, <2>6, <3>1, <3>2, <3>3, <3>4 DEF BlockInv
  <2> QED BY <2>1, <2>8, <2>9 DEF WrapperInv, GroupInv, Groups
<1> QED BY <1>6, <1>10, <1>11

\* What a strip of a leftover window stores.
LeftoverResult(i) ==
  [quant |-> i, bias |-> IF layer.bias THEN i ELSE NoBias, sum |-> Dot(i_buf, 0, i)]

\* The leftover windows end before the tensor does.
LEMMA LeftoverBound ==
  ASSUME TInv, pc = "leftover", i_buf < buffer_count, NEW vl \in Nat, offset + vl <= ActiveCh
  PROVE  out + vl <= Outputs
<1> USE DEF TInv
<1>1. pc \in Blocks BY DEF Blocks
<1>2. /\ Pix + 1 = ImagePixels /\ offset < ActiveCh
      /\ out = ch + Flushed * layer.c + i_buf * ActiveCh + offset
  BY <1>1 DEF BlockInv
<1>3. /\ Pix \in Int /\ Seen = Pix + 1 /\ Flushed \in Nat /\ Flushed + buffer_count = Seen
      /\ ActiveCh \in Nat /\ ch + ActiveCh <= layer.c
      /\ Outputs = ImagePixels * layer.c /\ layer.c \in Nat /\ ImagePixels \in Nat
  BY <1>1, InBlock, DwBlockAssumption
<1>4. ch \in Nat /\ offset \in Nat /\ i_buf \in Nat /\ buffer_count \in Nat BY Counters
<1>5. Flushed + i_buf + 1 <= ImagePixels BY <1>2, <1>3, <1>4
<1>6. (Flushed + i_buf + 1) * layer.c <= ImagePixels * layer.c BY <1>3, <1>4, <1>5, Monotone
<1>7. (Flushed + i_buf + 1) * layer.c = Flushed * layer.c + i_buf * layer.c + layer.c
  BY <1>3, <1>4
<1>8. i_buf * ActiveCh <= i_buf * layer.c
  <2>1. ActiveCh <= layer.c BY <1>3, <1>4
  <2>2. ActiveCh * i_buf <= layer.c * i_buf BY <1>3, <1>4, <2>1, Monotone
  <2>3. i_buf * ActiveCh = ActiveCh * i_buf /\ i_buf * layer.c = layer.c * i_buf BY <1>3, <1>4
  <2> QED BY <2>2, <2>3
<1>9. /\ Flushed * layer.c \in Nat /\ i_buf * layer.c \in Nat /\ i_buf * ActiveCh \in Nat
      /\ ImagePixels * layer.c \in Nat
  BY <1>3, <1>4
<1> QED BY <1>2, <1>3, <1>4, <1>6, <1>7, <1>8, <1>9

LEMMA LeftoverTypes == ASSUME TInv, LeftoverStrip PROVE TInv'
<1> USE DEF TInv
<1>1. /\ UNCHANGED inputs /\ UNCHANGED <<pc, pixel, ch, lhs>>
      /\ pc = "leftover" /\ pc \in Blocks /\ i_buf < buffer_count
  BY DEF LeftoverStrip, Blocks
<1>2. /\ layer' = layer /\ build' = build /\ ctx_buf' = ctx_buf
      /\ KernelSize' = KernelSize /\ ImagePixels' = ImagePixels
      /\ Outputs' = Outputs /\ BufferLength' = BufferLength /\ WindowLength' = WindowLength
      /\ Undilated' = Undilated
  BY <1>1, Fixed
<1>3. /\ pc' = pc /\ i_batch' = i_batch /\ i_out_y' = i_out_y /\ i_out_x' = i_out_x
      /\ ch' = ch /\ buffer' = buffer /\ lhs_buffer' = lhs_buffer
      /\ buffer_count' = buffer_count
  BY <1>1 DEF pixel, lhs
<1>4. ActiveCh' = ActiveCh BY <1>2, <1>3 DEF ActiveCh
<1>5. Pix' = Pix /\ Seen' = Seen /\ Flushed' = Flushed BY <1>2, <1>3 DEF Pix, Seen, Flushed
<1>6. /\ build = "vector" /\ layer.mult = 1 /\ layer.n = 1 /\ Undilated
      /\ i_batch = 0 /\ ch < layer.c /\ offset < ActiveCh
      /\ buffer_count < 4 /\ lhs_buffer = buffer_count * WindowLength
      /\ Flushed >= 0 /\ Flushed % 4 = 0 /\ Pix + 1 = ImagePixels
      /\ out = ch + Flushed * layer.c + i_buf * ActiveCh + offset
  BY <1>1 DEF BlockInv
<1>7. /\ layer.c \in Nat /\ Flushed \in Nat /\ ActiveCh \in Nat /\ CH_IN_BLOCK_MVE \in Nat
      /\ ActiveCh <= CH_IN_BLOCK_MVE /\ ActiveCh # 0
      /\ ch \in Nat /\ offset \in Nat /\ out \in Nat /\ i_buf \in Nat /\ buffer_count \in 0 .. 4
      /\ Outputs \in Nat
  BY <1>1, InBlock, Counters, Counts, DwBlockAssumption
<1>8. PICK vl \in Vsetvl(ActiveCh - offset, VLMAX) :
        /\ Store([e \in out .. out + vl - 1 |-> LeftoverResult(offset + e - out)])
        /\ out' = out + vl
        /\ offset' = IF offset + vl < ActiveCh THEN offset + vl ELSE 0
        /\ i_buf' = IF offset + vl < ActiveCh THEN i_buf ELSE i_buf + 1
  BY DEF LeftoverStrip, LeftoverResult
<1>9. vl \in Nat \ {0} /\ offset + vl <= ActiveCh
  <2>1. PICK avl \in Nat \ {0} : avl = ActiveCh - offset BY <1>6, <1>7
  <2>2. vl \in 1 .. avl BY <1>8, <2>1, StripLength
  <2> QED BY <1>7, <2>1, <2>2
<1>10. out + vl <= Outputs BY <1>1, <1>9, LeftoverBound
<1>11. PICK results : results = [e \in out .. out + vl - 1 |-> LeftoverResult(offset + e - out)]
  OBVIOUS
<1>12. DOMAIN results \subseteq 0 .. Outputs - 1
  <2>1. DOMAIN results = out .. out + vl - 1 BY <1>11
  <2> QED BY <1>7, <1>9, <1>10, <2>1
<1>13. ASSUME NEW e \in DOMAIN results PROVE results[e] \in Results
  <2>1. e \in out .. out + vl - 1 BY <1>11
  <2>2. PICK i \in 0 .. CH_IN_BLOCK_MVE - 1 : i = offset + e - out BY <1>7, <1>9, <2>1
  <2>3. PICK w \in 0 .. 3 : w = i_buf BY <1>1, <1>6, <1>7
  <2>4. Dot(w, 0, i) \in SUBSET (Nat \X Int) BY DotType
  <2>5. results[e] = LeftoverResult(i) BY <1>11, <2>1, <2>2
  <2>6. i \in Nat /\ NoBias \in Int BY <1>7, <2>2 DEF NoBias
  <2> QED BY <2>3, <2>4, <2>5, <2>6 DEF LeftoverResult, Results
<1>14. output' \in [0 .. Outputs' - 1 -> Results \cup {Undefined}]
  BY <1>1, <1>8, <1>11, <1>12, <1>13, StoreTypes
<1>15. offset' \in 0 .. CH_IN_BLOCK_MVE - 1 /\ offset' < ActiveCh
       /\ i_buf' \in 0 .. buffer_count' /\ out' \in Nat
  BY <1>1, <1>3, <1>7, <1>8, <1>9
<1>16. TypeOK'
  BY <1>2, <1>3, <1>14, <1>15 DEF TypeOK
<1>17. out' = ch + Flushed * layer.c + i_buf' * ActiveCh + offset'
  <2>1. PICK f \in Nat, d \in Nat : f = Flushed * layer.c /\ d = i_buf * ActiveCh
    <3>1. Flushed * layer.c \in Nat /\ i_buf * ActiveCh \in Nat BY <1>7
    <3> QED BY <3>1
  <2>2. (i_buf + 1) * ActiveCh = d + ActiveCh BY <1>7, <2>1, OneMore
  <2>3. out = ch + f + d + offset BY <1>6, <2>1
  <2>4. CASE offset + vl < ActiveCh
    <3>1. i_buf' * ActiveCh = d /\ offset' = offset + vl BY <1>8, <2>1, <2>4
    <3>2. out + vl = ch + f + d + (offset + vl) BY <1>7, <1>9, <2>1, <2>3
    <3> QED BY <1>8, <2>1, <3>1, <3>2
  <2>5. CASE offset + vl = ActiveCh
    <3>1. i_buf' * ActiveCh = d + ActiveCh /\ offset' = 0 BY <1>7, <1>8, <2>2, <2>5
    <3>2. out + vl = ch + f + (d + ActiveCh) + 0 BY <1>7, <1>9, <2>3, <2>5
    <3> QED BY <1>8, <2>1, <3>1, <3>2
  <2> QED BY <1>7, <1>9, <2>4, <2>5
<1>18. i_buf' = buffer_count' => offset' = 0
  BY <1>1, <1>3, <1>7, <1>8
<1>19. BlockInv'
  BY <1>1, <1>2, <1>3, <1>4, <1>5, <1>6, <1>15, <1>17, <1>18 DEF BlockInv
<1> QED BY <1>1, <1>3, <1>16, <1>19 DEF WrapperInv, GroupInv, Groups

LEMMA EndBlockTypes == ASSUME TInv, EndBlock PROVE TInv'
<1> USE DEF TInv
<1>1. /\ UNCHANGED inputs /\ UNCHANGED <<i_batch, offset, buffer, output>>
      /\ pc = "leftover" /\ pc \in Blocks /\ i_buf = buffer_count
      /\ lhs_buffer' = 0 /\ buffer_count' = 0 /\ i_buf' = 0
      /\ i_out_x' = 0 /\ i_out_y' = 0
      /\ ch' = ch + CH_IN_BLOCK_MVE /\ out' = ch'
      /\ pc' = IF ch' < layer.c THEN "im2col" ELSE "return"
  BY DEF EndBlock, Blocks
<1>2. /\ layer' = layer /\ build' = build /\ ctx_buf' = ctx_buf
      /\ KernelSize' = KernelSize /\ ImagePixels' = ImagePixels
      /\ Outputs' = Outputs /\ BufferLength' = BufferLength /\ WindowLength' = WindowLength
      /\ Undilated' = Undilated
  BY <1>1, Fixed
<1>3. /\ build = "vector" /\ layer.mult = 1 /\ layer.n = 1 /\ Undilated
      /\ i_batch = 0 /\ offset = 0
  BY <1>1 DEF BlockInv
<1>4. /\ layer.c \in Nat /\ layer.oh \in Nat \ {0} /\ layer.ow \in Nat \ {0}
      /\ WindowLength \in Nat /\ KernelSize \in Nat /\ ch \in Nat /\ CH_IN_BLOCK_MVE \in Nat \ {0}
  BY Sizes, Counts, Counters, DwBlockAssumption
<1>5. ch' \in Nat /\ out' \in Nat BY <1>1, <1>4
<1>6. TypeOK'
  <2>1. 0 \in 0 .. 3 * KernelSize' * CH_IN_BLOCK_MVE BY <1>2, <1>4, Counts
  <2>2. 0 \in 0 .. layer'.oh - 1 /\ 0 \in 0 .. layer'.ow - 1 BY <1>2, <1>4
  <2>3. i_batch' \in 0 .. layer'.n /\ offset' \in 0 .. CH_IN_BLOCK_MVE - 1
        /\ buffer' \in [0 .. BufferLength' - 1 -> Int]
        /\ output' \in [0 .. Outputs' - 1 -> Results \cup {Undefined}]
    BY <1>1, <1>2 DEF TypeOK
  <2>4. pc' \in {"im2col", "return"} BY <1>1
  <2>5. layer' \in Layers /\ build' \in Builds /\ ctx_buf' \in BOOLEAN BY <1>2 DEF TypeOK
  <2>6. 0 \in 0 .. 4 /\ 0 \in 0 .. 0 OBVIOUS
  <2> QED BY <1>1, <1>5, <2>1, <2>2, <2>3, <2>4, <2>5, <2>6 DEF TypeOK
<1>7. BlockInv'
  <2> SUFFICES ASSUME pc' \in Blocks PROVE BlockInv'
    BY DEF BlockInv
  <2>1. pc' = "im2col" /\ ch' < layer.c BY <1>1 DEF Blocks
  <2>2. Pix' = 0 /\ Seen' = 0 BY <1>1, <1>2, <1>4, <2>1 DEF Pix, Seen
  <2>3. Flushed' = 0 /\ (0 % 4) = 0 BY <1>1, <2>2 DEF Flushed
  <2>4. ActiveCh' \in Nat /\ ActiveCh' > 0
    BY <1>1, <1>2, <1>4, <2>1 DEF ActiveCh, Smaller
  <2>5. out' = ch' + Flushed' * layer'.c + i_buf' * ActiveCh' + 0
    BY <1>1, <1>2, <1>4, <1>5, <2>3, <2>4
  <2>6. lhs_buffer' = buffer_count' * WindowLength' BY <1>1, <1>2, <1>4
  <2> QED BY <1>1, <1>2, <1>3, <2>1, <2>3, <2>4, <2>5, <2>6 DEF BlockInv
<1>8. pc' \notin Groups /\ pc' # "wrapper" BY <1>1 DEF Groups
<1> QED BY <1>6, <1>7, <1>8 DEF WrapperInv, GroupInv

LEMMA StutterTypes == ASSUME TInv, UNCHANGED vars PROVE TInv'
<1> USE DEF TInv
<1>1. UNCHANGED inputs BY DEF vars
<1>2. /\ pc' = pc /\ i_batch' = i_batch /\ i_out_y' = i_out_y /\ i_out_x' = i_out_x
      /\ ch' = ch /\ offset' = offset /\ buffer' = buffer /\ lhs_buffer' = lhs_buffer
      /\ buffer_count' = buffer_count /\ i_buf' = i_buf /\ out' = out /\ output' = output
  BY DEF vars, pixel, lhs
<1>3. /\ layer' = layer /\ build' = build /\ ctx_buf' = ctx_buf
      /\ OutCh' = OutCh /\ KernelSize' = KernelSize /\ ImagePixels' = ImagePixels
      /\ Outputs' = Outputs /\ BufferLength' = BufferLength /\ WindowLength' = WindowLength
      /\ Undilated' = Undilated /\ Is3x3' = Is3x3
  BY <1>1, Fixed
<1>4. /\ Pix' = Pix /\ Seen' = Seen /\ Flushed' = Flushed /\ ActiveCh' = ActiveCh
      /\ Flat(i_batch, i_out_y, i_out_x)' = Flat(i_batch, i_out_y, i_out_x)
  BY <1>2, <1>3 DEF Pix, Seen, Flushed, ActiveCh, Flat
<1>5. TypeOK' BY <1>2, <1>3 DEF TypeOK
<1>6. WrapperInv' BY <1>2 DEF WrapperInv
<1>7. GroupInv' BY <1>2, <1>3, <1>4 DEF GroupInv
<1>8. BlockInv' BY <1>2, <1>3, <1>4 DEF BlockInv
<1> QED BY <1>5, <1>6, <1>7, <1>8

LEMMA InitTypes == Init => TInv
<1> SUFFICES ASSUME Init PROVE TInv
  OBVIOUS
<1>1. layer \in Layers BY DEF Init
<1>2. /\ layer.n \in Nat \ {0} /\ layer.oh \in Nat \ {0} /\ layer.ow \in Nat \ {0}
      /\ layer.kh \in Nat /\ layer.kw \in Nat
  BY <1>1, DwLayersAssumption
<1>3. CH_IN_BLOCK_MVE \in Nat \ {0} BY DwBlockAssumption
<1>4. /\ 0 \in 0 .. layer.n /\ 0 \in 0 .. layer.oh - 1 /\ 0 \in 0 .. layer.ow - 1
      /\ 0 \in 0 .. CH_IN_BLOCK_MVE - 1
  BY <1>2, <1>3
<1>5. 0 \in 0 .. 3 * KernelSize * CH_IN_BLOCK_MVE
  <2>1. KernelSize \in Nat BY <1>2 DEF KernelSize
  <2>2. 3 * KernelSize * CH_IN_BLOCK_MVE \in Nat BY <1>3, <2>1
  <2> QED BY <2>2
<1>6. TypeOK BY <1>4, <1>5 DEF Init, TypeOK, Stale
<1>7. WrapperInv /\ GroupInv /\ BlockInv
  BY DEF Init, WrapperInv, GroupInv, BlockInv, Groups, Blocks
<1> QED BY <1>6, <1>7 DEF TInv

LEMMA Types == Spec => []TInv
<1>1. TInv /\ [Next]_vars => TInv'
  BY DispatchTypes, Group3x3Types, GroupMult4Types, GroupGenericTypes, Im2colTypes,
     FlushTypes, LeftoverTypes, EndBlockTypes, StutterTypes DEF Next
<1> QED BY InitTypes, <1>1, PTL DEF Spec

\* For every layer, in every build and whichever kernel runs, the four windows
\* stay in the scratch buffer and no result is stored behind the output tensor,
\* not even by the leftover loop, whose output pointer is off in later blocks.
THEOREM TypeCorrect == Spec => []TypeOK
<1>1. TInv => TypeOK BY DEF TInv
<1> QED BY <1>1, Types, PTL

-----------------------------------------------------------------------------
(***************************************************************************)
(* Windows                                                                 *)
(***************************************************************************)

\* The clipped kernel elements are those that fall on the input.
LEMMA ClipIs ==
  ASSUME NEW base \in Int, NEW k \in Nat, NEW size \in Nat, NEW d \in Nat \ {0}
  PROVE  Clip(base, k, size, d) = {e \in 0 .. k - 1 : base + d * e \in 0 .. size - 1}
<1> DEFINE a == d - 1 - base
           b == size - base + d - 1
           from == a \div d
           to == b \div d
<1>1. /\ from \in Int /\ to \in Int /\ (a % d) \in 0 .. d - 1 /\ (b % d) \in 0 .. d - 1
      /\ a = from * d + (a % d) /\ b = to * d + (b % d)
  <2>1. a \in Int /\ b \in Int OBVIOUS
  <2> HIDE DEF a, b
  <2> QED BY <2>1
<1>2. ASSUME NEW x \in Int, NEW y \in Int, x < y
      PROVE  x * d + d <= y * d
  <2>1. PICK z \in Nat : y = x + 1 + z
    <3>1. y - x - 1 \in Nat /\ y = x + 1 + (y - x - 1) BY <1>2
    <3> QED BY <3>1
  <2>2. y * d = x * d + d + z * d BY <2>1
  <2>3. z * d >= 0 /\ x * d \in Int /\ y * d \in Int /\ z * d \in Int OBVIOUS
  <2> QED BY <2>2, <2>3
<1>3. a = d - 1 - base /\ b = size - base + d - 1 OBVIOUS
<1>4. Clip(base, k, size, d)
        = (IF 0 > from THEN 0 ELSE from) .. (IF k < to THEN k ELSE to) - 1
  BY DEF Clip, Larger, Smaller
<1> HIDE DEF a, b, from, to
<1>5. ASSUME NEW e \in Nat
      PROVE  /\ e >= from <=> base + d * e >= 0
             /\ e < to <=> base + d * e <= size - 1
  <2>1. d * e = e * d /\ e * d \in Int /\ from * d \in Int /\ to * d \in Int BY <1>1
  <2>2. PICK p \in Int, f \in Int, t \in Int : p = e * d /\ f = from * d /\ t = to * d
    BY <2>1
  <2>3. PICK g \in 0 .. d - 1, h \in 0 .. d - 1 : g = a % d /\ h = b % d BY <1>1
  <2>4. d - 1 - base = f + g /\ size - base + d - 1 = t + h BY <1>1, <1>3, <2>2, <2>3
  <2>5. e < from => p + d <= f BY <1>1, <1>2, <2>2
  <2>6. from < e => f + d <= p BY <1>1, <1>2, <2>2
  <2>7. from = e => f = p BY <2>2
  <2>8. e < to => p + d <= t BY <1>1, <1>2, <2>2
  <2>9. to < e => t + d <= p BY <1>1, <1>2, <2>2
  <2>10. to = e => t = p BY <2>2
  <2>11. e >= from <=> base + p >= 0
    <3>1. e < from => ~(base + p >= 0) BY <2>4, <2>5
    <3>2. from < e => base + p >= 0 BY <2>4, <2>6
    <3>3. from = e => base + p >= 0 BY <2>4, <2>7
    <3> QED BY <1>1, <3>1, <3>2, <3>3
  <2>12. e < to <=> base + p <= size - 1
    <3>1. e < to => base + p <= size - 1 BY <2>4, <2>8
    <3>2. to < e => ~(base + p <= size - 1) BY <2>4, <2>9
    <3>3. to = e => ~(base + p <= size - 1) BY <2>4, <2>10
    <3> QED BY <1>1, <3>1, <3>2, <3>3
  <2> QED BY <2>1, <2>2, <2>11, <2>12
<1>6. \A e \in Nat : d * e \in Int OBVIOUS
<1>7. ASSUME NEW e \in Clip(base, k, size, d)
      PROVE  e \in 0 .. k - 1 /\ base + d * e \in 0 .. size - 1
  <2>0. from \in Int /\ to \in Int BY <1>1
  <2>1. e \in Nat /\ e >= from /\ e < to /\ e < k BY <1>4, <2>0
  <2> QED BY <1>5, <1>6, <2>1
<1>8. ASSUME NEW e \in 0 .. k - 1, base + d * e \in 0 .. size - 1
      PROVE  e \in Clip(base, k, size, d)
  <2>1. e \in Nat /\ e < k OBVIOUS
  <2>2. e >= from /\ e < to BY <1>5, <1>6, <1>8, <2>1
  <2> QED BY <1>1, <1>4, <2>1, <2>2
<1> QED BY <1>7, <1>8

Pixel(b, y, x, c) == [batch |-> b, y |-> y, x |-> x, ch |-> c]

\* Rows and columns of the kernel that fall on the input in the current window.
RowsIn    == {k \in 0 .. layer.kh - 1 : BaseY + layer.dy * k \in 0 .. layer.ih - 1}
ColumnsIn == {k \in 0 .. layer.kw - 1 : BaseX + layer.dx * k \in 0 .. layer.iw - 1}

LEMMA ClipsIn ==
  ASSUME TypeOK
  PROVE  ClipY = RowsIn /\ ClipX = ColumnsIn
<1>1. /\ layer.kh \in Nat /\ layer.kw \in Nat /\ layer.ih \in Nat /\ layer.iw \in Nat
      /\ layer.dy \in Nat \ {0} /\ layer.dx \in Nat \ {0}
  BY Sizes
<1>2. PICK y \in Int, x \in Int : y = BaseY /\ x = BaseX BY Bases
<1>3. PICK kh \in Nat, ih \in Nat, dy \in Nat \ {0} :
        kh = layer.kh /\ ih = layer.ih /\ dy = layer.dy
  BY <1>1
<1>4. PICK kw \in Nat, iw \in Nat, dx \in Nat \ {0} :
        kw = layer.kw /\ iw = layer.iw /\ dx = layer.dx
  BY <1>1
<1>5. Clip(y, kh, ih, dy) = {e \in 0 .. kh - 1 : y + dy * e \in 0 .. ih - 1} BY ClipIs
<1>6. Clip(x, kw, iw, dx) = {e \in 0 .. kw - 1 : x + dx * e \in 0 .. iw - 1} BY ClipIs
<1>7. ClipY = RowsIn BY <1>2, <1>3, <1>5 DEF ClipY, RowsIn
<1>8. ClipX = ColumnsIn BY <1>2, <1>4, <1>6 DEF ClipX, ColumnsIn
<1> QED BY <1>7, <1>8

\* The middle column is always inside in the layers that reach the 3x3 kernel.
LEMMA ColumnsIn3x3 ==
  ASSUME TInv, FittingLayers, pc = "3x3"
  PROVE  Columns3x3 = ColumnsIn /\ layer.bias
<1> USE DEF TInv
<1>1. /\ build # "vector" /\ layer.kw = 3 /\ layer.kh = 3 /\ layer.py <= 1 /\ layer.px <= 1
      /\ layer.mult = 1 /\ layer.n = 1 /\ layer.dx = 1 /\ layer.dy = 1
  BY DEF GroupInv, Groups, Is3x3, Undilated
<1>2. layer.bias /\ (layer.ow - 1) * layer.sx - layer.px + 1 < layer.iw
  <2>1. layer \in Layers /\ build \in Builds BY DEF TypeOK
  <2>2. Builds # {"vector"} BY <1>1, <2>1
  <2> QED BY <1>1, <2>1, <2>2 DEF FittingLayers
<1>3. /\ layer.ow \in Nat \ {0} /\ layer.sx \in Nat /\ layer.px \in Nat /\ layer.iw \in Nat
      /\ i_out_x \in Nat /\ i_out_x < layer.ow
  BY Sizes, Counters
<1>4. i_out_x * layer.sx <= (layer.ow - 1) * layer.sx
  <2>1. layer.ow - 1 \in Nat /\ i_out_x <= layer.ow - 1 BY <1>3
  <2> QED BY <1>3, <2>1, Monotone
<1>5. PICK p \in Nat, m \in Int :
        p = i_out_x * layer.sx /\ m = (layer.ow - 1) * layer.sx
  <2>1. i_out_x * layer.sx \in Nat /\ (layer.ow - 1) * layer.sx \in Int BY <1>3
  <2> QED BY <2>1
<1>6. layer.sx * i_out_x = p BY <1>3, <1>5
<1>7. PICK base \in Int : base = BaseX BY Bases
<1>8. base = p - layer.px /\ base + 1 < layer.iw /\ base >= -1
  <2>1. base = p - layer.px BY <1>6, <1>7 DEF BaseX
  <2>2. p <= m /\ m - layer.px + 1 < layer.iw BY <1>2, <1>4, <1>5
  <2> QED BY <1>1, <1>3, <2>1, <2>2
<1>9. Columns3x3 = (IF base >= 0 THEN {0} ELSE {}) \cup {1}
                     \cup (IF layer.iw - base >= 3 THEN {2} ELSE {})
  BY <1>7 DEF Columns3x3
<1>10. ColumnsIn = {k \in 0 .. 2 : base + k \in 0 .. layer.iw - 1}
  <2>1. \A k \in 0 .. 2 : 1 * k = k OBVIOUS
  <2> QED BY <1>1, <1>7, <2>1 DEF ColumnsIn
<1>11. \A k \in 0 .. 2 : base + k \in 0 .. layer.iw - 1 <=> k \in Columns3x3
  BY <1>3, <1>8, <1>9
<1>12. Columns3x3 \subseteq 0 .. 2 BY <1>9
<1> QED BY <1>2, <1>10, <1>11, <1>12

-----------------------------------------------------------------------------
(***************************************************************************)
(* What a step does to the output                                          *)
(***************************************************************************)
\* The elements of an output are its fields, and they are in range.
LEMMA OutputFields ==
  ASSUME TypeOK, NEW o \in Conv!Outputs
  PROVE  /\ o.batch \in 0 .. layer.n - 1 /\ o.y \in 0 .. layer.oh - 1
         /\ o.x \in 0 .. layer.ow - 1 /\ o.ch \in 0 .. OutCh - 1
         /\ o.batch \in Nat /\ o.y \in Nat /\ o.x \in Nat /\ o.ch \in Nat
         /\ o = Pixel(o.batch, o.y, o.x, o.ch)
<1>1. layer.n \in Nat /\ layer.oh \in Nat /\ layer.ow \in Nat /\ OutCh \in Nat
  BY Sizes, Counts
<1>2. o \in [batch : 0 .. layer.n - 1, y : 0 .. layer.oh - 1,
             x : 0 .. layer.ow - 1, ch : 0 .. OutCh - 1]
  BY DEF Conv!Outputs, Conv!OutCh, OutCh
<1>3. /\ o.batch \in 0 .. layer.n - 1 /\ o.y \in 0 .. layer.oh - 1
      /\ o.x \in 0 .. layer.ow - 1 /\ o.ch \in 0 .. OutCh - 1
  BY <1>2
<1>4. o = Pixel(o.batch, o.y, o.x, o.ch) BY <1>2 DEF Pixel
<1> QED BY <1>1, <1>3, <1>4

LEMMA IndexBound ==
  ASSUME TypeOK, NEW o \in Conv!Outputs
  PROVE  Index(o) \in 0 .. Outputs - 1 /\ Flat(o.batch, o.y, o.x) \in 0 .. layer.n * ImagePixels - 1
<1>1. /\ layer.n * ImagePixels \in Nat /\ OutCh \in Nat
      /\ Outputs = (layer.n * ImagePixels) * OutCh
  BY Counts
<1>2. o.batch \in 0 .. layer.n - 1 /\ o.y \in 0 .. layer.oh - 1
      /\ o.x \in 0 .. layer.ow - 1 /\ o.ch \in 0 .. OutCh - 1
  BY OutputFields
<1>3. Flat(o.batch, o.y, o.x) \in 0 .. layer.n * ImagePixels - 1 BY <1>2, FlatBound
<1>4. PICK p \in 0 .. layer.n * ImagePixels - 1, c \in 0 .. OutCh - 1, m \in Nat, k \in Nat :
        /\ p = Flat(o.batch, o.y, o.x) /\ c = o.ch /\ m = layer.n * ImagePixels /\ k = OutCh
  BY <1>1, <1>2, <1>3
<1>5. p * k + c \in 0 .. m * k - 1 BY <1>4, RowMajorBound
<1> QED BY <1>1, <1>3, <1>4, <1>5 DEF Index

\* A pixel has one place.
LEMMA FlatUnique ==
  ASSUME TypeOK, NEW b \in Nat, NEW y \in 0 .. layer.oh - 1, NEW x \in 0 .. layer.ow - 1,
         NEW b2 \in Nat, NEW y2 \in 0 .. layer.oh - 1, NEW x2 \in 0 .. layer.ow - 1,
         Flat(b, y, x) = Flat(b2, y2, x2)
  PROVE  b = b2 /\ y = y2 /\ x = x2
<1>1. layer.oh \in Nat \ {0} /\ layer.ow \in Nat \ {0} BY Sizes
<1>2. PICK oh \in Nat \ {0}, ow \in Nat \ {0} : oh = layer.oh /\ ow = layer.ow BY <1>1
<1>3. PICK r \in Nat, r2 \in Nat : r = b * oh + y /\ r2 = b2 * oh + y2
  <2>1. b * oh + y \in Nat /\ b2 * oh + y2 \in Nat BY <1>2
  <2> QED BY <2>1
<1>4. r * ow + x = r2 * ow + x2 BY <1>2, <1>3 DEF Flat
<1>5. x \in 0 .. ow - 1 /\ x2 \in 0 .. ow - 1 /\ y \in 0 .. oh - 1 /\ y2 \in 0 .. oh - 1
  BY <1>2
<1>6. r = r2 /\ x = x2 BY <1>4, <1>5, RowMajorUnique
<1>7. b * oh + y = b2 * oh + y2 BY <1>3, <1>6
<1>8. b = b2 /\ y = y2 BY <1>5, <1>7, RowMajorUnique
<1> QED BY <1>6, <1>8

LEMMA IndexUnique ==
  ASSUME TypeOK, NEW o \in Conv!Outputs,
         NEW b \in Nat, NEW y \in 0 .. layer.oh - 1, NEW x \in 0 .. layer.ow - 1,
         NEW c \in 0 .. OutCh - 1, Index(o) = Flat(b, y, x) * OutCh + c
  PROVE  o = Pixel(b, y, x, c)
<1>1. /\ o.batch \in Nat /\ o.y \in 0 .. layer.oh - 1 /\ o.x \in 0 .. layer.ow - 1
      /\ o.ch \in 0 .. OutCh - 1 /\ o = Pixel(o.batch, o.y, o.x, o.ch)
  BY OutputFields
<1>2. layer.oh \in Nat /\ layer.ow \in Nat BY Sizes
<1>3. Flat(b, y, x) \in Nat /\ Flat(o.batch, o.y, o.x) \in Nat
  <2>1. y \in Nat /\ x \in Nat /\ o.y \in Nat /\ o.x \in Nat BY <1>1, <1>2
  <2> QED BY <1>1, <2>1, FlatNext
<1>4. PICK p \in Nat, p2 \in Nat, c2 \in 0 .. OutCh - 1, k \in Nat \ {0} :
        /\ p = Flat(b, y, x) /\ p2 = Flat(o.batch, o.y, o.x) /\ c2 = o.ch /\ k = OutCh
  BY <1>1, <1>3, Counts
<1>5. p2 * k + c2 = p * k + c BY <1>4 DEF Index
<1>6. c \in 0 .. k - 1 /\ c2 \in 0 .. k - 1 BY <1>4
<1>7. p2 = p /\ c2 = c BY <1>5, <1>6, RowMajorUnique
<1>8. o.batch = b /\ o.y = y /\ o.x = x
  <2>1. PICK b2 \in Nat, y2 \in 0 .. layer.oh - 1, x2 \in 0 .. layer.ow - 1 :
          b2 = o.batch /\ y2 = o.y /\ x2 = o.x
    BY <1>1
  <2>2. Flat(b2, y2, x2) = Flat(b, y, x) BY <1>4, <1>7, <2>1
  <2>3. b2 = b /\ y2 = y /\ x2 = x BY <2>2, FlatUnique
  <2> QED BY <2>1, <2>3
<1> QED BY <1>1, <1>4, <1>7, <1>8

\* A step that leaves the output alone.
LEMMA Quiet ==
  ASSUME UNCHANGED inputs, output' = output
  PROVE  StepRefines
<1>1. layer' = layer /\ OutCh' = OutCh BY Fixed
<1> QED BY <1>1 DEF StepRefines, Conv!vars

\* A step that stores values of the convolution where there are none.
LEMMA Storing ==
  ASSUME TypeOK, UNCHANGED inputs, NEW results, Store(results),
         \A e \in DOMAIN results : output[e] = Undefined,
         \A o \in Conv!Outputs : Index(o) \in DOMAIN results => results[Index(o)] = Conv!Value(o)
  PROVE  StepRefines
<1>1. layer' = layer /\ OutCh' = OutCh BY Fixed
<1>2. output \in [0 .. Outputs - 1 -> Results \cup {Undefined}] BY DEF TypeOK
<1>3. ASSUME NEW o \in Conv!Outputs
      PROVE  \/ output'[Index(o)] = output[Index(o)]
             \/ output[Index(o)] = Undefined /\ output'[Index(o)] = Conv!Value(o)
  <2>1. PICK e : e = Index(o) OBVIOUS
  <2>2. e \in DOMAIN output BY <1>2, <2>1, IndexBound
  <2>3. output'[e] = IF e \in DOMAIN results THEN results[e] ELSE output[e]
    BY <2>2 DEF Store
  <2> QED BY <2>1, <2>3
<1>4. Conv!Compute
  <2>1. \A o \in Conv!Outputs :
          Index(o) = ((o.batch * layer.oh + o.y) * layer.ow + o.x) * OutCh + o.ch
    BY DEF Index, Flat
  <2>2. Conv!Outputs = [batch : 0 .. layer.n - 1, y : 0 .. layer.oh - 1,
                        x : 0 .. layer.ow - 1, ch : 0 .. OutCh - 1]
    BY DEF Conv!Outputs, Conv!OutCh, OutCh
  <2> QED BY <1>1, <1>3, <2>1, <2>2 DEF Conv!Compute
<1> QED BY <1>4 DEF StepRefines

-----------------------------------------------------------------------------
(***************************************************************************)
(* The kernels without vectors                                             *)
(***************************************************************************)

\* The products of a group are those of the convolution.
LEMMA ProductsAre ==
  ASSUME TypeOK, NEW o, o.batch = i_batch, o.y = i_out_y, o.x = i_out_x
  PROVE  Products(RowsIn, ColumnsIn, o.ch \div layer.mult, o.ch) = Conv!Value(o).sum
<1>1. /\ layer.ih \in Nat /\ layer.iw \in Nat /\ layer.kh \in Nat /\ layer.kw \in Nat
      /\ layer.dy \in Nat /\ layer.dx \in Nat /\ i_batch \in Nat
      /\ BaseY \in Int /\ BaseX \in Int
  BY Sizes, Counters, Bases
<1>2. \A k : Conv!TapY(o, k) = BaseY + layer.dy * k[1] /\ Conv!TapX(o, k) = BaseX + layer.dx * k[2]
  BY DEF Conv!TapY, Conv!TapX, BaseY, BaseX
<1>3. Conv!Window(o) = RowsIn \X ColumnsIn
  <2>1. Conv!Window(o) = {k \in (0 .. layer.kh - 1) \X (0 .. layer.kw - 1) :
                            /\ BaseY + layer.dy * k[1] \in 0 .. layer.ih - 1
                            /\ BaseX + layer.dx * k[2] \in 0 .. layer.iw - 1}
    BY <1>2 DEF Conv!Window, Conv!Taps
  <2> QED BY <2>1 DEF RowsIn, ColumnsIn
<1>4. ASSUME NEW k \in RowsIn \X ColumnsIn
      PROVE  (i_batch * layer.ih + BaseY + layer.dy * k[1]) * layer.iw + BaseX + layer.dx * k[2]
               = (o.batch * layer.ih + Conv!TapY(o, k)) * layer.iw + Conv!TapX(o, k)
  <2>1. k[1] \in Nat /\ k[2] \in Nat BY <1>1 DEF RowsIn, ColumnsIn
  <2>2. PICK a \in Int, y \in Int, x \in Int :
          a = i_batch * layer.ih /\ y = layer.dy * k[1] /\ x = layer.dx * k[2]
    <3>1. i_batch * layer.ih \in Int /\ layer.dy * k[1] \in Int /\ layer.dx * k[2] \in Int
      BY <1>1, <2>1
    <3> QED BY <3>1
  <2>3. PICK by \in Int, bx \in Int : by = BaseY /\ bx = BaseX BY <1>1
  <2>4. PICK r \in Int : r = a + by + y OBVIOUS
  <2>5. a + (by + y) = r BY <2>4
  <2>6. r * layer.iw \in Int BY <1>1
  <2>7. PICK s \in Int : s = r * layer.iw BY <2>6
  <2>8. s + bx + x = s + (bx + x) OBVIOUS
  <2>9. Conv!TapY(o, k) = by + y /\ Conv!TapX(o, k) = bx + x BY <1>2, <2>2, <2>3
  <2>10. (i_batch * layer.ih + BaseY + layer.dy * k[1]) * layer.iw + BaseX + layer.dx * k[2]
           = s + bx + x
    BY <2>2, <2>3, <2>4, <2>7
  <2>11. (o.batch * layer.ih + Conv!TapY(o, k)) * layer.iw + Conv!TapX(o, k) = s + (bx + x)
    BY <2>2, <2>5, <2>7, <2>9
  <2> QED BY <2>8, <2>10, <2>11
<1>5. Conv!Value(o).sum =
        {<<(k[1] * layer.kw + k[2]) * OutCh + o.ch,
           ((o.batch * layer.ih + Conv!TapY(o, k)) * layer.iw + Conv!TapX(o, k)) * layer.c
             + (o.ch \div layer.mult)>> : k \in RowsIn \X ColumnsIn}
  BY <1>3 DEF Conv!Value, Conv!OutCh, OutCh
<1> QED BY <1>4, <1>5 DEF Products

LEMMA GroupValue ==
  ASSUME TypeOK, NEW c, NEW unbiased, layer.bias \/ unbiased = NoBias
  PROVE  GroupResult(c, RowsIn, ColumnsIn, unbiased)
           = Conv!Value(Pixel(i_batch, i_out_y, i_out_x, c))
<1>1. PICK o : o = Pixel(i_batch, i_out_y, i_out_x, c) OBVIOUS
<1>2. o.batch = i_batch /\ o.y = i_out_y /\ o.x = i_out_x /\ o.ch = c BY <1>1 DEF Pixel
<1>3. Products(RowsIn, ColumnsIn, c \div layer.mult, c) = Conv!Value(o).sum
  BY <1>2, ProductsAre
<1>4. Conv!Value(o).quant = c /\ Conv!Value(o).bias = IF layer.bias THEN c ELSE NoBias
  BY <1>2 DEF Conv!Value
<1>5. Conv!Value(o) = [quant |-> Conv!Value(o).quant, bias |-> Conv!Value(o).bias,
                       sum |-> Conv!Value(o).sum]
  BY DEF Conv!Value
<1>6. (IF layer.bias THEN c ELSE unbiased) = (IF layer.bias THEN c ELSE NoBias) OBVIOUS
<1> QED BY <1>1, <1>3, <1>4, <1>5, <1>6 DEF GroupResult

\* A group of the right rows and columns computes elements nobody has computed.
LEMMA GroupRefines ==
  ASSUME RInv, pc \in Groups, NEW width \in Nat \ {0}, ch + width <= OutCh,
         pc = "mult_4" => width = 4, NEW unbiased \in Int, layer.bias \/ unbiased = NoBias,
         Group(width, RowsIn, ColumnsIn, unbiased)
  PROVE  RInv' /\ StepRefines
<1> USE DEF RInv, Fresh, Done
<1>1. TypeOK /\ TInv BY DEF TInv
<1>2. UNCHANGED inputs /\ out' = out + width BY DEF Group
<1>3. PICK rows \in SUBSET Nat, columns \in SUBSET Nat : rows = RowsIn /\ columns = ColumnsIn
  BY <1>1, Bases, ClipsIn
<1>4. Group(width, rows, columns, unbiased) BY <1>3
<1>5. TInv' BY <1>1, <1>4, GroupStep
<1>6. /\ pc' \in Groups \cup {"return"} /\ out + width <= Outputs
      /\ pc' = "return" => out' = Outputs
  BY <1>1, <1>4, GroupMoves
<1>7. /\ OutCh \in Nat \ {0} /\ Outputs \in Nat /\ ch \in Nat /\ out \in Nat
      /\ i_batch \in Nat /\ i_out_y \in 0 .. layer.oh - 1 /\ i_out_x \in 0 .. layer.ow - 1
      /\ layer.oh \in Nat /\ layer.ow \in Nat
  BY <1>1, Counts, Counters, Sizes DEF TypeOK
<1>8. PICK results : results = [e \in out .. out + width - 1 |->
         GroupResult(ch + e - out, RowsIn, ColumnsIn, unbiased)]
  OBVIOUS
<1>9. Store(results) BY <1>8 DEF Group, GroupResult
<1>10. DOMAIN results = out .. out + width - 1 BY <1>8
<1>11. out = Flat(i_batch, i_out_y, i_out_x) * OutCh + ch BY <1>1 DEF TInv, GroupInv
<1>12. \A e \in 0 .. Outputs - 1 : e >= out => output[e] = Undefined BY DEF GroupFresh
<1>13. ASSUME NEW e \in DOMAIN results PROVE output[e] = Undefined
  BY <1>6, <1>7, <1>10, <1>12
<1>14. ASSUME NEW o \in Conv!Outputs, Index(o) \in DOMAIN results
       PROVE  results[Index(o)] = Conv!Value(o)
  <2>1. PICK e \in out .. out + width - 1 : e = Index(o) BY <1>10, <1>14
  <2>2. PICK p \in Nat : p = Flat(i_batch, i_out_y, i_out_x)
    <3>1. i_out_y \in Nat /\ i_out_x \in Nat BY <1>7
    <3>2. Flat(i_batch, i_out_y, i_out_x) \in Nat BY <1>1, <1>7, <3>1, FlatNext
    <3> QED BY <3>2
  <2>3. PICK c \in 0 .. OutCh - 1 : c = ch + e - out BY <1>7, <2>1
  <2>4. p * OutCh \in Nat BY <1>7
  <2>5. out = p * OutCh + ch BY <1>11, <2>2
  <2>6. e = p * OutCh + c BY <1>7, <2>1, <2>3, <2>4, <2>5
  <2>7. PICK b \in Nat, y \in 0 .. layer.oh - 1, x \in 0 .. layer.ow - 1 :
          b = i_batch /\ y = i_out_y /\ x = i_out_x
    BY <1>7
  <2>8. Index(o) = Flat(b, y, x) * OutCh + c BY <2>1, <2>2, <2>6, <2>7
  <2>9. o = Pixel(b, y, x, c) BY <1>1, <2>8, IndexUnique
  <2>10. results[e] = GroupResult(c, RowsIn, ColumnsIn, unbiased) BY <1>8, <2>1, <2>3
  <2>11. GroupResult(c, RowsIn, ColumnsIn, unbiased)
           = Conv!Value(Pixel(i_batch, i_out_y, i_out_x, c))
    BY <1>1, GroupValue
  <2> QED BY <2>1, <2>7, <2>9, <2>10, <2>11
<1>15. StepRefines BY <1>1, <1>2, <1>9, <1>13, <1>14, Storing
<1>16. GroupFresh'
  <2>1. Outputs' = Outputs BY <1>2, Fixed
  <2>2. output \in [0 .. Outputs - 1 -> Results \cup {Undefined}] BY <1>1 DEF TypeOK
  <2>3. ASSUME NEW e \in 0 .. Outputs - 1, e >= out + width
        PROVE  output'[e] = Undefined
    <3>1. e \notin DOMAIN results /\ e >= out BY <1>7, <1>10, <2>3
    <3>2. output'[e] = output[e] BY <1>9, <2>2, <3>1 DEF Store
    <3> QED BY <1>12, <3>1, <3>2
  <2> QED BY <1>2, <2>1, <2>3 DEF GroupFresh
<1>17. ChannelInv' /\ WindowInv' /\ WrapperFresh' /\ BlockFresh'
  BY <1>6 DEF ChannelInv, WindowInv, WrapperFresh, BlockFresh, Groups, Blocks
<1>18. ASSUME NEW o \in Conv!Outputs, Index(o) < out + width
       PROVE  output'[Index(o)] = Conv!Value(o)
  <2>1. PICK e \in 0 .. Outputs - 1 : e = Index(o) BY <1>1, IndexBound
  <2>2. output \in [0 .. Outputs - 1 -> Results \cup {Undefined}] BY <1>1 DEF TypeOK
  <2>3. output'[e] = IF e \in DOMAIN results THEN results[e] ELSE output[e]
    BY <1>9, <2>1, <2>2 DEF Store
  <2>4. CASE e \in DOMAIN results BY <1>14, <2>1, <2>3, <2>4
  <2>5. CASE e \notin DOMAIN results
    <3>1. e < out BY <1>7, <1>10, <1>18, <2>1, <2>5
    <3>2. output[Index(o)] = Conv!Value(o) BY <2>1, <3>1 DEF GroupDone
    <3> QED BY <2>1, <2>3, <2>5, <3>2
  <2> QED BY <2>4, <2>5
<1>19. GroupDone' BY <1>2, <1>18, FixedValues DEF GroupDone
<1>20. ReturnDone'
  <2> SUFFICES ASSUME pc' = "return", NEW o \in Conv!Outputs
               PROVE  output'[Index(o)] = Conv!Value(o)
    BY <1>2, FixedValues DEF ReturnDone
  <2>1. Index(o) < out + width BY <1>1, <1>2, <1>6, <1>7, IndexBound
  <2> QED BY <1>18, <2>1
<1>21. BlockDone' BY <1>6 DEF BlockDone, Groups, Blocks
<1> QED BY <1>5, <1>15, <1>16, <1>17, <1>19, <1>20, <1>21

LEMMA Group3x3Step == ASSUME RInv, FittingLayers, Group3x3 PROVE RInv' /\ StepRefines
<1>1. TInv /\ TypeOK BY DEF RInv, TInv
<1>2. pc \in Groups /\ pc = "3x3" BY DEF Group3x3, Groups
<1>3. ch \in Nat /\ OutCh \in Nat BY <1>1, Counters, Counts
<1>4. PICK width \in Nat \ {0} : width = IF ch <= OutCh - 4 THEN 4 ELSE 1 OBVIOUS
<1>5. ch + width <= OutCh BY <1>1, <1>2, <1>3, <1>4, Widths
<1>6. PICK unbiased \in Int : unbiased = Wild BY DEF Wild
<1>7. ClipY = RowsIn /\ Columns3x3 = ColumnsIn /\ layer.bias
  BY <1>1, <1>2, ClipsIn, ColumnsIn3x3
<1>8. Group(width, RowsIn, ColumnsIn, unbiased) BY <1>4, <1>6, <1>7 DEF Group3x3
<1> QED BY <1>2, <1>5, <1>7, <1>8, GroupRefines

LEMMA GroupMult4Step == ASSUME RInv, GroupMult4 PROVE RInv' /\ StepRefines
<1>1. TInv /\ TypeOK BY DEF RInv, TInv
<1>2. pc \in Groups /\ pc = "mult_4" BY DEF GroupMult4, Groups
<1>3. PICK width \in Nat \ {0} : width = 4 OBVIOUS
<1>4. ch + width <= OutCh BY <1>1, <1>2, <1>3, Widths
<1>5. PICK unbiased \in Int : unbiased = NoBias BY DEF NoBias
<1>6. Group(width, RowsIn, ColumnsIn, unbiased)
  BY <1>1, <1>3, <1>5, ClipsIn DEF GroupMult4
<1> QED BY <1>2, <1>3, <1>4, <1>5, <1>6, GroupRefines

LEMMA GroupGenericStep == ASSUME RInv, GroupGeneric PROVE RInv' /\ StepRefines
<1>1. TInv /\ TypeOK BY DEF RInv, TInv
<1>2. pc \in Groups /\ pc # "mult_4" BY DEF GroupGeneric, Groups
<1>3. PICK width \in Nat \ {0} : width = 1 OBVIOUS
<1>4. ch + width <= OutCh BY <1>1, <1>2, <1>3, Widths
<1>5. PICK unbiased \in Int : unbiased = NoBias BY DEF NoBias
<1>6. Group(width, RowsIn, ColumnsIn, unbiased)
  BY <1>1, <1>3, <1>5, ClipsIn DEF GroupGeneric
<1> QED BY <1>2, <1>4, <1>5, <1>6, GroupRefines

-----------------------------------------------------------------------------
(***************************************************************************)
(* The windows of the vector code                                          *)
(***************************************************************************)

\* The words of a window that are not padding are those of the kernel elements
\* that fall on the input.
LEMMA TapSumIs ==
  ASSUME TypeOK, layer.mult = 1, Undilated, NEW q \in Nat, NEW c \in Nat
  PROVE  TapSum(q, c) = Conv!Value(Pixel(0, q \div layer.ow, q % layer.ow, c)).sum
<1>1. /\ layer.ih \in Nat /\ layer.iw \in Nat /\ layer.kh \in Nat /\ layer.kw \in Nat \ {0}
      /\ layer.ow \in Nat \ {0} /\ layer.sy \in Nat /\ layer.sx \in Nat
      /\ layer.py \in Nat /\ layer.px \in Nat /\ layer.c \in Nat
      /\ KernelSize = layer.kh * layer.kw /\ layer.dy = 1 /\ layer.dx = 1
      /\ OutCh = layer.c
  BY Sizes DEF KernelSize, Undilated, OutCh
<1>2. PICK yy \in Int, xx \in Int : yy = q \div layer.ow /\ xx = q % layer.ow
  <2>1. PICK ow \in Nat \ {0} : ow = layer.ow BY <1>1
  <2>2. q \div ow \in Int /\ q % ow \in Int OBVIOUS
  <2> QED BY <2>1, <2>2
<1>3. PICK by \in Int, bx \in Int :
        by = layer.sy * yy - layer.py /\ bx = layer.sx * xx - layer.px
  <2>1. layer.sy * yy \in Int /\ layer.sx * xx \in Int BY <1>1, <1>2
  <2>2. layer.sy * yy - layer.py \in Int /\ layer.sx * xx - layer.px \in Int BY <1>1, <2>1
  <2> QED BY <2>2
<1>4. PICK o : o = Pixel(0, yy, xx, c) OBVIOUS
<1>5. o.batch = 0 /\ o.y = yy /\ o.x = xx /\ o.ch = c BY <1>4 DEF Pixel
<1> DEFINE F(t) == <<(t[1] * layer.kw + t[2]) * layer.c + c,
                     ((by + t[1]) * layer.iw + (bx + t[2])) * layer.c + c>>
           In(t) == by + t[1] \in 0 .. layer.ih - 1 /\ bx + t[2] \in 0 .. layer.iw - 1
           Taps == (0 .. layer.kh - 1) \X (0 .. layer.kw - 1)
<1>6. \A t \in Taps : Conv!TapY(o, t) = by + t[1] /\ Conv!TapX(o, t) = bx + t[2]
  BY <1>1, <1>3, <1>5 DEF Conv!TapY, Conv!TapX
<1>7. Conv!Window(o) = {t \in Taps : In(t)}
  BY <1>6 DEF Conv!Window, Conv!Taps
<1>8. Conv!Value(o).sum = {F(t) : t \in {u \in Taps : In(u)}}
  <2>1. c \div layer.mult = c OBVIOUS
  <2>2. Conv!Value(o).sum =
          {<<(t[1] * layer.kw + t[2]) * layer.c + c,
             ((0 * layer.ih + Conv!TapY(o, t)) * layer.iw + Conv!TapX(o, t)) * layer.c + c>> :
             t \in Conv!Window(o)}
    BY <1>1, <1>5, <2>1 DEF Conv!Value, Conv!OutCh, OutCh
  <2>3. \A t \in Taps : 0 * layer.ih + Conv!TapY(o, t) = by + t[1] BY <1>1, <1>3, <1>6
  <2> QED BY <1>6, <1>7, <2>2, <2>3
<1>9. ASSUME NEW k \in 0 .. KernelSize - 1, NEW t \in Taps, t = <<k \div layer.kw, k % layer.kw>>,
             k = t[1] * layer.kw + t[2]
      PROVE  /\ Tap(q, k, c) # Padding <=> In(t)
             /\ In(t) => <<k * layer.c + c, Tap(q, k, c)>> = F(t)
  <2>1. t[1] = k \div layer.kw /\ t[2] = k % layer.kw /\ t[1] \in Nat /\ t[2] \in Nat BY <1>9, <1>1
  <2>2. PICK y \in Int, x \in Int : y = by + t[1] /\ x = bx + t[2] BY <1>3, <2>1
  <2>3. Tap(q, k, c) = IF y < 0 \/ y >= layer.ih \/ x < 0 \/ x >= layer.iw
                       THEN Padding ELSE (y * layer.iw + x) * layer.c + c
    BY <1>2, <1>3, <2>1, <2>2 DEF Tap
  <2>4. In(t) <=> y \in 0 .. layer.ih - 1 /\ x \in 0 .. layer.iw - 1 BY <2>2
  <2>5. In(t) <=> ~(y < 0 \/ y >= layer.ih \/ x < 0 \/ x >= layer.iw) BY <1>1, <2>4
  <2>6. In(t) => (y * layer.iw + x) * layer.c + c # Padding
    <3> SUFFICES ASSUME In(t) PROVE (y * layer.iw + x) * layer.c + c # Padding
      OBVIOUS
    <3>1. y \in Nat /\ x \in Nat BY <1>1, <2>4
    <3>2. y * layer.iw + x \in Nat BY <1>1, <3>1
    <3>3. (y * layer.iw + x) * layer.c \in Nat BY <1>1, <3>2
    <3> QED BY <3>3 DEF Padding
  <2>7. F(t) = <<k * layer.c + c, (y * layer.iw + x) * layer.c + c>> BY <1>9, <2>2
  <2> HIDE DEF F, In
  <2> QED BY <2>3, <2>5, <2>6, <2>7
<1>10. ASSUME NEW k \in 0 .. KernelSize - 1
       PROVE  \E t \in Taps : t = <<k \div layer.kw, k % layer.kw>> /\ k = t[1] * layer.kw + t[2]
  <2>1. PICK kh \in Nat, kw \in Nat \ {0} : kh = layer.kh /\ kw = layer.kw BY <1>1
  <2>2. k \in 0 .. kh * kw - 1 BY <1>1, <2>1
  <2>3. k \div kw \in 0 .. kh - 1 /\ k % kw \in 0 .. kw - 1 /\ k = (k \div kw) * kw + (k % kw)
    BY <2>2, RowMajorSplit
  <2>4. PICK r \in 0 .. kh - 1, s \in 0 .. kw - 1 : r = k \div kw /\ s = k % kw BY <2>3
  <2>5. PICK t : t = <<r, s>> OBVIOUS
  <2>6. t \in Taps /\ t[1] = r /\ t[2] = s BY <2>1, <2>4, <2>5
  <2>7. t = <<k \div layer.kw, k % layer.kw>> BY <2>1, <2>4, <2>5
  <2>8. k = t[1] * layer.kw + t[2] BY <2>1, <2>3, <2>4, <2>6
  <2> QED BY <2>6, <2>7, <2>8
<1>11. ASSUME NEW t \in Taps
       PROVE  \E k \in 0 .. KernelSize - 1 :
                t = <<k \div layer.kw, k % layer.kw>> /\ k = t[1] * layer.kw + t[2]
  <2>1. PICK kh \in Nat, kw \in Nat \ {0} : kh = layer.kh /\ kw = layer.kw BY <1>1
  <2>2. PICK r \in 0 .. kh - 1, s \in 0 .. kw - 1 : r = t[1] /\ s = t[2] /\ t = <<r, s>>
    BY <2>1
  <2>3. r * kw + s \in 0 .. kh * kw - 1 BY <2>1, RowMajorBound
  <2>4. r \in Int BY <2>1
  <2>5. (r * kw + s) % kw = s /\ (r * kw + s) \div kw = r BY <2>4, Euclid
  <2> QED BY <1>1, <2>1, <2>2, <2>3, <2>5
<1>12. TapSum(q, c) \subseteq {F(t) : t \in {u \in Taps : In(u)}}
  <2> HIDE DEF F, In, Taps
  <2> SUFFICES ASSUME NEW k \in 0 .. KernelSize - 1, Tap(q, k, c) # Padding
               PROVE  <<k * layer.c + c, Tap(q, k, c)>> \in {F(t) : t \in {u \in Taps : In(u)}}
    BY DEF TapSum
  <2> QED BY <1>9, <1>10
<1>13. {F(t) : t \in {u \in Taps : In(u)}} \subseteq TapSum(q, c)
  <2> HIDE DEF F, In, Taps
  <2> SUFFICES ASSUME NEW t \in Taps, In(t) PROVE F(t) \in TapSum(q, c)
    OBVIOUS
  <2>1. PICK k \in 0 .. KernelSize - 1 :
          t = <<k \div layer.kw, k % layer.kw>> /\ k = t[1] * layer.kw + t[2]
    BY <1>11
  <2>2. Tap(q, k, c) # Padding /\ F(t) = <<k * layer.c + c, Tap(q, k, c)>> BY <1>9, <2>1
  <2> QED BY <2>2 DEF TapSum
<1> QED BY <1>2, <1>4, <1>8, <1>12, <1>13

LEMMA ElementIs ==
  ASSUME TypeOK, layer.n = 1, layer.mult = 1, Undilated,
         NEW o \in Conv!Outputs, NEW p \in 0 .. ImagePixels - 1, NEW c \in 0 .. layer.c - 1,
         Index(o) = p * layer.c + c
  PROVE  Element(p, c) = Conv!Value(o)
<1>1. /\ layer.oh \in Nat /\ layer.ow \in Nat \ {0} /\ layer.c \in Nat /\ OutCh = layer.c
      /\ ImagePixels = layer.oh * layer.ow /\ ImagePixels \in Nat
  BY Sizes, Counts DEF ImagePixels, OutCh
<1>2. PICK oh \in Nat, ow \in Nat \ {0} : oh = layer.oh /\ ow = layer.ow BY <1>1
<1>3. p \in 0 .. oh * ow - 1 BY <1>1, <1>2
<1>4. p \div ow \in 0 .. oh - 1 /\ p % ow \in 0 .. ow - 1 /\ p = (p \div ow) * ow + (p % ow)
  BY <1>3, RowMajorSplit
<1>5. PICK y \in 0 .. layer.oh - 1, x \in 0 .. layer.ow - 1 :
        y = p \div ow /\ x = p % ow /\ p = y * layer.ow + x
  BY <1>2, <1>4
<1>6. Flat(0, y, x) = p
  <2>1. y \in Nat /\ x \in Nat BY <1>1
  <2>2. Flat(0, y, x) = 0 * ImagePixels + (y * layer.ow + x) BY <2>1, FlatIs
  <2> QED BY <1>1, <1>5, <2>2
<1>7. c \in 0 .. OutCh - 1 /\ Index(o) = Flat(0, y, x) * OutCh + c BY <1>1, <1>6
<1>8. o = Pixel(0, y, x, c) BY <1>7, IndexUnique
<1>9. p \in Nat /\ c \in Nat BY <1>1
<1>10. TapSum(p, c) = Conv!Value(o).sum BY <1>2, <1>5, <1>8, <1>9, TapSumIs
<1>11. o.ch = c BY <1>8 DEF Pixel
<1> QED BY <1>10, <1>11 DEF Element, Conv!Value

\* The words of a window in the buffer are the right ones.
LEMMA DotIs ==
  ASSUME TInv, WindowInv, pc \in Blocks, NEW w \in 0 .. buffer_count - 1,
         NEW i \in 0 .. ActiveCh - 1
  PROVE  Dot(w, ch, i) = TapSum(Flushed + w, ch + i)
<1>1. /\ layer.c \in Nat /\ ch \in Nat /\ i \in Nat /\ KernelSize \in Nat
  BY Sizes, Counters, Counts, InBlock DEF TInv
<1> DEFINE word(k) == buffer[(w * KernelSize + k) * CH_IN_BLOCK_MVE + i]
<1>2. \A k \in 0 .. KernelSize - 1 : word(k) = Tap(Flushed + w, k, ch + i) BY DEF WindowInv
<1>3. \A k \in 0 .. KernelSize - 1 : k * layer.c + ch + i = k * layer.c + (ch + i)
  <2> SUFFICES ASSUME NEW k \in 0 .. KernelSize - 1
               PROVE  k * layer.c + ch + i = k * layer.c + (ch + i)
    OBVIOUS
  <2>1. k * layer.c \in Nat BY <1>1
  <2> QED BY <1>1, <2>1
<1>4. Dot(w, ch, i) = {<<k * layer.c + ch + i, word(k)>> :
                         k \in {e \in 0 .. KernelSize - 1 : word(e) # Padding}}
  BY DEF Dot
<1> HIDE DEF word
<1> QED BY <1>2, <1>3, <1>4 DEF TapSum

-----------------------------------------------------------------------------
(***************************************************************************)
(* The steps of a block                                                    *)
(***************************************************************************)

\* Storing what is missing in the rows `ps` and the columns `cs` refines the
\* convolution and leaves all other elements alone.
LEMMA BlockStoring ==
  ASSUME TInv, BlockFresh, pc \in Blocks, UNCHANGED inputs,
         NEW ps \in SUBSET (0 .. ImagePixels - 1), NEW cs \in SUBSET (0 .. layer.c - 1),
         NEW results, Store(results),
         DOMAIN results = {s[1] * layer.c + s[2] : s \in ps \X cs},
         \A p \in ps, c \in cs :
           Missing(p, c) /\ results[p * layer.c + c] = Element(p, c)
  PROVE  /\ StepRefines
         /\ \A p \in 0 .. ImagePixels - 1, c \in 0 .. layer.c - 1 :
              ~(p \in ps /\ c \in cs) => output'[p * layer.c + c] = output[p * layer.c + c]
         /\ \A p \in ps, c \in cs : output'[p * layer.c + c] = Element(p, c)
<1>1. /\ TypeOK /\ layer.n = 1 /\ layer.mult = 1 /\ Undilated
      /\ layer.c \in Nat \ {0} /\ ImagePixels \in Nat /\ Outputs = ImagePixels * layer.c
  BY InBlock DEF TInv, BlockInv
<1>2. ASSUME NEW e \in DOMAIN results
      PROVE  \E p \in ps, c \in cs : e = p * layer.c + c
  <2>1. PICK s \in ps \X cs : e = s[1] * layer.c + s[2] OBVIOUS
  <2> QED BY <2>1
<1>3. ASSUME NEW e \in DOMAIN results PROVE output[e] = Undefined
  BY <1>2 DEF BlockFresh
<1>4. ASSUME NEW o \in Conv!Outputs, Index(o) \in DOMAIN results
      PROVE  results[Index(o)] = Conv!Value(o)
  <2>1. PICK p \in ps, c \in cs : Index(o) = p * layer.c + c BY <1>2, <1>4
  <2>2. p \in 0 .. ImagePixels - 1 /\ c \in 0 .. layer.c - 1 OBVIOUS
  <2>3. Element(p, c) = Conv!Value(o) BY <1>1, <2>1, <2>2, ElementIs
  <2> QED BY <2>1, <2>3
<1>5. StepRefines BY <1>1, <1>3, <1>4, Storing
<1>6. ASSUME NEW p \in 0 .. ImagePixels - 1, NEW c \in 0 .. layer.c - 1, ~(p \in ps /\ c \in cs)
      PROVE  output'[p * layer.c + c] = output[p * layer.c + c]
  <2>1. PICK m \in Nat \ {0}, n \in Nat : m = layer.c /\ n = ImagePixels BY <1>1
  <2>2. p * m + c \in 0 .. n * m - 1 BY <2>1, RowMajorBound
  <2>3. PICK e \in 0 .. Outputs - 1 : e = p * layer.c + c BY <1>1, <2>1, <2>2
  <2>4. e \notin DOMAIN results
    <3> SUFFICES ASSUME e \in DOMAIN results PROVE FALSE
      OBVIOUS
    <3>1. PICK p2 \in ps, c2 \in cs : e = p2 * layer.c + c2 BY <1>2
    <3>2. p \in Nat /\ p2 \in Nat /\ c \in 0 .. m - 1 /\ c2 \in 0 .. m - 1 BY <1>1, <2>1
    <3>3. p * m + c = p2 * m + c2 BY <2>1, <2>3, <3>1
    <3>4. p = p2 /\ c = c2 BY <3>2, <3>3, RowMajorUnique
    <3> QED BY <1>6, <3>4
  <2>5. e \in DOMAIN output BY <1>1 DEF TypeOK
  <2>6. output'[e] = output[e] BY <2>4, <2>5 DEF Store
  <2> QED BY <2>3, <2>6
<1>7. ASSUME NEW p \in ps, NEW c \in cs
      PROVE  output'[p * layer.c + c] = Element(p, c)
  <2>1. PICK e : e = p * layer.c + c OBVIOUS
  <2>2. e \in DOMAIN results
    <3>1. <<p, c>> \in ps \X cs /\ <<p, c>>[1] * layer.c + <<p, c>>[2] = e BY <2>1
    <3> QED BY <3>1
  <2>3. output'[e] = results[e] BY <2>2 DEF Store
  <2> QED BY <2>1, <2>3
<1> QED BY <1>5, <1>6, <1>7

\* What is still missing was missing.
LEMMA StaysFresh ==
  ASSUME BlockFresh, pc \in Blocks, UNCHANGED inputs,
         \A p \in 0 .. ImagePixels - 1, c \in 0 .. layer.c - 1 :
           Missing(p, c)' =>
             Missing(p, c) /\ output'[p * layer.c + c] = output[p * layer.c + c]
  PROVE  BlockFresh'
<1>1. layer' = layer /\ ImagePixels' = ImagePixels BY Fixed
<1> SUFFICES ASSUME NEW p \in 0 .. ImagePixels - 1, NEW c \in 0 .. layer.c - 1, Missing(p, c)'
             PROVE  output'[p * layer.c + c] = Undefined
  BY <1>1 DEF BlockFresh
<1>2. output[p * layer.c + c] = Undefined BY DEF BlockFresh
<1> QED BY <1>2

\* What is no longer missing was stored, or was there.
LEMMA GetsDone ==
  ASSUME BlockDone, pc \in Blocks, UNCHANGED inputs,
         \A p \in 0 .. ImagePixels - 1, c \in 0 .. layer.c - 1 :
           \/ Missing(p, c)'
           \/ output'[p * layer.c + c] = Element(p, c)
           \/ ~Missing(p, c) /\ output'[p * layer.c + c] = output[p * layer.c + c]
  PROVE  BlockDone'
<1>1. layer' = layer /\ ImagePixels' = ImagePixels BY Fixed
<1> SUFFICES ASSUME NEW p \in 0 .. ImagePixels - 1, NEW c \in 0 .. layer.c - 1, ~Missing(p, c)'
             PROVE  output'[p * layer.c + c] = Element(p, c)
  BY <1>1, FixedValues DEF BlockDone
<1>2. Missing(p, c) \/ output[p * layer.c + c] = Element(p, c) BY DEF BlockDone
<1> QED BY <1>2

\* The word of the current window is that of its pixel.
LEMMA SourceIs ==
  ASSUME TypeOK, NEW k \in 0 .. KernelSize - 1, NEW i \in Nat
  PROVE  Source(k, i) = Tap(Pix, k, ch + i)
<1>1. /\ layer.kw \in Nat \ {0} /\ layer.iw \in Nat /\ layer.c \in Nat /\ ch \in Nat
      /\ layer.ow \in Nat \ {0} /\ i_out_y \in Nat /\ i_out_x \in Nat /\ i_out_x < layer.ow
      /\ KernelSize \in Nat /\ BaseY \in Int /\ BaseX \in Int
  BY Sizes, Counters, Counts, Bases
<1>2. Pix \div layer.ow = i_out_y /\ Pix % layer.ow = i_out_x
  <2>0. PICK ow \in Nat \ {0} : ow = layer.ow BY <1>1
  <2>1. PICK y \in Int, x \in 0 .. ow - 1 : y = i_out_y /\ x = i_out_x BY <1>1, <2>0
  <2>2. (y * ow + x) % ow = x /\ (y * ow + x) \div ow = y BY Euclid
  <2> QED BY <2>0, <2>1, <2>2 DEF Pix
<1>3. PICK y \in Int, x \in Int : y = BaseY + (k \div layer.kw) /\ x = BaseX + (k % layer.kw)
  <2>1. PICK kw \in Nat \ {0} : kw = layer.kw BY <1>1
  <2>2. k \in Int BY <1>1
  <2>3. k \div kw \in Int /\ k % kw \in Int BY <2>2
  <2>4. BaseY + (k \div layer.kw) \in Int /\ BaseX + (k % layer.kw) \in Int
    BY <1>1, <2>1, <2>3
  <2> QED BY <2>4
<1>4. Source(k, i) = IF y < 0 \/ y >= layer.ih \/ x < 0 \/ x >= layer.iw
                     THEN Padding ELSE (y * layer.iw + x) * layer.c + ch + i
  BY <1>3 DEF Source
<1>5. Tap(Pix, k, ch + i) = IF y < 0 \/ y >= layer.ih \/ x < 0 \/ x >= layer.iw
                            THEN Padding ELSE (y * layer.iw + x) * layer.c + (ch + i)
  BY <1>2, <1>3 DEF Tap, BaseY, BaseX
<1>6. (y * layer.iw + x) * layer.c + ch + i = (y * layer.iw + x) * layer.c + (ch + i)
  <2>1. y * layer.iw + x \in Int BY <1>1
  <2>2. (y * layer.iw + x) * layer.c \in Int BY <1>1, <2>1
  <2> QED BY <1>1, <2>2
<1> QED BY <1>4, <1>5, <1>6

LEMMA Im2colMoves ==
  ASSUME TInv, Im2col
  PROVE  /\ pc \in Blocks /\ pc = "im2col" /\ pc' \in Blocks
         /\ layer' = layer /\ KernelSize' = KernelSize /\ ActiveCh' = ActiveCh
         /\ ch' = ch /\ offset' = offset /\ offset = 0 /\ i_buf' = i_buf /\ i_buf = 0
         /\ output' = output /\ buffer_count' = buffer_count + 1
         /\ Flushed' = Flushed /\ Flushed \in Nat /\ Flushed + buffer_count = Pix
<1> USE DEF TInv
<1>1. /\ UNCHANGED inputs /\ UNCHANGED <<ch, offset, i_buf, out, output>>
      /\ pc = "im2col" /\ pc \in Blocks /\ buffer_count' = buffer_count + 1
  BY DEF Im2col, Blocks
<1>2. layer' = layer /\ KernelSize' = KernelSize BY <1>1, Fixed
<1>3. ActiveCh' = ActiveCh BY <1>1, <1>2 DEF ActiveCh
<1>4. i_buf = 0 /\ offset = 0 BY <1>1 DEF BlockInv
<1>5. Seen = Pix /\ Pix \in Int /\ Flushed \in Nat /\ Flushed + buffer_count = Seen
      /\ buffer_count \in Nat
  BY <1>1, InBlock, Counters
<1>6. pc' \in Blocks /\ Seen' = Pix + 1
  <2>1. CASE buffer_count + 1 = 4
    <3>1. pc' = "flush" /\ UNCHANGED pixel BY <2>1 DEF Im2col
    <3> QED BY <1>2, <3>1 DEF Seen, Pix, pixel, Blocks
  <2>2. CASE buffer_count + 1 # 4
    <3>1. NextWindow BY <2>2 DEF Im2col
    <3> QED BY <1>1, <3>1, WindowMoves DEF Blocks
  <2> QED BY <2>1, <2>2
<1>7. Flushed' = Flushed BY <1>1, <1>5, <1>6 DEF Flushed
<1> QED BY <1>1, <1>2, <1>3, <1>4, <1>5, <1>6, <1>7

LEMMA Im2colStep == ASSUME RInv, Im2col PROVE RInv' /\ StepRefines
<1> USE DEF RInv, Fresh, Done
<1>1. TInv' /\ TypeOK /\ UNCHANGED inputs BY Im2colTypes DEF TInv, Im2col
<1>2. /\ pc \in Blocks /\ pc = "im2col" /\ pc' \in Blocks
      /\ layer' = layer /\ KernelSize' = KernelSize /\ ActiveCh' = ActiveCh
      /\ ch' = ch /\ offset' = offset /\ offset = 0 /\ i_buf' = i_buf /\ i_buf = 0
      /\ output' = output /\ buffer_count' = buffer_count + 1
      /\ Flushed' = Flushed /\ Flushed \in Nat /\ Flushed + buffer_count = Pix
  BY Im2colMoves
<1>3. /\ ActiveCh \in 1 .. CH_IN_BLOCK_MVE /\ CH_IN_BLOCK_MVE \in Nat \ {0}
      /\ KernelSize \in Nat \ {0} /\ buffer_count \in Nat /\ buffer_count < 4
      /\ ch \in Nat /\ lhs_buffer = buffer_count * WindowLength
  BY <1>1, <1>2, InBlock, Counts, Counters, DwBlockAssumption DEF TInv, BlockInv
<1>4. StepRefines BY <1>1, <1>2, Quiet
<1>5. ASSUME NEW w \in 0 .. buffer_count, NEW k \in 0 .. KernelSize - 1,
             NEW i \in 0 .. ActiveCh - 1
      PROVE  buffer'[(w * KernelSize + k) * CH_IN_BLOCK_MVE + i] = Tap(Flushed + w, k, ch + i)
  <2>1. w \in 0 .. 3 /\ i \in 0 .. CH_IN_BLOCK_MVE - 1 /\ i \in Nat /\ i < ActiveCh BY <1>3
  <2>2. PICK b : b = (w * KernelSize + k) * CH_IN_BLOCK_MVE + i OBVIOUS
  <2>3. b \in DOMAIN buffer BY <1>1, <2>1, <2>2, InBuffer DEF TypeOK
  <2>4. PICK n \in Nat \ {0}, ks \in Nat \ {0}, bc \in Nat :
          n = CH_IN_BLOCK_MVE /\ ks = KernelSize /\ bc = buffer_count
    BY <1>3
  <2>5. PICK d \in Int : d = (w - bc) * ks + k
    <3>1. (w - bc) * ks \in Int BY <2>1
    <3> QED BY <2>4, <3>1
  <2>6. b - lhs_buffer = d * n + i
    <3>1. lhs_buffer = (bc * ks) * n BY <1>3, <2>4 DEF WindowLength
    <3>2. PICK p \in Int, q \in Int : p = w * ks /\ q = bc * ks
      <4>1. w * ks \in Int /\ bc * ks \in Int BY <2>1
      <4> QED BY <4>1
    <3>3. (w - bc) * ks = p - q BY <2>1, <3>2
    <3>4. d = p + k - q BY <2>4, <2>5, <3>2, <3>3
    <3>5. d * n = (p + k) * n - q * n BY <2>4, <3>2, <3>4
    <3>6. (p + k) * n \in Int /\ q * n \in Int BY <2>4, <3>2
    <3>7. b = (p + k) * n + i BY <2>2, <2>4, <3>2
    <3> QED BY <2>1, <3>1, <3>2, <3>5, <3>6, <3>7
  <2>7. (d * n + i) % n = i /\ (d * n + i) \div n = d
    <3>1. i \in 0 .. n - 1 BY <2>1, <2>4
    <3> QED BY <3>1, Euclid
  <2>8. buffer'[b] = IF d \in 0 .. KernelSize - 1 /\ i < ActiveCh THEN Source(d, i) ELSE buffer[b]
    BY <2>3, <2>4, <2>6, <2>7 DEF Im2col
  <2>9. CASE w = bc
    <3>1. d = k
      <4>1. (w - bc) * ks = 0 BY <2>9
      <4> QED BY <2>4, <2>5, <4>1
    <3>2. buffer'[b] = Source(k, i) BY <2>1, <2>8, <3>1
    <3>3. Source(k, i) = Tap(Pix, k, ch + i) BY <1>1, <2>1, SourceIs
    <3> QED BY <1>2, <2>2, <2>4, <2>9, <3>2, <3>3
  <2>10. CASE w < bc
    <3>1. d < 0
      <4>1. PICK z \in Nat : bc = w + 1 + z
        <5>1. bc - w - 1 \in Nat /\ bc = w + 1 + (bc - w - 1) BY <2>1, <2>10
        <5> QED BY <5>1
      <4>2. w - bc = -1 - z BY <2>1, <4>1
      <4>3. (w - bc) * ks = -ks - z * ks BY <4>2
      <4>4. z * ks >= 0 /\ z * ks \in Int OBVIOUS
      <4>5. k < ks /\ k \in Int BY <2>4
      <4> QED BY <2>5, <4>3, <4>4, <4>5
    <3>2. buffer'[b] = buffer[b] BY <2>8, <3>1
    <3>3. w \in 0 .. buffer_count - 1 BY <2>1, <2>4, <2>10
    <3>4. buffer[b] = Tap(Flushed + w, k, ch + i) BY <1>2, <2>2, <3>3 DEF WindowInv
    <3> QED BY <2>2, <3>2, <3>4
  <2>11. w = bc \/ w < bc BY <2>4
  <2> QED BY <2>9, <2>10, <2>11
<1>6. WindowInv'
  <2>1. 0 .. buffer_count' - 1 = 0 .. buffer_count BY <1>2, <1>3
  <2> SUFFICES ASSUME NEW w \in 0 .. buffer_count, NEW k \in 0 .. KernelSize - 1,
                      NEW i \in 0 .. ActiveCh - 1
               PROVE  buffer'[(w * KernelSize + k) * CH_IN_BLOCK_MVE + i]
                        = Tap(Flushed + w, k, ch + i)'
    BY <1>2, <2>1 DEF WindowInv
  <2>2. PICK q, c : q = Flushed + w /\ c = ch + i OBVIOUS
  <2>3. Tap(Flushed + w, k, ch + i)' = Tap(q, k, c) BY <1>2, <2>2 DEF Tap
  <2> QED BY <1>5, <2>2, <2>3
<1>7. BlockFresh'
  <2> SUFFICES ASSUME NEW p \in 0 .. ImagePixels - 1, NEW c \in 0 .. layer.c - 1, Missing(p, c)'
               PROVE  Missing(p, c)
    BY <1>1, <1>2, StaysFresh
  <2>1. Row' = Row /\ Row \in Nat BY <1>2 DEF Row
  <2>2. Width = 1 /\ Width' \in {1, 4} BY <1>2 DEF Width
  <2>3. p \in Int /\ c \in Int BY <1>1, Counts, Sizes
  <2>4. /\ c >= ch
        /\ c >= ch + CH_IN_BLOCK_MVE \/ p >= Row + Width' \/ (p >= Row /\ c >= ch + offset)
    BY <1>2, <2>1 DEF Missing
  <2>5. p >= Row + Width' => p >= Row + Width
    <3>1. PICK r \in Nat, v \in {1, 4} : r = Row /\ v = Width' BY <2>1, <2>2
    <3>2. p >= r + v => p >= r + 1 BY <2>3
    <3> QED BY <2>2, <3>1, <3>2
  <2> QED BY <2>4, <2>5 DEF Missing
<1>8. ChannelInv' BY <1>2 DEF ChannelInv
<1>9. WrapperFresh' /\ GroupFresh'
  BY <1>2 DEF WrapperFresh, GroupFresh, Blocks, Groups
<1>10. BlockDone'
  <2> SUFFICES ASSUME NEW p \in 0 .. ImagePixels - 1, NEW c \in 0 .. layer.c - 1, Missing(p, c)
               PROVE  Missing(p, c)'
    BY <1>1, <1>2, GetsDone
  <2>1. Row' = Row /\ Row \in Nat BY <1>2 DEF Row
  <2>2. Width = 1 BY <1>2 DEF Width
  <2>3. p \in Int /\ c \in Int BY <1>1, Counts, Sizes
  <2>4. c >= ch /\ (c >= ch + CH_IN_BLOCK_MVE \/ p >= Row)
    <3>1. /\ c >= ch
          /\ c >= ch + CH_IN_BLOCK_MVE \/ p >= Row + Width \/ (p >= Row /\ c >= ch + offset)
      BY DEF Missing
    <3>2. PICK r \in Nat : r = Row BY <2>1
    <3>3. p >= r + 1 => p >= r BY <2>3
    <3> QED BY <2>2, <3>1, <3>2, <3>3
  <2>5. ch + 0 = ch BY <1>3
  <2> QED BY <1>2, <2>1, <2>4, <2>5 DEF Missing
<1>11. GroupDone' /\ ReturnDone' BY <1>2 DEF GroupDone, ReturnDone, Blocks, Groups
<1> QED BY <1>1, <1>4, <1>6, <1>7, <1>8, <1>9, <1>10, <1>11

\* A later block exists only in a layer that has a bias and no leftover pixels.
LEMMA FittingBlock ==
  ASSUME TInv, ChannelInv, FittingLayers, pc \in Blocks
  PROVE  /\ ch # 0 => layer.bias
         /\ ch # 0 => ImagePixels % 4 = 0
<1>1. /\ build = "vector" /\ layer.mult = 1 /\ layer.n = 1 /\ layer.dx = 1 /\ layer.dy = 1
      /\ ch < layer.c
  BY DEF TInv, BlockInv, Undilated
<1>2. layer \in Layers /\ build \in Builds BY DEF TInv, TypeOK
<1>3. layer.c <= CH_IN_BLOCK_MVE \/ (layer.bias /\ (layer.oh * layer.ow) % 4 = 0)
  BY <1>1, <1>2 DEF FittingLayers
<1>4. ch = 0 \/ ch >= CH_IN_BLOCK_MVE BY DEF ChannelInv
<1>5. layer.c \in Nat /\ ch \in Nat /\ CH_IN_BLOCK_MVE \in Nat
  BY Sizes, Counters, DwBlockAssumption DEF TInv
<1>6. ch # 0 => ~(layer.c <= CH_IN_BLOCK_MVE) BY <1>1, <1>4, <1>5
<1> QED BY <1>3, <1>6 DEF ImagePixels

\* The rows and columns of a strip.
LEMMA FlushMoves ==
  ASSUME TInv, FlushStrip, NEW vl \in Nat \ {0},
         \/ /\ offset + vl < ActiveCh
            /\ offset' = offset + vl
            /\ UNCHANGED <<pc, pixel, buffer_count, out>>
         \/ /\ offset + vl = ActiveCh
            /\ offset' = 0
            /\ out' = out + 4 * layer.c
            /\ buffer_count' = 0
            /\ NextWindow
  PROVE  \/ /\ pc' = "flush" /\ offset + vl < ActiveCh /\ offset' = offset + vl
            /\ buffer_count' = buffer_count /\ Flushed' = Flushed
         \/ /\ pc' \in {"im2col", "leftover"} /\ offset + vl = ActiveCh /\ offset' = 0
            /\ buffer_count' = 0 /\ Flushed' = Flushed + 4
<1> USE DEF TInv
<1>1. UNCHANGED inputs /\ pc = "flush" /\ pc \in Blocks BY DEF FlushStrip, Blocks
<1>2. layer' = layer BY <1>1, Fixed
<1>3. buffer_count = 4 BY <1>1 DEF BlockInv
<1>4. Pix \in Int /\ Seen = Pix + 1 /\ Flushed \in Nat /\ Flushed + buffer_count = Seen
  BY <1>1, InBlock
<1>5. CASE offset + vl < ActiveCh /\ offset' = offset + vl
           /\ UNCHANGED <<pc, pixel, buffer_count, out>>
  BY <1>1, <1>2, <1>5 DEF pixel, Flushed, Seen, Pix
<1>6. CASE offset + vl = ActiveCh /\ offset' = 0 /\ out' = out + 4 * layer.c
           /\ buffer_count' = 0 /\ NextWindow
  <2>1. pc' \in {"im2col", "leftover"} /\ Seen' = Pix + 1 BY <1>1, <1>6, WindowMoves
  <2>2. Flushed' = Flushed + 4 BY <1>3, <1>4, <1>6, <2>1 DEF Flushed
  <2> QED BY <1>6, <2>1, <2>2
<1> QED BY <1>5, <1>6

LEMMA FlushStep == ASSUME RInv, FittingLayers, FlushStrip PROVE RInv' /\ StepRefines
<1> USE DEF RInv, Fresh, Done
<1>1. TInv' /\ TypeOK /\ UNCHANGED inputs /\ UNCHANGED <<ch, buffer, lhs_buffer, i_buf>>
      /\ pc = "flush" /\ pc \in Blocks
  BY FlushTypes DEF TInv, FlushStrip, Blocks
<1>2. layer' = layer /\ KernelSize' = KernelSize /\ ImagePixels' = ImagePixels BY <1>1, Fixed
<1>3. ActiveCh' = ActiveCh BY <1>1, <1>2 DEF ActiveCh
<1>4. /\ ActiveCh \in 1 .. CH_IN_BLOCK_MVE /\ CH_IN_BLOCK_MVE \in Nat \ {0}
      /\ ch \in Nat /\ offset \in Nat /\ Flushed \in Nat /\ i_buf = 0 /\ buffer_count = 4
      /\ layer.c \in Nat /\ ImagePixels \in Nat /\ ch + ActiveCh <= layer.c
  BY <1>1, InBlock, Counters, DwBlockAssumption DEF TInv, BlockInv
<1>5. PICK vl \in Vsetvl(ActiveCh - offset, VLMAX) :
        /\ \E results : Store(results) /\ StripOf(results, vl)
        /\ \/ /\ offset + vl < ActiveCh
              /\ offset' = offset + vl
              /\ UNCHANGED <<pc, pixel, buffer_count, out>>
           \/ /\ offset + vl = ActiveCh
              /\ offset' = 0
              /\ out' = out + 4 * layer.c
              /\ buffer_count' = 0
              /\ NextWindow
  BY FlushIs
<1>r. PICK results : Store(results) /\ StripOf(results, vl) BY <1>5
<1>6. /\ vl \in Nat \ {0} /\ offset + vl <= ActiveCh
      /\ \A w \in 0 .. 3, i \in offset .. offset + vl - 1 :
           /\ Flushed + w \in 0 .. ImagePixels - 1 /\ ch + i \in 0 .. layer.c - 1
           /\ i \in 0 .. ActiveCh - 1
  BY <1>1, FlushStores
<1>7. \/ /\ pc' = "flush" /\ offset + vl < ActiveCh /\ offset' = offset + vl
         /\ buffer_count' = buffer_count /\ Flushed' = Flushed
      \/ /\ pc' \in {"im2col", "leftover"} /\ offset + vl = ActiveCh /\ offset' = 0
         /\ buffer_count' = 0 /\ Flushed' = Flushed + 4
  BY <1>5, <1>6, FlushMoves
<1>8. PICK ps : ps = {Flushed + w : w \in 0 .. 3} OBVIOUS
<1>9. PICK cs : cs = {ch + i : i \in offset .. offset + vl - 1} OBVIOUS
<1>10. ps \in SUBSET (0 .. ImagePixels - 1) /\ cs \in SUBSET (0 .. layer.c - 1)
  <2>1. PICK i \in offset .. offset + vl - 1 : i = offset BY <1>4, <1>6
  <2> QED BY <1>6, <1>8, <1>9
<1>11. DOMAIN results = {s[1] * layer.c + s[2] : s \in ps \X cs}
  <2> DEFINE F(s) == (Flushed + s[1]) * layer.c + (ch + s[2])
             G(s) == s[1] * layer.c + s[2]
             strip == (0 .. 3) \X (offset .. offset + vl - 1)
  <2>1. DOMAIN results = {F(s) : s \in strip} BY <1>r DEF StripOf
  <2>2. ASSUME NEW s \in strip PROVE \E t \in ps \X cs : G(t) = F(s)
    <3>1. PICK t : t = <<Flushed + s[1], ch + s[2]>> OBVIOUS
    <3>2. t \in ps \X cs BY <1>8, <1>9, <3>1
    <3>3. t[1] = Flushed + s[1] /\ t[2] = ch + s[2] BY <3>1
    <3> QED BY <3>2, <3>3
  <2>3. ASSUME NEW t \in ps \X cs PROVE \E s \in strip : G(t) = F(s)
    <3>1. PICK w \in 0 .. 3, i \in offset .. offset + vl - 1 : t[1] = Flushed + w /\ t[2] = ch + i
      BY <1>8, <1>9
    <3>2. <<w, i>> \in strip /\ F(<<w, i>>) = G(t) BY <3>1
    <3> QED BY <3>2
  <2>4. {s[1] * layer.c + s[2] : s \in ps \X cs} = {G(t) : t \in ps \X cs} OBVIOUS
  <2> HIDE DEF F, G, strip
  <2> QED BY <2>1, <2>2, <2>3, <2>4
<1>12. Row = Flushed /\ Width = 4 BY <1>1, <1>4 DEF Row, Width
<1>13. ASSUME NEW p \in ps, NEW c \in cs
       PROVE  Missing(p, c) /\ results[p * layer.c + c] = Element(p, c)
  <2>1. PICK w \in 0 .. 3, i \in offset .. offset + vl - 1 : p = Flushed + w /\ c = ch + i
    BY <1>8, <1>9
  <2>2. i \in Int /\ i >= offset BY <1>4, <2>1
  <2>3. Missing(p, c)
    <3>1. p >= Row /\ c >= ch + offset /\ c >= ch BY <1>4, <1>12, <2>1, <2>2
    <3> QED BY <3>1 DEF Missing
  <2>4. results[p * layer.c + c] = StripResult(w, i) BY <1>r, <2>1 DEF StripOf
  <2>5. w \in 0 .. buffer_count - 1 /\ i \in 0 .. ActiveCh - 1 BY <1>4, <1>6, <2>1
  <2>6. Dot(w, ch, i) = TapSum(p, c) BY <1>1, <2>1, <2>5, DotIs
  <2>7. (IF layer.bias THEN StripBias + i ELSE StripBias) = IF layer.bias THEN c ELSE NoBias
    <3>1. ch # 0 => layer.bias BY <1>1, FittingBlock
    <3> QED BY <2>1, <3>1 DEF StripBias
  <2> QED BY <2>1, <2>3, <2>4, <2>6, <2>7 DEF StripResult, Element
<1>14. /\ StepRefines
       /\ \A p \in 0 .. ImagePixels - 1, c \in 0 .. layer.c - 1 :
            ~(p \in ps /\ c \in cs) => output'[p * layer.c + c] = output[p * layer.c + c]
       /\ \A p \in ps, c \in cs : output'[p * layer.c + c] = Element(p, c)
  BY <1>1, <1>r, <1>10, <1>11, <1>13, BlockStoring
<1>15. BlockFresh'
  <2> SUFFICES ASSUME NEW p \in 0 .. ImagePixels - 1, NEW c \in 0 .. layer.c - 1, Missing(p, c)'
               PROVE  Missing(p, c) /\ ~(p \in ps /\ c \in cs)
    BY <1>1, <1>14, StaysFresh
  <2>1. p \in Int /\ c \in Int BY <1>4
  <2>2. /\ c >= ch
        /\ c >= ch + CH_IN_BLOCK_MVE \/ p >= Row' + Width' \/ (p >= Row' /\ c >= ch + offset')
    BY <1>1 DEF Missing
  <2>3. p \in ps => p < Flushed + 4
    <3>1. ASSUME NEW w \in 0 .. 3 PROVE Flushed + w < Flushed + 4 BY <1>4
    <3> QED BY <1>8, <3>1
  <2>4. c \in cs => c < ch + (offset + vl)
    <3>1. ASSUME NEW i \in offset .. offset + vl - 1 PROVE ch + i < ch + (offset + vl)
      BY <1>4, <1>6
    <3> QED BY <1>9, <3>1
  <2>5. Row' = Flushed' BY <1>1, <1>4, <1>7 DEF Row
  <2>6. CASE pc' = "flush" /\ offset + vl < ActiveCh /\ offset' = offset + vl
             /\ buffer_count' = buffer_count /\ Flushed' = Flushed
    <3>1. Width' = 4 BY <2>6 DEF Width
    <3>2. c >= ch + CH_IN_BLOCK_MVE \/ p >= Flushed + 4
            \/ (p >= Flushed /\ c >= ch + (offset + vl))
      BY <2>2, <2>5, <2>6, <3>1
    <3>3. Missing(p, c)
      <4>1. c >= ch + CH_IN_BLOCK_MVE \/ p >= Flushed + 4 \/ (p >= Flushed /\ c >= ch + offset)
        BY <1>4, <1>6, <2>1, <3>2
      <4> QED BY <1>12, <2>2, <4>1 DEF Missing
    <3>4. ~(p \in ps /\ c \in cs) BY <1>4, <1>6, <2>1, <2>3, <2>4, <2>6, <3>2
    <3> QED BY <3>3, <3>4
  <2>7. CASE pc' \in {"im2col", "leftover"} /\ offset + vl = ActiveCh /\ offset' = 0
             /\ buffer_count' = 0 /\ Flushed' = Flushed + 4
    <3>1. Width' = 1 BY <2>7 DEF Width
    <3>2. c >= ch + CH_IN_BLOCK_MVE \/ p >= Flushed + 4
      BY <1>4, <2>1, <2>2, <2>5, <2>7, <3>1
    <3>3. Missing(p, c) BY <1>12, <2>2, <3>2 DEF Missing
    <3>4. ~(p \in ps /\ c \in cs) BY <1>4, <1>6, <2>1, <2>3, <2>4, <2>7, <3>2
    <3> QED BY <3>3, <3>4
  <2> QED BY <1>7, <2>6, <2>7
<1>16. WindowInv'
  <2>1. CASE buffer_count' = 0
    <3>1. 0 .. buffer_count' - 1 = {} BY <2>1
    <3> QED BY <3>1 DEF WindowInv
  <2>2. CASE buffer_count' = buffer_count /\ Flushed' = Flushed
    <3> SUFFICES ASSUME NEW w \in 0 .. buffer_count - 1, NEW k \in 0 .. KernelSize - 1,
                        NEW i \in 0 .. ActiveCh - 1
                 PROVE  buffer'[(w * KernelSize + k) * CH_IN_BLOCK_MVE + i]
                          = Tap(Flushed + w, k, ch + i)'
      BY <1>2, <1>3, <2>2 DEF WindowInv
    <3>1. PICK q, c : q = Flushed + w /\ c = ch + i OBVIOUS
    <3>2. Tap(Flushed + w, k, ch + i)' = Tap(q, k, c) BY <1>1, <1>2, <2>2, <3>1 DEF Tap
    <3>3. buffer[(w * KernelSize + k) * CH_IN_BLOCK_MVE + i] = Tap(Flushed + w, k, ch + i)
      BY <1>1 DEF WindowInv
    <3> QED BY <1>1, <3>1, <3>2, <3>3
  <2> QED BY <1>7, <2>1, <2>2
<1>17. ChannelInv' BY <1>1 DEF ChannelInv
<1>18. WrapperFresh' /\ GroupFresh' BY <1>7 DEF WrapperFresh, GroupFresh, Groups
<1>19. BlockDone'
  <2> SUFFICES ASSUME NEW p \in 0 .. ImagePixels - 1, NEW c \in 0 .. layer.c - 1,
                      Missing(p, c), ~(p \in ps /\ c \in cs)
               PROVE  Missing(p, c)'
    BY <1>1, <1>14, GetsDone
  <2>1. p \in Int /\ c \in Int /\ c < layer.c BY <1>4
  <2>2. /\ c >= ch
        /\ c >= ch + CH_IN_BLOCK_MVE \/ p >= Flushed + 4 \/ (p >= Flushed /\ c >= ch + offset)
    BY <1>12 DEF Missing
  <2>3. p >= Flushed /\ p < Flushed + 4 => p \in ps
    <3>1. ASSUME p >= Flushed, p < Flushed + 4
          PROVE  p - Flushed \in 0 .. 3 /\ p = Flushed + (p - Flushed)
      BY <1>4, <2>1, <3>1
    <3> QED BY <1>8, <3>1
  <2>4. c >= ch + offset /\ c < ch + (offset + vl) => c \in cs
    <3>1. ASSUME c >= ch + offset, c < ch + (offset + vl)
          PROVE  c - ch \in offset .. offset + vl - 1 /\ c = ch + (c - ch)
      BY <1>4, <1>6, <2>1, <3>1
    <3> QED BY <1>9, <3>1
  <2>5. c >= ch + CH_IN_BLOCK_MVE \/ p >= Flushed + 4 \/ (p >= Flushed /\ c >= ch + (offset + vl))
    BY <1>4, <1>6, <2>1, <2>2, <2>3, <2>4
  <2>6. Row' = Flushed' BY <1>1, <1>4, <1>7 DEF Row
  <2>7. CASE pc' = "flush" /\ offset + vl < ActiveCh /\ offset' = offset + vl
             /\ buffer_count' = buffer_count /\ Flushed' = Flushed
    <3>1. Width' = 4 BY <2>7 DEF Width
    <3> QED BY <1>1, <2>2, <2>5, <2>6, <2>7, <3>1 DEF Missing
  <2>8. CASE pc' \in {"im2col", "leftover"} /\ offset + vl = ActiveCh /\ offset' = 0
             /\ buffer_count' = 0 /\ Flushed' = Flushed + 4
    <3>1. ActiveCh = CH_IN_BLOCK_MVE \/ ch + ActiveCh = layer.c BY <1>1, InBlock DEF TInv
    <3>2. c >= ch + CH_IN_BLOCK_MVE \/ p >= Flushed + 4 BY <1>4, <2>1, <2>5, <2>8, <3>1
    <3>3. ch + 0 = ch BY <1>4
    <3> QED BY <1>1, <2>2, <2>6, <2>8, <3>2, <3>3 DEF Missing
  <2> QED BY <1>7, <2>7, <2>8
<1>20. GroupDone' /\ ReturnDone' BY <1>7 DEF GroupDone, ReturnDone, Groups
<1> QED BY <1>1, <1>14, <1>15, <1>16, <1>17, <1>18, <1>19, <1>20

LEMMA LeftoverStep == ASSUME RInv, FittingLayers, LeftoverStrip PROVE RInv' /\ StepRefines
<1> USE DEF RInv, Fresh, Done
<1>1. /\ TInv' /\ TypeOK /\ UNCHANGED inputs /\ UNCHANGED <<pc, pixel, ch, lhs>>
      /\ pc = "leftover" /\ pc \in Blocks /\ i_buf < buffer_count
  BY LeftoverTypes DEF TInv, LeftoverStrip, Blocks
<1>2. layer' = layer /\ KernelSize' = KernelSize /\ ImagePixels' = ImagePixels BY <1>1, Fixed
<1>3. /\ pc' = pc /\ i_out_y' = i_out_y /\ i_out_x' = i_out_x
      /\ ch' = ch /\ buffer' = buffer /\ buffer_count' = buffer_count
  BY <1>1 DEF pixel, lhs
<1>4. ActiveCh' = ActiveCh /\ Flushed' = Flushed
  BY <1>2, <1>3 DEF ActiveCh, Flushed, Seen, Pix
<1>5. /\ offset < ActiveCh /\ buffer_count < 4 /\ Flushed % 4 = 0
      /\ out = ch + Flushed * layer.c + i_buf * ActiveCh + offset
  BY <1>1 DEF TInv, BlockInv
<1>6. /\ ActiveCh \in 1 .. CH_IN_BLOCK_MVE /\ CH_IN_BLOCK_MVE \in Nat \ {0}
      /\ ch \in Nat /\ offset \in Nat /\ Flushed \in Nat /\ i_buf \in Nat /\ buffer_count \in Nat
      /\ layer.c \in Nat /\ ImagePixels \in Nat
      /\ ActiveCh = CH_IN_BLOCK_MVE \/ ch + ActiveCh = layer.c
      /\ ch + ActiveCh <= layer.c
  BY <1>1, InBlock, Counters, DwBlockAssumption DEF TInv
<1>7. Flushed + buffer_count = ImagePixels
  <2>1. Pix + 1 = ImagePixels BY <1>1 DEF TInv, BlockInv
  <2>2. Seen = Pix + 1 /\ Flushed + buffer_count = Seen BY <1>1, InBlock DEF TInv
  <2> QED BY <2>1, <2>2
<1>8. ch = 0
  <2>1. ch # 0 => ImagePixels % 4 = 0 BY <1>1, FittingBlock
  <2>2. ImagePixels % 4 # 0 BY <1>1, <1>5, <1>6, <1>7
  <2> QED BY <2>1, <2>2
<1>9. ActiveCh = layer.c
  <2>1. layer.c <= CH_IN_BLOCK_MVE \/ ImagePixels % 4 = 0
    <3>1. layer.mult = 1 /\ layer.n = 1 /\ layer.dx = 1 /\ layer.dy = 1 /\ build = "vector"
      BY <1>1 DEF TInv, BlockInv, Undilated
    <3>2. layer \in Layers /\ build \in Builds BY <1>1 DEF TypeOK
    <3> QED BY <3>1, <3>2 DEF FittingLayers, ImagePixels
  <2>2. ImagePixels % 4 # 0 BY <1>1, <1>5, <1>6, <1>7
  <2> QED BY <1>6, <1>8, <2>1, <2>2
<1>10. PICK vl \in Vsetvl(ActiveCh - offset, VLMAX) :
        /\ Store([e \in out .. out + vl - 1 |-> LeftoverResult(offset + e - out)])
        /\ offset' = IF offset + vl < ActiveCh THEN offset + vl ELSE 0
        /\ i_buf' = IF offset + vl < ActiveCh THEN i_buf ELSE i_buf + 1
  BY DEF LeftoverStrip, LeftoverResult
<1>11. vl \in Nat \ {0} /\ offset + vl <= ActiveCh
  <2>1. PICK avl \in Nat \ {0} : avl = ActiveCh - offset BY <1>5, <1>6
  <2>2. vl \in 1 .. avl BY <1>10, <2>1, StripLength
  <2> QED BY <1>6, <2>1, <2>2
<1>12. PICK results : results = [e \in out .. out + vl - 1 |-> LeftoverResult(offset + e - out)]
  OBVIOUS
<1>13. Store(results) BY <1>10, <1>12
<1>14. PICK row \in 0 .. ImagePixels - 1 : row = Row BY <1>1, <1>6, <1>7 DEF Row
<1>15. PICK p0 \in Nat : p0 = row * layer.c /\ out = p0 + offset
  <2>1. Flushed * layer.c \in Nat /\ i_buf * layer.c \in Nat
        /\ (Flushed + i_buf) * layer.c = Flushed * layer.c + i_buf * layer.c
    BY <1>6
  <2>2. row = Flushed + i_buf BY <1>14 DEF Row
  <2>3. PICK f \in Nat, g \in Nat : f = Flushed * layer.c /\ g = i_buf * layer.c BY <2>1
  <2>4. out = 0 + f + g + offset BY <1>5, <1>8, <1>9, <2>3
  <2>5. row * layer.c = f + g BY <2>1, <2>2, <2>3
  <2> QED BY <1>6, <2>3, <2>4, <2>5
<1>16. PICK ps : ps = {row} OBVIOUS
<1>17. PICK cs : cs = offset .. offset + vl - 1 OBVIOUS
<1>18. ps \in SUBSET (0 .. ImagePixels - 1) /\ cs \in SUBSET (0 .. layer.c - 1)
  BY <1>6, <1>9, <1>11, <1>16, <1>17
<1>19. DOMAIN results = {s[1] * layer.c + s[2] : s \in ps \X cs}
  <2>1. DOMAIN results = p0 + offset .. p0 + offset + vl - 1 BY <1>12, <1>15
  <2>2. ASSUME NEW e \in DOMAIN results PROVE \E s \in ps \X cs : e = s[1] * layer.c + s[2]
    <3>1. PICK c \in cs : e = p0 + c
      <4>1. e - p0 \in cs /\ e = p0 + (e - p0) BY <1>6, <1>11, <1>17, <2>1
      <4> QED BY <4>1
    <3>2. <<row, c>> \in ps \X cs BY <1>16
    <3> QED BY <1>15, <3>1, <3>2
  <2>3. ASSUME NEW s \in ps \X cs PROVE s[1] * layer.c + s[2] \in DOMAIN results
    <3>1. s[1] = row /\ s[2] \in offset .. offset + vl - 1 BY <1>16, <1>17
    <3>2. s[1] * layer.c = p0 BY <1>15, <3>1
    <3> QED BY <1>6, <1>11, <2>1, <3>1, <3>2
  <2> QED BY <2>2, <2>3
<1>20. Width = 1 /\ Width' = 1 BY <1>1, <1>3 DEF Width
<1>21. ASSUME NEW p \in ps, NEW c \in cs
       PROVE  Missing(p, c) /\ results[p * layer.c + c] = Element(p, c)
  <2>1. p = row /\ c \in offset .. offset + vl - 1 /\ c \in Nat /\ c < ActiveCh
    BY <1>6, <1>11, <1>16, <1>17
  <2>2. p = Row BY <1>14, <2>1
  <2>3. p >= Row /\ c >= ch + offset /\ c >= ch BY <1>6, <1>8, <1>14, <2>1, <2>2
  <2>4. Missing(p, c) BY <2>3 DEF Missing
  <2>5. results[p0 + c] = LeftoverResult(c)
    <3>1. p0 + c \in out .. out + vl - 1 BY <1>6, <1>11, <1>15, <2>1
    <3>2. offset + (p0 + c) - out = c BY <1>6, <1>15, <2>1
    <3> QED BY <1>12, <3>1, <3>2
  <2>6. p * layer.c = p0 BY <1>15, <2>1
  <2>7. Dot(i_buf, ch, c) = TapSum(Flushed + i_buf, ch + c)
    <3>1. PICK w \in 0 .. buffer_count - 1, i \in 0 .. ActiveCh - 1 : w = i_buf /\ i = c
      BY <1>1, <1>6, <2>1
    <3>2. Dot(w, ch, i) = TapSum(Flushed + w, ch + i) BY <1>1, DotIs
    <3> QED BY <3>1, <3>2
  <2>8. ch + c = c BY <1>8, <2>1
  <2>9. Dot(i_buf, 0, c) = TapSum(p, c) BY <1>8, <2>2, <2>7, <2>8 DEF Row
  <2> QED BY <2>4, <2>5, <2>6, <2>9 DEF LeftoverResult, Element
<1>22. /\ StepRefines
       /\ \A p \in 0 .. ImagePixels - 1, c \in 0 .. layer.c - 1 :
            ~(p \in ps /\ c \in cs) => output'[p * layer.c + c] = output[p * layer.c + c]
       /\ \A p \in ps, c \in cs : output'[p * layer.c + c] = Element(p, c)
  BY <1>1, <1>13, <1>18, <1>19, <1>21, BlockStoring
<1>23. BlockFresh'
  <2> SUFFICES ASSUME NEW p \in 0 .. ImagePixels - 1, NEW c \in 0 .. layer.c - 1, Missing(p, c)'
               PROVE  Missing(p, c) /\ ~(p \in ps /\ c \in cs)
    BY <1>1, <1>22, StaysFresh
  <2>1. p \in Int /\ c \in Int /\ c < layer.c /\ row \in Int BY <1>6, <1>14
  <2>2. /\ c >= ch
        /\ c >= ch + CH_IN_BLOCK_MVE \/ p >= Row' + 1 \/ (p >= Row' /\ c >= ch + offset')
    BY <1>3, <1>20 DEF Missing
  <2>3. Row = row /\ Row' = Flushed + i_buf' /\ row = Flushed + i_buf BY <1>4, <1>14 DEF Row
  <2>4. CASE offset + vl < ActiveCh
    <3>1. offset' = offset + vl /\ Row' = row BY <1>10, <2>3, <2>4
    <3>2. c >= ch + CH_IN_BLOCK_MVE \/ p >= row + 1 \/ (p >= row /\ c >= ch + (offset + vl))
      BY <2>2, <3>1
    <3>3. c >= ch + CH_IN_BLOCK_MVE \/ p >= row + 1 \/ (p >= row /\ c >= ch + offset)
      BY <1>6, <1>11, <2>1, <3>2
    <3>4. Missing(p, c) BY <1>20, <2>2, <2>3, <3>3 DEF Missing
    <3>5. ~(p \in ps /\ c \in cs)
      BY <1>6, <1>8, <1>11, <1>16, <1>17, <2>1, <2>4, <3>2
    <3> QED BY <3>4, <3>5
  <2>5. CASE ~(offset + vl < ActiveCh)
    <3>1. offset' = 0 /\ Row' = row + 1 BY <1>6, <1>10, <2>3, <2>5
    <3>2. c >= ch + CH_IN_BLOCK_MVE \/ p >= row + 1 BY <2>1, <2>2, <3>1
    <3>3. Missing(p, c) BY <1>20, <2>2, <2>3, <3>2 DEF Missing
    <3>4. ~(p \in ps /\ c \in cs)
      BY <1>6, <1>8, <1>11, <1>16, <1>17, <2>1, <3>2
    <3> QED BY <3>3, <3>4
  <2> QED BY <2>4, <2>5
<1>24. WindowInv'
  <2> SUFFICES ASSUME NEW w \in 0 .. buffer_count - 1, NEW k \in 0 .. KernelSize - 1,
                      NEW i \in 0 .. ActiveCh - 1
               PROVE  buffer'[(w * KernelSize + k) * CH_IN_BLOCK_MVE + i]
                        = Tap(Flushed + w, k, ch + i)'
    BY <1>2, <1>3, <1>4 DEF WindowInv
  <2>1. PICK q, c : q = Flushed + w /\ c = ch + i OBVIOUS
  <2>2. Tap(Flushed + w, k, ch + i)' = Tap(q, k, c) BY <1>2, <1>3, <1>4, <2>1 DEF Tap
  <2>3. buffer[(w * KernelSize + k) * CH_IN_BLOCK_MVE + i] = Tap(Flushed + w, k, ch + i)
    BY <1>1 DEF WindowInv
  <2> QED BY <1>3, <2>1, <2>2, <2>3
<1>25. ChannelInv' BY <1>3 DEF ChannelInv
<1>26. WrapperFresh' /\ GroupFresh' BY <1>1, <1>3 DEF WrapperFresh, GroupFresh, Groups
<1>27. BlockDone'
  <2> SUFFICES ASSUME NEW p \in 0 .. ImagePixels - 1, NEW c \in 0 .. layer.c - 1,
                      Missing(p, c), ~(p \in ps /\ c \in cs)
               PROVE  Missing(p, c)'
    BY <1>1, <1>22, GetsDone
  <2>1. p \in Int /\ c \in Int /\ c < layer.c /\ row \in Int BY <1>6, <1>14
  <2>2. /\ c >= ch
        /\ c >= ch + CH_IN_BLOCK_MVE \/ p >= row + 1 \/ (p >= row /\ c >= ch + offset)
    BY <1>14, <1>20 DEF Missing
  <2>3. c >= ch + CH_IN_BLOCK_MVE \/ p >= row + 1 \/ (p >= row /\ c >= ch + (offset + vl))
    BY <1>6, <1>8, <1>11, <1>16, <1>17, <2>1, <2>2
  <2>4. Row' = Flushed + i_buf' /\ row = Flushed + i_buf BY <1>4, <1>14 DEF Row
  <2>5. CASE offset + vl < ActiveCh
    <3>1. offset' = offset + vl /\ Row' = row BY <1>10, <2>4, <2>5
    <3> QED BY <1>3, <1>20, <2>2, <2>3, <3>1 DEF Missing
  <2>6. CASE ~(offset + vl < ActiveCh)
    <3>1. offset' = 0 /\ Row' = row + 1 BY <1>6, <1>10, <2>4, <2>6
    <3>2. c < ch + (offset + vl) BY <1>6, <1>8, <1>9, <1>11, <2>1, <2>6
    <3>3. c >= ch + CH_IN_BLOCK_MVE \/ p >= row + 1 BY <1>6, <1>11, <2>1, <2>3, <3>2
    <3>4. ch + 0 = ch BY <1>6
    <3> QED BY <1>3, <1>20, <2>2, <3>1, <3>3, <3>4 DEF Missing
  <2> QED BY <2>5, <2>6
<1>28. GroupDone' /\ ReturnDone' BY <1>1, <1>3 DEF GroupDone, ReturnDone, Groups
<1> QED BY <1>1, <1>22, <1>23, <1>24, <1>25, <1>26, <1>27, <1>28

LEMMA EndBlockStep == ASSUME RInv, EndBlock PROVE RInv' /\ StepRefines
<1> USE DEF RInv, Fresh, Done
<1>1. TInv' /\ TypeOK BY EndBlockTypes DEF TInv
<1>2. /\ UNCHANGED inputs /\ output' = output /\ offset' = offset
      /\ pc = "leftover" /\ pc \in Blocks
      /\ buffer_count' = 0 /\ ch' = ch + CH_IN_BLOCK_MVE
      /\ pc' \in {"im2col", "return"}
  BY DEF EndBlock, Blocks
<1>3. StepRefines BY <1>2, Quiet
<1>4. ch \in Nat /\ CH_IN_BLOCK_MVE \in Nat /\ layer.c \in Nat
  BY <1>1, Counters, Sizes, DwBlockAssumption
<1>5. BlockFresh'
  <2> SUFFICES ASSUME NEW p \in 0 .. ImagePixels - 1, NEW c \in 0 .. layer.c - 1, Missing(p, c)'
               PROVE  Missing(p, c)
    BY <1>2, StaysFresh
  <2>1. c >= ch + CH_IN_BLOCK_MVE BY <1>2 DEF Missing
  <2>2. c >= ch BY <1>4, <2>1
  <2> QED BY <2>1, <2>2 DEF Missing
<1>6. WindowInv'
  <2>1. 0 .. buffer_count' - 1 = {} BY <1>2
  <2> QED BY <2>1 DEF WindowInv
<1>7. ChannelInv' BY <1>2, <1>4 DEF ChannelInv
<1>8. WrapperFresh' /\ GroupFresh' BY <1>2 DEF WrapperFresh, GroupFresh, Groups
<1>9. /\ i_buf = buffer_count /\ i_buf' = 0 /\ i_out_y' = 0 /\ i_out_x' = 0
      /\ pc' = IF ch' < layer.c THEN "im2col" ELSE "return"
  BY DEF EndBlock
<1>10. Row = ImagePixels
  <2>1. Pix + 1 = ImagePixels BY <1>2 DEF TInv, BlockInv
  <2>2. Seen = Pix + 1 /\ Flushed + buffer_count = Seen BY <1>2, InBlock DEF TInv
  <2> QED BY <1>9, <2>1, <2>2 DEF Row
<1>11. ASSUME NEW p \in 0 .. ImagePixels - 1, NEW c \in 0 .. layer.c - 1
       PROVE  c >= ch + CH_IN_BLOCK_MVE \/ output[p * layer.c + c] = Element(p, c)
  <2>1. ImagePixels \in Nat BY <1>1, Counts
  <2>2. p \in Nat /\ p < ImagePixels BY <2>1
  <2>3. Width = 1 BY <1>2 DEF Width
  <2>4. ~(p >= Row + 1) /\ ~(p >= Row) BY <1>10, <2>1, <2>2
  <2>5. Missing(p, c) => c >= ch + CH_IN_BLOCK_MVE BY <2>3, <2>4 DEF Missing
  <2> QED BY <1>2, <2>5 DEF BlockDone
<1>12. BlockDone'
  <2> SUFFICES ASSUME pc' \in Blocks, NEW p \in 0 .. ImagePixels - 1, NEW c \in 0 .. layer.c - 1,
                      c >= ch + CH_IN_BLOCK_MVE
               PROVE  Missing(p, c)'
    <3>1. layer' = layer /\ ImagePixels' = ImagePixels BY <1>2, Fixed
    <3>2. \A p, c : Element(p, c)' = Element(p, c) BY <1>2, FixedValues
    <3> QED BY <1>2, <1>11, <3>1, <3>2 DEF BlockDone
  <2>1. pc' = "im2col" BY <1>2 DEF Blocks
  <2>2. Row' = 0
    <3>1. layer.ow \in Nat BY <1>1, Sizes
    <3>2. layer' = layer BY <1>2, Fixed
    <3> QED BY <1>2, <1>9, <2>1, <3>1, <3>2 DEF Row, Flushed, Seen, Pix
  <2>3. p >= 0 BY <1>1, Counts
  <2>4. offset = 0 BY <1>2, <1>9 DEF TInv, BlockInv
  <2>5. ch' + 0 = ch' BY <1>2, <1>4
  <2> QED BY <1>2, <2>2, <2>3, <2>4, <2>5 DEF Missing
<1>13. ReturnDone'
  <2> SUFFICES ASSUME pc' = "return", NEW o \in Conv!Outputs
               PROVE  output[Index(o)] = Conv!Value(o)
    <3>1. \A o : Index(o)' = Index(o) /\ Conv!Value(o)' = Conv!Value(o) BY <1>2, FixedValues
    <3>2. Conv!Outputs' = Conv!Outputs BY <1>2, FixedValues
    <3> QED BY <1>2, <3>1, <3>2 DEF ReturnDone
  <2>1. layer.mult = 1 /\ layer.n = 1 /\ Undilated BY <1>2 DEF TInv, BlockInv
  <2>2. o.ch \in 0 .. layer.c - 1
    <3>1. o.ch \in 0 .. OutCh - 1 BY <1>1, OutputFields
    <3> QED BY <1>4, <2>1, <3>1 DEF OutCh
  <2>3. Flat(o.batch, o.y, o.x) \in 0 .. ImagePixels - 1
    <3>1. Flat(o.batch, o.y, o.x) \in 0 .. layer.n * ImagePixels - 1 BY <1>1, IndexBound
    <3> QED BY <1>1, <2>1, <3>1, Counts
  <2>4. PICK p \in 0 .. ImagePixels - 1, c \in 0 .. layer.c - 1 :
          p = Flat(o.batch, o.y, o.x) /\ c = o.ch
    BY <2>2, <2>3
  <2>5. Index(o) = p * layer.c + c BY <1>4, <2>1, <2>4 DEF Index, OutCh
  <2>6. ~(c >= ch + CH_IN_BLOCK_MVE) BY <1>2, <1>4, <1>9
  <2>7. Element(p, c) = Conv!Value(o) BY <1>1, <2>1, <2>5, ElementIs
  <2> QED BY <1>11, <2>5, <2>6, <2>7
<1>14. GroupDone' BY <1>2 DEF GroupDone, Groups
<1> QED BY <1>1, <1>3, <1>5, <1>6, <1>7, <1>8, <1>12, <1>13, <1>14

LEMMA DispatchStep == ASSUME RInv, Dispatch PROVE RInv' /\ StepRefines
<1> USE DEF RInv, Fresh, Done
<1>1. TInv' /\ TypeOK BY DispatchTypes DEF TInv
<1>2. /\ UNCHANGED inputs /\ output' = output /\ pc = "wrapper"
      /\ buffer_count' = buffer_count /\ ch' = ch
      /\ pc' \in {"3x3", "refused", "im2col", "mult_4", "generic"}
      /\ pc' = "im2col" => layer.mult = 1 /\ layer.n = 1
  BY DEF Dispatch, lhs, BasicKernel
<1>3. StepRefines BY <1>2, Quiet
<1>4. ch = 0 /\ buffer_count = 0 BY <1>2 DEF TInv, WrapperInv
<1>5. Outputs' = Outputs /\ layer' = layer /\ ImagePixels' = ImagePixels BY <1>2, Fixed
<1>6. \A e \in 0 .. Outputs - 1 : output[e] = Undefined BY <1>2 DEF WrapperFresh
<1>7. WrapperFresh' /\ GroupFresh' BY <1>2, <1>5, <1>6 DEF WrapperFresh, GroupFresh
<1>8. BlockFresh'
  <2> SUFFICES ASSUME pc' \in Blocks, NEW p \in 0 .. ImagePixels - 1, NEW c \in 0 .. layer.c - 1
               PROVE  output'[p * layer.c + c] = Undefined
    BY <1>5 DEF BlockFresh
  <2>1. pc' = "im2col" BY <1>2 DEF Blocks
  <2>2. layer.mult = 1 /\ layer.n = 1 BY <1>2, <2>1
  <2>3. layer.c \in Nat /\ ImagePixels \in Nat /\ Outputs = (layer.n * ImagePixels) * OutCh
    BY <1>1, Sizes, Counts
  <2>4. Outputs = ImagePixels * layer.c BY <2>2, <2>3 DEF OutCh
  <2>5. PICK m \in Nat, n \in Nat : m = layer.c /\ n = ImagePixels BY <2>3
  <2>6. p * m + c \in 0 .. n * m - 1 BY <2>5, RowMajorBound
  <2> QED BY <1>2, <1>6, <2>4, <2>5, <2>6
<1>9. WindowInv'
  <2>1. 0 .. buffer_count' - 1 = {} BY <1>2, <1>4
  <2> QED BY <2>1 DEF WindowInv
<1>10. ChannelInv' BY <1>2, <1>4 DEF ChannelInv
<1>11. /\ out' = 0 /\ offset' = 0 /\ i_buf' = 0 /\ i_out_y' = 0 /\ i_out_x' = 0
  BY <1>2 DEF Dispatch, TInv, WrapperInv, pixel
<1>12. GroupDone'
  <2>1. Conv!Outputs' = Conv!Outputs BY <1>2, FixedValues
  <2>2. ASSUME NEW o \in Conv!Outputs PROVE ~(Index(o)' < out')
    <3>1. Index(o) \in 0 .. Outputs - 1 BY <1>1, IndexBound
    <3>2. Index(o)' = Index(o) BY <1>2, FixedValues
    <3> QED BY <1>1, <1>11, <3>1, <3>2, Counts
  <2> QED BY <2>1, <2>2 DEF GroupDone
<1>13. BlockDone'
  <2> SUFFICES ASSUME pc' \in Blocks, NEW p \in 0 .. ImagePixels - 1, NEW c \in 0 .. layer.c - 1
               PROVE  Missing(p, c)'
    BY <1>5 DEF BlockDone
  <2>1. pc' = "im2col" BY <1>2 DEF Blocks
  <2>2. layer.ow \in Nat BY <1>1, Sizes
  <2>3. Row' = 0
    BY <1>2, <1>4, <1>5, <1>11, <2>1, <2>2 DEF Row, Flushed, Seen, Pix
  <2>4. p >= 0 /\ c >= 0 BY <1>1, Counts, Sizes
  <2> QED BY <1>2, <1>4, <1>11, <2>3, <2>4 DEF Missing
<1>14. ReturnDone' BY <1>2 DEF ReturnDone
<1> QED BY <1>1, <1>3, <1>7, <1>8, <1>9, <1>10, <1>12, <1>13, <1>14

LEMMA InitRefines == ASSUME Init PROVE RInv /\ Conv!Init
<1>1. TInv BY InitTypes
<1>2. pc = "wrapper" /\ output = [i \in 0 .. Outputs - 1 |-> Undefined] BY DEF Init
<1>3. RInv
  BY <1>1, <1>2 DEF RInv, Fresh, Done, ChannelInv, WindowInv, WrapperFresh, GroupFresh, BlockFresh,
                    GroupDone, BlockDone, ReturnDone, Groups, Blocks
<1>4. Conv!Init
  <2>1. Conv!Outputs = [batch : 0 .. layer.n - 1, y : 0 .. layer.oh - 1,
                        x : 0 .. layer.ow - 1, ch : 0 .. OutCh - 1]
    BY DEF Conv!Outputs, Conv!OutCh, OutCh
  <2>2. ASSUME NEW o \in Conv!Outputs PROVE output[Index(o)] = Undefined
    <3>1. PICK e \in 0 .. Outputs - 1 : e = Index(o) BY <1>1, IndexBound DEF TInv
    <3> QED BY <1>2, <3>1
  <2>3. \A o \in Conv!Outputs :
          Index(o) = ((o.batch * layer.oh + o.y) * layer.ow + o.x) * OutCh + o.ch
    BY DEF Index, Flat
  <2> QED BY <2>1, <2>2, <2>3 DEF Conv!Init
<1> QED BY <1>3, <1>4

LEMMA StutterStep == ASSUME RInv, UNCHANGED vars PROVE RInv' /\ StepRefines
<1> USE DEF RInv, Fresh, Done
<1>1. TInv' BY StutterTypes
<1>2. UNCHANGED inputs BY DEF vars
<1>3. /\ pc' = pc /\ i_out_y' = i_out_y /\ i_out_x' = i_out_x
      /\ ch' = ch /\ offset' = offset /\ buffer' = buffer
      /\ buffer_count' = buffer_count /\ i_buf' = i_buf /\ out' = out /\ output' = output
  BY DEF vars, pixel, lhs
<1>4. layer' = layer /\ KernelSize' = KernelSize /\ ImagePixels' = ImagePixels /\ Outputs' = Outputs
  BY <1>2, Fixed
<1>5. ActiveCh' = ActiveCh /\ Flushed' = Flushed /\ Row' = Row /\ Width' = Width
  BY <1>3, <1>4 DEF ActiveCh, Flushed, Seen, Pix, Row, Width
<1>6. StepRefines BY <1>2, <1>3, Quiet
<1>7. WindowInv' BY <1>3, <1>4, <1>5 DEF WindowInv, Tap
<1>8. BlockFresh' BY <1>3, <1>4, <1>5 DEF BlockFresh, Missing
<1>9. ChannelInv' BY <1>3 DEF ChannelInv
<1>10. WrapperFresh' /\ GroupFresh' BY <1>3, <1>4 DEF WrapperFresh, GroupFresh
<1>11. Done'
  <2>1. Conv!Outputs' = Conv!Outputs BY <1>2, FixedValues
  <2>2. \A o : Index(o)' = Index(o) /\ Conv!Value(o)' = Conv!Value(o) BY <1>2, FixedValues
  <2>3. \A p, c : Element(p, c)' = Element(p, c) BY <1>2, FixedValues
  <2>4. GroupDone' /\ ReturnDone' BY <1>3, <2>1, <2>2 DEF GroupDone, ReturnDone
  <2>5. BlockDone' BY <1>3, <1>4, <1>5, <2>3 DEF BlockDone, Missing
  <2> QED BY <2>4, <2>5
<1> QED BY <1>1, <1>6, <1>7, <1>8, <1>9, <1>10, <1>11

LEMMA Step == ASSUME FittingLayers PROVE RInv /\ [Next]_vars => RInv' /\ StepRefines
BY DispatchStep, Group3x3Step, GroupMult4Step, GroupGenericStep, Im2colStep, FlushStep,
   LeftoverStep, EndBlockStep, StutterStep DEF Next

LEMMA Invariance == ASSUME FittingLayers PROVE Spec => []RInv
<1>1. Init => RInv BY InitRefines
<1>2. RInv /\ [Next]_vars => RInv' BY Step
<1> QED BY <1>1, <1>2, PTL DEF Spec

\* Whichever kernel runs in whichever build, each element of the output is
\* computed once, from its own window, weights, bias and quantization.  The
\* hypothesis leaves out two kinds of layers the code does not compute this way:
\* a 3x3 layer without a bias or with windows that miss the image, and, where the
\* vector code runs, more than one block of channels without a bias or with
\* pixels left over at the end of the block (the run depthwise_blocks shows that).
THEOREM DepthwiseRefinement == ASSUME FittingLayers PROVE Spec => ImplementsDepthwise
<1>1. Init => Conv!Init BY InitRefines
<1>2. RInv /\ [Next]_vars => StepRefines BY Step
<1> QED BY <1>1, <1>2, Invariance, PTL DEF Spec, ImplementsDepthwise, Conv!Spec, StepRefines

\* When the call returns, every channel of every pixel has been computed, under
\* the same hypothesis: no group, strip, flush or block is passed over.
THEOREM ReturnedDepthwise == ASSUME FittingLayers PROVE Spec => []ReturnsComplete
<1>1. RInv => ReturnsComplete
  <2> SUFFICES ASSUME RInv, pc = "return" PROVE Conv!Complete
    BY DEF ReturnsComplete
  <2>1. \A o \in Conv!Outputs : output[Index(o)] = Conv!Value(o)
    BY DEF RInv, Done, ReturnDone
  <2>2. \A o \in Conv!Outputs :
          Index(o) = ((o.batch * layer.oh + o.y) * layer.ow + o.x) * OutCh + o.ch
    BY DEF Index, Flat
  <2>3. Conv!Outputs = [batch : 0 .. layer.n - 1, y : 0 .. layer.oh - 1,
                        x : 0 .. layer.ow - 1, ch : 0 .. OutCh - 1]
    BY DEF Conv!Outputs, Conv!OutCh, OutCh
  <2> QED BY <2>1, <2>2, <2>3 DEF Conv!Complete
<1> QED BY <1>1, Invariance, PTL
=============================================================================
