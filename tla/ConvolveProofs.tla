--------------------------- MODULE ConvolveProofs ---------------------------
(***************************************************************************)
(* What holds of the s8 convolution for every layer and every build.       *)
(*                                                                         *)
(* The scratch memory that the sizing function promised is enough for      *)
(* whatever kernel the wrapper chooses (first part).                       *)
(*                                                                         *)
(* It computes the convolution, for every layer that FittingLayers admits  *)
(* (second part).  Whatever kernel runs, the output is written front to    *)
(* back: what is behind the output pointer is still missing (Fresh), and   *)
(* each step stores, for the next few pixels, the sum over the window of   *)
(* each (StepRefines).  For the general kernel this rests on BufferInv:    *)
(* the columns in the scratch buffer are the windows of the pixels visited *)
(* last, and the output pointer is as many pixels behind.                  *)
(***************************************************************************)
EXTENDS ConvolveS8, RowMajor, TLAPS

-----------------------------------------------------------------------------
(* Arithmetic.                                                             *)

\* RoundUp never rounds down, for the two widths the sizing function uses.
LEMMA RoundUpBound ==
  ASSUME NEW n \in Nat
  PROVE  /\ RoundUp(n, 4) \in Nat /\ RoundUp(n, 4) >= n
         /\ RoundUp(n, 8) \in Nat /\ RoundUp(n, 8) >= n
BY DEF RoundUp

\* One more column is one more KernelSize.
LEMMA OneMore ==
  ASSUME NEW k \in Nat, NEW size \in Nat
  PROVE  k * size + size = (k + 1) * size /\ k * size \in Nat
OBVIOUS

\* k columns of size units of c values fit in most such columns.
LEMMA ColumnsFit ==
  ASSUME NEW k \in 0 .. 4, NEW most \in {2, 4}, k <= most,
         NEW size \in Nat, NEW c \in Nat
  PROVE  /\ c * size \in Nat
         /\ k * size * c \in Nat
         /\ k * size * c <= most * (c * size)
<1>1. c * size \in Nat OBVIOUS
<1>2. k * size * c = k * (c * size) OBVIOUS
<1>3. \A p \in Nat : k * p \in Nat /\ k * p <= most * p
  <2>1. k \in {0, 1, 2, 3, 4} OBVIOUS
  <2> QED BY <2>1
<1> QED BY <1>1, <1>2, <1>3

-----------------------------------------------------------------------------
(* The inductive invariant.                                                *)

\* Control points of the general kernel.
General == {"im2col", "column_done", "leftover"}

LayerInv ==
  /\ layer \in Layers
  /\ build \in Builds

\* The kernel the call is in is the one the sizing function counted on.
ChoiceInv == pc \in General => ~IsPointwise /\ ~(IsOneRow /\ build = "vector")

\* The column pointer stands between two columns; there is room for the column
\* that comes next; other kernels leave the scratch buffer alone.
FillInv ==
  /\ \E columns \in 0 .. ColumnsPerFlush :
       /\ fill = columns * KernelSize
       /\ pc \in {"im2col", "leftover"} => columns < ColumnsPerFlush
  /\ pc \notin General => fill = 0

IInv == LayerInv /\ ChoiceInv /\ FillInv

-----------------------------------------------------------------------------

\* The sizes the assumptions give a layer.
LEMMA LayerTypes ==
  ASSUME LayerInv
  PROVE  /\ KernelSize \in Nat \ {0}
         /\ layer.c \in Nat \ {0}
         /\ ColumnsPerFlush \in {2, 4}
<1>1. layer.kw \in Nat \ {0} /\ layer.kh \in Nat \ {0} /\ layer.c \in Nat \ {0}
  BY LayersAssumption DEF LayerInv
<1>2. \A x, y \in Nat \ {0} : x * y \in Nat \ {0} OBVIOUS
<1> QED BY <1>1, <1>2 DEF KernelSize, ColumnsPerFlush

\* The inputs of a call never change, nor what is computed from them.
LEMMA InputsFixed ==
  ASSUME LayerInv, UNCHANGED inputs
  PROVE  /\ LayerInv'
         /\ KernelSize' = KernelSize
         /\ ColumnsPerFlush' = ColumnsPerFlush
         /\ IsPointwise' = IsPointwise
         /\ (IsOneRow /\ build = "vector")' = (IsOneRow /\ build = "vector")
BY DEF inputs, LayerInv, KernelSize, ColumnsPerFlush, IsPointwise, IsOneRow

\* The induction, before the dispatch.
LEMMA InitIInv == Init => IInv
<1> SUFFICES ASSUME Init PROVE IInv
  OBVIOUS
<1>1. LayerInv BY Layers1x1Assumption DEF Init, LayerInv
<1>2. 0 \in 0 .. ColumnsPerFlush /\ 0 * KernelSize = 0
  BY <1>1, LayerTypes
<1> QED BY <1>1, <1>2 DEF Init, IInv, ChoiceInv, FillInv, General

\* The induction, one case per action.
LEMMA NextIInv == IInv /\ [Next]_vars => IInv'
<1> SUFFICES ASSUME IInv, [Next]_vars PROVE IInv'
  OBVIOUS
<1> USE DEF IInv
<1>1. UNCHANGED inputs
  BY DEF Next, vars, inputs, Dispatch, Im2col, Flush, KeepFilling, Leftover, NoLeftover,
         EndBatch, Pointwise, Call1x1, Row1x1, OneRow
<1>2. LayerInv' /\ KernelSize' = KernelSize /\ ColumnsPerFlush' = ColumnsPerFlush
  BY <1>1, InputsFixed
<1>3. KernelSize \in Nat \ {0} /\ ColumnsPerFlush \in {2, 4}
  BY LayerTypes
<1>4. PICK columns \in 0 .. ColumnsPerFlush :
        /\ fill = columns * KernelSize
        /\ pc \in {"im2col", "leftover"} => columns < ColumnsPerFlush
  BY DEF FillInv
<1>5. columns \in 0 .. 4 BY <1>3
<1>6. ASSUME fill' = 0, pc' \notin General PROVE FillInv'
  BY <1>2, <1>3, <1>6 DEF FillInv, General
<1>7. ASSUME fill' = 0 PROVE FillInv'
  <2>1. 0 * KernelSize = 0 /\ 0 \in 0 .. ColumnsPerFlush /\ 0 < ColumnsPerFlush BY <1>3
  <2> QED BY <1>2, <1>7, <2>1 DEF FillInv
<1>8. CASE Dispatch
  <2>1. fill = 0 /\ fill' = fill BY <1>8 DEF Dispatch, FillInv, General
  <2>2. ChoiceInv'
    BY <1>1, <1>8, InputsFixed DEF Dispatch, ChoiceInv, General
  <2> QED BY <1>2, <1>7, <2>1, <2>2
<1>9. CASE Im2col
  <2>1. columns < ColumnsPerFlush /\ fill' = (columns + 1) * KernelSize
    BY <1>3, <1>4, <1>9, OneMore DEF Im2col
  <2>2. columns + 1 \in 0 .. ColumnsPerFlush BY <1>3, <2>1
  <2>3. pc \in General /\ pc' = "column_done" BY <1>9 DEF Im2col, General
  <2>4. FillInv' BY <1>2, <2>1, <2>2, <2>3 DEF FillInv, General
  <2>5. ChoiceInv' BY <1>1, <2>3, InputsFixed DEF ChoiceInv
  <2> QED BY <1>2, <2>4, <2>5
<1>10. CASE Flush
  <2>1. fill' = 0 /\ pc \in General BY <1>10 DEF Flush, General
  <2>2. ChoiceInv' BY <1>1, <2>1, InputsFixed DEF ChoiceInv
  <2> QED BY <1>2, <1>7, <2>1, <2>2
<1>11. CASE KeepFilling
  <2>1. columns < ColumnsPerFlush BY <1>3, <1>4, <1>11 DEF KeepFilling
  <2>2. fill' = fill /\ pc \in General /\ pc' \in General
    BY <1>11 DEF KeepFilling, NextPixel, General
  <2>3. FillInv' BY <1>2, <1>4, <2>1, <2>2 DEF FillInv, General
  <2>4. ChoiceInv' BY <1>1, <2>2, InputsFixed DEF ChoiceInv
  <2> QED BY <1>2, <2>3, <2>4
<1>12. CASE Leftover \/ NoLeftover
  <2>1. fill' = 0 /\ pc \in General
    BY <1>12 DEF Leftover, NoLeftover, EndBatch, General
  <2>2. ChoiceInv' BY <1>1, <2>1, InputsFixed DEF ChoiceInv
  <2> QED BY <1>2, <1>7, <2>1, <2>2
<1>13. CASE Pointwise \/ Call1x1 \/ Row1x1 \/ OneRow
  <2>1. /\ pc \notin General /\ pc' \notin General
        /\ fill' = fill
    BY <1>13 DEF Pointwise, Call1x1, Row1x1, OneRow, General
  <2>2. fill' = 0 BY <2>1 DEF FillInv
  <2> QED BY <1>2, <1>7, <2>1, <2>2 DEF ChoiceInv
<1>14. CASE UNCHANGED vars
  <2>1. fill' = fill /\ pc' = pc BY <1>14 DEF vars
  <2>2. FillInv' BY <1>2, <2>1 DEF FillInv
  <2>3. ChoiceInv' BY <1>1, <2>1, InputsFixed DEF ChoiceInv
  <2> QED BY <1>2, <2>2, <2>3
<1> QED
  BY <1>8, <1>9, <1>10, <1>11, <1>12, <1>13, <1>14 DEF Next

\* The column pointer stands where FillInv says, in every state.
LEMMA IInvInductive == Spec => []IInv
BY InitIInv, NextIInv, PTL DEF Spec

\* There the columns fit in the granted scratch.
LEMMA IInvFits == IInv => ScratchFits
<1> SUFFICES ASSUME IInv PROVE ScratchFits
  OBVIOUS
<1> USE DEF IInv
<1>1. KernelSize \in Nat /\ layer.c \in Nat /\ ColumnsPerFlush \in {2, 4}
  BY LayerTypes
<1>2. CASE pc \in General
  <2>1. PICK columns \in 0 .. ColumnsPerFlush : fill = columns * KernelSize
    BY DEF FillInv
  <2>2. columns \in 0 .. 4 /\ columns <= ColumnsPerFlush BY <1>1
  <2>3. /\ layer.c * KernelSize \in Nat
        /\ fill * layer.c \in Nat
        /\ fill * layer.c <= ColumnsPerFlush * (layer.c * KernelSize)
    BY <1>1, <2>1, <2>2, ColumnsFit
  <2>4. BufferSize = Im2colBufferSize BY <1>2 DEF BufferSize, ChoiceInv
  <2> DEFINE column == layer.c * KernelSize
             used == fill * layer.c
  <2> HIDE DEF column, used
  <2>5. column \in Nat /\ used \in Nat /\ used <= ColumnsPerFlush * column
    BY <2>3 DEF column, used
  <2>6. Im2colBufferSize = IF build = "vector" THEN 4 * RoundUp(column, 8)
                                               ELSE 2 * RoundUp(column, 4) * 2
    BY DEF Im2colBufferSize, column
  <2>7. used * ElementSize <= Im2colBufferSize
    BY <2>5, <2>6, RoundUpBound DEF ElementSize, ColumnsPerFlush
  <2> QED BY <2>4, <2>7 DEF ScratchFits, used
<1>3. CASE pc \notin General
  <2>1. fill = 0 BY <1>3 DEF FillInv
  <2>2. fill * layer.c * ElementSize = 0 BY <1>1, <2>1 DEF ElementSize
  <2>3. layer.c * KernelSize \in Nat BY <1>1
  <2>4. Im2colBufferSize \in Nat BY <2>3, RoundUpBound DEF Im2colBufferSize
  <2>5. BufferSize \in Nat BY <2>4 DEF BufferSize
  <2> QED BY <2>2, <2>5 DEF ScratchFits
<1> QED BY <1>2, <1>3

\* For every layer, in either build, no kernel writes past the end of the
\* scratch buffer of muriscv_nn_convolve_wrapper_s8_get_buffer_size() bytes.
THEOREM ScratchSuffices == Spec => []ScratchFits
BY IInvInductive, IInvFits, PTL
-----------------------------------------------------------------------------
(***************************************************************************)
(* The refinement                                                          *)
(***************************************************************************)
\* A pointwise layer does not change the size of the image; on one row the
\* vector build wants a filter of one row; the 1x1 kernel wants no horizontal
\* stride, and windows that begin in the image.
FittingLayers ==
  \A l \in Layers :
    /\ /\ l.px = 0 /\ l.py = 0 /\ l.c % 4 = 0
       /\ l.sx = 1 /\ l.sy = 1 /\ l.kw = 1 /\ l.kh = 1 /\ l.dx = 1 /\ l.dy = 1
       => l.oh = l.ih /\ l.ow = l.iw
    /\ "vector" \in Builds /\ l.ih = 1 /\ l.ow % 4 = 0 /\ l.dx = 1
       => l.kh = 1 /\ l.py = 0 /\ l.oh = 1
    /\ l \in Layers1x1 /\ l.px = 0 /\ l.py = 0
       => l.sx = 1 /\ l.ow <= l.iw /\ (l.oh - 1) * l.sy < l.ih

\* Pixel <<b, y, x>> of the output, counted through all images.
Flat(b, y, x) == (b * layer.oh + y) * layer.ow + x

\* What the window of the pixel has for kernel element t.
Tap(b, y, x, t) ==
  LET k_y == layer.sy * y - layer.py + layer.dy * (t \div layer.kw)
      k_x == layer.sx * x - layer.px + layer.dx * (t % layer.kw)
  IN IF k_y < 0 \/ k_y >= layer.ih \/ k_x < 0 \/ k_x >= layer.iw
     THEN Padding
     ELSE b * (layer.iw * layer.ih) + k_y * layer.iw + k_x

HasWindow(row, b, y, x) ==
  /\ DOMAIN row = 0 .. KernelSize - 1
  /\ \A t \in 0 .. KernelSize - 1 : row[t] = Tap(b, y, x, t)

Pixel(b, y, x, ch) == [batch |-> b, y |-> y, x |-> x, ch |-> ch]

-----------------------------------------------------------------------------
(***************************************************************************)
(* Windows                                                                 *)
(***************************************************************************)
LEMMA Sizes ==
  ASSUME LayerInv
  PROVE  /\ layer.n \in Nat \ {0} /\ layer.c \in Nat \ {0} /\ layer.oc \in Nat \ {0}
         /\ layer.ih \in Nat \ {0} /\ layer.iw \in Nat \ {0}
         /\ layer.kh \in Nat \ {0} /\ layer.kw \in Nat \ {0}
         /\ layer.oh \in Nat \ {0} /\ layer.ow \in Nat \ {0}
         /\ layer.sx \in Nat \ {0} /\ layer.sy \in Nat \ {0}
         /\ layer.dx \in Nat \ {0} /\ layer.dy \in Nat \ {0}
         /\ layer.px \in Nat /\ layer.py \in Nat
         /\ KernelSize \in Nat \ {0} /\ KernelSize = layer.kh * layer.kw
<1>1. /\ {layer.n, layer.c, layer.ih, layer.iw, layer.kh, layer.kw, layer.oh, layer.ow,
          layer.oc, layer.sx, layer.sy, layer.dx, layer.dy} \subseteq Nat \ {0}
      /\ {layer.px, layer.py} \subseteq Nat
  BY LayersAssumption DEF LayerInv
<1>2. KernelSize \in Nat \ {0} BY LayerTypes
<1>3. KernelSize = layer.kh * layer.kw BY <1>1 DEF KernelSize
<1> QED BY <1>1, <1>2, <1>3

\* Kernel element t is row t \div kw, column t % kw of the filter.
LEMMA Element ==
  ASSUME LayerInv, NEW t \in 0 .. KernelSize - 1
  PROVE  /\ (t \div layer.kw) \in 0 .. layer.kh - 1
         /\ (t % layer.kw) \in 0 .. layer.kw - 1
         /\ t = (t \div layer.kw) * layer.kw + (t % layer.kw)
<1>1. layer.kw \in Nat \ {0} /\ layer.kh \in Nat /\ KernelSize = layer.kh * layer.kw
  BY Sizes
<1> QED BY <1>1, RowMajorSplit

\* The other way round.
LEMMA ElementOf ==
  ASSUME LayerInv, NEW k_y \in 0 .. layer.kh - 1, NEW k_x \in 0 .. layer.kw - 1
  PROVE  /\ k_y * layer.kw + k_x \in 0 .. KernelSize - 1
         /\ (k_y * layer.kw + k_x) \div layer.kw = k_y
         /\ (k_y * layer.kw + k_x) % layer.kw = k_x
<1>1. layer.kw \in Nat \ {0} /\ layer.kh \in Nat /\ KernelSize = layer.kh * layer.kw
  BY Sizes
<1>2. k_y * layer.kw + k_x \in 0 .. KernelSize - 1 BY <1>1, RowMajorBound
<1> QED BY <1>1, <1>2, Euclid, k_y \in Int

\* The products of a row of memory that has the window of a pixel in it are the
\* ones the convolution asks for.
LEMMA RowIsWindow ==
  ASSUME LayerInv,
         NEW b \in Nat, NEW y \in Nat, NEW x \in Nat, NEW ch \in Nat,
         NEW row, HasWindow(row, b, y, x)
  PROVE  Dot(ch * KernelSize, row) = Conv!Window(Pixel(b, y, x, ch))
<1> DEFINE o == Pixel(b, y, x, ch)
           Y(k) == layer.sy * y - layer.py + layer.dy * k
           X(k) == layer.sx * x - layer.px + layer.dx * k
           In(k_y, k_x) == Y(k_y) \in 0 .. layer.ih - 1 /\ X(k_x) \in 0 .. layer.iw - 1
           Pair(k_y, k_x) == <<(ch * layer.kh + k_y) * layer.kw + k_x,
                               (b * layer.ih + Y(k_y)) * layer.iw + X(k_x)>>
<1>1. /\ layer.ih \in Nat /\ layer.iw \in Nat /\ layer.kh \in Nat /\ layer.kw \in Nat
      /\ layer.sx \in Nat /\ layer.sy \in Nat /\ layer.dx \in Nat /\ layer.dy \in Nat
      /\ layer.px \in Nat /\ layer.py \in Nat
      /\ KernelSize \in Nat /\ KernelSize = layer.kh * layer.kw
  BY Sizes
<1>2. \A k \in Nat : Y(k) \in Int /\ X(k) \in Int BY <1>1
<1>3. Conv!Window(o)
        = {Pair(tap[1], tap[2]) : tap \in
             {s \in (0 .. layer.kh - 1) \X (0 .. layer.kw - 1) : In(s[1], s[2])}}
  BY DEF Conv!Window, Conv!Taps, Conv!Inside, Conv!TapY, Conv!TapX, Pixel
<1>4. ASSUME NEW t \in 0 .. KernelSize - 1, NEW k_y \in 0 .. layer.kh - 1,
             NEW k_x \in 0 .. layer.kw - 1,
             t = k_y * layer.kw + k_x, t \div layer.kw = k_y, t % layer.kw = k_x
      PROVE  /\ row[t] # Padding <=> In(k_y, k_x)
             /\ In(k_y, k_x) => <<ch * KernelSize + t, row[t]>> = Pair(k_y, k_x)
  <2>1. k_y \in Nat /\ k_x \in Nat BY <1>1
  <2>2. Y(k_y) \in Int /\ X(k_x) \in Int BY <1>2, <2>1
  <2>3. row[t] = IF Y(k_y) < 0 \/ Y(k_y) >= layer.ih \/ X(k_x) < 0 \/ X(k_x) >= layer.iw
                 THEN Padding
                 ELSE b * (layer.iw * layer.ih) + Y(k_y) * layer.iw + X(k_x)
    BY <1>4 DEF Tap, HasWindow
  <2> DEFINE yy == Y(k_y)
             xx == X(k_x)
  <2> HIDE DEF yy, xx
  <2>4. ~In(k_y, k_x) => row[t] = Padding
    BY <1>1, <2>2, <2>3
  <2>5. ASSUME In(k_y, k_x)
        PROVE  row[t] = (b * layer.ih + Y(k_y)) * layer.iw + X(k_x) /\ row[t] \in Nat
    <3>1. yy \in Nat /\ xx \in Nat BY <1>1, <2>5 DEF yy, xx
    <3>2. row[t] = b * (layer.iw * layer.ih) + yy * layer.iw + xx
      BY <1>1, <2>2, <2>3, <2>5 DEF yy, xx
    <3>3. (b * layer.ih + yy) * layer.iw = b * (layer.iw * layer.ih) + yy * layer.iw
      BY <1>1, <3>1
    <3>4. b * (layer.iw * layer.ih) \in Nat /\ yy * layer.iw \in Nat
      <4>1. layer.iw * layer.ih \in Nat BY <1>1
      <4> QED BY <1>1, <3>1, <4>1
    <3>5. row[t] = (b * layer.ih + yy) * layer.iw + xx /\ row[t] \in Nat
      BY <3>1, <3>2, <3>3, <3>4
    <3> QED BY <3>5 DEF yy, xx
  <2>6. ch * KernelSize + t = (ch * layer.kh + k_y) * layer.kw + k_x
    <3>1. ch * (layer.kh * layer.kw) = (ch * layer.kh) * layer.kw BY <1>1
    <3>2. (ch * layer.kh + k_y) * layer.kw = (ch * layer.kh) * layer.kw + k_y * layer.kw
      <4>1. ch * layer.kh \in Nat BY <1>1
      <4> QED BY <1>1, <2>1, <4>1
    <3>3. (ch * layer.kh) * layer.kw \in Int /\ k_y * layer.kw \in Int
      <4>1. ch * layer.kh \in Nat BY <1>1
      <4> QED BY <1>1, <2>1, <4>1
    <3> QED BY <1>1, <1>4, <2>1, <3>1, <3>2, <3>3
  <2>7. \A v \in Nat : v # Padding BY DEF Padding
  <2> QED BY <2>4, <2>5, <2>6, <2>7
<1> HIDE DEF In, Pair, o
<1>5. Dot(ch * KernelSize, row) \subseteq Conv!Window(o)
  <2> SUFFICES ASSUME NEW t \in 0 .. KernelSize - 1, row[t] # Padding
               PROVE  <<ch * KernelSize + t, row[t]>> \in Conv!Window(o)
    BY DEF Dot, HasWindow
  <2> DEFINE tap == <<t \div layer.kw, t % layer.kw>>
  <2>1. /\ (t \div layer.kw) \in 0 .. layer.kh - 1 /\ (t % layer.kw) \in 0 .. layer.kw - 1
        /\ t = (t \div layer.kw) * layer.kw + (t % layer.kw)
    BY Element
  <2>2. In(tap[1], tap[2]) /\ <<ch * KernelSize + t, row[t]>> = Pair(tap[1], tap[2])
    BY <1>4, <2>1
  <2>3. tap \in (0 .. layer.kh - 1) \X (0 .. layer.kw - 1) BY <2>1
  <2> HIDE DEF tap
  <2> QED BY <1>3, <2>2, <2>3
<1>6. Conv!Window(o) \subseteq Dot(ch * KernelSize, row)
  <2> SUFFICES ASSUME NEW tap \in (0 .. layer.kh - 1) \X (0 .. layer.kw - 1), In(tap[1], tap[2])
               PROVE  Pair(tap[1], tap[2]) \in Dot(ch * KernelSize, row)
    BY <1>3
  <2> DEFINE t == tap[1] * layer.kw + tap[2]
  <2>1. tap[1] \in 0 .. layer.kh - 1 /\ tap[2] \in 0 .. layer.kw - 1 OBVIOUS
  <2>2. t \in 0 .. KernelSize - 1 /\ t \div layer.kw = tap[1] /\ t % layer.kw = tap[2]
    BY <2>1, ElementOf
  <2>3. row[t] # Padding /\ <<ch * KernelSize + t, row[t]>> = Pair(tap[1], tap[2])
    BY <1>4, <2>1, <2>2
  <2> HIDE DEF t
  <2> QED BY <2>2, <2>3 DEF Dot, HasWindow
<1> QED BY <1>5, <1>6 DEF o

\* The one pixel of a pointwise window.
LEMMA PointIsWindow ==
  ASSUME LayerInv, FittingLayers, IsPointwise,
         NEW b \in Nat, NEW y \in 0 .. layer.oh - 1, NEW x \in 0 .. layer.ow - 1, NEW ch \in Nat
  PROVE  Dot(ch, [t \in {0} |-> Flat(b, y, x)]) = Conv!Window(Pixel(b, y, x, ch))
<1> DEFINE o == Pixel(b, y, x, ch)
<1>1. /\ layer.oh \in Nat \ {0} /\ layer.ow \in Nat \ {0}
      /\ layer.oh = layer.ih /\ layer.ow = layer.iw
      /\ layer.px = 0 /\ layer.py = 0 /\ layer.sx = 1 /\ layer.sy = 1
      /\ layer.kw = 1 /\ layer.kh = 1 /\ layer.dx = 1 /\ layer.dy = 1
  BY Sizes DEF IsPointwise, FittingLayers, LayerInv
<1>2. Flat(b, y, x) \in Nat
  <2>1. b * layer.oh \in Nat BY <1>1
  <2>2. (b * layer.oh + y) * layer.ow \in Nat BY <1>1, <2>1
  <2> QED BY <1>1, <2>2 DEF Flat
<1>3. Dot(ch, [t \in {0} |-> Flat(b, y, x)]) = {<<ch, Flat(b, y, x)>>}
  <2>1. Flat(b, y, x) # Padding BY <1>2 DEF Padding
  <2> DEFINE row == [t \in {0} |-> Flat(b, y, x)]
  <2>2. DOMAIN row = {0} /\ row[0] = Flat(b, y, x) OBVIOUS
  <2> HIDE DEF row
  <2>3. {u \in DOMAIN row : row[u] # Padding} = {0} BY <2>1, <2>2
  <2>4. Dot(ch, row) = {<<ch + t, row[t]>> : t \in {0}} BY <2>3 DEF Dot
  <2>5. ch + 0 = ch OBVIOUS
  <2>6. Dot(ch, row) = {<<ch, Flat(b, y, x)>>} BY <2>2, <2>4, <2>5
  <2> QED BY <2>6 DEF row
<1>4. Conv!Taps = {<<0, 0>>}
  <2>1. 0 .. 1 - 1 = {0} OBVIOUS
  <2> QED BY <1>1, <2>1 DEF Conv!Taps
<1>5. Conv!TapY(o, <<0, 0>>) = y /\ Conv!TapX(o, <<0, 0>>) = x
  BY <1>1 DEF Conv!TapY, Conv!TapX, Pixel
<1>6. Conv!Inside(y, x) BY <1>1 DEF Conv!Inside
<1>7. o.batch = b /\ o.ch = ch BY DEF Pixel
<1>8. Conv!Window(o)
        = {<<(ch * layer.kh + 0) * layer.kw + 0, (b * layer.ih + y) * layer.iw + x>>}
  <2> HIDE DEF o
  <2>1. {t \in Conv!Taps : Conv!Inside(Conv!TapY(o, t), Conv!TapX(o, t))} = {<<0, 0>>}
    BY <1>4, <1>5, <1>6
  <2>2. Conv!Window(o)
          = {<<(o.ch * layer.kh + tap[1]) * layer.kw + tap[2],
               (o.batch * layer.ih + Conv!TapY(o, tap)) * layer.iw + Conv!TapX(o, tap)>> :
               tap \in {<<0, 0>>}}
    BY <2>1 DEF Conv!Window
  <2>3. <<0, 0>>[1] = 0 /\ <<0, 0>>[2] = 0 OBVIOUS
  <2> QED BY <1>5, <1>7, <2>2, <2>3
<1>9. (ch * layer.kh + 0) * layer.kw + 0 = ch BY <1>1
<1> QED BY <1>1, <1>3, <1>8, <1>9 DEF Flat, o

\* The 1x1 kernel reads its row of pixels where their windows are.
LEMMA PixelIsWindow ==
  ASSUME LayerInv, FittingLayers, layer \in Layers1x1, layer.px = 0, layer.py = 0,
         NEW b \in Nat, NEW y \in 0 .. layer.oh - 1, NEW x \in 0 .. layer.ow - 1,
         NEW ch \in Nat, NEW base, base = b * (layer.iw * layer.ih) + y * (layer.iw * layer.sy)
  PROVE  /\ Dot(ch, [t \in {0} |-> base + x]) = Conv!Window(Pixel(b, y, x, ch))
         /\ base + x \in Int
<1>1. /\ layer.oh \in Nat \ {0} /\ layer.ow \in Nat \ {0} /\ layer.sy \in Nat /\ layer.dx \in Nat
      /\ layer.ih \in Nat \ {0} /\ layer.iw \in Nat \ {0} /\ layer.dy \in Nat
      /\ layer.sx = 1 /\ layer.ow <= layer.iw /\ (layer.oh - 1) * layer.sy < layer.ih
      /\ layer.kw = 1 /\ layer.kh = 1 /\ KernelSize = 1
  <2>1. layer.kw = 1 /\ layer.kh = 1 BY Layers1x1Assumption
  <2>2. layer.sx = 1 /\ layer.ow <= layer.iw /\ (layer.oh - 1) * layer.sy < layer.ih
    BY DEF FittingLayers, LayerInv
  <2> QED BY <2>1, <2>2, Sizes DEF KernelSize
<1>2. y \in Nat /\ x \in Nat /\ x < layer.iw BY <1>1
<1>3. layer.sy * y \in Nat /\ layer.sy * y < layer.ih
  <2>1. y * layer.sy <= (layer.oh - 1) * layer.sy
    <3>1. layer.oh - 1 \in Nat /\ y <= layer.oh - 1 BY <1>1
    <3> QED BY <1>1, <1>2, <3>1, Monotone
  <2>2. y * layer.sy \in Nat /\ layer.sy * y = y * layer.sy BY <1>1, <1>2
  <2>3. (layer.oh - 1) * layer.sy \in Int BY <1>1
  <2> QED BY <1>1, <2>1, <2>2, <2>3
<1>4. Tap(b, y, x, 0) = base + x
  <2>1. (0 \div 1) = 0 /\ (0 % 1) = 0 OBVIOUS
  <2>2. layer.sy * y - layer.py + layer.dy * (0 \div layer.kw) = layer.sy * y
    BY <1>1, <1>3, <2>1
  <2>3. layer.sx * x - layer.px + layer.dx * (0 % layer.kw) = x BY <1>1, <1>2, <2>1
  <2>4. Tap(b, y, x, 0) = b * (layer.iw * layer.ih) + (layer.sy * y) * layer.iw + x
    BY <1>1, <1>2, <1>3, <2>2, <2>3 DEF Tap
  <2>5. (layer.sy * y) * layer.iw = y * (layer.iw * layer.sy) BY <1>1, <1>2
  <2> QED BY <2>4, <2>5
<1>5. base + x \in Int
  <2>1. layer.iw * layer.ih \in Nat /\ layer.iw * layer.sy \in Nat BY <1>1
  <2>2. b * (layer.iw * layer.ih) \in Nat /\ y * (layer.iw * layer.sy) \in Nat
    BY <1>2, <2>1
  <2> QED BY <1>2, <2>2
<1>6. PICK row : row = [t \in {0} |-> base + x] OBVIOUS
<1>7. HasWindow(row, b, y, x)
  <2>1. 0 .. KernelSize - 1 = {0} BY <1>1
  <2> QED BY <1>4, <1>6, <2>1 DEF HasWindow
<1>8. Dot(ch * KernelSize, row) = Conv!Window(Pixel(b, y, x, ch)) BY <1>2, <1>7, RowIsWindow
<1>9. ch * KernelSize = ch BY <1>1
<1> QED BY <1>5, <1>6, <1>8, <1>9

-----------------------------------------------------------------------------
(* The vector code for one row.                                            *)

StretchProducts(weight, from, to) == {<<weight + t, from + t>> : t \in 0 .. to - 1}

RowProducts(b, est, ch) ==
  {<<layer.kw * ch + k, b * layer.iw + est + k>> :
     k \in {j \in 0 .. layer.kw - 1 : est + j \in 0 .. layer.iw - 1}}

\* The products of a stretch of the input.
LEMMA Stretch ==
  ASSUME NEW weight \in Nat, NEW from \in Nat, NEW to \in Int
  PROVE  Dot(weight, [t \in 0 .. to - 1 |-> from + t])
           = StretchProducts(weight, from, to)
<1> DEFINE row == [t \in 0 .. to - 1 |-> from + t]
<1>1. \A t \in 0 .. to - 1 : row[t] = from + t /\ row[t] # Padding
  BY DEF Padding
<1>2. DOMAIN row = 0 .. to - 1 OBVIOUS
<1> HIDE DEF row
<1>3. {u \in DOMAIN row : row[u] # Padding} = 0 .. to - 1 BY <1>1, <1>2
<1>4. Dot(weight, row) = {<<weight + t, row[t]>> : t \in 0 .. to - 1} BY <1>3 DEF Dot
<1>5. Dot(weight, row) = {<<weight + t, from + t>> : t \in 0 .. to - 1} BY <1>1, <1>4
<1> QED BY <1>5 DEF row, StretchProducts

\* A window of one row is a stretch of the row.
LEMMA RowWindow ==
  ASSUME LayerInv, layer.kh = 1, layer.ih = 1, layer.py = 0, layer.dx = 1,
         NEW b \in Nat, NEW x \in Nat, NEW ch \in Nat,
         NEW est \in Int, est = layer.sx * x - layer.px
  PROVE  Conv!Window(Pixel(b, 0, x, ch)) = RowProducts(b, est, ch)
<1> DEFINE o == Pixel(b, 0, x, ch)
           Ks == {j \in 0 .. layer.kw - 1 : est + j \in 0 .. layer.iw - 1}
<1>1. /\ layer.iw \in Nat /\ layer.kw \in Nat \ {0} /\ layer.sy \in Nat /\ layer.dy \in Nat
      /\ layer.sx \in Nat /\ layer.px \in Nat
  BY Sizes
<1>2. ASSUME NEW k \in 0 .. layer.kw - 1
      PROVE  /\ Conv!TapY(o, <<0, k>>) = 0
             /\ Conv!TapX(o, <<0, k>>) = est + k
  BY <1>1 DEF Conv!TapY, Conv!TapX, Pixel
<1>3. Conv!Taps = {0} \X (0 .. layer.kw - 1)
  <2>1. 0 .. 1 - 1 = {0} OBVIOUS
  <2> QED BY <2>1 DEF Conv!Taps
<1>4. {t \in Conv!Taps : Conv!Inside(Conv!TapY(o, t), Conv!TapX(o, t))} = {<<0, k>> : k \in Ks}
  <2> HIDE DEF o
  <2>1. \A k \in 0 .. layer.kw - 1 :
          Conv!Inside(Conv!TapY(o, <<0, k>>), Conv!TapX(o, <<0, k>>)) <=> k \in Ks
    <3> SUFFICES ASSUME NEW k \in 0 .. layer.kw - 1
                 PROVE  Conv!Inside(0, est + k) <=> k \in Ks
      BY <1>2
    <3> QED BY <1>1 DEF Conv!Inside
  <2> QED BY <1>3, <2>1
<1> DEFINE F(tap) == <<(o.ch * layer.kh + tap[1]) * layer.kw + tap[2],
                       (o.batch * layer.ih + Conv!TapY(o, tap)) * layer.iw + Conv!TapX(o, tap)>>
           G(k) == <<layer.kw * ch + k, b * layer.iw + est + k>>
<1>5. Conv!Window(o) = {F(tap) : tap \in {<<0, k>> : k \in Ks}}
  BY <1>4 DEF Conv!Window
<1>6. o.ch = ch /\ o.batch = b BY DEF Pixel
<1>7. ASSUME NEW k \in Ks PROVE F(<<0, k>>) = G(k)
  <2>1. k \in 0 .. layer.kw - 1 OBVIOUS
  <2>2. (ch * 1 + 0) * layer.kw + k = layer.kw * ch + k BY <1>1
  <2>3. b * 1 + 0 = b OBVIOUS
  <2>4. b * layer.iw \in Int BY <1>1
  <2>5. b * layer.iw + (est + k) = b * layer.iw + est + k BY <2>1, <2>4
  <2>6. <<0, k>>[1] = 0 /\ <<0, k>>[2] = k OBVIOUS
  <2> HIDE DEF o, Ks
  <2> QED BY <1>2, <1>6, <2>1, <2>2, <2>3, <2>5, <2>6
<1> HIDE DEF F, G, o, Ks
<1>8. Conv!Window(o) = {G(k) : k \in Ks}
  <2>1. {F(tap) : tap \in {<<0, k>> : k \in Ks}} = {F(<<0, k>>) : k \in Ks} OBVIOUS
  <2>2. {F(<<0, k>>) : k \in Ks} = {G(k) : k \in Ks} BY <1>7
  <2> QED BY <1>5, <2>1, <2>2
<1> QED BY <1>8 DEF o, Ks, G, RowProducts

\* Each of the four windows is read whole if the first begins and the last ends
\* inside the row, and cut to the row otherwise.
LEMMA OneRowIsWindow ==
  ASSUME LayerInv, FittingLayers, IsOneRow, build = "vector", i_out_x \in Nat,
         NEW b \in Nat, in_base = b * layer.iw,
         NEW i \in 0 .. 3, NEW ch \in Nat
  PROVE  OneRowResult(i, ch) = Conv!Window(Pixel(b, 0, i_out_x + i, ch))
<1> DEFINE est == EstInputX(i)
           G(k) == <<layer.kw * ch + k, b * layer.iw + est + k>>
           Ks == {j \in 0 .. layer.kw - 1 : est + j \in 0 .. layer.iw - 1}
<1>1. /\ layer.kh = 1 /\ layer.ih = 1 /\ layer.py = 0 /\ layer.dx = 1
  BY DEF IsOneRow, FittingLayers, LayerInv
<1>2. /\ layer.iw \in Nat \ {0} /\ layer.kw \in Nat \ {0} /\ layer.sx \in Nat /\ layer.px \in Nat
      /\ b * layer.iw \in Nat /\ layer.kw * ch \in Nat
  BY Sizes
<1>3. \A j \in 0 .. 3 : EstInputX(j) = layer.sx * i_out_x - layer.px + j * layer.sx
                          /\ EstInputX(j) \in Int
  <2> SUFFICES ASSUME NEW j \in 0 .. 3
               PROVE  EstInputX(j) = layer.sx * i_out_x - layer.px + j * layer.sx
                      /\ EstInputX(j) \in Int
    OBVIOUS
  <2>1. layer.sx * (i_out_x + j) = layer.sx * i_out_x + j * layer.sx BY <1>2
  <2>2. layer.sx * i_out_x \in Int /\ j * layer.sx \in Int BY <1>2
  <2> QED BY <1>2, <2>1, <2>2 DEF EstInputX
<1>4. est \in Int /\ est = layer.sx * (i_out_x + i) - layer.px BY <1>3 DEF EstInputX
<1>5. Conv!Window(Pixel(b, 0, i_out_x + i, ch)) = {G(k) : k \in Ks}
  <2> HIDE DEF est
  <2>1. Conv!Window(Pixel(b, 0, i_out_x + i, ch)) = RowProducts(b, est, ch)
    BY <1>1, <1>4, RowWindow, i_out_x + i \in Nat
  <2> QED BY <2>1 DEF RowProducts
<1>6. CASE AtEdge
  <2> DEFINE begin == KerBegin(i)
             end == KerEnd(i)
             from == in_base + InputBegin(i)
  <2>1. /\ begin = (IF 0 > -est THEN 0 ELSE -est) /\ begin \in Nat
        /\ InputBegin(i) = begin + est /\ InputBegin(i) \in Nat
        /\ end = (IF layer.kw < layer.iw - est THEN layer.kw ELSE layer.iw - est) /\ end \in Int
    BY <1>2, <1>4 DEF KerBegin, InputBegin, KerEnd, Larger, Smaller
  <2>2. from = b * layer.iw + est + begin /\ from \in Nat BY <1>2, <1>4, <2>1
  <2>3. layer.kw * ch + begin \in Nat /\ end - begin \in Int BY <1>2, <2>1
  <2>4. OneRowResult(i, ch)
          = Dot(layer.kw * ch + begin, [t \in 0 .. end - begin - 1 |-> from + t])
    BY <1>6 DEF OneRowResult
  <2> HIDE DEF begin, end, from, est
  <2>5. OneRowResult(i, ch)
          = {<<layer.kw * ch + begin + t, from + t>> : t \in 0 .. (end - begin) - 1}
    <3>1. OneRowResult(i, ch) = StretchProducts(layer.kw * ch + begin, from, end - begin)
      BY <2>2, <2>3, <2>4, Stretch
    <3> QED BY <3>1 DEF StretchProducts
  <2>6. \A t \in 0 .. (end - begin) - 1 :
          begin + t \in Ks /\ <<layer.kw * ch + begin + t, from + t>> = G(begin + t)
    BY <1>2, <1>4, <2>1, <2>2
  <2>7. \A k \in Ks : k - begin \in 0 .. (end - begin) - 1 /\ begin + (k - begin) = k
    BY <1>2, <1>4, <2>1
  <2> HIDE DEF G, Ks
  <2>8. OneRowResult(i, ch) = {G(k) : k \in Ks}
    <3>1. OneRowResult(i, ch) = {G(begin + t) : t \in 0 .. (end - begin) - 1} BY <2>5, <2>6
    <3>2. {G(begin + t) : t \in 0 .. (end - begin) - 1} \subseteq {G(k) : k \in Ks} BY <2>6
    <3>3. {G(k) : k \in Ks} \subseteq {G(begin + t) : t \in 0 .. (end - begin) - 1}
      <4> SUFFICES ASSUME NEW k \in Ks
                   PROVE  G(k) \in {G(begin + t) : t \in 0 .. (end - begin) - 1}
        OBVIOUS
      <4>1. k - begin \in 0 .. (end - begin) - 1 /\ G(k) = G(begin + (k - begin)) BY <2>7
      <4> QED BY <4>1
    <3> QED BY <3>1, <3>2, <3>3
  <2> QED BY <1>5, <2>8
<1>7. CASE ~AtEdge
  <2> DEFINE from == in_base + InputBegin(0) + i * layer.sx
  <2>1. i * layer.sx \in Nat /\ 3 * layer.sx \in Nat /\ i * layer.sx <= 3 * layer.sx
    <3>1. i \in {0, 1, 2, 3} OBVIOUS
    <3> QED BY <1>2, <3>1
  <2>2. EstInputX(0) >= 0 /\ EstInputX(3) + layer.kw <= layer.iw
    BY <1>2, <1>3, <1>7 DEF AtEdge, KerBegin, KerEnd, Larger, Smaller
  <2>3. est = EstInputX(0) + i * layer.sx /\ EstInputX(3) = EstInputX(0) + 3 * layer.sx
    <3>1. layer.sx * i_out_x \in Int /\ 0 * layer.sx = 0 BY <1>2
    <3> QED BY <1>2, <1>3, <2>1, <3>1
  <2>4. est >= 0 /\ est + layer.kw <= layer.iw BY <1>2, <1>3, <1>4, <2>1, <2>2, <2>3
  <2>5. InputBegin(0) = EstInputX(0) BY <1>3, <2>2 DEF InputBegin, Larger
  <2>6. from = b * layer.iw + est /\ from \in Nat
    <3>1. in_base \in Nat /\ in_base = b * layer.iw BY <1>2
    <3>2. from = in_base + EstInputX(0) + i * layer.sx BY <2>5
    <3> HIDE DEF est
    <3> QED BY <1>3, <1>4, <2>1, <2>2, <2>3, <3>1, <3>2
  <2>7. OneRowResult(i, ch) = Dot(layer.kw * ch, [t \in 0 .. layer.kw - 1 |-> from + t])
    BY <1>7 DEF OneRowResult
  <2> HIDE DEF from, est
  <2>8. OneRowResult(i, ch) = {<<layer.kw * ch + t, from + t>> : t \in 0 .. layer.kw - 1}
    <3>1. layer.kw * ch \in Nat /\ from \in Nat /\ layer.kw \in Int BY <1>2, <2>6
    <3>2. Dot(layer.kw * ch, [t \in 0 .. layer.kw - 1 |-> from + t])
            = StretchProducts(layer.kw * ch, from, layer.kw)
      BY <3>1, Stretch
    <3>3. OneRowResult(i, ch) = StretchProducts(layer.kw * ch, from, layer.kw)
      BY <2>7, <3>2
    <3> QED BY <3>3 DEF StretchProducts
  <2>9. Ks = 0 .. layer.kw - 1 BY <1>2, <1>4, <2>4
  <2> QED BY <1>5, <2>6, <2>8, <2>9
<1> QED BY <1>6, <1>7

-----------------------------------------------------------------------------
(***************************************************************************)
(* Storing                                                                 *)
(***************************************************************************)
Elements == 0 .. layer.n * layer.oh * layer.ow * layer.oc - 1

\* The results of `rows` pixels are stored from pixel q0 on, and nothing else.
RowsStored(q0, rows, result) ==
  \A q \in Nat, ch \in Channels :
    q * layer.oc + ch \in DOMAIN output_data =>
      output_data'[q * layer.oc + ch]
        = IF q \in q0 .. q0 + rows - 1 THEN result[<<q - q0, ch>>]
          ELSE output_data[q * layer.oc + ch]

LEMMA Stored ==
  ASSUME LayerInv, NEW q0 \in Nat, NEW rows \in Nat, NEW dest, dest = q0 * layer.oc,
         NEW result, Store(dest, rows, result)
  PROVE  RowsStored(q0, rows, result)
<1> SUFFICES ASSUME NEW q \in Nat, NEW ch \in Channels, NEW e \in DOMAIN output_data,
                    e = q * layer.oc + ch
             PROVE  output_data'[e] = IF q \in q0 .. q0 + rows - 1 THEN result[<<q - q0, ch>>]
                                      ELSE output_data[e]
  BY DEF RowsStored
<1>1. layer.oc \in Nat \ {0} /\ ch \in 0 .. layer.oc - 1 BY Sizes DEF Channels
<1>2. output_data'[e] = IF e \in dest .. dest + rows * layer.oc - 1
                        THEN result[<<(e - dest) \div layer.oc, (e - dest) % layer.oc>>]
                        ELSE output_data[e]
  BY DEF Store
<1>3. q - q0 \in Int /\ e - dest = (q - q0) * layer.oc + ch
  <2>1. (q - q0) * layer.oc = q * layer.oc - q0 * layer.oc BY <1>1
  <2>2. q * layer.oc \in Int /\ q0 * layer.oc \in Int BY <1>1
  <2> QED BY <1>1, <2>1, <2>2
<1>4. (e - dest) \div layer.oc = q - q0 /\ (e - dest) % layer.oc = ch
  BY <1>1, <1>3, Euclid
<1>5. dest \in Int /\ e \in Int /\ rows * layer.oc \in Int /\ (q - q0) * layer.oc \in Int
  BY <1>1
<1>6. e \in dest .. dest + rows * layer.oc - 1 <=> q \in q0 .. q0 + rows - 1
  <2>1. CASE q < q0
    <3>1. PICK d \in Nat : q0 = q + 1 + d
      <4>1. q0 - q - 1 \in Nat /\ q0 = q + 1 + (q0 - q - 1) BY <2>1
      <4> QED BY <4>1
    <3>2. q0 * layer.oc = q * layer.oc + layer.oc + d * layer.oc BY <1>1, <3>1
    <3>3. d * layer.oc >= 0 /\ d * layer.oc \in Int /\ q * layer.oc \in Int BY <1>1
    <3>4. e < dest BY <1>1, <1>5, <3>2, <3>3
    <3> QED BY <1>5, <2>1, <3>4
  <2>2. CASE q >= q0 /\ q < q0 + rows
    <3>1. q - q0 \in 0 .. rows - 1 BY <2>2
    <3>2. (q - q0) * layer.oc + ch \in 0 .. rows * layer.oc - 1 BY <1>1, <3>1, RowMajorBound
    <3>3. e - dest \in 0 .. rows * layer.oc - 1 BY <1>3, <3>2
    <3> QED BY <1>5, <2>2, <3>3
  <2>3. CASE q >= q0 + rows
    <3>1. rows * layer.oc <= (q - q0) * layer.oc BY <1>1, <2>3, Monotone
    <3>2. e - dest >= rows * layer.oc BY <1>1, <1>3, <1>5, <3>1
    <3> QED BY <1>5, <2>3, <3>2
  <2> QED BY <2>1, <2>2, <2>3
<1> QED BY <1>2, <1>4, <1>6

-----------------------------------------------------------------------------
(***************************************************************************)
(* The inductive invariant                                                 *)
(***************************************************************************)
ImagePixels == layer.oh * layer.ow
Pixels      == layer.n * ImagePixels

\* The pixel the loops are at, the pixels visited, the columns in the buffer.
Pix  == i_out_y * layer.ow + i_out_x
Seen == IF pc = "im2col" THEN Pix ELSE Pix + 1
Held == fill \div KernelSize

\* The first pixel that is not stored.
First ==
  IF pc \in General THEN i_batch * ImagePixels + (Seen - Held)
  ELSE IF pc = "pointwise" THEN i_out_x
  ELSE IF pc = "row_1x1" THEN i_batch * ImagePixels + i_out_y * layer.ow
  ELSE IF pc = "one_row" THEN i_batch * layer.ow + i_out_x
  ELSE IF pc = "return" THEN Pixels
  ELSE 0

GeneralInv ==
  /\ i_batch < layer.n /\ i_out_x < layer.ow
  /\ out_base = i_batch * (ImagePixels * layer.oc)
  /\ Held <= Seen
  /\ pc = "leftover" => Pix + 1 = ImagePixels

OneRowInv ==
  /\ IsOneRow /\ build = "vector"
  /\ i_batch < layer.n /\ out_base = 0
  /\ i_out_x % 4 = 0 /\ i_out_x + 4 <= layer.ow

Row1x1Inv ==
  /\ layer \in Layers1x1 /\ layer.px = 0 /\ layer.py = 0
  /\ i_batch < layer.n /\ out_base = 0
  /\ in_base = i_batch * (layer.iw * layer.ih) + i_out_y * (layer.iw * layer.sy)

CounterInv ==
  /\ ctx_buf \in BOOLEAN
  /\ pc \in {"wrapper", "call_1x1", "refused", "pointwise", "row_1x1", "one_row",
             "im2col", "column_done", "leftover", "return"}
  /\ i_batch \in 0 .. layer.n /\ i_out_y \in 0 .. layer.oh - 1 /\ i_out_x \in Nat
  /\ pc # "row_1x1" => in_base = i_batch * (layer.iw * layer.ih)
  /\ out_base \in {0, i_batch * (ImagePixels * layer.oc)}
  /\ pc \in {"wrapper", "call_1x1"} => i_batch = 0 /\ i_out_y = 0 /\ i_out_x = 0
  /\ pc = "call_1x1" => layer \in Layers1x1
  /\ pc \in General => GeneralInv
  /\ pc = "pointwise" => /\ IsPointwise /\ i_batch = 0 /\ i_out_x < Pixels
                         /\ build = "scalar" => i_out_x = 0
  /\ pc = "row_1x1" => Row1x1Inv
  /\ pc = "one_row" => OneRowInv

\* Column i of the buffer is the window of pixel Seen - Held + i of the image.
BufferInv ==
  /\ buffer \in [0 .. ColumnsPerFlush * KernelSize - 1 -> Int]
  /\ pc \in General =>
       \A i \in 0 .. Held - 1, y \in 0 .. layer.oh - 1, x \in 0 .. layer.ow - 1 :
         y * layer.ow + x = Seen - Held + i =>
           \A t \in 0 .. KernelSize - 1 : buffer[i * KernelSize + t] = Tap(i_batch, y, x, t)

Fresh == \A e \in Elements : e >= out => output_data[e] = Undefined

\* In front of the output pointer everything is stored.
Finished ==
  \A b \in 0 .. layer.n - 1, y \in 0 .. layer.oh - 1, x \in 0 .. layer.ow - 1, ch \in Channels :
    Flat(b, y, x) < First =>
      output_data[Flat(b, y, x) * layer.oc + ch] = Conv!Window(Pixel(b, y, x, ch))

OutputInv ==
  /\ First \in 0 .. Pixels
  /\ out = First * layer.oc
  /\ output_data \in [Elements -> Values]
  /\ Fresh /\ Finished

RInv == IInv /\ CounterInv /\ BufferInv /\ OutputInv

StepRefines == [Conv!Compute]_(Conv!vars)

-----------------------------------------------------------------------------
LEMMA Counts ==
  ASSUME LayerInv
  PROVE  /\ ImagePixels \in Nat \ {0} /\ Pixels \in Nat \ {0}
         /\ layer.iw * layer.ih \in Nat /\ ImagePixels * layer.oc \in Nat
         /\ Elements = 0 .. Pixels * layer.oc - 1
<1>1. \A a, b \in Nat \ {0} : a * b \in Nat \ {0} OBVIOUS
<1>2. ImagePixels \in Nat \ {0} BY <1>1, Sizes DEF ImagePixels
<1>3. Pixels \in Nat \ {0} BY <1>1, <1>2, Sizes DEF Pixels
<1>4. layer.n * layer.oh * layer.ow = Pixels BY Sizes DEF Pixels, ImagePixels
<1>5. layer.iw * layer.ih \in Nat /\ ImagePixels * layer.oc \in Nat BY <1>2, Sizes
<1> QED BY <1>2, <1>3, <1>4, <1>5 DEF Elements

\* The column pointer counts columns.
LEMMA HeldFill ==
  ASSUME IInv
  PROVE  /\ Held \in 0 .. ColumnsPerFlush /\ fill = Held * KernelSize
         /\ pc \in {"im2col", "leftover"} => Held < ColumnsPerFlush
         /\ pc \notin General => Held = 0
<1>1. KernelSize \in Nat \ {0} /\ ColumnsPerFlush \in {2, 4} BY LayerTypes DEF IInv
<1>2. PICK columns \in 0 .. ColumnsPerFlush :
        /\ fill = columns * KernelSize
        /\ pc \in {"im2col", "leftover"} => columns < ColumnsPerFlush
  BY DEF IInv, FillInv
<1>3. columns \in Int /\ 0 \in 0 .. KernelSize - 1 BY <1>1, <1>2
<1>4. columns * KernelSize + 0 = columns * KernelSize BY <1>1, <1>3
<1>5. Held = columns BY <1>1, <1>2, <1>3, <1>4, Euclid DEF Held
<1>6. pc \notin General => columns = 0
  <2>1. pc \notin General => columns * KernelSize + 0 = 0 * KernelSize + 0
    BY <1>1, <1>2, <1>4 DEF IInv, FillInv
  <2>2. columns \in Nat /\ 0 \in Nat BY <1>1
  <2> QED BY <1>1, <1>3, <2>1, <2>2, RowMajorUnique
<1> QED BY <1>2, <1>5, <1>6

\* Pixels of an image, and of the tensor.
LEMMA PixelBound ==
  ASSUME LayerInv, NEW y \in 0 .. layer.oh - 1, NEW x \in 0 .. layer.ow - 1
  PROVE  y * layer.ow + x \in 0 .. ImagePixels - 1
BY Sizes, RowMajorBound DEF ImagePixels

LEMMA FlatIs ==
  ASSUME LayerInv, NEW b \in Nat, NEW y \in Nat, NEW x \in Nat
  PROVE  Flat(b, y, x) = b * ImagePixels + (y * layer.ow + x)
<1>1. layer.oh \in Nat /\ layer.ow \in Nat BY Sizes
<1>2. (b * layer.oh + y) * layer.ow = b * (layer.oh * layer.ow) + y * layer.ow
  <2>1. b * layer.oh \in Nat BY <1>1
  <2>2. (b * layer.oh + y) * layer.ow = (b * layer.oh) * layer.ow + y * layer.ow BY <1>1, <2>1
  <2>3. (b * layer.oh) * layer.ow = b * (layer.oh * layer.ow) BY <1>1
  <2> QED BY <2>2, <2>3
<1>3. b * (layer.oh * layer.ow) \in Int /\ y * layer.ow \in Int
  <2>1. layer.oh * layer.ow \in Nat BY <1>1
  <2> QED BY <1>1, <2>1
<1> QED BY <1>2, <1>3 DEF Flat, ImagePixels

LEMMA FlatBound ==
  ASSUME LayerInv, NEW b \in 0 .. layer.n - 1, NEW y \in 0 .. layer.oh - 1,
         NEW x \in 0 .. layer.ow - 1
  PROVE  Flat(b, y, x) \in 0 .. Pixels - 1
<1>1. layer.n \in Nat /\ ImagePixels \in Nat BY Sizes, Counts
<1>2. y * layer.ow + x \in 0 .. ImagePixels - 1 BY PixelBound
<1>3. b * ImagePixels + (y * layer.ow + x) \in 0 .. layer.n * ImagePixels - 1
  BY <1>1, <1>2, RowMajorBound
<1>4. b \in Nat /\ y \in Nat /\ x \in Nat BY Sizes
<1> QED BY <1>3, <1>4, FlatIs DEF Pixels

\* A sum of products with weights and pixels is one.
LEMMA DotType ==
  ASSUME NEW weight \in Nat, NEW row,
         \A u \in DOMAIN row : u \in Nat /\ row[u] \in Int
  PROVE  Dot(weight, row) \in SUBSET (Nat \X Int)
BY DEF Dot

-----------------------------------------------------------------------------
(* What a step does to the output.                                         *)

Typed(rows, result) ==
  \A p \in (0 .. rows - 1) \X Channels : result[p] \in SUBSET (Nat \X Int)

StoresWindows(q0, rows, result) ==
  \A b \in 0 .. layer.n - 1, y \in 0 .. layer.oh - 1, x \in 0 .. layer.ow - 1, ch \in Channels :
    Flat(b, y, x) \in q0 .. q0 + rows - 1 =>
      result[<<Flat(b, y, x) - q0, ch>>] = Conv!Window(Pixel(b, y, x, ch))

\* A window depends on nothing but the layer.
LEMMA SameWindow ==
  ASSUME layer' = layer
  PROVE  \A b, y, x, ch : Conv!Window(Pixel(b, y, x, ch))' = Conv!Window(Pixel(b, y, x, ch))
BY DEF Pixel, Conv!Window, Conv!Taps, Conv!TapY, Conv!TapX, Conv!Inside

LEMMA Quiet ==
  ASSUME LayerInv, OutputInv, UNCHANGED inputs, UNCHANGED <<out, output_data>>, First' = First
  PROVE  OutputInv' /\ StepRefines
<1>1. layer' = layer BY DEF inputs
<1>2. OutputInv'
  <2>1. Finished'
    <3>1. \A b, y, x, ch : Conv!Window(Pixel(b, y, x, ch))' = Conv!Window(Pixel(b, y, x, ch))
      BY <1>1, SameWindow
    <3>2. Channels' = Channels /\ (\A b, y, x : Flat(b, y, x)' = Flat(b, y, x))
      BY <1>1 DEF Channels, Flat
    <3> QED BY <1>1, <3>1, <3>2 DEF OutputInv, Finished
  <2> QED BY <1>1, <2>1 DEF OutputInv, Pixels, ImagePixels, Elements, Values, Fresh
<1>3. UNCHANGED Conv!vars BY <1>1 DEF Conv!vars
<1> QED BY <1>2, <1>3 DEF StepRefines

\* A store of the next few pixels is a step of the convolution.
LEMMA Storing ==
  ASSUME LayerInv, OutputInv, UNCHANGED inputs,
         NEW rows \in Nat, NEW result, Store(out, rows, result),
         Typed(rows, result), StoresWindows(First, rows, result),
         First' = First + rows, First' <= Pixels, out' = First' * layer.oc
  PROVE  OutputInv' /\ StepRefines
<1>1. layer' = layer BY DEF inputs
<1>2. layer.oc \in Nat \ {0} /\ Pixels \in Nat /\ Elements = 0 .. Pixels * layer.oc - 1
  BY Counts, Sizes
<1>3. First \in Nat /\ out = First * layer.oc /\ output_data \in [Elements -> Values]
  BY <1>2 DEF OutputInv
<1>4. out \in Nat /\ rows * layer.oc \in Nat /\ Pixels * layer.oc \in Nat BY <1>2, <1>3
<1>5. out' = out + rows * layer.oc
  <2>1. (First + rows) * layer.oc = First * layer.oc + rows * layer.oc BY <1>2, <1>3
  <2> QED BY <1>3, <2>1
<1>6. DOMAIN output_data = Elements BY <1>3
<1>7. \A e \in Elements : output_data'[e] \in Values
  <2> SUFFICES ASSUME NEW e \in Elements PROVE output_data'[e] \in Values
    OBVIOUS
  <2>1. e \in Nat BY <1>2, <1>4
  <2>2. CASE e \in out .. out + rows * layer.oc - 1
    <3> DEFINE a == e - out
    <3>1. a \in Nat /\ a < rows * layer.oc BY <1>4, <2>1, <2>2
    <3> HIDE DEF a
    <3>2. (a \div layer.oc) + 1 <= rows BY <1>2, <3>1, QuotientBelow
    <3>3. (a \div layer.oc) \in Nat /\ (a % layer.oc) \in 0 .. layer.oc - 1
      <4>1. a \in Nat /\ layer.oc \in Nat \ {0} BY <1>2, <3>1
      <4>2. \A u \in Nat, v \in Nat \ {0} : (u \div v) \in Nat /\ (u % v) \in 0 .. v - 1
        OBVIOUS
      <4> QED BY <4>1, <4>2
    <3>4. <<a \div layer.oc, a % layer.oc>> \in (0 .. rows - 1) \X Channels
      <4>1. (a \div layer.oc) \in 0 .. rows - 1 BY <3>2, <3>3
      <4> QED BY <3>3, <4>1 DEF Channels
    <3>5. output_data'[e] = result[<<a \div layer.oc, a % layer.oc>>]
      BY <1>6, <2>2 DEF Store, a
    <3>6. output_data'[e] \in SUBSET (Nat \X Int) BY <3>4, <3>5 DEF Typed
    <3> QED BY <3>6 DEF Values
  <2>3. CASE e \notin out .. out + rows * layer.oc - 1
    <3>1. output_data'[e] = output_data[e] BY <1>6, <2>3 DEF Store
    <3> QED BY <1>3, <3>1
  <2> QED BY <2>2, <2>3
<1>8. output_data' \in [Elements -> Values] BY <1>6, <1>7 DEF Store
<1>9. \A e \in Elements : e >= out' => output_data'[e] = Undefined
  <2> SUFFICES ASSUME NEW e \in Elements, e >= out' PROVE output_data'[e] = Undefined
    OBVIOUS
  <2>1. e \in Int BY <1>2, <1>4
  <2>2. e \notin out .. out + rows * layer.oc - 1 /\ e >= out BY <1>4, <1>5, <2>1
  <2>3. output_data'[e] = output_data[e] BY <1>6, <2>2 DEF Store
  <2> QED BY <2>2, <2>3 DEF OutputInv, Fresh
<1>10. ASSUME NEW b \in 0 .. layer.n - 1, NEW y \in 0 .. layer.oh - 1,
              NEW x \in 0 .. layer.ow - 1, NEW ch \in Channels
       PROVE  /\ output_data'[Flat(b, y, x) * layer.oc + ch]
                   = IF Flat(b, y, x) \in First .. First + rows - 1
                     THEN Conv!Window(Pixel(b, y, x, ch))
                     ELSE output_data[Flat(b, y, x) * layer.oc + ch]
              /\ Flat(b, y, x) >= First
                   => output_data[Flat(b, y, x) * layer.oc + ch] = Undefined
              /\ Flat(b, y, x) \in Nat
  <2> DEFINE q == Flat(b, y, x)
  <2>1. q \in 0 .. Pixels - 1 BY FlatBound
  <2>2. q \in First .. First + rows - 1 =>
          result[<<q - First, ch>>] = Conv!Window(Pixel(b, y, x, ch))
    BY DEF StoresWindows
  <2> HIDE DEF q
  <2>3. ch \in 0 .. layer.oc - 1 BY DEF Channels
  <2>4. q * layer.oc + ch \in Elements BY <1>2, <2>1, <2>3, RowMajorBound
  <2>5. q \in Nat /\ ch \in Nat /\ ch \in Channels BY <1>2, <2>1, <2>3 DEF Channels
  <2>6. output_data'[q * layer.oc + ch]
           = IF q \in First .. First + rows - 1 THEN result[<<q - First, ch>>]
             ELSE output_data[q * layer.oc + ch]
    <3>1. PICK q0 \in Nat : q0 = First BY <1>3
    <3>2. PICK p \in Nat : p = q BY <2>5
    <3>3. PICK dest : dest = out OBVIOUS
    <3>4. dest = q0 * layer.oc BY <1>3, <3>1, <3>3
    <3>5. p * layer.oc + ch \in DOMAIN output_data BY <1>6, <2>4, <3>2
    <3>6. Store(dest, rows, result) BY <3>3 DEF Store
    <3>7. RowsStored(q0, rows, result) BY <3>4, <3>6, Stored
    <3> QED BY <3>1, <3>2, <3>5, <3>7 DEF RowsStored
  <2>7. q >= First => output_data[q * layer.oc + ch] = Undefined
    <3>1. q >= First => First * layer.oc <= q * layer.oc BY <1>2, <1>3, <2>5, Monotone
    <3>2. q * layer.oc \in Int BY <1>2, <2>5
    <3>3. q >= First => q * layer.oc + ch >= out BY <1>2, <1>3, <1>4, <2>5, <3>1, <3>2
    <3> QED BY <2>4, <3>3 DEF OutputInv, Fresh
  <2> QED BY <2>2, <2>5, <2>6, <2>7 DEF q
<1>11. Finished'
  <2>1. Channels' = Channels /\ (\A b, y, x : Flat(b, y, x)' = Flat(b, y, x))
    BY <1>1 DEF Channels, Flat
  <2>2. \A b, y, x, ch : Conv!Window(Pixel(b, y, x, ch))' = Conv!Window(Pixel(b, y, x, ch))
    BY <1>1, SameWindow
  <2>3. ASSUME NEW b \in 0 .. layer.n - 1, NEW y \in 0 .. layer.oh - 1,
               NEW x \in 0 .. layer.ow - 1, NEW ch \in Channels, Flat(b, y, x) < First'
        PROVE  output_data'[Flat(b, y, x) * layer.oc + ch] = Conv!Window(Pixel(b, y, x, ch))
    <3>1. Flat(b, y, x) \in First .. First + rows - 1 \/ Flat(b, y, x) < First
      BY <1>3, <1>10, <2>3
    <3>2. Flat(b, y, x) < First => Flat(b, y, x) \notin First .. First + rows - 1
      BY <1>3, <1>10
    <3> QED BY <1>10, <3>1, <3>2 DEF OutputInv, Finished
  <2> QED BY <1>1, <2>1, <2>2, <2>3 DEF Finished
<1>12. OutputInv'
  <2>1. Pixels' = Pixels /\ Elements' = Elements BY <1>1 DEF Pixels, ImagePixels, Elements
  <2>2. First' \in 0 .. Pixels BY <1>2, <1>3
  <2>3. Values' = Values BY DEF Values
  <2> QED BY <1>1, <1>8, <1>9, <1>11, <2>1, <2>2, <2>3 DEF OutputInv, Fresh
<1>13. Conv!Compute
  <2> SUFFICES ASSUME NEW o \in [batch : 0 .. layer.n - 1, y : 0 .. layer.oh - 1,
                                 x : 0 .. layer.ow - 1, ch : 0 .. layer.oc - 1]
               PROVE \/ output_data'[Flat(o.batch, o.y, o.x) * layer.oc + o.ch]
                          = output_data[Flat(o.batch, o.y, o.x) * layer.oc + o.ch]
                     \/ /\ output_data[Flat(o.batch, o.y, o.x) * layer.oc + o.ch] = Undefined
                        /\ output_data'[Flat(o.batch, o.y, o.x) * layer.oc + o.ch]
                             = Conv!Window(o)
    BY <1>1 DEF Conv!Compute, Conv!Outputs, Flat
  <2>1. PICK b \in 0 .. layer.n - 1, y \in 0 .. layer.oh - 1, x \in 0 .. layer.ow - 1,
             ch \in Channels : b = o.batch /\ y = o.y /\ x = o.x /\ ch = o.ch
    BY DEF Channels
  <2>2. o = Pixel(b, y, x, ch) BY <2>1 DEF Pixel
  <2>3. Flat(b, y, x) \in First .. First + rows - 1 => Flat(b, y, x) >= First BY <1>3, <1>10
  <2>4. \/ output_data'[Flat(b, y, x) * layer.oc + ch] = output_data[Flat(b, y, x) * layer.oc + ch]
        \/ /\ output_data[Flat(b, y, x) * layer.oc + ch] = Undefined
           /\ output_data'[Flat(b, y, x) * layer.oc + ch] = Conv!Window(Pixel(b, y, x, ch))
    BY <1>10, <2>3
  <2> QED BY <2>1, <2>2, <2>4
<1> QED BY <1>12, <1>13 DEF StepRefines

-----------------------------------------------------------------------------
(* Where the counters are.                                                 *)

LEMMA Fixed ==
  ASSUME LayerInv, UNCHANGED inputs
  PROVE  /\ layer' = layer /\ build' = build /\ ctx_buf' = ctx_buf
         /\ KernelSize' = KernelSize /\ ColumnsPerFlush' = ColumnsPerFlush
         /\ IsPointwise' = IsPointwise /\ IsOneRow' = IsOneRow
         /\ ImagePixels' = ImagePixels /\ Pixels' = Pixels
BY DEF inputs, KernelSize, ColumnsPerFlush, IsPointwise, IsOneRow, ImagePixels, Pixels

\* How many columns there are after a step.
LEMMA HeldNow ==
  ASSUME LayerInv, UNCHANGED inputs, NEW h \in Nat, fill' = h * KernelSize
  PROVE  Held' = h
<1>1. KernelSize' = KernelSize /\ KernelSize \in Nat \ {0} BY Fixed, Sizes
<1>2. 0 \in 0 .. KernelSize - 1 /\ h \in Int /\ h * KernelSize + 0 = h * KernelSize BY <1>1
<1>3. (h * KernelSize) \div KernelSize = h BY <1>1, <1>2, Euclid
<1> QED BY <1>1, <1>3 DEF Held

\* In the general kernel the pixel is one of the image, and no more columns are
\* held than pixels visited.
LEMMA InImage ==
  ASSUME IInv, CounterInv, pc \in General
  PROVE  /\ Pix \in 0 .. ImagePixels - 1
         /\ Seen \in 0 .. ImagePixels
         /\ Held \in Nat /\ Held <= Seen
         /\ i_batch \in Nat /\ i_batch < layer.n
         /\ i_out_y \in Nat /\ i_out_x \in Nat
         /\ First = i_batch * ImagePixels + (Seen - Held)
<1>1. /\ layer.n \in Nat /\ layer.oh \in Nat \ {0} /\ layer.ow \in Nat \ {0}
      /\ ImagePixels \in Nat \ {0}
  BY Sizes, Counts DEF IInv
<1>2. /\ i_batch \in Nat /\ i_batch < layer.n
      /\ i_out_y \in 0 .. layer.oh - 1 /\ i_out_x \in 0 .. layer.ow - 1
  BY <1>1 DEF CounterInv, GeneralInv
<1>3. Pix \in 0 .. ImagePixels - 1 BY <1>2, PixelBound DEF Pix, IInv
<1>4. Seen \in 0 .. ImagePixels BY <1>1, <1>3 DEF Seen
<1>5. Held \in Nat BY HeldFill, LayerTypes DEF IInv
<1> QED BY <1>1, <1>2, <1>3, <1>4, <1>5 DEF CounterInv, GeneralInv, First

\* The pixel loops leave what has been visited alone.
LEMMA Moved ==
  ASSUME IInv, CounterInv, UNCHANGED inputs, pc = "column_done", NextPixel
  PROVE  /\ pc' \in {"im2col", "leftover"}
         /\ i_out_y' \in 0 .. layer.oh - 1
         /\ i_out_x' \in Nat /\ i_out_x' < layer.ow
         /\ Seen' = Seen
         /\ pc' = "leftover" => Pix' + 1 = ImagePixels
<1>1. layer.oh \in Nat \ {0} /\ layer.ow \in Nat \ {0} BY Sizes DEF IInv
<1>2. layer' = layer BY Fixed DEF IInv
<1>3. i_out_y \in 0 .. layer.oh - 1 /\ i_out_x \in 0 .. layer.ow - 1
  BY <1>1 DEF CounterInv, GeneralInv, General
<1>4. i_out_y * layer.ow \in Nat /\ Seen = i_out_y * layer.ow + i_out_x + 1
  <2>1. i_out_y * layer.ow \in Nat BY <1>1, <1>3
  <2> QED BY <1>1, <1>3, <2>1 DEF Seen, Pix
<1>5. CASE i_out_x + 1 < layer.ow
  <2>1. pc' = "im2col" /\ i_out_x' = i_out_x + 1 /\ i_out_y' = i_out_y
    BY <1>1, <1>3, <1>5 DEF NextPixel
  <2>2. Seen' = i_out_y * layer.ow + (i_out_x + 1) BY <1>2, <2>1 DEF Seen, Pix
  <2> QED BY <1>1, <1>3, <1>4, <1>5, <2>1, <2>2
<1>6. CASE i_out_x + 1 = layer.ow /\ i_out_y + 1 < layer.oh
  <2>1. pc' = "im2col" /\ i_out_x' = 0 /\ i_out_y' = i_out_y + 1
    BY <1>1, <1>3, <1>6 DEF NextPixel
  <2>2. Seen' = (i_out_y + 1) * layer.ow + 0 BY <1>2, <2>1 DEF Seen, Pix
  <2>3. (i_out_y + 1) * layer.ow = i_out_y * layer.ow + layer.ow BY <1>1, <1>3
  <2> QED BY <1>1, <1>3, <1>4, <1>6, <2>1, <2>2, <2>3
<1>7. CASE i_out_x + 1 = layer.ow /\ i_out_y + 1 = layer.oh
  <2>1. pc' = "leftover" /\ i_out_x' = i_out_x /\ i_out_y' = i_out_y
    BY <1>1, <1>3, <1>7 DEF NextPixel
  <2>2. Seen' = Pix' + 1 /\ Pix' = i_out_y * layer.ow + i_out_x
    BY <1>2, <2>1 DEF Seen, Pix
  <2>3. (i_out_y + 1) * layer.ow = i_out_y * layer.ow + layer.ow BY <1>1, <1>3
  <2>4. ImagePixels = (i_out_y + 1) * layer.ow BY <1>7 DEF ImagePixels
  <2> QED BY <1>1, <1>3, <1>4, <1>7, <2>1, <2>2, <2>3, <2>4
<1> QED BY <1>1, <1>3, <1>5, <1>6, <1>7 DEF NextPixel

-----------------------------------------------------------------------------
(* The steps, one lemma per action.                                        *)

LEMMA InitRInv == ASSUME Init PROVE RInv /\ Conv!Init
<1>1. IInv BY InitIInv
<1>2. LayerInv BY <1>1 DEF IInv
<1>3. /\ layer.n \in Nat \ {0} /\ layer.oh \in Nat \ {0} /\ layer.oc \in Nat \ {0}
      /\ Pixels \in Nat /\ layer.iw * layer.ih \in Nat /\ ImagePixels * layer.oc \in Nat
  BY <1>2, Sizes, Counts
<1>4. CounterInv BY <1>3 DEF Init, CounterInv, General
<1>5. KernelSize \in Nat /\ ColumnsPerFlush \in {2, 4} BY <1>2, LayerTypes
<1>6. BufferInv BY <1>5 DEF Init, BufferInv, General, Stale
<1>7. First = 0 BY DEF Init, First, General
<1>8. OutputInv
  <2>1. ASSUME NEW b \in 0 .. layer.n - 1, NEW y \in 0 .. layer.oh - 1, NEW x \in 0 .. layer.ow - 1
        PROVE  ~(Flat(b, y, x) < First)
    <3>1. Flat(b, y, x) \in 0 .. Pixels - 1 BY <1>2, FlatBound
    <3> QED BY <1>3, <1>7, <3>1
  <2>2. Finished BY <2>1 DEF Finished
  <2> QED BY <1>3, <1>7, <2>2 DEF Init, OutputInv, Fresh, Values, Elements
<1>9. ASSUME NEW o \in [batch : 0 .. layer.n - 1, y : 0 .. layer.oh - 1,
                        x : 0 .. layer.ow - 1, ch : 0 .. layer.oc - 1]
      PROVE  output_data[((o.batch * layer.oh + o.y) * layer.ow + o.x) * layer.oc + o.ch]
               = Undefined
  <2>1. o.batch \in 0 .. layer.n - 1 /\ o.y \in 0 .. layer.oh - 1
        /\ o.x \in 0 .. layer.ow - 1 /\ o.ch \in 0 .. layer.oc - 1
    OBVIOUS
  <2>2. Flat(o.batch, o.y, o.x) \in 0 .. Pixels - 1 BY <1>2, <2>1, FlatBound
  <2>3. layer.oc \in Nat BY <1>3
  <2>4. Flat(o.batch, o.y, o.x) * layer.oc + o.ch \in Elements
    BY <1>2, <1>3, <2>1, <2>2, <2>3, Counts, RowMajorBound
  <2> QED BY <2>4 DEF Flat, Init, Elements
<1>10. Conv!Init BY <1>9 DEF Conv!Init, Conv!Outputs
<1> QED BY <1>1, <1>4, <1>6, <1>8, <1>10 DEF RInv

LEMMA DispatchStep == ASSUME RInv, FittingLayers, Dispatch PROVE RInv' /\ StepRefines
<1> USE DEF RInv
<1>1. IInv' BY NextIInv DEF Next
<1>2. LayerInv BY DEF IInv
<1>3. UNCHANGED inputs BY DEF Dispatch
<1>4. /\ layer' = layer /\ build' = build /\ ctx_buf' = ctx_buf
      /\ KernelSize' = KernelSize /\ ColumnsPerFlush' = ColumnsPerFlush
      /\ IsPointwise' = IsPointwise /\ IsOneRow' = IsOneRow
      /\ ImagePixels' = ImagePixels /\ Pixels' = Pixels
  BY <1>2, <1>3, Fixed
<1>5. /\ layer.n \in Nat \ {0} /\ layer.oh \in Nat \ {0} /\ layer.ow \in Nat \ {0}
      /\ ImagePixels \in Nat \ {0} /\ Pixels \in Nat \ {0} /\ KernelSize \in Nat
      /\ layer.iw * layer.ih \in Nat /\ ImagePixels * layer.oc \in Nat
  BY <1>2, Sizes, Counts
<1>6. /\ pc = "wrapper" /\ i_batch = 0 /\ i_out_y = 0 /\ i_out_x = 0
      /\ i_batch' = 0 /\ i_out_y' = 0 /\ i_out_x' = 0
      /\ in_base' = in_base /\ out_base' = out_base /\ out' = out
      /\ fill' = fill /\ buffer' = buffer /\ output_data' = output_data
  BY DEF Dispatch, CounterInv
<1>7. in_base = 0 /\ out_base = 0 BY <1>5, <1>6 DEF CounterInv
<1>8. Held' = 0
  <2>1. fill = 0 /\ 0 * KernelSize = 0 BY <1>5, <1>6 DEF IInv, FillInv, General
  <2> QED BY <1>2, <1>3, <1>6, <2>1, HeldNow
<1>9. \/ pc' = "pointwise" /\ IsPointwise
      \/ pc' = "one_row" /\ IsOneRow /\ build = "vector"
      \/ pc' = "refused"
      \/ pc' = "im2col"
  BY DEF Dispatch
<1>10. Pix' = 0 BY <1>4, <1>5, <1>6 DEF Pix
<1>11. First' = First /\ First = 0
  <2>1. First = 0 BY <1>6 DEF First, General
  <2>2. pc' = "im2col" => Seen' = 0 BY <1>10 DEF Seen
  <2>3. 0 * ImagePixels = 0 /\ 0 * layer.ow = 0 BY <1>5
  <2>4. pc' = "im2col" => First' = 0 BY <1>4, <1>6, <1>8, <2>2, <2>3 DEF First, General
  <2>5. pc' # "im2col" => First' = 0 BY <1>4, <1>6, <1>9, <2>3 DEF First, General
  <2> QED BY <2>1, <2>4, <2>5
<1>12. pc' = "im2col" => GeneralInv'
  <2>1. pc' = "im2col" => Seen' = 0 BY <1>10 DEF Seen
  <2>2. out_base' = i_batch' * (ImagePixels' * layer'.oc) BY <1>4, <1>5, <1>6, <1>7
  <2> QED BY <1>4, <1>5, <1>6, <1>8, <2>1, <2>2 DEF GeneralInv
<1>13. pc' = "one_row" => OneRowInv'
  <2>1. pc' = "one_row" => layer.ow % 4 = 0 BY <1>9 DEF IsOneRow
  <2>2. layer.ow % 4 = 0 => 4 <= layer.ow BY <1>5
  <2> QED BY <1>4, <1>5, <1>6, <1>7, <1>9, <2>1, <2>2 DEF OneRowInv
<1>14. CounterInv'
  <2>1. in_base' = i_batch' * (layer'.iw * layer'.ih) BY <1>4, <1>5, <1>6, <1>7
  <2> QED BY <1>4, <1>5, <1>6, <1>7, <1>9, <1>12, <1>13, <2>1 DEF CounterInv, General
<1>15. BufferInv' BY <1>4, <1>6, <1>8 DEF BufferInv
<1> QED BY <1>1, <1>2, <1>3, <1>6, <1>11, <1>14, <1>15, Quiet

LEMMA Im2colStep == ASSUME RInv, Im2col PROVE RInv' /\ StepRefines
<1> USE DEF RInv
<1>1. IInv' BY NextIInv DEF Next
<1>2. LayerInv BY DEF IInv
<1>3. UNCHANGED inputs BY DEF Im2col
<1>4. /\ layer' = layer /\ build' = build /\ ctx_buf' = ctx_buf
      /\ KernelSize' = KernelSize /\ ColumnsPerFlush' = ColumnsPerFlush
      /\ ImagePixels' = ImagePixels /\ Pixels' = Pixels
  BY <1>2, <1>3, Fixed
<1>5. /\ pc = "im2col" /\ pc' = "column_done"
      /\ i_batch' = i_batch /\ i_out_y' = i_out_y /\ i_out_x' = i_out_x
      /\ in_base' = in_base /\ out_base' = out_base /\ out' = out
      /\ output_data' = output_data /\ fill' = fill + KernelSize
  BY DEF Im2col
<1>6. /\ KernelSize \in Nat \ {0} /\ ColumnsPerFlush \in {2, 4}
      /\ ImagePixels \in Nat /\ layer.ow \in Nat \ {0} /\ layer.oh \in Nat
      /\ i_out_x < layer.ow
  BY <1>2, <1>5, LayerTypes, Sizes, Counts DEF CounterInv, GeneralInv, General
<1>7. /\ Pix \in 0 .. ImagePixels - 1 /\ Seen \in 0 .. ImagePixels
      /\ Held \in Nat /\ Held <= Seen
      /\ i_batch \in Nat /\ i_batch < layer.n /\ i_out_y \in Nat /\ i_out_x \in Nat
      /\ First = i_batch * ImagePixels + (Seen - Held)
  BY <1>5, InImage DEF General
<1>8. PICK h \in Nat : h = Held BY <1>7
<1>9. fill = h * KernelSize /\ h < ColumnsPerFlush BY <1>5, <1>8, HeldFill
<1>10. Held' = h + 1
  <2>1. fill' = (h + 1) * KernelSize /\ h + 1 \in Nat BY <1>5, <1>6, <1>8, <1>9
  <2> QED BY <1>2, <1>3, <2>1, HeldNow
<1>11. Seen = Pix /\ Seen' = Seen + 1 /\ Pix' = Pix
  BY <1>4, <1>5 DEF Seen, Pix
<1>12. Seen' - Held' = Seen - Held BY <1>7, <1>8, <1>10, <1>11
<1>13. First' = First BY <1>4, <1>5, <1>7, <1>12 DEF First, General
<1>14. CounterInv'
  <2>1. Held' <= Seen' BY <1>7, <1>8, <1>10, <1>11
  <2> QED BY <1>4, <1>5, <2>1 DEF CounterInv, GeneralInv, General
<1>15. \A t \in 0 .. KernelSize - 1 : Source(t) = Tap(i_batch, i_out_y, i_out_x, t) /\ Source(t) \in Int
  <2> SUFFICES ASSUME NEW t \in 0 .. KernelSize - 1
               PROVE  Source(t) = Tap(i_batch, i_out_y, i_out_x, t) /\ Source(t) \in Int
    OBVIOUS
  <2>1. in_base = i_batch * (layer.iw * layer.ih) BY <1>5 DEF CounterInv
  <2>2. Source(t) = Tap(i_batch, i_out_y, i_out_x, t) BY <2>1 DEF Source, Tap
  <2> DEFINE k_y == layer.sy * i_out_y - layer.py + layer.dy * (t \div layer.kw)
             k_x == layer.sx * i_out_x - layer.px + layer.dx * (t % layer.kw)
  <2>3. k_y \in Int /\ k_x \in Int
    <3>1. (t \div layer.kw) \in Int /\ (t % layer.kw) \in Int
      BY <1>2, Element, Sizes
    <3> QED BY <1>2, <1>7, <3>1, Sizes
  <2>4. Source(t) = IF k_y < 0 \/ k_y >= layer.ih \/ k_x < 0 \/ k_x >= layer.iw
                    THEN Padding ELSE in_base + k_y * layer.iw + k_x
    BY DEF Source
  <2> HIDE DEF k_y, k_x
  <2>5. layer.iw \in Nat /\ layer.iw * layer.ih \in Nat BY <1>2, Sizes, Counts
  <2>6. in_base \in Int BY <1>7, <2>1, <2>5
  <2>7. k_y * layer.iw \in Int BY <2>3, <2>5
  <2> QED BY <2>2, <2>3, <2>4, <2>6, <2>7 DEF Padding
<1>16. fill \in Nat BY <1>6, <1>9
<1>17. \A p \in DOMAIN buffer :
         buffer'[p] = IF p \in fill .. fill + KernelSize - 1 THEN Source(p - fill) ELSE buffer[p]
  BY DEF Im2col
<1>18. buffer' \in [0 .. ColumnsPerFlush * KernelSize - 1 -> Int]
  <2>1. buffer \in [0 .. ColumnsPerFlush * KernelSize - 1 -> Int] BY DEF BufferInv
  <2>2. ASSUME NEW p \in 0 .. ColumnsPerFlush * KernelSize - 1, p \in fill .. fill + KernelSize - 1
        PROVE  Source(p - fill) \in Int
    <3>1. p - fill \in 0 .. KernelSize - 1 BY <1>6, <1>16, <2>2
    <3> QED BY <1>15, <3>1
  <2> QED BY <2>1, <2>2 DEF Im2col
<1>19. ASSUME NEW i \in 0 .. Held' - 1, NEW y \in 0 .. layer.oh - 1, NEW x \in 0 .. layer.ow - 1,
              y * layer.ow + x = Seen - Held + i, NEW t \in 0 .. KernelSize - 1
       PROVE  buffer'[i * KernelSize + t] = Tap(i_batch, y, x, t)
  <2>1. i \in Nat /\ i <= h BY <1>8, <1>10
  <2>2. i \in 0 .. ColumnsPerFlush - 1 BY <1>6, <1>9, <2>1
  <2>3. i * KernelSize + t \in 0 .. ColumnsPerFlush * KernelSize - 1
    BY <1>6, <2>2, RowMajorBound
  <2>4. i * KernelSize + t \in DOMAIN buffer BY <2>3 DEF BufferInv
  <2>5. CASE i < h
    <3>1. i \in 0 .. h - 1 BY <1>8, <2>1, <2>5
    <3>2. i * KernelSize + t \in 0 .. h * KernelSize - 1 BY <1>6, <1>8, <3>1, RowMajorBound
    <3>3. i * KernelSize + t \notin fill .. fill + KernelSize - 1
      <4> DEFINE p == i * KernelSize + t
      <4>1. p \in 0 .. fill - 1 BY <1>9, <3>2
      <4> HIDE DEF p
      <4> QED BY <1>6, <1>16, <4>1 DEF p
    <3>4. buffer'[i * KernelSize + t] = buffer[i * KernelSize + t] BY <1>17, <2>4, <3>3
    <3>5. buffer[i * KernelSize + t] = Tap(i_batch, y, x, t)
      BY <1>5, <1>8, <1>19, <3>1 DEF BufferInv, General
    <3> QED BY <3>4, <3>5
  <2>6. CASE i = h
    <3>1. Seen - Held + i = i_out_y * layer.ow + i_out_x
      BY <1>7, <1>8, <1>11, <2>6 DEF Pix
    <3>2. y * layer.ow + x = i_out_y * layer.ow + i_out_x BY <1>19, <3>1
    <3>3. y \in Nat /\ i_out_x \in 0 .. layer.ow - 1 BY <1>6, <1>7
    <3>4. y = i_out_y /\ x = i_out_x
      <4>1. \A a, b \in Nat, c, d \in 0 .. layer.ow - 1 :
              a * layer.ow + c = b * layer.ow + d => a = b /\ c = d
        BY <1>6, RowMajorUnique
      <4> QED BY <1>7, <3>2, <3>3, <4>1
    <3>5. /\ i * KernelSize + t \in fill .. fill + KernelSize - 1
          /\ (i * KernelSize + t) - fill = t
      BY <1>6, <1>8, <1>9, <1>16, <2>6
    <3>6. buffer'[i * KernelSize + t] = Source(t)
      <4> DEFINE p == i * KernelSize + t
      <4>1. p \in DOMAIN buffer /\ p \in fill .. fill + KernelSize - 1 BY <2>4, <3>5
      <4>2. p - fill = t BY <3>5
      <4> HIDE DEF p
      <4>3. buffer'[p] = Source(p - fill) BY <1>17, <4>1
      <4> QED BY <4>2, <4>3 DEF p
    <3> QED BY <1>15, <3>4, <3>6
  <2> QED BY <1>8, <2>1, <2>5, <2>6
<1>20. BufferInv'
  BY <1>4, <1>5, <1>12, <1>18, <1>19 DEF BufferInv, Tap
<1> QED BY <1>1, <1>2, <1>3, <1>5, <1>13, <1>14, <1>20, Quiet

LEMMA KeepFillingStep == ASSUME RInv, KeepFilling PROVE RInv' /\ StepRefines
<1> USE DEF RInv
<1>1. IInv' BY NextIInv DEF Next
<1>2. LayerInv BY DEF IInv
<1>3. UNCHANGED inputs BY DEF KeepFilling
<1>4. /\ layer' = layer /\ build' = build /\ ctx_buf' = ctx_buf
      /\ KernelSize' = KernelSize /\ ColumnsPerFlush' = ColumnsPerFlush
      /\ ImagePixels' = ImagePixels /\ Pixels' = Pixels
  BY <1>2, <1>3, Fixed
<1>5. /\ pc = "column_done" /\ NextPixel
      /\ i_batch' = i_batch /\ in_base' = in_base /\ out_base' = out_base /\ out' = out
      /\ output_data' = output_data /\ fill' = fill /\ buffer' = buffer
  BY DEF KeepFilling
<1>6. /\ pc' \in {"im2col", "leftover"}
      /\ i_out_y' \in 0 .. layer.oh - 1
      /\ i_out_x' \in Nat /\ i_out_x' < layer.ow
      /\ Seen' = Seen
      /\ pc' = "leftover" => Pix' + 1 = ImagePixels
  BY <1>3, <1>5, Moved
<1>7. Held' = Held BY <1>4, <1>5 DEF Held
<1>8. First' = First BY <1>4, <1>5, <1>6, <1>7 DEF First, General
<1>9. CounterInv' BY <1>4, <1>5, <1>6, <1>7 DEF CounterInv, GeneralInv, General
<1>10. BufferInv' BY <1>4, <1>5, <1>6, <1>7 DEF BufferInv, Tap, General
<1> QED BY <1>1, <1>2, <1>3, <1>5, <1>8, <1>9, <1>10, Quiet

-----------------------------------------------------------------------------
\* The product of the buffer is the convolution at the pixels it holds.
LEMMA BufferProduct ==
  ASSUME IInv, CounterInv, BufferInv, pc \in {"column_done", "leftover"},
         NEW columns \in Nat, columns = Held,
         NEW result, result = [p \in (0 .. columns - 1) \X Channels |->
           Dot(p[2] * KernelSize, [t \in 0 .. KernelSize - 1 |-> buffer[p[1] * KernelSize + t]])]
  PROVE  Typed(columns, result) /\ StoresWindows(First, columns, result)
<1>1. LayerInv /\ pc \in General BY DEF IInv, General
<1>2. /\ KernelSize \in Nat \ {0} /\ ColumnsPerFlush \in {2, 4} /\ layer.oc \in Nat \ {0}
      /\ ImagePixels \in Nat \ {0} /\ layer.n \in Nat
      /\ layer.oh \in Nat /\ layer.ow \in Nat
  BY <1>1, LayerTypes, Sizes, Counts
<1>3. /\ Seen \in 0 .. ImagePixels /\ columns <= Seen
      /\ i_batch \in Nat
      /\ First = i_batch * ImagePixels + (Seen - columns)
  BY <1>1, InImage
<1>4. columns <= ColumnsPerFlush
  <2>1. Held \in 0 .. ColumnsPerFlush BY HeldFill
  <2> QED BY <1>2, <2>1
<1> DEFINE row(i) == [t \in 0 .. KernelSize - 1 |-> buffer[i * KernelSize + t]]
<1>5. \A i \in 0 .. columns - 1, ch \in Channels : result[<<i, ch>>] = Dot(ch * KernelSize, row(i))
  OBVIOUS
<1>6. Channels \subseteq Nat BY <1>2 DEF Channels
<1>7. Typed(columns, result)
  <2> SUFFICES ASSUME NEW i \in 0 .. columns - 1, NEW ch \in Channels
               PROVE  result[<<i, ch>>] \in SUBSET (Nat \X Int)
    BY DEF Typed
  <2>1. \A t \in 0 .. KernelSize - 1 : t \in Nat /\ buffer[i * KernelSize + t] \in Int
    <3> SUFFICES ASSUME NEW t \in 0 .. KernelSize - 1
                 PROVE  t \in Nat /\ buffer[i * KernelSize + t] \in Int
      OBVIOUS
    <3>1. i \in 0 .. ColumnsPerFlush - 1 BY <1>2, <1>4
    <3>2. i * KernelSize + t \in 0 .. ColumnsPerFlush * KernelSize - 1
      BY <1>2, <3>1, RowMajorBound
    <3> QED BY <3>2 DEF BufferInv
  <2>2. DOMAIN row(i) = 0 .. KernelSize - 1
        /\ \A u \in DOMAIN row(i) : u \in Nat /\ row(i)[u] \in Int
    BY <2>1
  <2>3. PICK r : r = row(i) OBVIOUS
  <2>6. result[<<i, ch>>] = Dot(ch * KernelSize, row(i)) BY <1>5
  <2> HIDE DEF row
  <2>4. PICK w \in Nat : w = ch * KernelSize BY <1>2, <1>6
  <2>5. Dot(w, r) \in SUBSET (Nat \X Int) BY <2>2, <2>3, DotType
  <2> QED BY <2>3, <2>4, <2>5, <2>6
<1>8. StoresWindows(First, columns, result)
  <2> SUFFICES ASSUME NEW b \in 0 .. layer.n - 1, NEW y \in 0 .. layer.oh - 1,
                      NEW x \in 0 .. layer.ow - 1, NEW ch \in Channels,
                      Flat(b, y, x) \in First .. First + columns - 1
               PROVE  result[<<Flat(b, y, x) - First, ch>>] = Conv!Window(Pixel(b, y, x, ch))
    BY DEF StoresWindows
  <2>1. b \in Nat /\ y \in Nat /\ x \in Nat /\ ch \in Nat BY <1>2, <1>6
  <2>2. y * layer.ow + x \in 0 .. ImagePixels - 1 BY <1>1, PixelBound
  <2>3. PICK r \in 0 .. ImagePixels - 1 : r = y * layer.ow + x BY <2>2
  <2>4. Flat(b, y, x) = b * ImagePixels + r BY <1>1, <2>1, <2>3, FlatIs
  <2>5. PICK s \in Nat : s = Seen - columns BY <1>2, <1>3
  <2>6. PICK i \in 0 .. columns - 1 : Flat(b, y, x) = i_batch * ImagePixels + (s + i)
    <3>1. i_batch * ImagePixels \in Nat /\ b * ImagePixels \in Nat BY <1>2, <1>3, <2>1
    <3> DEFINE f == b * ImagePixels + r
               a == i_batch * ImagePixels
    <3>2. a \in Nat /\ f \in Nat BY <1>2, <3>1
    <3> HIDE DEF f, a
    <3>3. f \in a + s .. a + s + columns - 1 BY <1>3, <2>4, <2>5 DEF f, a
    <3>4. f - (a + s) \in 0 .. columns - 1 /\ f = a + (s + (f - (a + s))) BY <3>2, <3>3
    <3> QED BY <2>4, <3>4 DEF f, a
  <2>7. s + i \in 0 .. ImagePixels - 1 BY <1>2, <1>3, <2>5
  <2>8. b = i_batch /\ r = s + i
    <3>1. \A a, c \in Nat, d, e \in 0 .. ImagePixels - 1 :
            a * ImagePixels + d = c * ImagePixels + e => a = c /\ d = e
      BY <1>2, RowMajorUnique
    <3> QED BY <1>3, <2>1, <2>4, <2>6, <2>7, <3>1
  <2>9. Flat(b, y, x) - First = i
    <3>1. i_batch * ImagePixels \in Nat BY <1>2, <1>3
    <3> QED BY <1>3, <2>5, <2>6, <3>1
  <2>10. result[<<i, ch>>] = Dot(ch * KernelSize, row(i)) BY <1>5
  <2>11. \A t \in 0 .. KernelSize - 1 : buffer[i * KernelSize + t] = Tap(b, y, x, t)
    BY <1>1, <2>3, <2>5, <2>8 DEF BufferInv
  <2>12. PICK v : v = row(i) OBVIOUS
  <2>13. HasWindow(v, b, y, x) BY <2>11, <2>12 DEF HasWindow
  <2>14. Dot(ch * KernelSize, v) = Conv!Window(Pixel(b, y, x, ch))
    BY <1>1, <2>1, <2>13, RowIsWindow
  <2> HIDE DEF row
  <2> QED BY <2>9, <2>10, <2>12, <2>14
<1> QED BY <1>7, <1>8

LEMMA FlushStep == ASSUME RInv, Flush PROVE RInv' /\ StepRefines
<1> USE DEF RInv
<1>1. IInv' BY NextIInv DEF Next
<1>2. LayerInv BY DEF IInv
<1>3. UNCHANGED inputs BY DEF Flush
<1>4. /\ layer' = layer /\ build' = build /\ ctx_buf' = ctx_buf
      /\ KernelSize' = KernelSize /\ ColumnsPerFlush' = ColumnsPerFlush
      /\ ImagePixels' = ImagePixels /\ Pixels' = Pixels
  BY <1>2, <1>3, Fixed
<1>5. /\ pc = "column_done" /\ NextPixel
      /\ i_batch' = i_batch /\ in_base' = in_base /\ out_base' = out_base
      /\ fill = ColumnsPerFlush * KernelSize /\ fill' = 0 /\ buffer' = buffer
      /\ out' = out + ColumnsPerFlush * layer.oc
  BY DEF Flush
<1>6. /\ pc' \in {"im2col", "leftover"}
      /\ i_out_y' \in 0 .. layer.oh - 1
      /\ i_out_x' \in Nat /\ i_out_x' < layer.ow
      /\ Seen' = Seen
      /\ pc' = "leftover" => Pix' + 1 = ImagePixels
  BY <1>3, <1>5, Moved
<1>7. /\ KernelSize \in Nat \ {0} /\ ColumnsPerFlush \in {2, 4} /\ layer.oc \in Nat
      /\ ImagePixels \in Nat /\ Pixels = layer.n * ImagePixels /\ layer.n \in Nat
  BY <1>2, LayerTypes, Sizes, Counts DEF Pixels
<1>8. /\ Seen \in 0 .. ImagePixels /\ Held <= Seen
      /\ i_batch \in Nat /\ i_batch < layer.n
      /\ First = i_batch * ImagePixels + (Seen - Held)
  BY <1>5, InImage DEF General
<1>9. Held' = 0
  <2>1. 0 * KernelSize = 0 BY <1>7
  <2> QED BY <1>2, <1>3, <1>5, <2>1, HeldNow
<1>10. Held = ColumnsPerFlush
  <2>1. 0 \in 0 .. KernelSize - 1 /\ ColumnsPerFlush \in Int BY <1>7
  <2>2. ColumnsPerFlush * KernelSize + 0 = ColumnsPerFlush * KernelSize BY <1>7
  <2> QED BY <1>5, <1>7, <2>1, <2>2, Euclid DEF Held
<1>11. PICK rows \in Nat : rows = ColumnsPerFlush BY <1>7
<1>12. i_batch * ImagePixels \in Nat BY <1>7, <1>8
<1>13. First' = First + rows
  <2>1. First' = i_batch * ImagePixels + Seen BY <1>4, <1>5, <1>6, <1>8, <1>9 DEF First, General
  <2> QED BY <1>7, <1>8, <1>10, <1>11, <1>12, <2>1
<1>14. First' <= Pixels
  <2>1. (i_batch + 1) * ImagePixels <= layer.n * ImagePixels BY <1>7, <1>8, Monotone
  <2>2. (i_batch + 1) * ImagePixels = i_batch * ImagePixels + ImagePixels BY <1>7, <1>8
  <2>3. layer.n * ImagePixels \in Nat BY <1>7
  <2> QED BY <1>7, <1>8, <1>10, <1>11, <1>12, <1>13, <2>1, <2>2, <2>3
<1>15. out' = First' * layer.oc
  <2>1. First \in Nat /\ out = First * layer.oc BY <1>7, <1>8, <1>12 DEF OutputInv
  <2>2. (First + rows) * layer.oc = First * layer.oc + rows * layer.oc BY <1>7, <2>1
  <2> QED BY <1>5, <1>11, <1>13, <2>1, <2>2
<1>16. PICK result : result = [p \in (0 .. rows - 1) \X Channels |->
         Dot(p[2] * KernelSize, [t \in 0 .. KernelSize - 1 |-> buffer[p[1] * KernelSize + t]])]
  OBVIOUS
<1>17. Typed(rows, result) /\ StoresWindows(First, rows, result)
  BY <1>5, <1>10, <1>11, <1>16, BufferProduct
<1>18. Store(out, rows, result) BY <1>11, <1>16 DEF Flush, GemmBuffer, Store
<1>19. OutputInv' /\ StepRefines BY <1>2, <1>3, <1>13, <1>14, <1>15, <1>17, <1>18, Storing
<1>20. CounterInv'
  <2>1. Held' <= Seen' BY <1>6, <1>7, <1>8, <1>9
  <2> QED BY <1>4, <1>5, <1>6, <2>1 DEF CounterInv, GeneralInv, General
<1>21. BufferInv' BY <1>4, <1>5, <1>9 DEF BufferInv
<1> QED BY <1>1, <1>19, <1>20, <1>21

\* What is left of an image is the columns in the buffer; then the next begins.
LEMMA BatchEnds ==
  ASSUME RInv, pc = "leftover", EndBatch
  PROVE  /\ CounterInv' /\ BufferInv'
         /\ First + Held = First' /\ First' <= Pixels /\ out' = First' * layer.oc
<1> USE DEF RInv
<1>1. LayerInv BY DEF IInv
<1>2. UNCHANGED inputs BY DEF EndBatch
<1>3. /\ layer' = layer /\ build' = build /\ ctx_buf' = ctx_buf
      /\ KernelSize' = KernelSize /\ ColumnsPerFlush' = ColumnsPerFlush
      /\ ImagePixels' = ImagePixels /\ Pixels' = Pixels
  BY <1>1, <1>2, Fixed
<1>4. /\ KernelSize \in Nat \ {0} /\ layer.oc \in Nat \ {0}
      /\ ImagePixels \in Nat \ {0} /\ Pixels = layer.n * ImagePixels /\ layer.n \in Nat
      /\ layer.oh \in Nat \ {0} /\ layer.ow \in Nat \ {0}
      /\ layer.iw * layer.ih \in Nat /\ ImagePixels * layer.oc \in Nat
  BY <1>1, Sizes, Counts DEF Pixels
<1>5. /\ i_batch' = i_batch + 1 /\ i_out_y' = 0 /\ i_out_x' = 0
      /\ in_base' = in_base + layer.iw * layer.ih
      /\ out_base' = out_base + layer.ow * layer.oh * layer.oc
      /\ out' = out_base' /\ fill' = 0 /\ buffer' = buffer
      /\ pc' = IF i_batch + 1 < layer.n THEN "im2col" ELSE "return"
  BY DEF EndBatch
<1>6. /\ Held \in Nat /\ Held <= Seen /\ i_batch \in Nat /\ i_batch < layer.n
      /\ First = i_batch * ImagePixels + (Seen - Held)
      /\ Seen = ImagePixels
  <2>1. Seen = Pix + 1 /\ Pix + 1 = ImagePixels BY DEF Seen, CounterInv, GeneralInv, General
  <2> QED BY <2>1, InImage DEF General
<1>7. Held' = 0
  <2>1. 0 * KernelSize = 0 BY <1>4
  <2> QED BY <1>1, <1>2, <1>5, <2>1, HeldNow
<1>8. (i_batch + 1) * ImagePixels = i_batch * ImagePixels + ImagePixels
      /\ i_batch * ImagePixels \in Nat
  BY <1>4, <1>6
<1>9. (i_batch + 1) * ImagePixels <= Pixels
  BY <1>4, <1>6, Monotone
<1>10. Seen' = IF pc' = "im2col" THEN 0 ELSE 1
  <2>1. Pix' = 0 BY <1>3, <1>4, <1>5 DEF Pix
  <2> QED BY <2>1 DEF Seen
<1>11. First' = (i_batch + 1) * ImagePixels
  <2>1. CASE i_batch + 1 < layer.n
    <3>1. pc' = "im2col" BY <1>5, <2>1
    <3>2. First' = (i_batch + 1) * ImagePixels + 0
      BY <1>3, <1>5, <1>7, <1>10, <3>1 DEF First, General
    <3>3. (i_batch + 1) * ImagePixels + 0 = (i_batch + 1) * ImagePixels BY <1>4, <1>6
    <3> QED BY <3>2, <3>3
  <2>2. CASE ~(i_batch + 1 < layer.n)
    <3>1. pc' = "return" BY <1>5, <2>2
    <3>2. First' = Pixels BY <1>3, <3>1 DEF First, General
    <3>3. i_batch + 1 = layer.n BY <1>4, <1>6, <2>2
    <3> QED BY <1>4, <3>2, <3>3
  <2> QED BY <2>1, <2>2
<1>12. First + Held = First' BY <1>4, <1>6, <1>8, <1>11
<1>13. out_base' = (i_batch + 1) * (ImagePixels * layer.oc)
  <2>1. layer.ow * layer.oh * layer.oc = ImagePixels * layer.oc BY <1>4 DEF ImagePixels
  <2>2. out_base = i_batch * (ImagePixels * layer.oc) BY DEF CounterInv, GeneralInv, General
  <2> DEFINE size == ImagePixels * layer.oc
  <2>3. size \in Nat BY <1>4
  <2> HIDE DEF size
  <2>4. (i_batch + 1) * size = i_batch * size + size BY <1>6, <2>3
  <2> QED BY <1>5, <2>1, <2>2, <2>4 DEF size
<1>14. out' = First' * layer.oc
  <2>1. (i_batch + 1) * (ImagePixels * layer.oc) = ((i_batch + 1) * ImagePixels) * layer.oc
    BY <1>4, <1>6
  <2> QED BY <1>5, <1>11, <1>13, <2>1
<1>15. in_base' = (i_batch + 1) * (layer.iw * layer.ih)
  <2> DEFINE size == layer.iw * layer.ih
  <2>1. size \in Nat BY <1>4
  <2>2. in_base = i_batch * size /\ in_base' = in_base + size BY <1>5 DEF CounterInv
  <2> HIDE DEF size
  <2>3. (i_batch + 1) * size = i_batch * size + size BY <1>6, <2>1
  <2> QED BY <2>2, <2>3 DEF size
<1>16. pc' \in General => GeneralInv'
  <2>1. pc' \in General => pc' = "im2col" /\ i_batch + 1 < layer.n BY <1>5 DEF General
  <2>2. pc' \in General => Held' <= Seen' BY <1>7, <1>10, <2>1
  <2>3. i_out_x' < layer.ow BY <1>4, <1>5
  <2> QED BY <1>3, <1>5, <1>13, <2>1, <2>2, <2>3 DEF GeneralInv
<1>17. CounterInv'
  <2>1. i_batch' \in 0 .. layer.n BY <1>4, <1>5, <1>6
  <2>2. i_out_y' \in 0 .. layer.oh - 1 /\ i_out_x' \in Nat BY <1>4, <1>5
  <2>3. pc' \in {"im2col", "return"} BY <1>5
  <2>4. ctx_buf' \in BOOLEAN BY <1>3 DEF CounterInv
  <2> QED BY <1>3, <1>5, <1>13, <1>15, <1>16, <2>1, <2>2, <2>3, <2>4 DEF CounterInv
<1>18. BufferInv' BY <1>3, <1>5, <1>7 DEF BufferInv
<1> QED BY <1>9, <1>11, <1>12, <1>14, <1>17, <1>18

LEMMA LeftoverStep == ASSUME RInv, Leftover PROVE RInv' /\ StepRefines
<1> USE DEF RInv
<1>1. IInv' BY NextIInv DEF Next
<1>2. LayerInv BY DEF IInv
<1>3. UNCHANGED inputs BY DEF Leftover, EndBatch
<1>4. pc = "leftover" /\ EndBatch /\ fill # 0 BY DEF Leftover
<1>5. /\ CounterInv' /\ BufferInv'
      /\ First + Held = First' /\ First' <= Pixels /\ out' = First' * layer.oc
  BY <1>4, BatchEnds
<1>6. Held = LeftoverColumns /\ Held \in Nat
  <2>1. /\ KernelSize \in Nat /\ Held \in 0 .. ColumnsPerFlush
        /\ fill = Held * KernelSize /\ Held < ColumnsPerFlush
    BY <1>2, <1>4, LayerTypes, HeldFill
  <2>2. Held # 0 BY <1>4, <2>1
  <2>3. CASE build = "vector"
    <3>1. LeftoverColumns = Held BY <2>3 DEF LeftoverColumns, Held
    <3>2. ColumnsPerFlush = 4 BY <2>3 DEF ColumnsPerFlush
    <3> QED BY <2>1, <3>1, <3>2
  <2>4. CASE build # "vector"
    <3>1. LeftoverColumns = 1 /\ ColumnsPerFlush = 2
      BY <2>4 DEF LeftoverColumns, ColumnsPerFlush
    <3> QED BY <2>1, <2>2, <3>1
  <2> QED BY <2>3, <2>4
<1>7. PICK rows \in Nat : rows = Held BY <1>6
<1>8. PICK result : result = [p \in (0 .. rows - 1) \X Channels |->
         Dot(p[2] * KernelSize, [t \in 0 .. KernelSize - 1 |-> buffer[p[1] * KernelSize + t]])]
  OBVIOUS
<1>9. Typed(rows, result) /\ StoresWindows(First, rows, result)
  BY <1>4, <1>7, <1>8, BufferProduct
<1>10. Store(out, rows, result) BY <1>6, <1>7, <1>8 DEF Leftover, GemmBuffer, Store
<1>11. OutputInv' /\ StepRefines BY <1>2, <1>3, <1>5, <1>7, <1>9, <1>10, Storing
<1> QED BY <1>1, <1>5, <1>11

LEMMA NoLeftoverStep == ASSUME RInv, NoLeftover PROVE RInv' /\ StepRefines
<1> USE DEF RInv
<1>1. IInv' BY NextIInv DEF Next
<1>2. LayerInv BY DEF IInv
<1>3. UNCHANGED inputs BY DEF NoLeftover, EndBatch
<1>4. pc = "leftover" /\ EndBatch /\ fill = 0 /\ output_data' = output_data BY DEF NoLeftover
<1>5. /\ CounterInv' /\ BufferInv'
      /\ First + Held = First' /\ First' <= Pixels /\ out' = First' * layer.oc
  BY <1>4, BatchEnds
<1>6. Held = 0
  <2>1. KernelSize \in Nat \ {0} /\ 0 \in 0 .. KernelSize - 1 BY <1>2, LayerTypes
  <2>2. 0 * KernelSize + 0 = 0 /\ 0 \in Int BY <2>1
  <2>3. (0 * KernelSize + 0) \div KernelSize = 0 BY <2>1, <2>2, Euclid
  <2> QED BY <1>4, <2>2, <2>3 DEF Held
<1>7. First \in Nat /\ out = First * layer.oc BY <1>2, Counts DEF OutputInv
<1>8. First' = First /\ out' = out BY <1>5, <1>6, <1>7
<1> QED BY <1>1, <1>2, <1>3, <1>4, <1>5, <1>8, Quiet

LEMMA PointwiseStep == ASSUME RInv, FittingLayers, Pointwise PROVE RInv' /\ StepRefines
<1> USE DEF RInv
<1>1. IInv' BY NextIInv DEF Next
<1>2. LayerInv BY DEF IInv
<1>3. UNCHANGED inputs BY DEF Pointwise
<1>4. /\ layer' = layer /\ build' = build /\ ctx_buf' = ctx_buf
      /\ KernelSize' = KernelSize /\ ColumnsPerFlush' = ColumnsPerFlush
      /\ IsPointwise' = IsPointwise
      /\ ImagePixels' = ImagePixels /\ Pixels' = Pixels
  BY <1>2, <1>3, Fixed
<1>5. /\ pc = "pointwise" /\ i_batch' = i_batch /\ i_out_y' = i_out_y
      /\ in_base' = in_base /\ out_base' = out_base /\ fill' = fill /\ buffer' = buffer
      /\ out' = out + RowsTogether * layer.oc
      /\ i_out_x' = i_out_x + RowsTogether
      /\ pc' = IF i_out_x' = Rows THEN "return" ELSE pc
  BY DEF Pointwise
<1>6. IsPointwise /\ i_batch = 0 /\ i_out_x \in Nat /\ i_out_x < Pixels /\ First = i_out_x
  BY <1>5 DEF CounterInv, First, General
<1>7. /\ layer.n \in Nat \ {0} /\ layer.oc \in Nat \ {0} /\ KernelSize = 1
      /\ layer.oh \in Nat \ {0} /\ layer.ow \in Nat \ {0}
      /\ layer.oh = layer.ih /\ layer.ow = layer.iw
      /\ Pixels \in Nat
  <2>1. layer.oh = layer.ih /\ layer.ow = layer.iw
    BY <1>2, <1>6 DEF FittingLayers, IsPointwise, LayerInv
  <2>2. KernelSize = 1 BY <1>6 DEF IsPointwise, KernelSize
  <2> QED BY <1>2, <2>1, <2>2, Sizes, Counts
<1>8. Rows = Pixels BY <1>7 DEF Rows, Pixels, ImagePixels
<1>9. PICK rows \in Nat : rows = RowsTogether BY <1>7, <1>8 DEF RowsTogether
<1>10. i_out_x + rows <= Pixels
  <2>1. build = "scalar" => i_out_x = 0 BY <1>5 DEF CounterInv
  <2> QED BY <1>6, <1>7, <1>8, <1>9, <2>1 DEF RowsTogether
<1>11. First' = First + rows
  <2>1. pc' = "return" => First' = Pixels BY <1>4 DEF First, General
  <2>2. pc' = "pointwise" => First' = i_out_x' BY DEF First, General
  <2> QED BY <1>5, <1>6, <1>8, <1>9, <2>1, <2>2
<1>12. First' <= Pixels BY <1>6, <1>10, <1>11
<1>13. out' = First' * layer.oc
  <2>1. (i_out_x + rows) * layer.oc = i_out_x * layer.oc + rows * layer.oc BY <1>6, <1>7
  <2> QED BY <1>5, <1>6, <1>9, <1>11, <2>1 DEF OutputInv
<1>14. PICK result : result = [p \in (0 .. rows - 1) \X Channels |->
                                 Dot(p[2], [t \in {0} |-> i_out_x + p[1]])]
  OBVIOUS
<1>15. Store(out, rows, result) BY <1>9, <1>14 DEF Pointwise, Store
<1> DEFINE row(i) == [t \in {0} |-> i_out_x + i]
<1>16. \A i \in 0 .. rows - 1, ch \in Channels : result[<<i, ch>>] = Dot(ch, row(i)) BY <1>14
<1>17. Channels \subseteq Nat BY <1>7 DEF Channels
<1>18. Typed(rows, result)
  <2> SUFFICES ASSUME NEW i \in 0 .. rows - 1, NEW ch \in Channels
               PROVE  result[<<i, ch>>] \in SUBSET (Nat \X Int)
    BY DEF Typed
  <2>1. PICK r : r = row(i) OBVIOUS
  <2>2. \A u \in DOMAIN r : u \in Nat /\ r[u] \in Int BY <1>6, <2>1
  <2>3. result[<<i, ch>>] = Dot(ch, row(i)) BY <1>16
  <2> HIDE DEF row
  <2>4. Dot(ch, r) \in SUBSET (Nat \X Int) BY <1>17, <2>2, DotType
  <2> QED BY <2>1, <2>3, <2>4
<1>19. StoresWindows(First, rows, result)
  <2> SUFFICES ASSUME NEW b \in 0 .. layer.n - 1, NEW y \in 0 .. layer.oh - 1,
                      NEW x \in 0 .. layer.ow - 1, NEW ch \in Channels,
                      Flat(b, y, x) \in First .. First + rows - 1
               PROVE  result[<<Flat(b, y, x) - First, ch>>] = Conv!Window(Pixel(b, y, x, ch))
    BY DEF StoresWindows
  <2>1. b \in Nat /\ ch \in Nat BY <1>7, <1>17
  <2>2. Flat(b, y, x) \in 0 .. Pixels - 1 BY <1>2, FlatBound
  <2>3. PICK f \in Nat : f = Flat(b, y, x) BY <1>7, <2>2
  <2>4. PICK i \in 0 .. rows - 1 : i = f - First BY <1>6, <2>3
  <2>5. i_out_x + i = Flat(b, y, x) BY <1>6, <2>3, <2>4
  <2>6. result[<<i, ch>>] = Dot(ch, [t \in {0} |-> Flat(b, y, x)]) BY <1>16, <2>5
  <2>7. Dot(ch, [t \in {0} |-> Flat(b, y, x)]) = Conv!Window(Pixel(b, y, x, ch))
    BY <1>2, <1>6, <2>1, PointIsWindow
  <2> QED BY <2>3, <2>4, <2>6, <2>7
<1>20. OutputInv' /\ StepRefines
  BY <1>2, <1>3, <1>11, <1>12, <1>13, <1>15, <1>18, <1>19, Storing
<1>21. CounterInv'
  <2>1. i_out_x' \in Nat /\ (pc' # "return" => i_out_x' < Pixels)
    BY <1>5, <1>6, <1>7, <1>8, <1>9, <1>10
  <2>2. build = "scalar" => pc' = "return"
    <3>1. build = "scalar" => i_out_x = 0 BY <1>5 DEF CounterInv
    <3> QED BY <1>5, <1>7, <1>8, <3>1 DEF RowsTogether
  <2> QED BY <1>4, <1>5, <1>6, <2>1, <2>2 DEF CounterInv, General
<1>22. BufferInv' BY <1>4, <1>5 DEF BufferInv, General
<1> QED BY <1>1, <1>20, <1>21, <1>22

LEMMA Call1x1Step == ASSUME RInv, Call1x1 PROVE RInv' /\ StepRefines
<1> USE DEF RInv
<1>1. IInv' BY NextIInv DEF Next
<1>2. LayerInv BY DEF IInv
<1>3. UNCHANGED inputs BY DEF Call1x1
<1>4. /\ layer' = layer /\ build' = build /\ ctx_buf' = ctx_buf
      /\ KernelSize' = KernelSize /\ ColumnsPerFlush' = ColumnsPerFlush
      /\ ImagePixels' = ImagePixels /\ Pixels' = Pixels
  BY <1>2, <1>3, Fixed
<1>5. /\ layer.n \in Nat \ {0} /\ layer.oh \in Nat \ {0} /\ layer.ow \in Nat \ {0}
      /\ ImagePixels \in Nat /\ layer.iw * layer.ih \in Nat /\ ImagePixels * layer.oc \in Nat
      /\ layer.iw * layer.sy \in Nat
  <2>1. layer.iw \in Nat /\ layer.sy \in Nat BY <1>2, Sizes
  <2>2. layer.iw * layer.sy \in Nat BY <2>1
  <2> QED BY <1>2, <2>2, Sizes, Counts
<1>6. /\ pc = "call_1x1" /\ i_batch = 0 /\ i_out_y = 0 /\ i_out_x = 0 /\ layer \in Layers1x1
      /\ i_batch' = 0 /\ i_out_y' = 0 /\ i_out_x' = 0
      /\ in_base' = in_base /\ out_base' = out_base /\ out' = out
      /\ fill' = fill /\ buffer' = buffer /\ output_data' = output_data
  BY DEF Call1x1, CounterInv
<1>7. in_base = 0 /\ out_base = 0 BY <1>5, <1>6 DEF CounterInv
<1>8. pc' \in {"refused", "row_1x1"} BY DEF Call1x1
<1>9. First' = First
  <2>1. 0 * ImagePixels + 0 * layer.ow = 0 BY <1>5
  <2> QED BY <1>4, <1>6, <1>8, <2>1 DEF First, General
<1>10. pc' = "row_1x1" => Row1x1Inv'
  <2>1. pc' = "row_1x1" => layer.px = 0 /\ layer.py = 0 BY DEF Call1x1
  <2>2. 0 * (layer.iw * layer.ih) + 0 * (layer.iw * layer.sy) = 0 BY <1>5
  <2> QED BY <1>4, <1>5, <1>6, <1>7, <2>1, <2>2 DEF Row1x1Inv
<1>11. CounterInv'
  <2>1. in_base' = i_batch' * (layer'.iw * layer'.ih) BY <1>4, <1>5, <1>6, <1>7
  <2> QED BY <1>4, <1>5, <1>6, <1>7, <1>8, <1>10, <2>1 DEF CounterInv, General
<1>12. BufferInv' BY <1>4, <1>6, <1>8 DEF BufferInv, General
<1> QED BY <1>1, <1>2, <1>3, <1>6, <1>9, <1>11, <1>12, Quiet

\* The row stored is the next row of the image.
LEMMA Row1x1Stores ==
  ASSUME LayerInv, FittingLayers, layer \in Layers1x1, layer.px = 0, layer.py = 0,
         NEW b0 \in Nat, NEW y0 \in 0 .. layer.oh - 1,
         NEW base, base = b0 * (layer.iw * layer.ih) + y0 * (layer.iw * layer.sy),
         NEW result,
         result = [p \in (0 .. layer.ow - 1) \X Channels |-> Dot(p[2], [t \in {0} |-> base + p[1]])]
  PROVE  /\ Typed(layer.ow, result)
         /\ StoresWindows(b0 * ImagePixels + y0 * layer.ow, layer.ow, result)
<1>1. /\ layer.oh \in Nat \ {0} /\ layer.ow \in Nat \ {0} /\ layer.oc \in Nat
      /\ layer.n \in Nat /\ ImagePixels \in Nat \ {0}
  BY Sizes, Counts
<1>2. Channels \subseteq Nat BY <1>1 DEF Channels
<1>3. ASSUME NEW i \in 0 .. layer.ow - 1, NEW ch \in Channels
      PROVE  /\ result[<<i, ch>>] = Conv!Window(Pixel(b0, y0, i, ch))
             /\ result[<<i, ch>>] \in SUBSET (Nat \X Int)
  <2>1. result[<<i, ch>>] = Dot(ch, [t \in {0} |-> base + i]) OBVIOUS
  <2>2. ch \in Nat BY <1>2
  <2>3. /\ Dot(ch, [t \in {0} |-> base + i]) = Conv!Window(Pixel(b0, y0, i, ch))
        /\ base + i \in Int
    BY <2>2, PixelIsWindow
  <2>4. PICK r : r = [t \in {0} |-> base + i] OBVIOUS
  <2>5. \A u \in DOMAIN r : u \in Nat /\ r[u] \in Int BY <2>3, <2>4
  <2>6. Dot(ch, r) \in SUBSET (Nat \X Int) BY <2>2, <2>5, DotType
  <2> QED BY <2>1, <2>3, <2>4, <2>6
<1>4. Typed(layer.ow, result)
  <2> SUFFICES ASSUME NEW p \in (0 .. layer.ow - 1) \X Channels
               PROVE  result[p] \in SUBSET (Nat \X Int)
    BY DEF Typed
  <2>1. p[1] \in 0 .. layer.ow - 1 /\ p[2] \in Channels /\ p = <<p[1], p[2]>> OBVIOUS
  <2> QED BY <1>3, <2>1
<1>5. PICK first : first = b0 * ImagePixels + y0 * layer.ow OBVIOUS
<1>6. StoresWindows(first, layer.ow, result)
  <2> SUFFICES ASSUME NEW b \in 0 .. layer.n - 1, NEW y \in 0 .. layer.oh - 1,
                      NEW x \in 0 .. layer.ow - 1, NEW ch \in Channels,
                      Flat(b, y, x) \in first .. first + layer.ow - 1
               PROVE  result[<<Flat(b, y, x) - first, ch>>] = Conv!Window(Pixel(b, y, x, ch))
    BY DEF StoresWindows
  <2>1. b \in Nat /\ y \in Nat /\ x \in Nat /\ y0 \in Nat BY <1>1
  <2>2. b0 * ImagePixels \in Nat /\ y0 * layer.ow \in Nat /\ first \in Nat
    <3>1. b0 * ImagePixels \in Nat /\ y0 * layer.ow \in Nat BY <1>1, <2>1
    <3> QED BY <1>5, <3>1
  <2>3. Flat(b, y, x) = b * ImagePixels + (y * layer.ow + x) BY <2>1, FlatIs
  <2>4. y * layer.ow + x \in 0 .. ImagePixels - 1 BY PixelBound
  <2>5. PICK f \in Nat : f = Flat(b, y, x)
    <3>1. b * ImagePixels \in Nat BY <1>1, <2>1
    <3> QED BY <1>1, <2>3, <2>4, <3>1
  <2>6. PICK i \in 0 .. layer.ow - 1 : i = f - first BY <1>1, <2>2, <2>5
  <2>7. f = b0 * ImagePixels + (y0 * layer.ow + i) BY <1>1, <1>5, <2>2, <2>5, <2>6
  <2>8. y0 * layer.ow + i \in 0 .. ImagePixels - 1 BY PixelBound
  <2>9. b = b0 /\ y * layer.ow + x = y0 * layer.ow + i
    <3>1. \A p, q \in Nat, r, s \in 0 .. ImagePixels - 1 :
            p * ImagePixels + r = q * ImagePixels + s => p = q /\ r = s
      BY <1>1, RowMajorUnique
    <3> QED BY <2>1, <2>3, <2>4, <2>5, <2>7, <2>8, <3>1
  <2>10. y = y0 /\ x = i
    <3>1. \A p, q \in Nat, r, s \in 0 .. layer.ow - 1 :
            p * layer.ow + r = q * layer.ow + s => p = q /\ r = s
      BY <1>1, RowMajorUnique
    <3> QED BY <2>1, <2>9, <3>1
  <2> QED BY <1>3, <2>5, <2>6, <2>9, <2>10
<1> QED BY <1>4, <1>5, <1>6

LEMMA Row1x1Step == ASSUME RInv, FittingLayers, Row1x1 PROVE RInv' /\ StepRefines
<1> USE DEF RInv
<1>1. IInv' BY NextIInv DEF Next
<1>2. LayerInv BY DEF IInv
<1>3. UNCHANGED inputs BY DEF Row1x1
<1>4. /\ layer' = layer /\ build' = build /\ ctx_buf' = ctx_buf
      /\ KernelSize' = KernelSize /\ ColumnsPerFlush' = ColumnsPerFlush
      /\ ImagePixels' = ImagePixels /\ Pixels' = Pixels
  BY <1>2, <1>3, Fixed
<1>5. /\ pc = "row_1x1" /\ i_out_x' = i_out_x
      /\ out_base' = out_base /\ fill' = fill /\ buffer' = buffer
      /\ out' = out + layer.ow * layer.oc
  BY DEF Row1x1
<1>6. /\ layer.n \in Nat \ {0} /\ layer.oc \in Nat \ {0} /\ layer.oh \in Nat \ {0}
      /\ layer.ow \in Nat \ {0} /\ ImagePixels \in Nat \ {0} /\ Pixels \in Nat
      /\ ImagePixels = layer.oh * layer.ow /\ Pixels = layer.n * ImagePixels
      /\ layer.iw * layer.ih \in Nat /\ layer.iw * layer.sy \in Nat
  <2>1. layer.iw \in Nat /\ layer.sy \in Nat BY <1>2, Sizes
  <2>2. layer.iw * layer.sy \in Nat BY <2>1
  <2> QED BY <1>2, <2>2, Sizes, Counts DEF ImagePixels, Pixels
<1>7. /\ layer \in Layers1x1 /\ layer.px = 0 /\ layer.py = 0 /\ out_base = 0
      /\ i_batch \in Nat /\ i_batch < layer.n /\ i_out_y \in 0 .. layer.oh - 1
      /\ i_out_x \in Nat
      /\ in_base = i_batch * (layer.iw * layer.ih) + i_out_y * (layer.iw * layer.sy)
      /\ First = i_batch * ImagePixels + i_out_y * layer.ow
  BY <1>5, <1>6 DEF CounterInv, Row1x1Inv, First, General
<1>8. PICK b0 \in Nat, y0 \in 0 .. layer.oh - 1 : b0 = i_batch /\ y0 = i_out_y BY <1>7
<1>9. y0 \in Nat /\ b0 * ImagePixels \in Nat /\ y0 * layer.ow \in Nat /\ b0 + 1 <= layer.n
  BY <1>6, <1>7, <1>8
<1>10. (y0 + 1) * layer.ow = y0 * layer.ow + layer.ow
       /\ (b0 + 1) * ImagePixels = b0 * ImagePixels + ImagePixels
  <2>1. \A p, q \in Nat : (p + 1) * q = p * q + q OBVIOUS
  <2> QED BY <1>6, <1>9, <2>1
<1>11. (y0 + 1) * layer.ow <= ImagePixels /\ (b0 + 1) * ImagePixels <= Pixels
  <2>1. y0 + 1 \in Nat /\ y0 + 1 <= layer.oh BY <1>6, <1>8
  <2>2. (y0 + 1) * layer.ow <= layer.oh * layer.ow BY <1>6, <2>1, Monotone
  <2>3. (b0 + 1) * ImagePixels <= layer.n * ImagePixels BY <1>6, <1>9, Monotone
  <2> QED BY <1>6, <2>2, <2>3
<1>12. \/ /\ y0 + 1 < layer.oh /\ i_out_y' = y0 + 1 /\ i_batch' = b0 /\ pc' = "row_1x1"
          /\ in_base' = in_base + layer.iw * layer.sy
       \/ /\ y0 + 1 = layer.oh /\ i_out_y' = 0 /\ i_batch' = b0 + 1
          /\ in_base' = (b0 + 1) * (layer.iw * layer.ih)
          /\ pc' = IF b0 + 1 < layer.n THEN "row_1x1" ELSE "return"
  BY <1>5, <1>8 DEF Row1x1
<1>13. First' = First + layer.ow /\ First' <= Pixels
  <2>1. First = b0 * ImagePixels + y0 * layer.ow BY <1>7, <1>8
  <2>2. CASE y0 + 1 < layer.oh
    <3>1. First' = b0 * ImagePixels + (y0 + 1) * layer.ow
      BY <1>4, <1>6, <1>8, <1>9, <1>12, <2>2 DEF First, General
    <3> QED BY <1>6, <1>9, <1>10, <1>11, <2>1, <3>1
  <2>3. CASE ~(y0 + 1 < layer.oh)
    <3>1. /\ y0 + 1 = layer.oh /\ i_out_y' = 0 /\ i_batch' = b0 + 1
          /\ pc' = IF b0 + 1 < layer.n THEN "row_1x1" ELSE "return"
      BY <1>12, <2>3
    <3>2. First' = (b0 + 1) * ImagePixels
      <4>1. CASE b0 + 1 < layer.n
        <5>1. First' = (b0 + 1) * ImagePixels + 0 * layer.ow
          BY <1>4, <3>1, <4>1 DEF First, General
        <5>2. 0 * layer.ow = 0 /\ (b0 + 1) * ImagePixels \in Nat BY <1>6, <1>9
        <5> QED BY <5>1, <5>2
      <4>2. CASE ~(b0 + 1 < layer.n)
        <5>1. First' = Pixels BY <1>4, <3>1, <4>2 DEF First, General
        <5>2. b0 + 1 = layer.n BY <1>6, <1>9, <4>2
        <5> QED BY <1>6, <5>1, <5>2
      <4> QED BY <4>1, <4>2
    <3>3. ImagePixels = y0 * layer.ow + layer.ow BY <1>6, <1>10, <3>1
    <3> QED BY <1>6, <1>9, <1>10, <1>11, <2>1, <3>2, <3>3
  <2> QED BY <2>2, <2>3
<1>14. PICK first \in Nat : first = First BY <1>7, <1>8, <1>9
<1>15. out' = First' * layer.oc
  <2>1. (first + layer.ow) * layer.oc = first * layer.oc + layer.ow * layer.oc BY <1>6
  <2> QED BY <1>5, <1>13, <1>14, <2>1 DEF OutputInv
<1>16. PICK base : base = in_base OBVIOUS
<1>17. PICK result : result =
         [p \in (0 .. layer.ow - 1) \X Channels |-> Dot(p[2], [t \in {0} |-> base + p[1]])]
  OBVIOUS
<1>18. PICK rows \in Nat : rows = layer.ow BY <1>6
<1>19. Store(out, rows, result) BY <1>16, <1>17, <1>18 DEF Row1x1, Store
<1>20. Typed(rows, result) /\ StoresWindows(First, rows, result)
  <2>1. base = b0 * (layer.iw * layer.ih) + y0 * (layer.iw * layer.sy) BY <1>7, <1>8, <1>16
  <2>2. Typed(layer.ow, result)
        /\ StoresWindows(b0 * ImagePixels + y0 * layer.ow, layer.ow, result)
    BY <1>2, <1>7, <1>17, <2>1, Row1x1Stores
  <2> QED BY <1>7, <1>8, <1>18, <2>2
<1>21. OutputInv' /\ StepRefines
  <2>1. First' = First + rows BY <1>13, <1>18
  <2> QED BY <1>2, <1>3, <1>13, <1>15, <1>19, <1>20, <2>1, Storing
<1>22. CounterInv'
  <2>1. i_batch' \in 0 .. layer.n /\ i_out_y' \in 0 .. layer.oh - 1 /\ i_out_x' \in Nat
    BY <1>5, <1>6, <1>7, <1>8, <1>9, <1>12
  <2>2. pc' \in {"row_1x1", "return"} BY <1>12
  <2>3. in_base' = i_batch' * (layer.iw * layer.ih) + i_out_y' * (layer.iw * layer.sy)
    <3> DEFINE image == layer.iw * layer.ih
               row == layer.iw * layer.sy
    <3>1. image \in Nat /\ row \in Nat BY <1>6
    <3>2. in_base = b0 * image + y0 * row BY <1>7, <1>8
    <3>3. \/ i_out_y' = y0 + 1 /\ i_batch' = b0 /\ in_base' = in_base + row
          \/ i_out_y' = 0 /\ i_batch' = b0 + 1 /\ in_base' = (b0 + 1) * image
      BY <1>12
    <3> HIDE DEF image, row
    <3>4. (y0 + 1) * row = y0 * row + row /\ 0 * row = 0 BY <1>9, <3>1
    <3>5. b0 * image \in Nat /\ (b0 + 1) * image \in Nat /\ y0 * row \in Nat BY <1>9, <3>1
    <3>6. in_base' = i_batch' * image + i_out_y' * row BY <3>1, <3>2, <3>3, <3>4, <3>5
    <3> QED BY <3>6 DEF image, row
  <2>4. pc' = "row_1x1" => Row1x1Inv'
    <3>1. pc' = "row_1x1" => i_batch' < layer.n BY <1>7, <1>8, <1>12
    <3> QED BY <1>4, <1>5, <1>7, <2>3, <3>1 DEF Row1x1Inv
  <2>5. pc' = "return" => in_base' = i_batch' * (layer.iw * layer.ih) BY <1>12
  <2> QED BY <1>4, <1>5, <1>7, <2>1, <2>2, <2>4, <2>5 DEF CounterInv, General
<1>23. BufferInv' BY <1>4, <1>5, <1>12 DEF BufferInv, General
<1> QED BY <1>1, <1>21, <1>22, <1>23

LEMMA OneRowStep == ASSUME RInv, FittingLayers, OneRow PROVE RInv' /\ StepRefines
<1> USE DEF RInv
<1>1. IInv' BY NextIInv DEF Next
<1>2. LayerInv BY DEF IInv
<1>3. UNCHANGED inputs BY DEF OneRow
<1>4. /\ layer' = layer /\ build' = build /\ ctx_buf' = ctx_buf
      /\ KernelSize' = KernelSize /\ ColumnsPerFlush' = ColumnsPerFlush
      /\ IsOneRow' = IsOneRow
      /\ ImagePixels' = ImagePixels /\ Pixels' = Pixels
  BY <1>2, <1>3, Fixed
<1>5. /\ pc = "one_row" /\ i_out_y' = i_out_y
      /\ out_base' = out_base /\ fill' = fill /\ buffer' = buffer
      /\ out' = out + 4 * layer.oc
  BY DEF OneRow
<1>6. /\ IsOneRow /\ build = "vector" /\ i_batch < layer.n /\ out_base = 0
      /\ i_out_x % 4 = 0 /\ i_out_x + 4 <= layer.ow
      /\ i_out_x \in Nat /\ i_batch \in Nat
      /\ in_base = i_batch * (layer.iw * layer.ih)
      /\ First = i_batch * layer.ow + i_out_x
  <2>1. layer.n \in Nat BY <1>2, Sizes
  <2> QED BY <1>5, <2>1 DEF CounterInv, OneRowInv, First, General
<1>7. layer.ow % 4 = 0 /\ layer.ih = 1 /\ layer.dx = 1 BY <1>6 DEF IsOneRow
<1>8. /\ layer.n \in Nat \ {0} /\ layer.oc \in Nat \ {0} /\ layer.ow \in Nat \ {0}
      /\ layer.iw \in Nat \ {0} /\ layer.kw \in Nat \ {0}
      /\ layer.kh = 1 /\ layer.oh = 1 /\ layer.py = 0
      /\ ImagePixels = layer.ow /\ Pixels = layer.n * layer.ow
  <2>1. /\ layer.n \in Nat \ {0} /\ layer.oc \in Nat \ {0} /\ layer.ow \in Nat \ {0}
        /\ layer.iw \in Nat \ {0} /\ layer.kw \in Nat \ {0}
    BY <1>2, Sizes
  <2>2. layer.kh = 1 /\ layer.oh = 1 /\ layer.py = 0
    BY <1>2, <1>6, <1>7 DEF FittingLayers, LayerInv
  <2>3. ImagePixels = layer.ow BY <2>1, <2>2 DEF ImagePixels
  <2> QED BY <2>1, <2>2, <2>3 DEF Pixels
<1>9. in_base = i_batch * layer.iw BY <1>6, <1>7, <1>8
<1>10. i_batch * layer.ow \in Nat /\ (i_batch + 1) * layer.ow = i_batch * layer.ow + layer.ow
  BY <1>6, <1>8
<1>11. (i_batch + 1) * layer.ow <= Pixels BY <1>6, <1>8, Monotone
<1>12. \/ /\ i_out_x + 8 <= layer.ow
          /\ i_out_x' = i_out_x + 4 /\ pc' = pc /\ i_batch' = i_batch /\ in_base' = in_base
       \/ /\ i_out_x + 4 = layer.ow
          /\ i_out_x' = 0 /\ i_batch' = i_batch + 1 /\ in_base' = in_base + layer.iw
          /\ pc' = IF i_batch + 1 < layer.n THEN pc ELSE "return"
  BY <1>6, <1>7, <1>8 DEF OneRow
<1>13. First' = First + 4 /\ First' <= Pixels
  <2>1. First \in Nat /\ Pixels \in Nat BY <1>2, <1>6, <1>10, Counts
  <2>2. CASE i_out_x + 8 <= layer.ow
    <3>1. i_out_x' = i_out_x + 4 /\ pc' = "one_row" /\ i_batch' = i_batch
      BY <1>5, <1>6, <1>8, <1>12, <2>2
    <3>2. First' = i_batch * layer.ow + (i_out_x + 4) BY <1>4, <3>1 DEF First, General
    <3> QED BY <1>6, <1>8, <1>10, <1>11, <2>1, <2>2, <3>2
  <2>3. CASE ~(i_out_x + 8 <= layer.ow)
    <3>1. /\ i_out_x + 4 = layer.ow /\ i_out_x' = 0 /\ i_batch' = i_batch + 1
          /\ pc' = IF i_batch + 1 < layer.n THEN "one_row" ELSE "return"
      BY <1>5, <1>12, <2>3
    <3>2. First' = (i_batch + 1) * layer.ow
      <4>1. CASE i_batch + 1 < layer.n
        <5>1. First' = (i_batch + 1) * layer.ow + 0 BY <1>4, <3>1, <4>1 DEF First, General
        <5>2. (i_batch + 1) * layer.ow + 0 = (i_batch + 1) * layer.ow BY <1>6, <1>8
        <5> QED BY <5>1, <5>2
      <4>2. CASE ~(i_batch + 1 < layer.n)
        <5>1. First' = Pixels BY <1>4, <3>1, <4>2 DEF First, General
        <5>2. i_batch \in Nat /\ layer.n \in Nat /\ i_batch < layer.n BY <1>6, <1>8
        <5>3. i_batch + 1 = layer.n BY <4>2, <5>2
        <5> QED BY <1>8, <5>1, <5>3
      <4> QED BY <4>1, <4>2
    <3> QED BY <1>6, <1>8, <1>10, <1>11, <2>1, <3>1, <3>2
  <2> QED BY <2>2, <2>3
<1>14. PICK first \in Nat : first = First BY <1>6, <1>10
<1>15. out' = First' * layer.oc
  <2>1. layer.oc \in Nat BY <1>8
  <2>2. (first + 4) * layer.oc = first * layer.oc + 4 * layer.oc BY <2>1
  <2> QED BY <1>5, <1>13, <1>14, <2>2 DEF OutputInv
<1>16. PICK result : result = [p \in (0 .. 3) \X Channels |-> OneRowResult(p[1], p[2])]
  OBVIOUS
<1>17. PICK rows \in Nat : rows = 4 OBVIOUS
<1>18. Store(out, rows, result) BY <1>16, <1>17 DEF OneRow, Store
<1>19. Channels \subseteq Nat BY <1>8 DEF Channels
<1>20. \A i \in 0 .. 3, ch \in Channels :
         result[<<i, ch>>] = Conv!Window(Pixel(i_batch, 0, i_out_x + i, ch))
  <2> SUFFICES ASSUME NEW i \in 0 .. 3, NEW ch \in Channels
               PROVE  result[<<i, ch>>] = Conv!Window(Pixel(i_batch, 0, i_out_x + i, ch))
    OBVIOUS
  <2>1. result[<<i, ch>>] = OneRowResult(i, ch) BY <1>16
  <2>2. PICK b \in Nat : b = i_batch BY <1>6
  <2>3. in_base = b * layer.iw /\ ch \in Nat BY <1>9, <1>19, <2>2
  <2>4. OneRowResult(i, ch) = Conv!Window(Pixel(b, 0, i_out_x + i, ch))
    BY <1>2, <1>6, <2>3, OneRowIsWindow
  <2> QED BY <2>1, <2>2, <2>4
<1>21. Typed(rows, result)
  <2> SUFFICES ASSUME NEW i \in 0 .. 3, NEW ch \in Channels
               PROVE  result[<<i, ch>>] \in SUBSET (Nat \X Int)
    BY <1>17 DEF Typed
  <2>1. PICK x \in Nat, b \in Nat : x = i_out_x + i /\ b = i_batch BY <1>6
  <2>2. PICK est \in Int : est = layer.sx * x - layer.px BY <1>2, <2>1, Sizes
  <2>3. ch \in Nat BY <1>19
  <2>4. Conv!Window(Pixel(b, 0, x, ch)) = RowProducts(b, est, ch)
    BY <1>2, <1>7, <1>8, <2>2, <2>3, RowWindow
  <2>5. RowProducts(b, est, ch) \subseteq Nat \X Int
    <3>1. layer.kw * ch \in Nat /\ b * layer.iw \in Nat BY <1>8, <2>3
    <3>2. \A k \in 0 .. layer.kw - 1 :
            <<layer.kw * ch + k, b * layer.iw + est + k>> \in Nat \X Int
      BY <1>8, <3>1
    <3> QED BY <3>2 DEF RowProducts
  <2>6. result[<<i, ch>>] = Conv!Window(Pixel(i_batch, 0, i_out_x + i, ch)) BY <1>20
  <2> QED BY <2>1, <2>4, <2>5, <2>6
<1>22. StoresWindows(First, rows, result)
  <2> SUFFICES ASSUME NEW b \in 0 .. layer.n - 1, NEW y \in 0 .. layer.oh - 1,
                      NEW x \in 0 .. layer.ow - 1, NEW ch \in Channels,
                      Flat(b, y, x) \in First .. First + rows - 1
               PROVE  result[<<Flat(b, y, x) - First, ch>>] = Conv!Window(Pixel(b, y, x, ch))
    BY DEF StoresWindows
  <2>1. y = 0 /\ b \in Nat /\ x \in Nat BY <1>8
  <2>2. Flat(b, y, x) = b * layer.ow + x
    <3>1. Flat(b, y, x) = b * layer.ow + (0 * layer.ow + x) BY <1>2, <1>8, <2>1, FlatIs
    <3> QED BY <1>8, <2>1, <3>1
  <2>3. PICK i \in 0 .. 3 : Flat(b, y, x) = i_batch * layer.ow + (i_out_x + i)
    <3> DEFINE f == b * layer.ow + x
               a == i_batch * layer.ow
    <3>1. f \in Nat /\ a \in Nat BY <1>8, <1>10, <2>1
    <3> HIDE DEF f, a
    <3>2. f \in a + i_out_x .. a + i_out_x + 4 - 1 BY <1>6, <1>17, <2>2 DEF f, a
    <3>3. f - (a + i_out_x) \in 0 .. 3 /\ f = a + (i_out_x + (f - (a + i_out_x)))
      BY <1>6, <3>1, <3>2
    <3> QED BY <2>2, <3>3 DEF f, a
  <2>4. b = i_batch /\ x = i_out_x + i
    <3>1. \A p, q \in Nat, r, s \in 0 .. layer.ow - 1 :
            p * layer.ow + r = q * layer.ow + s => p = q /\ r = s
      BY <1>8, RowMajorUnique
    <3>2. i_out_x + i \in 0 .. layer.ow - 1 BY <1>6, <1>8
    <3> QED BY <1>6, <2>1, <2>2, <2>3, <3>1, <3>2
  <2>5. Flat(b, y, x) - First = i BY <1>6, <1>10, <2>3
  <2> QED BY <1>20, <2>1, <2>4, <2>5
<1>23. OutputInv' /\ StepRefines
  <2>1. First' = First + rows BY <1>13, <1>17
  <2> QED BY <1>2, <1>3, <1>13, <1>15, <1>18, <1>21, <1>22, <2>1, Storing
<1>24. CounterInv'
  <2>1. i_out_x' \in Nat /\ i_batch' \in 0 .. layer.n
    BY <1>6, <1>8, <1>12
  <2>2. in_base' = i_batch' * (layer.iw * layer.ih)
    <3>1. layer.iw * layer.ih = layer.iw BY <1>7, <1>8
    <3>2. (i_batch + 1) * layer.iw = i_batch * layer.iw + layer.iw BY <1>6, <1>8
    <3> QED BY <1>9, <1>12, <3>1, <3>2
  <2>3. pc' \in {"one_row", "return"} BY <1>5, <1>12
  <2>4. pc' = "one_row" => OneRowInv'
    <3> SUFFICES ASSUME pc' = "one_row" PROVE OneRowInv'
      OBVIOUS
    <3>1. i_out_x' % 4 = 0 /\ i_out_x' + 4 <= layer.ow
      BY <1>6, <1>7, <1>8, <1>12
    <3>2. i_batch' < layer.n BY <1>6, <1>12
    <3> QED BY <1>4, <1>5, <1>6, <3>1, <3>2 DEF OneRowInv
  <2> QED BY <1>4, <1>5, <1>6, <2>1, <2>2, <2>3, <2>4 DEF CounterInv, General
<1>25. BufferInv' BY <1>4, <1>5, <1>12 DEF BufferInv, General
<1> QED BY <1>1, <1>23, <1>24, <1>25

LEMMA StutterStep == ASSUME RInv, UNCHANGED vars PROVE RInv' /\ StepRefines
<1> USE DEF RInv
<1>1. IInv' BY NextIInv
<1>2. LayerInv BY DEF IInv
<1>3. UNCHANGED inputs BY DEF vars, inputs
<1>4. /\ layer' = layer /\ build' = build /\ ctx_buf' = ctx_buf
      /\ KernelSize' = KernelSize /\ ColumnsPerFlush' = ColumnsPerFlush
      /\ IsPointwise' = IsPointwise /\ IsOneRow' = IsOneRow
      /\ ImagePixels' = ImagePixels /\ Pixels' = Pixels
  BY <1>2, <1>3, Fixed
<1>5. /\ pc' = pc /\ i_batch' = i_batch /\ i_out_y' = i_out_y /\ i_out_x' = i_out_x
      /\ in_base' = in_base /\ buffer' = buffer /\ fill' = fill
      /\ out_base' = out_base /\ out' = out /\ output_data' = output_data
  BY DEF vars
<1>6. Pix' = Pix /\ Seen' = Seen /\ Held' = Held BY <1>4, <1>5 DEF Pix, Seen, Held
<1>7. First' = First BY <1>4, <1>5, <1>6 DEF First
<1>8. CounterInv' BY <1>4, <1>5, <1>6 DEF CounterInv, GeneralInv, OneRowInv, Row1x1Inv
<1>9. BufferInv' BY <1>4, <1>5, <1>6 DEF BufferInv, Tap
<1> QED BY <1>1, <1>2, <1>3, <1>5, <1>7, <1>8, <1>9, Quiet

LEMMA Step == ASSUME FittingLayers PROVE RInv /\ [Next]_vars => RInv' /\ StepRefines
BY DispatchStep, Im2colStep, FlushStep, KeepFillingStep, LeftoverStep, NoLeftoverStep,
   PointwiseStep, Call1x1Step, Row1x1Step, OneRowStep, StutterStep DEF Next

LEMMA Invariance == ASSUME FittingLayers PROVE Spec => []RInv
<1>1. Init => RInv BY InitRInv
<1>2. RInv /\ [Next]_vars => RInv' BY Step
<1> QED BY <1>1, <1>2, PTL DEF Spec

-----------------------------------------------------------------------------
\* For all layers that FittingLayers admits, every counter and pointer stays in
\* its range, the buffer holds pixels and the output sums of products.
THEOREM TypeCorrect == ASSUME FittingLayers PROVE Spec => []TypeOK
<1>1. RInv => TypeOK
  <2> SUFFICES ASSUME RInv PROVE TypeOK
    OBVIOUS
  <2> USE DEF RInv
  <2>1. LayerInv BY DEF IInv
  <2>2. /\ layer.n \in Nat /\ layer.oc \in Nat /\ ImagePixels \in Nat
        /\ layer.iw * layer.ih \in Nat /\ ImagePixels * layer.oc \in Nat
        /\ Pixels = layer.n * ImagePixels /\ Pixels \in Nat
        /\ KernelSize \in Nat /\ ColumnsPerFlush \in {2, 4}
    BY <2>1, Sizes, Counts, LayerTypes DEF Pixels
  <2>3. /\ layer.n * layer.oh * layer.ow = Pixels
        /\ layer.n * layer.ih * layer.iw = layer.n * (layer.iw * layer.ih)
    BY <2>1, Sizes DEF Pixels, ImagePixels
  <2>4. i_batch \in Nat /\ i_batch <= layer.n BY <2>2 DEF CounterInv
  <2>5. in_base \in 0 .. layer.n * layer.ih * layer.iw
    <3> DEFINE size == layer.iw * layer.ih
               rows == i_out_y * (layer.iw * layer.sy)
    <3>1. size \in Nat BY <2>2
    <3>2. pc # "row_1x1" => in_base = i_batch * size BY DEF CounterInv
    <3>3. pc = "row_1x1" => in_base = i_batch * size + rows /\ i_batch < layer.n
      BY DEF CounterInv, Row1x1Inv
    <3>4. pc = "row_1x1" => rows \in Nat /\ rows <= size
      <4> SUFFICES ASSUME pc = "row_1x1" PROVE rows \in Nat /\ rows <= size
        OBVIOUS
      <4>1. /\ layer.iw \in Nat /\ layer.ih \in Nat /\ layer.sy \in Nat
            /\ layer.oh \in Nat \ {0} /\ i_out_y \in Nat /\ i_out_y <= layer.oh - 1
        BY <2>1, Sizes DEF CounterInv
      <4>2. (layer.oh - 1) * layer.sy < layer.ih
        BY DEF CounterInv, Row1x1Inv, FittingLayers, IInv, LayerInv
      <4>3. i_out_y * layer.sy <= (layer.oh - 1) * layer.sy
        <5>1. layer.oh - 1 \in Nat BY <4>1
        <5> QED BY <4>1, <5>1, Monotone
      <4>4. i_out_y * layer.sy \in Nat /\ (layer.oh - 1) * layer.sy \in Int BY <4>1
      <4>5. i_out_y * layer.sy <= layer.ih BY <4>1, <4>2, <4>3, <4>4
      <4>6. (i_out_y * layer.sy) * layer.iw <= layer.ih * layer.iw
        BY <4>1, <4>4, <4>5, Monotone
      <4>7. rows = (i_out_y * layer.sy) * layer.iw /\ size = layer.ih * layer.iw BY <4>1
      <4>8. (i_out_y * layer.sy) * layer.iw \in Nat BY <4>1, <4>4
      <4> QED BY <4>6, <4>7, <4>8
    <3> HIDE DEF size, rows
    <3>5. i_batch * size \in Nat /\ layer.n * size \in Nat BY <2>2, <2>4, <3>1
    <3>6. i_batch * size <= layer.n * size BY <2>2, <2>4, <3>1, Monotone
    <3>7. i_batch < layer.n => i_batch * size + size <= layer.n * size
      <4>1. (i_batch + 1) * size = i_batch * size + size BY <2>4, <3>1
      <4>2. i_batch < layer.n => (i_batch + 1) * size <= layer.n * size
        BY <2>2, <2>4, <3>1, Monotone
      <4> QED BY <4>1, <4>2
    <3>8. in_base \in 0 .. layer.n * size
      BY <2>2, <3>1, <3>2, <3>3, <3>4, <3>5, <3>6, <3>7
    <3> QED BY <2>3, <3>8 DEF size
  <2>6. Pixels * layer.oc = layer.n * (ImagePixels * layer.oc) /\ Pixels * layer.oc \in Nat
    BY <2>2
  <2>7. out_base \in 0 .. Pixels * layer.oc
    <3>1. i_batch * (ImagePixels * layer.oc) <= layer.n * (ImagePixels * layer.oc)
      BY <2>2, <2>4, Monotone
    <3>2. i_batch * (ImagePixels * layer.oc) \in Nat BY <2>2, <2>4
    <3>3. out_base = 0 \/ out_base = i_batch * (ImagePixels * layer.oc) BY DEF CounterInv
    <3> QED BY <2>6, <3>1, <3>2, <3>3
  <2>8. out \in 0 .. Pixels * layer.oc
    <3>1. First \in Nat /\ First <= Pixels /\ out = First * layer.oc BY <2>2 DEF OutputInv
    <3>2. First * layer.oc <= Pixels * layer.oc BY <2>2, <3>1, Monotone
    <3>3. First * layer.oc \in Nat BY <2>2, <3>1
    <3> QED BY <2>6, <3>1, <3>2, <3>3
  <2>9. fill \in 0 .. ColumnsPerFlush * KernelSize
    <3>1. Held \in 0 .. ColumnsPerFlush /\ fill = Held * KernelSize BY HeldFill
    <3>2. Held \in Nat /\ ColumnsPerFlush \in Nat /\ Held <= ColumnsPerFlush BY <2>2, <3>1
    <3>3. Held * KernelSize <= ColumnsPerFlush * KernelSize BY <2>2, <3>2, Monotone
    <3>4. Held * KernelSize \in Nat /\ ColumnsPerFlush * KernelSize \in Nat BY <2>2, <3>2
    <3> QED BY <3>1, <3>3, <3>4
  <2>10. output_data \in [0 .. layer.n * layer.oh * layer.ow * layer.oc - 1 -> Values]
    BY DEF OutputInv, Elements
  <2>11. /\ layer \in Layers /\ build \in Builds /\ ctx_buf \in BOOLEAN
         /\ pc \in {"wrapper", "call_1x1", "refused", "pointwise", "row_1x1",
                    "one_row", "im2col", "column_done", "leftover", "return"}
         /\ i_batch \in 0 .. layer.n /\ i_out_y \in 0 .. layer.oh - 1 /\ i_out_x \in Nat
         /\ buffer \in [0 .. ColumnsPerFlush * KernelSize - 1 -> Int]
    BY DEF IInv, LayerInv, CounterInv, BufferInv
  <2> QED BY <2>3, <2>5, <2>7, <2>8, <2>9, <2>10, <2>11 DEF TypeOK
<1> QED BY <1>1, Invariance, PTL

\* In either build and whichever kernel the wrapper chooses, every element of the
\* output is written once, and with the sum over its own window.  The hypothesis
\* leaves out tall filters on one row in the vector build (the run
\* convolve_tall_filter) and the horizontal strides of the 1x1 kernel, which its
\* documentation allows and the code does not compute this way.
THEOREM ConvolutionRefinement == ASSUME FittingLayers PROVE Spec => ImplementsConvolution
<1>1. Init => Conv!Init BY InitRInv
<1>2. RInv /\ [Next]_vars => StepRefines BY Step
<1> QED BY <1>1, <1>2, Invariance, PTL DEF Spec, ImplementsConvolution, Conv!Spec, StepRefines

\* For the same layers: what a call returns is the convolution, complete.
THEOREM ReturnedConvolution == ASSUME FittingLayers PROVE Spec => []ReturnsComplete
<1>1. RInv => ReturnsComplete
  <2> SUFFICES ASSUME RInv, pc = "return",
                      NEW o \in [batch : 0 .. layer.n - 1, y : 0 .. layer.oh - 1,
                                 x : 0 .. layer.ow - 1, ch : 0 .. layer.oc - 1]
               PROVE  output_data[Flat(o.batch, o.y, o.x) * layer.oc + o.ch] = Conv!Window(o)
    BY DEF ReturnsComplete, Conv!Complete, Conv!Outputs, Flat
  <2>1. LayerInv /\ Finished /\ First = Pixels
    BY DEF RInv, IInv, OutputInv, First, General
  <2>2. PICK b \in 0 .. layer.n - 1, y \in 0 .. layer.oh - 1, x \in 0 .. layer.ow - 1,
             ch \in Channels : b = o.batch /\ y = o.y /\ x = o.x /\ ch = o.ch
    BY DEF Channels
  <2>3. Flat(b, y, x) < First
    <3>1. Flat(b, y, x) \in 0 .. Pixels - 1 BY <2>1, FlatBound
    <3>2. Pixels \in Nat BY <2>1, Counts
    <3> QED BY <2>1, <3>1, <3>2
  <2>4. o = Pixel(b, y, x, ch) BY <2>2 DEF Pixel
  <2>5. output_data[Flat(b, y, x) * layer.oc + ch] = Conv!Window(Pixel(b, y, x, ch))
    BY <2>1, <2>3 DEF Finished
  <2> QED BY <2>2, <2>4, <2>5
<1> QED BY <1>1, Invariance, PTL
=============================================================================
