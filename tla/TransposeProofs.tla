--------------------------- MODULE TransposeProofs ---------------------------
(***************************************************************************)
(* Proofs about TransposeConvS8, for every set of layers whose padding     *)
(* belongs to their output.  The column to image step walks as many        *)
(* columns as the output's dimensions say through a buffer as large as the *)
(* input's say; that it stays inside needs ColX and ColY at most the       *)
(* dimensions of the input (ColumnCounts), which the code does not check.  *)
(*                                                                         *)
(* That the layer is a transposed convolution needs ColX and ColY to be    *)
(* those dimensions, or the columns at the end are left out and those in   *)
(* between taken for others (ColumnsAre).  The invariant then says of each *)
(* word of both buffers which products it has, from the zeroing at the     *)
(* start of a batch on: ColumnInv and ImageInv.                            *)
(***************************************************************************)
EXTENDS TransposeConvS8, RowMajor, FiniteSetTheorems

\* No window starts behind the last input pixel.
FittingLayers ==
  \A l \in Layers :
    /\ l.ow + l.qx + l.px < l.iw * l.sx + l.kw
    /\ l.oh + l.qy + l.py < l.ih * l.sy + l.kh

\* Where the pointers and counters are; the loops leave them as they found them.
Positions ==
  /\ layer \in Layers /\ ctx_buf \in BOOLEAN
  /\ pc \in {"call", "refused", "clear", "product", "column", "return"}
  /\ i_batch \in 0 .. layer.n
  /\ pc \in {"call", "clear", "product", "column"} => i_batch < layer.n
  /\ in_base = i_batch * InputSize * layer.c
  /\ out = i_batch * ImageSize
  /\ i_output_ch \in 0 .. layer.oc /\ in_ch \in 0 .. layer.c - 1
  /\ pc \in {"call", "clear"} => i_output_ch = 0
  /\ pc = "product" => i_output_ch < layer.oc
  /\ i_col_y \in 0 .. ColY /\ i_col_x \in 0 .. ColX - 1
  /\ i_col_y = ColY => i_col_x = 0
  /\ col_buf = (i_col_y * ColX + i_col_x) * (FilterSize * layer.oc)

Contents ==
  /\ col_data \in [0 .. ColBufSize - 1 -> Sums]
  /\ img_buf \in [0 .. ImageSize - 1 -> Sums]
  /\ DOMAIN output_data = 0 .. layer.n * ImageSize - 1

\* The inductive invariant.
IInv == Positions /\ Contents

\* Every input pixel has its column: what TensorFlow's padding leaves room for.
CoveringLayers ==
  /\ FittingLayers
  /\ \A l \in Layers :
       /\ (l.iw - 1) * l.sx + l.kw <= l.ow + l.qx + l.px
       /\ (l.ih - 1) * l.sy + l.kh <= l.oh + l.qy + l.py

\* The loops of the other phases are at their start.
Phases ==
  /\ pc \in {"call", "clear", "product"} => i_col_y = 0 /\ i_col_x = 0
  /\ pc \in {"call", "clear", "column"} => in_ch = 0
  /\ pc = "column" => i_output_ch = layer.oc
  /\ pc = "return" => i_batch = layer.n

\* Product k of kernel element t, for output channel ch, with input pixel r of
\* batch b, and the first n of these products.
Pair(b, ch, r, t, k) ==
  <<(ch * FilterSize + t) * layer.c + k, (b * InputSize + r) * layer.c + k>>

Terms(b, ch, r, t, n) == {Pair(b, ch, r, t, k) : k \in 0 .. n - 1}

\* Input channels the matrix product has behind it for output channel ch.
Done(ch) == IF ch < i_output_ch THEN layer.c ELSE IF ch = i_output_ch THEN in_ch ELSE 0

ColumnInv ==
  pc \in {"product", "column"} =>
    \A r \in 0 .. InputSize - 1, t \in 0 .. FilterSize - 1, ch \in 0 .. layer.oc - 1 :
      col_data[(r * FilterSize + t) * layer.oc + ch]
        = [start |-> NoBias, sum |-> Terms(i_batch, ch, r, t, Done(ch)), adds |-> Done(ch)]

\* Kernel element t of the r'th column falls on pixel <<y, x>>.
Falls(r, t, y, x) ==
  /\ (r \div ColX) * layer.sy - layer.py + (t \div layer.kw) = y
  /\ (r % ColX) * layer.sx - layer.px + (t % layer.kw) = x

\* What the first n columns add to an element of the image.
Fallen(b, ch, y, x, n) ==
  UNION {Terms(b, ch, p[1], p[2], layer.c) :
           p \in {q \in (0 .. n - 1) \X (0 .. FilterSize - 1) : Falls(q[1], q[2], y, x)}}

\* Columns added to the image.
Added == i_col_y * ColX + i_col_x

ImageInv ==
  pc \in {"product", "column"} =>
    \A y \in 0 .. layer.oh - 1, x \in 0 .. layer.ow - 1, ch \in 0 .. layer.oc - 1 :
      /\ IsFiniteSet(Fallen(i_batch, ch, y, x, Added))
      /\ img_buf[(y * layer.ow + x) * layer.oc + ch]
           = [start |-> IF layer.bias THEN ch ELSE NoBias,
              sum |-> Fallen(i_batch, ch, y, x, Added),
              adds |-> Cardinality(Fallen(i_batch, ch, y, x, Added))]

\* The output behind the pointer is still to be written.
OutputFresh ==
  \A e \in 0 .. layer.n * ImageSize - 1 : e >= out => output_data[e] = Undefined

\* The place of an element in the output, and in the image of its batch.
Place(o) == (o.y * layer.ow + o.x) * layer.oc + o.ch
Index(o) == ((o.batch * layer.oh + o.y) * layer.ow + o.x) * layer.oc + o.ch

\* What is in front of it has its value.
OutputDone ==
  \A o \in Conv!Outputs : Index(o) < out => output_data[Index(o)] = Conv!Value(o)

RInv == IInv /\ Phases /\ ColumnInv /\ ImageInv /\ OutputFresh /\ OutputDone

StepRefines == [Conv!Compute]_(Conv!vars)

-----------------------------------------------------------------------------
\* The quantities the code computes from the dimensions.
LEMMA Quantities ==
  ASSUME layer \in Layers
  PROVE  /\ {layer.n, layer.c, layer.ih, layer.iw, layer.kh, layer.kw,
             layer.oh, layer.ow, layer.oc, layer.sx, layer.sy} \subseteq Nat \ {0}
         /\ {layer.px, layer.py, layer.qx, layer.qy} \subseteq Nat
         /\ InputSize \in Nat \ {0} /\ FilterSize \in Nat \ {0} /\ ImageSize \in Nat \ {0}
         /\ FilterSize * layer.oc \in Nat \ {0}
         /\ ColBufSize = InputSize * (FilterSize * layer.oc) /\ ColBufSize \in Nat
         /\ ColX \in Nat \ {0} /\ ColY \in Nat \ {0}
<1>1. /\ {layer.n, layer.c, layer.ih, layer.iw, layer.kh, layer.kw,
          layer.oh, layer.ow, layer.oc, layer.sx, layer.sy} \subseteq Nat \ {0}
      /\ {layer.px, layer.py, layer.qx, layer.qy} \subseteq Nat
      /\ layer.oh + layer.qy + layer.py >= layer.kh
      /\ layer.ow + layer.qx + layer.px >= layer.kw
  BY TcLayersAssumption
<1>2. ASSUME NEW a \in Nat \ {0}, NEW b \in Nat \ {0} PROVE a * b \in Nat \ {0}
  OBVIOUS
<1>3. InputSize \in Nat \ {0} /\ FilterSize \in Nat \ {0} /\ layer.oh * layer.ow \in Nat \ {0}
  BY <1>1, <1>2 DEF InputSize, FilterSize
<1>4. ImageSize \in Nat \ {0} /\ FilterSize * layer.oc \in Nat \ {0}
  BY <1>1, <1>2, <1>3 DEF ImageSize
<1>5. ColBufSize = InputSize * (FilterSize * layer.oc) /\ ColBufSize \in Nat
  BY <1>1, <1>3 DEF ColBufSize
<1>6. ASSUME NEW a \in Nat, NEW b \in Nat \ {0} PROVE (a \div b) + 1 \in Nat \ {0}
  <2>1. (a \div b) \in Nat OBVIOUS
  <2> QED BY <2>1
<1>7. ColX \in Nat \ {0}
  <2>1. layer.ow + layer.qx + layer.px - layer.kw \in Nat BY <1>1
  <2> QED BY <2>1, <1>1, <1>6 DEF ColX
<1>8. ColY \in Nat \ {0}
  <2>1. layer.oh + layer.qy + layer.py - layer.kh \in Nat BY <1>1
  <2> QED BY <2>1, <1>1, <1>6 DEF ColY
<1> QED BY <1>1, <1>3, <1>4, <1>5, <1>7, <1>8

\* There are no more columns than input pixels, in either direction.
LEMMA ColumnCounts ==
  ASSUME layer \in Layers, FittingLayers
  PROVE  ColX <= layer.iw /\ ColY <= layer.ih
<1>1. /\ {layer.ih, layer.iw, layer.kh, layer.kw, layer.oh, layer.ow, layer.sx, layer.sy}
           \subseteq Nat \ {0}
      /\ {layer.px, layer.py, layer.qx, layer.qy} \subseteq Nat
      /\ layer.oh + layer.qy + layer.py >= layer.kh
      /\ layer.ow + layer.qx + layer.px >= layer.kw
  BY TcLayersAssumption
<1>2. ColX <= layer.iw
  <2>1. layer.ow + layer.qx + layer.px < layer.iw * layer.sx + layer.kw BY DEF FittingLayers
  <2>2. layer.iw * layer.sx \in Int BY <1>1
  <2>3. /\ layer.ow + layer.qx + layer.px - layer.kw \in Nat
        /\ layer.ow + layer.qx + layer.px - layer.kw < layer.iw * layer.sx
    BY <1>1, <2>1, <2>2
  <2> QED BY <1>1, <2>3, QuotientBelow DEF ColX
<1>3. ColY <= layer.ih
  <2>1. layer.oh + layer.qy + layer.py < layer.ih * layer.sy + layer.kh BY DEF FittingLayers
  <2>2. layer.ih * layer.sy \in Int BY <1>1
  <2>3. /\ layer.oh + layer.qy + layer.py - layer.kh \in Nat
        /\ layer.oh + layer.qy + layer.py - layer.kh < layer.ih * layer.sy
    BY <1>1, <2>1, <2>2
  <2> QED BY <1>1, <2>3, QuotientBelow DEF ColY
<1> QED BY <1>2, <1>3

\* The columns passed over are in the buffer.
LEMMA ColumnInside ==
  ASSUME Positions, FittingLayers, i_col_y < ColY
  PROVE  col_buf \in Nat /\ col_buf + FilterSize * layer.oc <= ColBufSize
<1> DEFINE size == FilterSize * layer.oc
           col == i_col_y * ColX + i_col_x
<1>1. /\ layer.ih \in Nat \ {0} /\ layer.iw \in Nat \ {0}
      /\ ColX \in Nat \ {0} /\ ColY \in Nat \ {0}
      /\ size \in Nat \ {0} /\ ColBufSize = InputSize * size /\ InputSize \in Nat
  BY Quantities DEF Positions
<1>2. ColX <= layer.iw /\ ColY <= layer.ih BY ColumnCounts DEF Positions
<1>3. i_col_y \in 0 .. ColY - 1 /\ i_col_x \in 0 .. ColX - 1 BY <1>1 DEF Positions
<1>4. col \in 0 .. ColY * ColX - 1 BY <1>1, <1>3, RowMajorBound
<1>5. ColY * ColX <= layer.ih * ColX BY <1>1, <1>2, Monotone
<1>6. layer.ih * ColX <= InputSize
  <2>1. ColX * layer.ih <= layer.iw * layer.ih BY <1>1, <1>2, Monotone
  <2> QED BY <1>1, <2>1 DEF InputSize
<1>7. col + 1 \in Nat /\ col + 1 <= InputSize /\ col \in Nat
  <2> HIDE DEF col
  <2>1. ColY * ColX \in Int /\ layer.ih * ColX \in Int BY <1>1
  <2> QED BY <1>1, <1>4, <1>5, <1>6, <2>1
<1>8. col_buf = col * size BY DEF Positions
<1> HIDE DEF col, size
<1>9. (col + 1) * size <= InputSize * size BY <1>1, <1>7, Monotone
<1>10. (col + 1) * size = col * size + size /\ col * size \in Nat BY <1>1, <1>7
<1> QED BY <1>1, <1>8, <1>9, <1>10 DEF size

\* The operations on sums.
LEMMA SumTypes ==
  /\ \A start \in Int : Sum(start) \in Sums
  /\ \A acc, other \in Sums : Plus(acc, other) \in Sums
BY DEF Sum, Plus, Sums

\* A turn of the product takes one or two input channels, the next ones.
LEMMA ChannelsAre ==
  ASSUME Positions, NEW taken, taken = Cardinality(InChannels)
  PROVE  /\ taken \in Nat \ {0} /\ in_ch \in Nat /\ in_ch + taken <= layer.c
         /\ InChannels = in_ch .. in_ch + taken - 1
<1>1. layer.c \in Nat \ {0} /\ in_ch \in 0 .. layer.c - 1 BY Quantities DEF Positions
<1>2. Cardinality({in_ch}) = 1 BY FS_Singleton
<1>3. Cardinality({in_ch, in_ch + 1}) = 2
  <2>1. IsFiniteSet({in_ch}) BY FS_Singleton
  <2>2. in_ch + 1 \notin {in_ch} BY <1>1
  <2>3. Cardinality({in_ch} \cup {in_ch + 1}) = Cardinality({in_ch}) + 1
    BY <2>1, <2>2, FS_AddElement
  <2>4. {in_ch} \cup {in_ch + 1} = {in_ch, in_ch + 1} OBVIOUS
  <2> QED BY <1>2, <2>3, <2>4
<1>4. CASE in_ch <= layer.c - 2
  <2>1. InChannels = {in_ch, in_ch + 1} BY <1>4 DEF InChannels
  <2>2. taken = 2 BY <1>3, <2>1
  <2>3. {in_ch, in_ch + 1} = in_ch .. in_ch + 2 - 1 BY <1>1
  <2>4. InChannels = in_ch .. in_ch + taken - 1 BY <2>1, <2>2, <2>3
  <2> QED BY <1>1, <1>4, <2>2, <2>4
<1>5. CASE ~(in_ch <= layer.c - 2)
  <2>1. InChannels = {in_ch} BY <1>5 DEF InChannels
  <2>2. taken = 1 BY <1>2, <2>1
  <2>3. {in_ch} = in_ch .. in_ch + 1 - 1 BY <1>1
  <2>4. InChannels = in_ch .. in_ch + taken - 1 BY <2>1, <2>2, <2>3
  <2> QED BY <1>1, <1>5, <2>2, <2>4
<1> QED BY <1>4, <1>5

LEMMA ChannelsTaken ==
  ASSUME Positions
  PROVE  /\ InChannels \subseteq Nat
         /\ Cardinality(InChannels) \in Nat \ {0}
<1>1. PICK taken : taken = Cardinality(InChannels) OBVIOUS
<1>2. /\ taken \in Nat \ {0} /\ in_ch \in Nat
      /\ InChannels = in_ch .. in_ch + taken - 1
  BY <1>1, ChannelsAre
<1> QED BY <1>1, <1>2

-----------------------------------------------------------------------------
LEMMA InitInvariant == ASSUME Init PROVE IInv
<1>1. layer \in Layers BY DEF Init
<1>2. /\ layer.n \in Nat \ {0} /\ layer.c \in Nat \ {0} /\ layer.oc \in Nat \ {0}
      /\ InputSize \in Nat /\ ImageSize \in Nat
      /\ FilterSize * layer.oc \in Nat /\ ColX \in Nat \ {0} /\ ColY \in Nat \ {0}
  BY <1>1, Quantities
<1>3. in_base = i_batch * InputSize * layer.c /\ out = i_batch * ImageSize
  BY <1>2 DEF Init
<1>4. col_buf = (i_col_y * ColX + i_col_x) * (FilterSize * layer.oc)
  BY <1>2 DEF Init
<1>5. Positions BY <1>1, <1>2, <1>3, <1>4 DEF Init, Positions
<1>6. Sum(Stale) \in Sums BY SumTypes DEF Stale
<1>7. Contents BY <1>6 DEF Init, Contents
<1> QED BY <1>5, <1>7 DEF IInv

LEMMA CallStep == ASSUME IInv, Call PROVE IInv'
<1>1. Positions' BY DEF IInv, Positions, Call, inputs, product, column,
        InputSize, FilterSize, ImageSize, ColX, ColY
<1>2. Contents' BY DEF IInv, Contents, Call, inputs, ColBufSize, FilterSize, InputSize, ImageSize
<1> QED BY <1>1, <1>2 DEF IInv

LEMMA ClearStep == ASSUME IInv, Clear PROVE IInv'
<1>1. layer \in Layers /\ layer' = layer BY DEF IInv, Positions, Clear, inputs
<1>2. /\ layer.oc \in Nat \ {0} /\ ColBufSize \in Nat /\ ImageSize \in Nat
  BY <1>1, Quantities
<1>3. Positions' BY <1>2 DEF IInv, Positions, Clear, inputs, product, column,
        InputSize, FilterSize, ImageSize, ColX, ColY
<1>4. \A i \in 0 .. ImageSize - 1 : Sum(IF layer.bias THEN i % layer.oc ELSE NoBias) \in Sums
  BY <1>2, SumTypes DEF NoBias
<1>5. Sum(NoBias) \in Sums BY SumTypes DEF NoBias
<1>6. img_buf' \in [0 .. ImageSize - 1 -> Sums] BY <1>4 DEF IInv, Contents, Clear
<1>7. col_data' \in [0 .. ColBufSize - 1 -> Sums] BY <1>5 DEF IInv, Contents, Clear
<1>8. Contents'
  BY <1>1, <1>6, <1>7 DEF IInv, Contents, Clear, ColBufSize, FilterSize, InputSize, ImageSize
<1> QED BY <1>3, <1>8 DEF IInv

\* A product of the current channel is an addition of products of the layer.
LEMMA TermTypes ==
  ASSUME Positions, NEW r \in Nat, NEW t \in Nat
  PROVE  Term(r, t) \in Sums
<1>1. /\ FilterSize \in Nat /\ layer.c \in Nat /\ InputSize \in Nat
      /\ i_output_ch \in Nat /\ i_batch \in Nat
  BY Quantities DEF Positions
<1>2. in_base \in Nat
  <2>1. i_batch * InputSize \in Nat BY <1>1
  <2> QED BY <1>1, <2>1 DEF Positions
<1>3. InChannels \subseteq Nat /\ Cardinality(InChannels) \in Nat BY ChannelsTaken
<1>4. ASSUME NEW k \in InChannels
      PROVE  <<(i_output_ch * FilterSize + t) * layer.c + k, in_base + r * layer.c + k>>
               \in Nat \X Nat
  <2>1. i_output_ch * FilterSize + t \in Nat BY <1>1
  <2>2. (i_output_ch * FilterSize + t) * layer.c \in Nat BY <1>1, <2>1
  <2>3. r * layer.c \in Nat /\ k \in Nat BY <1>1, <1>3
  <2> QED BY <1>2, <2>2, <2>3
<1> QED BY <1>3, <1>4 DEF Term, Sums, NoBias

LEMMA ProductStep == ASSUME IInv, Product PROVE IInv'
<1> USE DEF IInv
<1>1. layer \in Layers /\ layer' = layer BY DEF Positions, Product, inputs
<1>2. /\ layer.oc \in Nat \ {0} /\ FilterSize \in Nat \ {0} /\ layer.c \in Nat \ {0}
      /\ ColX \in Nat \ {0} /\ ColY \in Nat \ {0} /\ ColBufSize \in Nat
  BY <1>1, Quantities
<1>3. Cardinality(InChannels) \in Nat \ {0} BY ChannelsTaken
<1>4. in_ch \in Nat /\ i_output_ch \in Nat /\ pc = "product" /\ i_output_ch < layer.oc
  BY DEF Positions, Product
<1>5. /\ in_ch' \in 0 .. layer.c - 1
      /\ i_output_ch' \in 0 .. layer.oc
      /\ pc' \in {"product", "column"}
      /\ pc' = "product" => i_output_ch' < layer.oc
  BY <1>2, <1>3, <1>4 DEF Product
<1>6. Positions'
  BY <1>4, <1>5 DEF Positions, Product, inputs, column,
     InputSize, FilterSize, ImageSize, ColX, ColY
<1>7. col_data' \in [0 .. ColBufSize - 1 -> Sums]
  <2> SUFFICES ASSUME NEW i \in 0 .. ColBufSize - 1
               PROVE  (IF i % layer.oc = i_output_ch
                       THEN Plus(col_data[i], Term((i \div layer.oc) \div FilterSize,
                                                   (i \div layer.oc) % FilterSize))
                       ELSE col_data[i]) \in Sums
    BY DEF Contents, Product
  <2>1. (i \div layer.oc) \in Nat BY <1>2
  <2>2. ((i \div layer.oc) \div FilterSize) \in Nat /\ ((i \div layer.oc) % FilterSize) \in Nat
    BY <1>2, <2>1
  <2>3. Term((i \div layer.oc) \div FilterSize, (i \div layer.oc) % FilterSize) \in Sums
    BY <2>2, TermTypes
  <2>4. col_data[i] \in Sums BY DEF Contents
  <2> QED BY <2>3, <2>4, SumTypes
<1>8. Contents'
  BY <1>1, <1>7 DEF Contents, Product, ColBufSize, FilterSize, InputSize, ImageSize
<1> QED BY <1>6, <1>8

\* Columns are taken in order.
LEMMA NextColumn ==
  ASSUME IInv, Column
  PROVE  i_col_y' * ColX + i_col_x' = (i_col_y * ColX + i_col_x) + 1
<1>1. ColX \in Nat \ {0} /\ ColY \in Nat \ {0} BY Quantities DEF IInv, Positions
<1>2. i_col_y \in Nat /\ i_col_x \in 0 .. ColX - 1 BY <1>1 DEF IInv, Positions
<1>3. CASE i_col_x + 1 < ColX BY <1>1, <1>2, <1>3 DEF Column
<1>4. CASE ~(i_col_x + 1 < ColX)
  <2>1. i_col_x = ColX - 1 /\ i_col_y' = i_col_y + 1 /\ i_col_x' = 0
    BY <1>1, <1>2, <1>4 DEF Column
  <2>2. (i_col_y + 1) * ColX = i_col_y * ColX + ColX BY <1>1, <1>2
  <2>3. i_col_y * ColX \in Int BY <1>1, <1>2
  <2> QED BY <1>1, <2>1, <2>2, <2>3
<1> QED BY <1>3, <1>4

LEMMA ColumnStep == ASSUME IInv, FittingLayers, Column PROVE IInv'
<1> USE DEF IInv
<1>1. layer \in Layers /\ layer' = layer BY DEF Positions, Column, inputs
<1>2. /\ layer.oc \in Nat \ {0} /\ FilterSize \in Nat \ {0}
      /\ FilterSize * layer.oc \in Nat \ {0}
      /\ ColX \in Nat \ {0} /\ ColY \in Nat \ {0} /\ ColBufSize \in Nat
  BY <1>1, Quantities
<1>3. pc = "column" /\ i_col_y < ColY /\ i_col_y \in Nat /\ i_col_x \in 0 .. ColX - 1
  BY <1>2 DEF Positions, Column
<1>4. col_buf \in Nat /\ col_buf + FilterSize * layer.oc <= ColBufSize
  BY <1>3, ColumnInside
<1>5. /\ i_col_y' \in 0 .. ColY /\ i_col_x' \in 0 .. ColX - 1
      /\ i_col_y' = ColY => i_col_x' = 0
  BY <1>2, <1>3 DEF Column
<1>6. col_buf' = (i_col_y' * ColX + i_col_x') * (FilterSize * layer.oc)
  <2> DEFINE size == FilterSize * layer.oc
  <2>1. i_col_y' * ColX + i_col_x' = (i_col_y * ColX + i_col_x) + 1 BY NextColumn
  <2>2. col_buf' = (i_col_y * ColX + i_col_x) * size + size BY DEF Positions, Column
  <2>3. size \in Nat BY <1>2
  <2> HIDE DEF size
  <2>4. i_col_y * ColX + i_col_x \in Int BY <1>2, <1>3
  <2>5. ((i_col_y * ColX + i_col_x) + 1) * size = (i_col_y * ColX + i_col_x) * size + size
    BY <2>3, <2>4
  <2> QED BY <2>1, <2>2, <2>5 DEF size
<1>7. Positions'
  BY <1>1, <1>3, <1>5, <1>6 DEF Positions, Column, inputs, product,
     InputSize, FilterSize, ImageSize, ColX, ColY
<1>8. ASSUME NEW t \in 0 .. FilterSize - 1, NEW c \in 0 .. layer.oc - 1
      PROVE  col_data[col_buf + t * layer.oc + c] \in Sums
  <2>1. t * layer.oc + c \in 0 .. FilterSize * layer.oc - 1 BY <1>2, RowMajorBound
  <2>2. t * layer.oc \in Int BY <1>2
  <2>3. col_buf + t * layer.oc + c \in 0 .. ColBufSize - 1 BY <1>2, <1>4, <2>1, <2>2
  <2> QED BY <2>3 DEF Contents
<1>9. img_buf' \in [0 .. ImageSize - 1 -> Sums]
  <2>1. ASSUME NEW i \in 0 .. ImageSize - 1, NEW t \in 0 .. FilterSize - 1
        PROVE  Plus(img_buf[i], col_data[col_buf + t * layer.oc + (i % layer.oc)]) \in Sums
    <3>1. ImageSize \in Nat BY <1>1, Quantities
    <3>2. (i % layer.oc) \in 0 .. layer.oc - 1 BY <1>2, <3>1
    <3>3. col_data[col_buf + t * layer.oc + (i % layer.oc)] \in Sums BY <1>8, <3>2
    <3>4. img_buf[i] \in Sums BY DEF Contents
    <3> QED BY <3>3, <3>4, SumTypes
  <2> SUFFICES ASSUME NEW i \in 0 .. ImageSize - 1 PROVE img_buf'[i] \in Sums
    BY DEF Contents, Column
  <2> DEFINE x == (i \div layer.oc) % layer.ow
             y == (i \div layer.oc) \div layer.ow
             t == CHOOSE u \in Falling(y, x) : TRUE
  <2>2. img_buf'[i] = IF Falling(y, x) = {} THEN img_buf[i]
                      ELSE Plus(img_buf[i], col_data[col_buf + t * layer.oc + (i % layer.oc)])
    BY DEF Contents, Column
  <2>3. Falling(y, x) # {} => t \in 0 .. FilterSize - 1
    <3> HIDE DEF x, y
    <3>1. Falling(y, x) \subseteq 0 .. FilterSize - 1 BY DEF Falling
    <3>2. Falling(y, x) # {} => t \in Falling(y, x) OBVIOUS
    <3> QED BY <3>1, <3>2
  <2>4. img_buf[i] \in Sums BY DEF Contents
  <2> HIDE DEF x, y, t
  <2> QED BY <2>1, <2>2, <2>3, <2>4
<1>10. Contents'
  BY <1>1, <1>9 DEF Contents, Column, ColBufSize, FilterSize, InputSize, ImageSize
<1> QED BY <1>7, <1>10

LEMMA RequantizeStep == ASSUME IInv, Requantize PROVE IInv'
<1> USE DEF IInv
<1>1. layer \in Layers /\ layer' = layer BY DEF Positions, Requantize, inputs
<1>2. /\ layer.n \in Nat /\ layer.c \in Nat /\ layer.oc \in Nat
      /\ InputSize \in Nat /\ ImageSize \in Nat
      /\ FilterSize * layer.oc \in Nat /\ ColX \in Nat \ {0} /\ ColY \in Nat \ {0}
  BY <1>1, Quantities
<1>3. pc = "column" /\ i_col_y = ColY /\ i_col_x = 0 /\ i_batch \in Nat /\ i_batch < layer.n
  BY <1>2 DEF Positions, Requantize
<1>4. i_batch' = i_batch + 1 /\ i_batch' \in 0 .. layer.n BY <1>2, <1>3 DEF Requantize
<1>5. out' = i_batch' * ImageSize
  <2>1. (i_batch + 1) * ImageSize = i_batch * ImageSize + ImageSize BY <1>2, <1>3
  <2> QED BY <1>4, <2>1 DEF Positions, Requantize
<1>6. in_base' = i_batch' * InputSize * layer.c
  <2>1. in_base' = i_batch * InputSize * layer.c + InputSize * layer.c
    BY DEF Positions, Requantize, ImageStep
  <2>2. (i_batch + 1) * InputSize = i_batch * InputSize + InputSize
        /\ i_batch * InputSize \in Nat
    BY <1>2, <1>3
  <2> DEFINE a == i_batch * InputSize
  <2>3. a \in Nat BY <2>2
  <2> HIDE DEF a
  <2>4. (a + InputSize) * layer.c = a * layer.c + InputSize * layer.c BY <1>2, <2>3
  <2> QED BY <1>4, <2>1, <2>2, <2>4 DEF a
<1>7. /\ i_output_ch' = 0 /\ in_ch' = in_ch
      /\ i_col_y' = 0 /\ col_buf' = 0 /\ i_col_x' = 0
      /\ pc' = IF i_batch' < layer.n THEN "clear" ELSE "return"
  BY <1>3, <1>4 DEF Requantize
<1>8. col_buf' = (i_col_y' * ColX + i_col_x') * (FilterSize * layer.oc) BY <1>2, <1>7
<1>9. Positions'
  BY <1>1, <1>2, <1>4, <1>5, <1>6, <1>7, <1>8 DEF Positions, Requantize, inputs,
     InputSize, FilterSize, ImageSize, ColX, ColY
<1>10. Contents'
  BY <1>1 DEF Contents, Requantize, ColBufSize, FilterSize, InputSize, ImageSize
<1> QED BY <1>9, <1>10

LEMMA StutterStep == ASSUME IInv, UNCHANGED vars PROVE IInv'
<1>1. Positions' BY DEF IInv, Positions, vars, inputs, product, column,
        InputSize, FilterSize, ImageSize, ColX, ColY
<1>2. Contents' BY DEF IInv, Contents, vars, inputs, ColBufSize, FilterSize, InputSize, ImageSize
<1> QED BY <1>1, <1>2 DEF IInv

LEMMA Invariance == ASSUME FittingLayers PROVE Spec => []IInv
<1>1. Init => IInv BY InitInvariant
<1>2. IInv /\ [Next]_vars => IInv'
  BY CallStep, ClearStep, ProductStep, ColumnStep, RequantizeStep, StutterStep DEF Next
<1> QED BY <1>1, <1>2, PTL DEF Spec

-----------------------------------------------------------------------------
\* For all layers whose padding belongs to their output, every pointer and
\* counter stays in its tensor or buffer, and both buffers hold sums.
THEOREM TypeCorrect == ASSUME FittingLayers PROVE Spec => []TypeOK
<1>1. IInv => TypeOK
  <2> SUFFICES ASSUME IInv PROVE TypeOK
    OBVIOUS
  <2>1. col_buf = (i_col_y * ColX + i_col_x) * FilterSize * layer.oc
    <3>1. ASSUME NEW a \in Nat, NEW b \in Nat, NEW c \in Nat PROVE a * (b * c) = a * b * c
      OBVIOUS
    <3>2. FilterSize \in Nat /\ layer.oc \in Nat /\ ColX \in Nat /\ ColY \in Nat
      BY Quantities DEF IInv, Positions
    <3>3. i_col_y * ColX + i_col_x \in Nat BY <3>2 DEF IInv, Positions
    <3> QED BY <3>1, <3>2, <3>3 DEF IInv, Positions
  <2> QED BY <2>1 DEF IInv, Positions, Contents, TypeOK
<1> QED BY <1>1, Invariance, PTL

\* For all layers whose padding belongs to their output, the column to image
\* step reads only columns the matrix product has computed.
THEOREM ColumnsInBuffer == ASSUME FittingLayers PROVE Spec => []ColumnsFit
<1>1. IInv => ColumnsFit BY ColumnInside DEF IInv, ColumnsFit
<1> QED BY <1>1, Invariance, PTL

-----------------------------------------------------------------------------
LEMMA FixedSizes ==
  ASSUME layer' = layer
  PROVE  /\ InputSize' = InputSize /\ FilterSize' = FilterSize /\ ImageSize' = ImageSize
         /\ ColBufSize' = ColBufSize /\ ColX' = ColX /\ ColY' = ColY
BY DEF InputSize, FilterSize, ImageSize, ColBufSize, ColX, ColY

LEMMA Frozen ==
  ASSUME layer' = layer, NEW b, NEW n, b = i_batch', n = Added'
  PROVE  \A ch, y, x : Fallen(i_batch, ch, y, x, Added)' = Fallen(b, ch, y, x, n)
<1> SUFFICES ASSUME NEW ch, NEW y, NEW x 
    PROVE  Fallen(i_batch, ch, y, x, Added)' = Fallen(b, ch, y, x, n)
  OBVIOUS
<1> HIDE DEF FilterSize
<1> QED BY FixedSizes DEF Fallen, Terms, Pair, Falls

\* There is a column for every input pixel.
LEMMA ColumnsAre ==
  ASSUME layer \in Layers, CoveringLayers
  PROVE  ColX = layer.iw /\ ColY = layer.ih
<1>1. /\ {layer.ih, layer.iw, layer.kh, layer.kw, layer.oh, layer.ow, layer.sx, layer.sy}
           \subseteq Nat \ {0}
      /\ {layer.px, layer.py, layer.qx, layer.qy} \subseteq Nat
      /\ layer.oh + layer.qy + layer.py >= layer.kh
      /\ layer.ow + layer.qx + layer.px >= layer.kw
  BY TcLayersAssumption
<1>2. ColX <= layer.iw /\ ColY <= layer.ih BY ColumnCounts DEF CoveringLayers
<1>3. /\ (layer.iw - 1) * layer.sx + layer.kw <= layer.ow + layer.qx + layer.px
      /\ (layer.ih - 1) * layer.sy + layer.kh <= layer.oh + layer.qy + layer.py
  BY DEF CoveringLayers
<1>4. layer.iw <= ColX
  <2>1. PICK m \in Nat, a \in Nat, s \in Nat \ {0} :
          m = layer.iw - 1 /\ a = layer.ow + layer.qx + layer.px - layer.kw /\ s = layer.sx
    BY <1>1
  <2>2. m * s \in Int /\ m * s + layer.kw <= layer.ow + layer.qx + layer.px BY <1>3, <2>1
  <2>3. m * s <= a BY <1>1, <2>1, <2>2
  <2>4. m <= (a \div s) BY <2>3, QuotientAbove
  <2>5. (a \div s) \in Int OBVIOUS
  <2>6. ColX = (a \div s) + 1 BY <2>1 DEF ColX
  <2> QED BY <1>1, <2>1, <2>4, <2>5, <2>6
<1>5. layer.ih <= ColY
  <2>1. PICK m \in Nat, a \in Nat, s \in Nat \ {0} :
          m = layer.ih - 1 /\ a = layer.oh + layer.qy + layer.py - layer.kh /\ s = layer.sy
    BY <1>1
  <2>2. m * s \in Int /\ m * s + layer.kh <= layer.oh + layer.qy + layer.py BY <1>3, <2>1
  <2>3. m * s <= a BY <1>1, <2>1, <2>2
  <2>4. m <= (a \div s) BY <2>3, QuotientAbove
  <2>5. (a \div s) \in Int OBVIOUS
  <2>6. ColY = (a \div s) + 1 BY <2>1 DEF ColY
  <2> QED BY <1>1, <2>1, <2>4, <2>5, <2>6
<1>6. ColX \in Int /\ ColY \in Int BY Quantities
<1> QED BY <1>1, <1>2, <1>4, <1>5, <1>6

\* A sum of the column buffer, and the channel, kernel element and column it is of.
LEMMA CellIs ==
  ASSUME layer \in Layers,
         NEW r \in 0 .. InputSize - 1, NEW t \in 0 .. FilterSize - 1, NEW ch \in 0 .. layer.oc - 1,
         NEW i, i = (r * FilterSize + t) * layer.oc + ch
  PROVE  /\ i \in 0 .. ColBufSize - 1
         /\ i % layer.oc = ch
         /\ ((i \div layer.oc) \div FilterSize) = r /\ ((i \div layer.oc) % FilterSize) = t
<1>1. PICK m \in Nat \ {0}, n \in Nat \ {0}, f \in Nat \ {0} :
        m = layer.oc /\ n = InputSize /\ f = FilterSize
  BY Quantities
<1>2. r * f + t \in 0 .. n * f - 1 /\ n * f \in Nat BY <1>1, RowMajorBound
<1>3. PICK cells \in Nat, cell \in Nat :
        cells = n * f /\ cell = r * f + t /\ cell \in 0 .. cells - 1
  BY <1>2
<1>4. i = cell * m + ch /\ ch \in 0 .. m - 1 BY <1>1, <1>3
<1>5. i \in 0 .. cells * m - 1 BY <1>3, <1>4, RowMajorBound
<1>6. cells * m = ColBufSize
  <2>1. n * (f * m) = (n * f) * m OBVIOUS
  <2> QED BY <1>1, <1>3, <2>1, Quantities
<1>7. cell \in Int BY <1>3
<1>8. i % m = ch /\ (i \div m) = cell BY <1>4, <1>7, Euclid
<1>9. t \in 0 .. f - 1 /\ r \in Int BY <1>1
<1>10. (cell \div f) = r /\ (cell % f) = t BY <1>3, <1>9, Euclid
<1> QED BY <1>1, <1>5, <1>6, <1>8, <1>10

\* An element of the image, and the channel and pixel it is of.
LEMMA PixelIs ==
  ASSUME layer \in Layers,
         NEW y \in 0 .. layer.oh - 1, NEW x \in 0 .. layer.ow - 1, NEW ch \in 0 .. layer.oc - 1,
         NEW i, i = (y * layer.ow + x) * layer.oc + ch
  PROVE  /\ i \in 0 .. ImageSize - 1
         /\ i % layer.oc = ch
         /\ ((i \div layer.oc) \div layer.ow) = y /\ ((i \div layer.oc) % layer.ow) = x
<1>1. PICK m \in Nat \ {0}, n \in Nat \ {0}, f \in Nat \ {0} :
        m = layer.oc /\ n = layer.oh /\ f = layer.ow
  BY Quantities
<1>2. y * f + x \in 0 .. n * f - 1 /\ n * f \in Nat BY <1>1, RowMajorBound
<1>3. PICK cells \in Nat, cell \in Nat :
        cells = n * f /\ cell = y * f + x /\ cell \in 0 .. cells - 1
  BY <1>2
<1>4. i = cell * m + ch /\ ch \in 0 .. m - 1 BY <1>1, <1>3
<1>5. i \in 0 .. cells * m - 1 BY <1>3, <1>4, RowMajorBound
<1>6. cells * m = ImageSize BY <1>1, <1>3 DEF ImageSize
<1>7. cell \in Int BY <1>3
<1>8. i % m = ch /\ (i \div m) = cell BY <1>4, <1>7, Euclid
<1>9. x \in 0 .. f - 1 /\ y \in Int BY <1>1
<1>10. (cell \div f) = y /\ (cell % f) = x BY <1>3, <1>9, Euclid
<1> QED BY <1>1, <1>5, <1>6, <1>8, <1>10

\* There are n first products of a kernel element.
LEMMA TermsCount ==
  ASSUME layer \in Layers, NEW b \in Nat, NEW ch \in Nat, NEW r \in Nat, NEW t \in Nat,
         NEW n \in Nat, n <= layer.c
  PROVE  IsFiniteSet(Terms(b, ch, r, t, n)) /\ Cardinality(Terms(b, ch, r, t, n)) = n
<1>1. layer.c \in Nat \ {0} /\ InputSize \in Nat BY Quantities
<1> DEFINE f == [k \in 0 .. n - 1 |-> Pair(b, ch, r, t, k)]
           T == Terms(b, ch, r, t, n)
<1>2. f \in [0 .. n - 1 -> T] BY DEF Terms
<1>3. \A p \in T : \E k \in 0 .. n - 1 : f[k] = p BY DEF Terms
<1>4. ASSUME NEW j \in 0 .. n - 1, NEW k \in 0 .. n - 1, f[j] = f[k] PROVE j = k
  <2>1. PICK m \in Nat \ {0}, q \in Nat : m = layer.c /\ q = b * InputSize + r
    <3>1. b * InputSize \in Nat BY <1>1
    <3> QED BY <1>1, <3>1
  <2>2. f[j] = Pair(b, ch, r, t, j) /\ f[k] = Pair(b, ch, r, t, k) OBVIOUS
  <2>3. q * m + j = q * m + k BY <1>4, <2>1, <2>2 DEF Pair
  <2>4. j \in 0 .. m - 1 /\ k \in 0 .. m - 1 BY <2>1
  <2> HIDE DEF f
  <2> QED BY <2>3, <2>4, RowMajorUnique
<1> HIDE DEF f, T
<1>5. f \in Surjection(0 .. n - 1, T) BY <1>2, <1>3 DEF Surjection
<1>6. f \in Injection(0 .. n - 1, T) BY <1>2, <1>4 DEF Injection, IsInjective
<1>7. IsFiniteSet(0 .. n - 1) /\ Cardinality(0 .. n - 1) = n
  <2>1. 0 \in Int /\ n - 1 \in Int OBVIOUS
  <2>2. /\ IsFiniteSet(0 .. n - 1)
        /\ Cardinality(0 .. n - 1) = IF 0 > n - 1 THEN 0 ELSE (n - 1) - 0 + 1
    BY <2>1, FS_Interval
  <2> QED BY <2>2
<1>8. IsFiniteSet(T) /\ Cardinality(T) = Cardinality(0 .. n - 1)
  BY <1>5, <1>6, <1>7, FS_Surjection
<1> QED BY <1>7, <1>8 DEF T

LEMMA AllTerms ==
  ASSUME layer \in Layers, NEW b \in Nat, NEW ch \in Nat, NEW r \in Nat, NEW t \in Nat
  PROVE  /\ IsFiniteSet(Terms(b, ch, r, t, layer.c))
         /\ Cardinality(Terms(b, ch, r, t, layer.c)) = layer.c
<1>1. PICK m \in Nat : m = layer.c BY Quantities
<1>2. m <= layer.c BY <1>1
<1>3. IsFiniteSet(Terms(b, ch, r, t, m)) /\ Cardinality(Terms(b, ch, r, t, m)) = m
  BY <1>2, TermsCount
<1> QED BY <1>1, <1>3

\* What a turn adds to the sum of its channel: the next products.
LEMMA TermAdds ==
  ASSUME Positions, NEW r \in Nat, NEW t \in Nat,
         NEW b, b = i_batch, NEW ch, ch = i_output_ch,
         NEW n, n = in_ch, NEW taken, taken = Cardinality(InChannels)
  PROVE  Plus([start |-> NoBias, sum |-> Terms(b, ch, r, t, n), adds |-> n], Term(r, t))
           = [start |-> NoBias, sum |-> Terms(b, ch, r, t, n + taken), adds |-> n + taken]
<1>1. /\ InputSize \in Nat /\ layer.c \in Nat /\ b \in Nat /\ n \in Nat /\ taken \in Nat
      /\ InChannels = n .. n + taken - 1
  <2>1. InputSize \in Nat /\ layer.c \in Nat /\ layer.n \in Nat BY Quantities DEF Positions
  <2>2. b \in Nat BY <2>1 DEF Positions
  <2>3. taken \in Nat \ {0} /\ in_ch \in Nat /\ InChannels = in_ch .. in_ch + taken - 1
    BY ChannelsAre
  <2> QED BY <2>1, <2>2, <2>3
<1>2. in_base + r * layer.c = (b * InputSize + r) * layer.c
  <2>1. b * InputSize \in Nat BY <1>1
  <2>2. PICK q \in Nat, c \in Nat : q = b * InputSize /\ c = layer.c BY <1>1, <2>1
  <2>3. (q + r) * c = q * c + r * c OBVIOUS
  <2> QED BY <2>2, <2>3 DEF Positions
<1>3. Term(r, t).sum = {Pair(b, ch, r, t, k) : k \in n .. n + taken - 1}
  BY <1>1, <1>2 DEF Term, Pair
<1>4. Terms(b, ch, r, t, n + taken)
        = Terms(b, ch, r, t, n) \cup {Pair(b, ch, r, t, k) : k \in n .. n + taken - 1}
  <2>1. 0 .. (n + taken) - 1 = (0 .. n - 1) \cup (n .. n + taken - 1) BY <1>1
  <2>2. PICK all, first, next :
          all = 0 .. (n + taken) - 1 /\ first = 0 .. n - 1 /\ next = n .. n + taken - 1
    OBVIOUS
  <2>3. all = first \cup next BY <2>1, <2>2
  <2>4. {Pair(b, ch, r, t, k) : k \in all}
          = {Pair(b, ch, r, t, k) : k \in first} \cup {Pair(b, ch, r, t, k) : k \in next}
    BY <2>3
  <2> QED BY <2>2, <2>4 DEF Terms
<1>5. Term(r, t).start = NoBias /\ Term(r, t).adds = taken BY DEF Term
<1> QED BY <1>3, <1>4, <1>5 DEF Plus

-----------------------------------------------------------------------------
(***************************************************************************)
(* The steps and the convolution.                                          *)
(***************************************************************************)

\* The two buffers after a step that has left the layer alone.
LEMMA ColumnsAfter ==
  ASSUME layer' = layer, NEW b, b = i_batch',
         \A r \in 0 .. InputSize - 1, t \in 0 .. FilterSize - 1, ch \in 0 .. layer.oc - 1 :
           \E n : /\ n = Done(ch)'
                  /\ col_data'[(r * FilterSize + t) * layer.oc + ch]
                       = [start |-> NoBias, sum |-> Terms(b, ch, r, t, n), adds |-> n]
  PROVE  ColumnInv'
<1> SUFFICES ASSUME NEW r \in 0 .. InputSize - 1, NEW t \in 0 .. FilterSize - 1,
                    NEW ch \in 0 .. layer.oc - 1
             PROVE  col_data'[(r * FilterSize + t) * layer.oc + ch]
                      = [start |-> NoBias, sum |-> Terms(i_batch, ch, r, t, Done(ch))',
                         adds |-> Done(ch)']
  BY FixedSizes DEF ColumnInv
<1>1. PICK n : /\ n = Done(ch)'
               /\ col_data'[(r * FilterSize + t) * layer.oc + ch]
                    = [start |-> NoBias, sum |-> Terms(b, ch, r, t, n), adds |-> n]
  OBVIOUS
<1>2. Terms(i_batch, ch, r, t, Done(ch))' = Terms(b, ch, r, t, n)
  BY <1>1, FixedSizes DEF Terms, Pair
<1> QED BY <1>1, <1>2

LEMMA ImageAfter ==
  ASSUME layer' = layer, NEW b, b = i_batch', NEW n, n = Added',
         \A y \in 0 .. layer.oh - 1, x \in 0 .. layer.ow - 1, ch \in 0 .. layer.oc - 1 :
           /\ IsFiniteSet(Fallen(b, ch, y, x, n))
           /\ img_buf'[(y * layer.ow + x) * layer.oc + ch]
                = [start |-> IF layer.bias THEN ch ELSE NoBias, sum |-> Fallen(b, ch, y, x, n),
                   adds |-> Cardinality(Fallen(b, ch, y, x, n))]
  PROVE  ImageInv'
<1> SUFFICES ASSUME NEW y \in 0 .. layer.oh - 1, NEW x \in 0 .. layer.ow - 1,
                    NEW ch \in 0 .. layer.oc - 1
             PROVE  /\ IsFiniteSet(Fallen(i_batch, ch, y, x, Added)')
                    /\ img_buf'[(y * layer.ow + x) * layer.oc + ch]
                         = [start |-> IF layer.bias THEN ch ELSE NoBias,
                            sum |-> Fallen(i_batch, ch, y, x, Added)',
                            adds |-> Cardinality(Fallen(i_batch, ch, y, x, Added)')]
  BY DEF ImageInv
<1>1. Fallen(i_batch, ch, y, x, Added)' = Fallen(b, ch, y, x, n) BY Frozen
<1> QED BY <1>1

\* A step that writes no output is a stutter of the convolution.
LEMMA Quiet ==
  ASSUME layer' = layer, output_data' = output_data
  PROVE  StepRefines
BY DEF StepRefines, Conv!vars

\* The convolution depends on the layer alone.
LEMMA FixedValues ==
  ASSUME layer' = layer
  PROVE  /\ Conv!Outputs' = Conv!Outputs
         /\ \A o : Index(o)' = Index(o) /\ Conv!Value(o)' = Conv!Value(o)
<1>1. Conv!Outputs' = Conv!Outputs BY DEF Conv!Outputs
<1>2. ASSUME NEW o PROVE Conv!Products(o)' = Conv!Products(o)
  BY DEF Conv!Products, Conv!Spreads, Conv!FallsOn
<1>3. ASSUME NEW o PROVE Conv!Value(o)' = Conv!Value(o)
  <2>1. PICK products : products = Conv!Products(o) OBVIOUS
  <2>2. Conv!Products(o)' = products BY <1>2, <2>1
  <2> QED BY <2>1, <2>2 DEF Conv!Value, Conv!Cardinality
<1>4. ASSUME NEW o PROVE Index(o)' = Index(o) BY DEF Index
<1> QED BY <1>1, <1>3, <1>4

LEMMA QuietOutput ==
  ASSUME OutputFresh, OutputDone, layer' = layer, out' = out, output_data' = output_data
  PROVE  OutputFresh' /\ OutputDone'
<1>1. OutputFresh' BY FixedSizes DEF OutputFresh
<1>2. OutputDone' BY FixedValues DEF OutputDone
<1> QED BY <1>1, <1>2

LEMMA CallRefines == ASSUME RInv, Call PROVE RInv' /\ StepRefines
<1>1. IInv' BY CallStep DEF RInv
<1>2. /\ layer' = layer /\ out' = out /\ output_data' = output_data
      /\ pc = "call" /\ pc' \in {"clear", "refused"}
      /\ UNCHANGED <<product, column>>
  BY DEF Call, inputs
<1>3. StepRefines /\ OutputFresh' /\ OutputDone' BY <1>2, Quiet, QuietOutput DEF RInv
<1>4. Phases' BY <1>2 DEF RInv, Phases, product, column
<1>5. ColumnInv' /\ ImageInv' BY <1>2 DEF ColumnInv, ImageInv
<1> QED BY <1>1, <1>3, <1>4, <1>5 DEF RInv

\* No products and no columns are nothing.
LEMMA Nothing ==
  /\ \A b, ch, r, t : Terms(b, ch, r, t, 0) = {}
  /\ \A b, ch, y, x : Fallen(b, ch, y, x, 0) = {}
<1>1. 0 .. 0 - 1 = {} OBVIOUS
<1> QED BY <1>1 DEF Terms, Fallen

LEMMA ClearRefines == ASSUME RInv, Clear PROVE RInv' /\ StepRefines
<1>1. IInv' BY ClearStep DEF RInv
<1>2. /\ layer \in Layers /\ layer' = layer /\ out' = out /\ output_data' = output_data
      /\ pc = "clear" /\ pc' = "product" /\ i_batch' = i_batch
      /\ UNCHANGED <<product, column>>
  BY DEF Clear, inputs, RInv, IInv, Positions
<1>3. StepRefines /\ OutputFresh' /\ OutputDone' BY <1>2, Quiet, QuietOutput DEF RInv
<1>4. Phases' BY <1>2 DEF RInv, Phases, product, column
<1>5. i_output_ch' = 0 /\ in_ch' = 0 /\ i_col_y' = 0 /\ i_col_x' = 0
  BY <1>2 DEF RInv, IInv, Positions, Phases, product, column
<1>6. PICK b : b = i_batch' OBVIOUS
<1>7. ColumnInv'
  <2>1. ASSUME NEW r \in 0 .. InputSize - 1, NEW t \in 0 .. FilterSize - 1,
               NEW ch \in 0 .. layer.oc - 1
        PROVE  /\ Done(ch)' = 0
               /\ col_data'[(r * FilterSize + t) * layer.oc + ch]
                    = [start |-> NoBias, sum |-> Terms(b, ch, r, t, 0), adds |-> 0]
    <3>1. Done(ch)' = 0 BY <1>5, Quantities DEF Done
    <3>2. PICK i : i = (r * FilterSize + t) * layer.oc + ch OBVIOUS
    <3>3. i \in 0 .. ColBufSize - 1 BY <1>2, <3>2, CellIs
    <3>4. col_data'[i] = Sum(NoBias) BY <3>3 DEF Clear, RInv, IInv, Contents
    <3> QED BY <3>1, <3>2, <3>4, Nothing DEF Sum
  <2> QED BY <1>2, <1>6, <2>1, ColumnsAfter
<1>8. ImageInv'
  <2>1. Added' = 0
    <3>1. ColX \in Nat BY <1>2, Quantities
    <3>2. Added' = 0 * ColX + 0 BY <1>2, <1>5, FixedSizes DEF Added
    <3> QED BY <3>1, <3>2
  <2>2. ASSUME NEW y \in 0 .. layer.oh - 1, NEW x \in 0 .. layer.ow - 1,
               NEW ch \in 0 .. layer.oc - 1
        PROVE  /\ IsFiniteSet(Fallen(b, ch, y, x, 0))
               /\ img_buf'[(y * layer.ow + x) * layer.oc + ch]
                    = [start |-> IF layer.bias THEN ch ELSE NoBias,
                       sum |-> Fallen(b, ch, y, x, 0),
                       adds |-> Cardinality(Fallen(b, ch, y, x, 0))]
    <3>1. PICK i : i = (y * layer.ow + x) * layer.oc + ch OBVIOUS
    <3>2. i \in 0 .. ImageSize - 1 /\ i % layer.oc = ch BY <1>2, <3>1, PixelIs
    <3>3. img_buf'[i] = Sum(IF layer.bias THEN ch ELSE NoBias)
      BY <3>2 DEF Clear, RInv, IInv, Contents
    <3>4. IsFiniteSet({}) /\ Cardinality({}) = 0 BY FS_EmptySet
    <3> QED BY <3>1, <3>3, <3>4, Nothing DEF Sum
  <2> QED BY <1>2, <1>6, <2>1, <2>2, ImageAfter
<1> QED BY <1>1, <1>3, <1>4, <1>7, <1>8 DEF RInv

\* The channel of the turn is further by what it took, the others are where they were.
LEMMA DoneNext ==
  ASSUME RInv, Product, NEW ch \in 0 .. layer.oc - 1,
         NEW taken, taken = Cardinality(InChannels)
  PROVE  Done(ch)' = IF ch = i_output_ch THEN in_ch + taken ELSE Done(ch)
<1>1. /\ layer.oc \in Nat /\ i_output_ch \in Nat /\ layer' = layer
      /\ taken \in Nat \ {0} /\ in_ch \in Nat /\ in_ch + taken <= layer.c
  <2>1. layer.oc \in Nat /\ i_output_ch \in Nat BY Quantities DEF RInv, IInv, Positions
  <2>2. taken \in Nat \ {0} /\ in_ch \in Nat /\ in_ch + taken <= layer.c
    BY ChannelsAre DEF RInv, IInv
  <2>3. layer' = layer BY DEF Product, inputs
  <2> QED BY <2>1, <2>2, <2>3
<1>2. \/ in_ch' = in_ch + taken /\ i_output_ch' = i_output_ch
      \/ in_ch + taken = layer.c /\ in_ch' = 0 /\ i_output_ch' = i_output_ch + 1
  BY DEF Product
<1>3. CASE in_ch' = in_ch + taken /\ i_output_ch' = i_output_ch
  BY <1>1, <1>3 DEF Done
<1>4. CASE in_ch + taken = layer.c /\ in_ch' = 0 /\ i_output_ch' = i_output_ch + 1
  BY <1>1, <1>4 DEF Done
<1> QED BY <1>2, <1>3, <1>4

LEMMA ProductRefines == ASSUME RInv, Product PROVE RInv' /\ StepRefines
<1>1. IInv' BY ProductStep DEF RInv
<1>2. /\ layer \in Layers /\ layer' = layer /\ out' = out /\ output_data' = output_data
      /\ pc = "product" /\ i_batch' = i_batch /\ img_buf' = img_buf
      /\ UNCHANGED column
  BY DEF Product, inputs, RInv, IInv, Positions
<1>3. StepRefines /\ OutputFresh' /\ OutputDone' BY <1>2, Quiet, QuietOutput DEF RInv
<1>4. PICK taken : taken = Cardinality(InChannels) OBVIOUS
<1>5. /\ taken \in Nat \ {0} /\ in_ch \in Nat /\ in_ch + taken <= layer.c
      /\ layer.oc \in Nat /\ i_output_ch \in Nat /\ i_output_ch < layer.oc
      /\ i_batch \in Nat /\ InputSize \in Nat /\ FilterSize \in Nat
  <2>1. taken \in Nat \ {0} /\ in_ch \in Nat /\ in_ch + taken <= layer.c
    BY <1>4, ChannelsAre DEF RInv, IInv
  <2>2. layer.oc \in Nat /\ layer.n \in Nat /\ InputSize \in Nat /\ FilterSize \in Nat
    BY <1>2, Quantities
  <2> QED BY <1>2, <2>1, <2>2 DEF RInv, IInv, Positions
<1>6. Phases'
  <2>1. i_col_y' = 0 /\ i_col_x' = 0 BY <1>2 DEF RInv, Phases, column
  <2>2. pc' \in {"product", "column"} BY DEF Product
  <2>3. pc' = "column" => in_ch' = 0 /\ i_output_ch' = layer.oc BY <1>2, <1>5 DEF Product
  <2> QED BY <1>2, <2>1, <2>2, <2>3 DEF Phases
<1>7. PICK b \in Nat : b = i_batch BY <1>5
<1>8. ColumnInv'
  <2>1. ASSUME NEW r \in 0 .. InputSize - 1, NEW t \in 0 .. FilterSize - 1,
               NEW ch \in 0 .. layer.oc - 1
        PROVE  \E n : /\ n = Done(ch)'
                      /\ col_data'[(r * FilterSize + t) * layer.oc + ch]
                           = [start |-> NoBias, sum |-> Terms(b, ch, r, t, n), adds |-> n]
    <3>1. PICK i : i = (r * FilterSize + t) * layer.oc + ch OBVIOUS
    <3>2. /\ i \in 0 .. ColBufSize - 1 /\ i % layer.oc = ch
          /\ ((i \div layer.oc) \div FilterSize) = r /\ ((i \div layer.oc) % FilterSize) = t
      BY <1>2, <3>1, CellIs
    <3>3. col_data'[i] = IF ch = i_output_ch THEN Plus(col_data[i], Term(r, t)) ELSE col_data[i]
      BY <3>2 DEF Product, RInv, IInv, Contents
    <3>4. col_data[i] = [start |-> NoBias, sum |-> Terms(b, ch, r, t, Done(ch)), adds |-> Done(ch)]
      BY <1>2, <1>7, <3>1 DEF RInv, ColumnInv
    <3>5. PICK n : n = Done(ch)' OBVIOUS
    <3>6. n = IF ch = i_output_ch THEN in_ch + taken ELSE Done(ch) BY <1>4, <3>5, DoneNext
    <3>7. CASE ch = i_output_ch
      <4>1. Done(ch) = in_ch BY <1>5, <3>7 DEF Done
      <4>2. r \in Nat /\ t \in Nat BY <1>5
      <4>3. Positions BY DEF RInv, IInv
      <4>4. PICK m : m = in_ch OBVIOUS
      <4>5. Plus([start |-> NoBias, sum |-> Terms(b, ch, r, t, m), adds |-> m], Term(r, t))
              = [start |-> NoBias, sum |-> Terms(b, ch, r, t, m + taken), adds |-> m + taken]
        BY <1>4, <1>7, <3>7, <4>2, <4>3, <4>4, TermAdds
      <4> QED BY <3>1, <3>3, <3>4, <3>5, <3>6, <3>7, <4>1, <4>4, <4>5
    <3>8. CASE ch # i_output_ch BY <3>1, <3>3, <3>4, <3>5, <3>6, <3>8
    <3> QED BY <3>7, <3>8
  <2> QED BY <1>2, <1>7, <2>1, ColumnsAfter
<1>9. ImageInv'
  <2>1. PICK n : n = Added' OBVIOUS
  <2>2. n = Added BY <1>2, <2>1, FixedSizes DEF Added, column
  <2> QED BY <1>2, <1>7, <2>1, <2>2, ImageAfter DEF RInv, ImageInv
<1> QED BY <1>1, <1>3, <1>6, <1>8, <1>9 DEF RInv

\* The elements of the current column that fall on a pixel: at most one.
LEMMA FallingIs ==
  ASSUME IInv, i_col_y < ColY, NEW y \in Int, NEW x \in Int, NEW n, n = Added
  PROVE  /\ Falling(y, x) = {t \in 0 .. FilterSize - 1 : Falls(n, t, y, x)}
         /\ \A s, t \in Falling(y, x) : s = t
<1>1. /\ layer.kw \in Nat \ {0} /\ layer.kh \in Nat /\ layer.sy \in Nat /\ layer.sx \in Nat
      /\ layer.py \in Nat /\ layer.px \in Nat
      /\ ColX \in Nat \ {0} /\ ColY \in Nat
  BY Quantities DEF IInv, Positions
<1>2. i_col_y \in Int /\ i_col_x \in 0 .. ColX - 1 BY <1>1 DEF IInv, Positions
<1>3. (n \div ColX) = i_col_y /\ (n % ColX) = i_col_x BY <1>1, <1>2, Euclid DEF Added
<1>4. Falling(y, x) = {t \in 0 .. FilterSize - 1 : Falls(n, t, y, x)}
  BY <1>3 DEF Falling, Falls, PixelY, PixelX
<1>5. ASSUME NEW s \in Falling(y, x), NEW t \in Falling(y, x) PROVE s = t
  <2>1. PICK kw \in Nat \ {0}, kh \in Nat : kw = layer.kw /\ kh = layer.kh BY <1>1
  <2>2. FilterSize = kh * kw BY <2>1 DEF FilterSize
  <2>3. s \in 0 .. kh * kw - 1 /\ t \in 0 .. kh * kw - 1 BY <2>2 DEF Falling
  <2>4. /\ (s \div kw) \in Int /\ (s % kw) \in Int /\ s = (s \div kw) * kw + (s % kw)
        /\ (t \div kw) \in Int /\ (t % kw) \in Int /\ t = (t \div kw) * kw + (t % kw)
    BY <2>3, RowMajorSplit
  <2>5. PICK a \in Int, c \in Int : a = i_col_y * layer.sy - layer.py /\ c = i_col_x * layer.sx - layer.px
    <3>1. i_col_y * layer.sy \in Int /\ i_col_x * layer.sx \in Int BY <1>1, <1>2
    <3> QED BY <1>1, <3>1
  <2>6. a + (s \div kw) = y /\ c + (s % kw) = x /\ a + (t \div kw) = y /\ c + (t % kw) = x
    BY <2>1, <2>5 DEF Falling, PixelY, PixelX
  <2>7. (s \div kw) = (t \div kw) /\ (s % kw) = (t % kw)
    <3>1. PICK s1 \in Int, s2 \in Int, t1 \in Int, t2 \in Int :
            s1 = (s \div kw) /\ s2 = (s % kw) /\ t1 = (t \div kw) /\ t2 = (t % kw)
      BY <2>4
    <3>2. a + s1 = y /\ c + s2 = x /\ a + t1 = y /\ c + t2 = x BY <2>6, <3>1
    <3>3. s1 = t1 /\ s2 = t2 BY <3>2
    <3> QED BY <3>1, <3>3
  <2> QED BY <2>4, <2>7
<1> QED BY <1>4, <1>5

\* One more column adds the products of its element that falls on the pixel.
LEMMA FallenNext ==
  ASSUME NEW b, NEW ch, NEW y, NEW x, NEW n \in Nat
  PROVE  Fallen(b, ch, y, x, n + 1)
           = Fallen(b, ch, y, x, n)
               \cup UNION {Terms(b, ch, n, t, layer.c) :
                             t \in {u \in 0 .. FilterSize - 1 : Falls(n, u, y, x)}}
<1> DEFINE Past == {q \in (0 .. n - 1) \X (0 .. FilterSize - 1) : Falls(q[1], q[2], y, x)}
           Upto == {q \in (0 .. (n + 1) - 1) \X (0 .. FilterSize - 1) : Falls(q[1], q[2], y, x)}
           Now  == {u \in 0 .. FilterSize - 1 : Falls(n, u, y, x)}
<1>1. Upto = Past \cup {<<n, t>> : t \in Now}
  <2>1. 0 .. (n + 1) - 1 = (0 .. n - 1) \cup {n} BY SMT
  <2>2. ASSUME NEW q \in Upto PROVE q \in Past \cup {<<n, t>> : t \in Now}
    <3>1. q[1] \in 0 .. n - 1 \/ q[1] = n BY <2>1
    <3>2. q = <<q[1], q[2]>> /\ q[2] \in 0 .. FilterSize - 1 /\ Falls(q[1], q[2], y, x) OBVIOUS
    <3>3. CASE q[1] \in 0 .. n - 1 BY <3>2, <3>3
    <3>4. CASE q[1] = n
      <4>1. q[2] \in Now BY <3>2, <3>4
      <4> QED BY <3>2, <3>4, <4>1
    <3> QED BY <3>1, <3>3, <3>4
  <2>3. ASSUME NEW q \in Past PROVE q \in Upto BY <2>1
  <2>4. ASSUME NEW t \in Now PROVE <<n, t>> \in Upto BY <2>1
  <2> QED BY <2>2, <2>3, <2>4
<1> DEFINE F(q) == Terms(b, ch, q[1], q[2], layer.c)
           G(t) == Terms(b, ch, n, t, layer.c)
<1>2. \A t : F(<<n, t>>) = G(t) OBVIOUS
<1>3. Fallen(b, ch, y, x, n) = UNION {F(q) : q \in Past} BY DEF Fallen
<1>4. Fallen(b, ch, y, x, n + 1) = UNION {F(q) : q \in Upto} BY DEF Fallen
<1> HIDE DEF Past, Upto, Now, F, G
<1>5. UNION {F(q) : q \in Upto} = (UNION {F(q) : q \in Past}) \cup UNION {G(t) : t \in Now}
  BY <1>1, <1>2
<1> QED BY <1>3, <1>4, <1>5 DEF Now, G

\* No product is in two columns.
LEMMA FallenApart ==
  ASSUME layer \in Layers, NEW b \in Nat, NEW ch, NEW y, NEW x, NEW n \in Nat, NEW t
  PROVE  Fallen(b, ch, y, x, n) \cap Terms(b, ch, n, t, layer.c) = {}
<1> SUFFICES ASSUME NEW p \in Fallen(b, ch, y, x, n), p \in Terms(b, ch, n, t, layer.c)
             PROVE  FALSE
  OBVIOUS
<1>1. layer.c \in Nat \ {0} /\ InputSize \in Nat BY Quantities
<1>2. PICK m \in Nat \ {0}, q \in Nat : m = layer.c /\ q = b * InputSize
  <2>1. b * InputSize \in Nat BY <1>1
  <2> QED BY <1>1, <2>1
<1>3. PICK k \in 0 .. m - 1 : p = Pair(b, ch, n, t, k) BY <1>2 DEF Terms
<1>4. PICK r \in 0 .. n - 1, s \in 0 .. FilterSize - 1 : p \in Terms(b, ch, r, s, layer.c)
  <2>1. PICK z \in (0 .. n - 1) \X (0 .. FilterSize - 1) : p \in Terms(b, ch, z[1], z[2], layer.c)
    BY DEF Fallen
  <2> QED BY <2>1
<1>5. PICK j \in 0 .. m - 1 : p = Pair(b, ch, r, s, j) BY <1>2, <1>4 DEF Terms
<1>6. (q + n) * m + k = (q + r) * m + j BY <1>2, <1>3, <1>5 DEF Pair
<1>7. q + n \in Nat /\ q + r \in Nat OBVIOUS
<1>8. q + n = q + r BY <1>6, <1>7, RowMajorUnique
<1> QED BY <1>8

\* The sum of a pixel before and after a column.
LEMMA ColumnAdds ==
  ASSUME RInv, CoveringLayers, Column, NEW b \in Nat, b = i_batch, NEW n \in Nat, n = Added,
         n < InputSize,
         NEW y \in 0 .. layer.oh - 1, NEW x \in 0 .. layer.ow - 1, NEW ch \in 0 .. layer.oc - 1
  PROVE  /\ IsFiniteSet(Fallen(b, ch, y, x, n + 1))
         /\ img_buf'[(y * layer.ow + x) * layer.oc + ch]
              = [start |-> IF layer.bias THEN ch ELSE NoBias,
                 sum |-> Fallen(b, ch, y, x, n + 1),
                 adds |-> Cardinality(Fallen(b, ch, y, x, n + 1))]
<1>1. /\ layer \in Layers /\ pc = "column" /\ i_col_y < ColY
      /\ layer.oc \in Nat \ {0} /\ layer.c \in Nat \ {0} /\ FilterSize \in Nat
      /\ layer.oh \in Nat /\ layer.ow \in Nat
  <2>1. layer \in Layers /\ pc = "column" /\ i_col_y < ColY
    BY DEF RInv, IInv, Positions, Column
  <2> QED BY <2>1, Quantities
<1>2. PICK i : i = (y * layer.ow + x) * layer.oc + ch OBVIOUS
<1>3. /\ i \in 0 .. ImageSize - 1 /\ i % layer.oc = ch
      /\ ((i \div layer.oc) \div layer.ow) = y /\ ((i \div layer.oc) % layer.ow) = x
  BY <1>1, <1>2, PixelIs
<1> DEFINE before == Fallen(b, ch, y, x, n)
           after  == Fallen(b, ch, y, x, n + 1)
<1>4. /\ IsFiniteSet(before)
      /\ img_buf[i] = [start |-> IF layer.bias THEN ch ELSE NoBias,
                       sum |-> before, adds |-> Cardinality(before)]
  BY <1>1, <1>2 DEF RInv, ImageInv
<1>5. y \in Int /\ x \in Int BY <1>1
<1>6. /\ Falling(y, x) = {t \in 0 .. FilterSize - 1 : Falls(n, t, y, x)}
      /\ \A s, t \in Falling(y, x) : s = t
  BY <1>1, <1>5, FallingIs DEF RInv
<1>7. after = before \cup UNION {Terms(b, ch, n, t, layer.c) : t \in Falling(y, x)}
  BY <1>6, FallenNext
<1>8. img_buf'[i] = IF Falling(y, x) = {} THEN img_buf[i]
                    ELSE Plus(img_buf[i],
                              col_data[col_buf + (CHOOSE u \in Falling(y, x) : TRUE) * layer.oc + ch])
  BY <1>3 DEF Column, RInv, IInv, Contents
<1>9. CASE Falling(y, x) = {}
  <2>1. after = before BY <1>7, <1>9
  <2> HIDE DEF before, after
  <2>2. IsFiniteSet(after) /\ img_buf'[i] = [start |-> IF layer.bias THEN ch ELSE NoBias,
                       sum |-> after, adds |-> Cardinality(after)]
    BY <1>4, <1>8, <1>9, <2>1
  <2> QED BY <1>2, <2>2 DEF after
<1>10. CASE Falling(y, x) # {}
  <2>1. PICK t : t = CHOOSE u \in Falling(y, x) : TRUE OBVIOUS
  <2>2. t \in Falling(y, x) BY <1>10, <2>1
  <2>3. Falling(y, x) = {t} /\ t \in 0 .. FilterSize - 1 BY <1>6, <2>2
  <2> DEFINE new == Terms(b, ch, n, t, layer.c)
  <2>4. after = before \cup new BY <1>7, <2>3
  <2>5. before \cap new = {} BY <1>1, FallenApart
  <2>6. IsFiniteSet(new) /\ Cardinality(new) = layer.c
    <3>1. ch \in Nat /\ t \in Nat BY <1>1, <2>3
    <3> QED BY <1>1, <3>1, AllTerms
  <2>7. col_data[col_buf + t * layer.oc + ch]
          = [start |-> NoBias, sum |-> new, adds |-> layer.c]
    <3>1. col_buf + t * layer.oc + ch = (n * FilterSize + t) * layer.oc + ch
      <4>1. PICK m \in Nat, f \in Nat : m = layer.oc /\ f = FilterSize BY <1>1
      <4>2. t \in Int BY <2>3
      <4>3. n * (f * m) + t * m = (n * f + t) * m BY <4>2
      <4>4. col_buf = n * (f * m) BY <4>1 DEF RInv, IInv, Positions, Added
      <4>5. PICK cell : cell = (n * f + t) * m OBVIOUS
      <4>6. col_buf + t * m = cell BY <4>3, <4>4, <4>5
      <4> QED BY <4>1, <4>5, <4>6
    <3>2. n \in 0 .. InputSize - 1
      <4>1. InputSize \in Nat BY <1>1, Quantities
      <4> QED BY <4>1
    <3>3. Done(ch) = layer.c BY <1>1 DEF Done, RInv, Phases
    <3>4. col_data[(n * FilterSize + t) * layer.oc + ch]
            = [start |-> NoBias, sum |-> Terms(b, ch, n, t, Done(ch)), adds |-> Done(ch)]
      BY <1>1, <2>3, <3>2 DEF RInv, ColumnInv
    <3> QED BY <3>1, <3>3, <3>4
  <2>8. img_buf'[i] = Plus(img_buf[i], [start |-> NoBias, sum |-> new, adds |-> layer.c])
    BY <1>8, <1>10, <2>1, <2>7
  <2> HIDE DEF before, after, new
  <2>9. /\ IsFiniteSet(after)
        /\ Cardinality(after) = Cardinality(before) + layer.c
    <3>1. /\ IsFiniteSet(before \cup new)
          /\ Cardinality(before \cup new)
               = Cardinality(before) + Cardinality(new) - Cardinality(before \cap new)
      BY <1>4, <2>6, FS_Union
    <3>2. Cardinality({}) = 0 BY FS_EmptySet
    <3>3. Cardinality(before) \in Nat BY <1>4, FS_CardinalityType
    <3> QED BY <1>1, <2>4, <2>5, <2>6, <3>1, <3>2, <3>3
  <2>10. img_buf'[i] = [start |-> IF layer.bias THEN ch ELSE NoBias,
                        sum |-> before \cup new, adds |-> Cardinality(before) + layer.c]
    BY <1>4, <2>8 DEF Plus
  <2>11. img_buf'[i] = [start |-> IF layer.bias THEN ch ELSE NoBias,
                        sum |-> after, adds |-> Cardinality(after)]
    BY <2>4, <2>9, <2>10
  <2> QED BY <1>2, <2>9, <2>11 DEF after
<1> QED BY <1>9, <1>10

LEMMA ColumnRefines ==
  ASSUME RInv, CoveringLayers, Column PROVE RInv' /\ StepRefines
<1>1. IInv' BY ColumnStep DEF RInv, CoveringLayers
<1>2. /\ layer \in Layers /\ layer' = layer /\ out' = out /\ output_data' = output_data
      /\ pc = "column" /\ pc' = "column" /\ i_batch' = i_batch /\ col_data' = col_data
      /\ i_col_y < ColY /\ UNCHANGED product
  BY DEF Column, inputs, RInv, IInv, Positions
<1>3. StepRefines /\ OutputFresh' /\ OutputDone' BY <1>2, Quiet, QuietOutput DEF RInv
<1>4. Phases' BY <1>2 DEF RInv, Phases, product
<1>5. /\ layer.n \in Nat /\ InputSize \in Nat /\ ColX = layer.iw /\ ColY = layer.ih
      /\ layer.iw \in Nat \ {0} /\ layer.ih \in Nat \ {0}
  BY <1>2, Quantities, ColumnsAre
<1>6. PICK b \in Nat : b = i_batch BY <1>5 DEF RInv, IInv, Positions
<1>7. ColumnInv'
  <2>1. \A ch : Done(ch)' = Done(ch) BY <1>2 DEF Done, product
  <2> QED BY <1>2, <1>6, <2>1, ColumnsAfter DEF RInv, ColumnInv
<1>8. PICK n \in Nat : n = Added /\ n < InputSize
  <2>1. i_col_y \in 0 .. layer.ih - 1 /\ i_col_x \in 0 .. layer.iw - 1
    BY <1>2, <1>5 DEF RInv, IInv, Positions
  <2>2. PICK h \in Nat, w \in Nat : h = layer.ih /\ w = layer.iw BY <1>5
  <2>3. i_col_y * w + i_col_x \in 0 .. h * w - 1 BY <2>1, <2>2, RowMajorBound
  <2>4. InputSize = h * w BY <2>2 DEF InputSize
  <2>5. Added = i_col_y * w + i_col_x BY <1>5, <2>2 DEF Added
  <2>6. Added \in 0 .. InputSize - 1 BY <2>3, <2>4, <2>5
  <2> QED BY <1>5, <2>6
<1>9. n + 1 = Added' BY <1>2, <1>8, NextColumn, FixedSizes DEF Added, RInv
<1>10. \A y \in 0 .. layer.oh - 1, x \in 0 .. layer.ow - 1, ch \in 0 .. layer.oc - 1 :
         /\ IsFiniteSet(Fallen(b, ch, y, x, n + 1))
         /\ img_buf'[(y * layer.ow + x) * layer.oc + ch]
              = [start |-> IF layer.bias THEN ch ELSE NoBias,
                 sum |-> Fallen(b, ch, y, x, n + 1),
                 adds |-> Cardinality(Fallen(b, ch, y, x, n + 1))]
  BY <1>6, <1>8, ColumnAdds
<1>11. PICK next : next = n + 1 OBVIOUS
<1>12. ImageInv' BY <1>2, <1>6, <1>9, <1>10, <1>11, ImageAfter
<1> QED BY <1>1, <1>3, <1>4, <1>7, <1>12 DEF RInv

\* Pixel <<y, x>> of the input has column r, row ky and column kx of the kernel
\* are element t.
Flattened(r, t, y, x, ky, kx) == r = y * layer.iw + x /\ t = ky * layer.kw + kx

\* The product of an input pixel and a kernel element, from their coordinates.
Spreading(b, ch, y, x, ky, kx, k) ==
  <<((ch * layer.kh + ky) * layer.kw + kx) * layer.c + k,
    ((b * layer.ih + y) * layer.iw + x) * layer.c + k>>

\* A product of the convolution is one of the r'th column and the t'th element.
LEMMA PairIs ==
  ASSUME layer \in Layers, NEW b, NEW ch, NEW k, NEW y, NEW x, NEW ky, NEW kx,
         {b, ch, k, y, x, ky, kx} \subseteq Nat,
         NEW r, NEW t, Flattened(r, t, y, x, ky, kx)
  PROVE  Pair(b, ch, r, t, k) = Spreading(b, ch, y, x, ky, kx, k)
<1>1. PICK kh \in Nat, kw \in Nat, ih \in Nat, iw \in Nat :
        kh = layer.kh /\ kw = layer.kw /\ ih = layer.ih /\ iw = layer.iw
  BY Quantities
<1>2. ASSUME NEW a \in Nat, NEW m \in Nat, NEW n \in Nat, NEW p \in Nat, NEW q \in Nat
      PROVE  a * (n * m) + (p * n + q) = (a * m + p) * n + q
  <2>1. (a * m + p) * n = (a * m) * n + p * n OBVIOUS
  <2>2. a * (n * m) = (a * m) * n OBVIOUS
  <2>3. (a * m) * n \in Nat /\ p * n \in Nat OBVIOUS
  <2> QED BY <2>1, <2>2, <2>3
<1>3. ch * FilterSize + t = (ch * kh + ky) * kw + kx
  <2>1. FilterSize = kw * kh /\ t = ky * kw + kx BY <1>1 DEF FilterSize, Flattened
  <2> QED BY <1>2, <2>1
<1>4. b * InputSize + r = (b * ih + y) * iw + x
  <2>1. InputSize = iw * ih /\ r = y * iw + x BY <1>1 DEF InputSize, Flattened
  <2> QED BY <1>2, <2>1
<1> QED BY <1>1, <1>3, <1>4 DEF Pair, Spreading

\* What falls on a pixel once all columns are added is what the convolution says.
LEMMA ProductsAre ==
  ASSUME layer \in Layers, CoveringLayers, NEW b \in Nat, NEW ch \in Nat, NEW y, NEW x,
         NEW o, o.batch = b, o.ch = ch, o.y = y, o.x = x
  PROVE  Fallen(b, ch, y, x, InputSize) = Conv!Products(o)
<1>1. PICK kh \in Nat, kw \in Nat \ {0}, ih \in Nat, iw \in Nat \ {0}, m \in Nat :
        kh = layer.kh /\ kw = layer.kw /\ ih = layer.ih /\ iw = layer.iw /\ m = layer.c
  BY Quantities
<1>2. InputSize = ih * iw /\ FilterSize = kh * kw /\ ColX = iw
  BY <1>1, ColumnsAre DEF InputSize, FilterSize
<1> DEFINE Of(s, k) == Spreading(b, ch, s.y, s.x, s.ky, s.kx, k)
           Spread == {s \in Conv!Spreads : Conv!FallsOn(s, o)}
           Fall   == {q \in (0 .. InputSize - 1) \X (0 .. FilterSize - 1) : Falls(q[1], q[2], y, x)}
<1>3. Conv!Products(o) = {Of(p[1], p[2]) : p \in Spread \X (0 .. m - 1)}
  BY <1>1 DEF Conv!Products, Spreading
<1>4. Fallen(b, ch, y, x, InputSize) = UNION {Terms(b, ch, q[1], q[2], m) : q \in Fall}
  BY <1>1 DEF Fallen
\* The same products, of one element of a column.
<1>5. ASSUME NEW s \in Conv!Spreads, NEW r, NEW t, NEW k \in 0 .. m - 1,
             r = s.y * iw + s.x, t = s.ky * kw + s.kx
      PROVE  /\ r \in 0 .. InputSize - 1 /\ t \in 0 .. FilterSize - 1
             /\ Falls(r, t, y, x) <=> Conv!FallsOn(s, o)
             /\ Pair(b, ch, r, t, k) = Of(s, k)
  <2>1. /\ s.y \in 0 .. ih - 1 /\ s.x \in 0 .. iw - 1 /\ s.ky \in 0 .. kh - 1 /\ s.kx \in 0 .. kw - 1
    BY <1>1 DEF Conv!Spreads
  <2>2. PICK sy \in 0 .. ih - 1, sx \in 0 .. iw - 1, ky \in 0 .. kh - 1, kx \in 0 .. kw - 1 :
          sy = s.y /\ sx = s.x /\ ky = s.ky /\ kx = s.kx
    BY <2>1
  <2>3. sy * iw + sx \in 0 .. ih * iw - 1 BY RowMajorBound
  <2>4. ky * kw + kx \in 0 .. kh * kw - 1 BY RowMajorBound
  <2>5. sy \in Int /\ ky \in Int OBVIOUS
  <2>6. ((sy * iw + sx) % iw) = sx /\ ((sy * iw + sx) \div iw) = sy BY <2>5, Euclid
  <2>7. ((ky * kw + kx) % kw) = kx /\ ((ky * kw + kx) \div kw) = ky BY <2>5, Euclid
  <2>8. Falls(r, t, y, x) <=> Conv!FallsOn(s, o)
    BY <1>1, <1>2, <1>5, <2>2, <2>6, <2>7 DEF Falls, Conv!FallsOn
  <2>9. sy \in Nat /\ sx \in Nat /\ ky \in Nat /\ kx \in Nat /\ k \in Nat OBVIOUS
  <2>10. Flattened(r, t, sy, sx, ky, kx) BY <1>1, <1>5, <2>2 DEF Flattened
  <2>11. Pair(b, ch, r, t, k) = Spreading(b, ch, sy, sx, ky, kx, k)
    BY <2>9, <2>10, PairIs
  <2> QED BY <1>2, <1>5, <2>2, <2>3, <2>4, <2>8, <2>11
<1>6. ASSUME NEW p \in Spread \X (0 .. m - 1)
      PROVE  Of(p[1], p[2]) \in Fallen(b, ch, y, x, InputSize)
  <2>1. PICK s \in Spread, k \in 0 .. m - 1 : s = p[1] /\ k = p[2] OBVIOUS
  <2>2. PICK r, t : r = s.y * iw + s.x /\ t = s.ky * kw + s.kx OBVIOUS
  <2>3. s \in Conv!Spreads /\ Conv!FallsOn(s, o) OBVIOUS
  <2> HIDE DEF Of, Spread
  <2>4. /\ r \in 0 .. InputSize - 1 /\ t \in 0 .. FilterSize - 1
        /\ Falls(r, t, y, x) /\ Pair(b, ch, r, t, k) = Of(s, k)
    BY <1>5, <2>2, <2>3
  <2>5. PICK q : q = <<r, t>> OBVIOUS
  <2>6. q \in Fall /\ q[1] = r /\ q[2] = t BY <2>4, <2>5
  <2>7. Pair(b, ch, r, t, k) \in Terms(b, ch, q[1], q[2], m) BY <2>6 DEF Terms
  <2> HIDE DEF Fall
  <2> QED BY <1>4, <2>1, <2>4, <2>6, <2>7
<1>7. ASSUME NEW q \in Fall, NEW k \in 0 .. m - 1
      PROVE  Pair(b, ch, q[1], q[2], k) \in Conv!Products(o)
  <2>1. PICK r \in 0 .. ih * iw - 1, t \in 0 .. kh * kw - 1 : r = q[1] /\ t = q[2] BY <1>2
  <2>2. (r \div iw) \in 0 .. ih - 1 /\ (r % iw) \in 0 .. iw - 1 /\ r = (r \div iw) * iw + (r % iw)
    BY RowMajorSplit
  <2>3. (t \div kw) \in 0 .. kh - 1 /\ (t % kw) \in 0 .. kw - 1 /\ t = (t \div kw) * kw + (t % kw)
    BY RowMajorSplit
  <2>4. PICK s : s = [y |-> r \div iw, x |-> r % iw, ky |-> t \div kw, kx |-> t % kw] OBVIOUS
  <2>5. s \in Conv!Spreads
    <3>1. s \in [y : 0 .. ih - 1, x : 0 .. iw - 1, ky : 0 .. kh - 1, kx : 0 .. kw - 1]
      BY <2>2, <2>3, <2>4
    <3> QED BY <1>1, <3>1 DEF Conv!Spreads
  <2>6. r = s.y * iw + s.x /\ t = s.ky * kw + s.kx BY <2>2, <2>3, <2>4
  <2>7. Falls(r, t, y, x) BY <2>1
  <2> HIDE DEF Of, Fall
  <2>8. Conv!FallsOn(s, o) /\ Pair(b, ch, r, t, k) = Of(s, k) BY <1>5, <2>5, <2>6, <2>7
  <2>9. PICK p : p = <<s, k>> OBVIOUS
  <2>10. p \in Spread \X (0 .. m - 1) /\ p[1] = s /\ p[2] = k BY <2>5, <2>8, <2>9
  <2> HIDE DEF Spread
  <2> QED BY <1>3, <2>1, <2>8, <2>10
<1>8. ASSUME NEW v \in Fallen(b, ch, y, x, InputSize) PROVE v \in Conv!Products(o)
  <2> HIDE DEF Fall
  <2>1. PICK q \in Fall : v \in Terms(b, ch, q[1], q[2], m) BY <1>4
  <2>2. PICK k \in 0 .. m - 1 : v = Pair(b, ch, q[1], q[2], k) BY <2>1 DEF Terms
  <2> QED BY <1>7, <2>2
<1>9. ASSUME NEW v \in Conv!Products(o) PROVE v \in Fallen(b, ch, y, x, InputSize)
  <2> HIDE DEF Spread, Of
  <2>1. PICK p \in Spread \X (0 .. m - 1) : v = Of(p[1], p[2]) BY <1>3
  <2> QED BY <1>6, <2>1
<1> QED BY <1>8, <1>9

-----------------------------------------------------------------------------
\* Where the elements of the output are.
LEMMA IndexIs ==
  ASSUME layer \in Layers, NEW o \in Conv!Outputs
  PROVE  /\ o.batch \in 0 .. layer.n - 1 /\ o.y \in 0 .. layer.oh - 1
         /\ o.x \in 0 .. layer.ow - 1 /\ o.ch \in 0 .. layer.oc - 1
         /\ o.batch \in Nat /\ o.ch \in Nat
         /\ Place(o) \in 0 .. ImageSize - 1 /\ Place(o) % layer.oc = o.ch
         /\ Index(o) = o.batch * ImageSize + Place(o)
         /\ Index(o) \in 0 .. layer.n * ImageSize - 1
<1>1. /\ o.batch \in 0 .. layer.n - 1 /\ o.y \in 0 .. layer.oh - 1
      /\ o.x \in 0 .. layer.ow - 1 /\ o.ch \in 0 .. layer.oc - 1
  BY DEF Conv!Outputs
<1>2. PICK n \in Nat, oh \in Nat, ow \in Nat, oc \in Nat :
        n = layer.n /\ oh = layer.oh /\ ow = layer.ow /\ oc = layer.oc
  BY Quantities
<1>3. PICK b \in 0 .. layer.n - 1, y \in 0 .. layer.oh - 1, x \in 0 .. layer.ow - 1,
           ch \in 0 .. layer.oc - 1 :
        b = o.batch /\ y = o.y /\ x = o.x /\ ch = o.ch
  BY <1>1
<1>4. PICK i : i = (y * layer.ow + x) * layer.oc + ch OBVIOUS
<1>5. i \in 0 .. ImageSize - 1 /\ i % layer.oc = ch BY <1>4, PixelIs
<1>6. Place(o) = i BY <1>3, <1>4 DEF Place
<1>7. Index(o) = b * ImageSize + i
  <2>1. b \in Nat /\ y \in Nat /\ x \in Nat /\ ch \in Nat BY <1>2
  <2>2. (b * oh + y) * ow = b * (oh * ow) + y * ow BY <2>1
  <2>3. PICK p \in Nat, q \in Nat : p = oh * ow /\ q = y * ow BY <2>1
  <2>4. PICK u \in Nat : u = b * p BY <2>1, <2>3
  <2>5. (u + (q + x)) * oc = u * oc + (q + x) * oc BY <2>1
  <2>6. u * oc = b * (p * oc) BY <2>1, <2>4
  <2>7. (b * oh + y) * ow + x = u + (q + x)
    <3>1. (b * oh + y) * ow = u + q BY <2>2, <2>3, <2>4
    <3> QED BY <2>1, <3>1
  <2>8. ImageSize = p * oc BY <1>2, <2>3 DEF ImageSize
  <2>9. Index(o) = (u + (q + x)) * oc + ch BY <1>2, <1>3, <2>7 DEF Index
  <2>10. i = (q + x) * oc + ch BY <1>2, <1>4, <2>3
  <2>11. PICK v \in Nat, w \in Nat : v = u * oc /\ w = (q + x) * oc
    <3>1. q + x \in Nat BY <2>1
    <3>2. u * oc \in Nat /\ (q + x) * oc \in Nat BY <3>1
    <3> QED BY <3>2
  <2>12. Index(o) = (v + w) + ch /\ i = w + ch BY <2>5, <2>9, <2>10, <2>11
  <2>13. b * ImageSize = v BY <2>6, <2>8, <2>11
  <2>14. Index(o) = v + i BY <2>1, <2>12
  <2> QED BY <2>13, <2>14
<1>8. b * ImageSize + i \in 0 .. layer.n * ImageSize - 1
  <2>1. PICK s \in Nat : s = ImageSize BY Quantities
  <2>2. b \in 0 .. n - 1 /\ i \in 0 .. s - 1 BY <1>2, <1>5, <2>1
  <2>3. b * s + i \in 0 .. n * s - 1 BY <2>2, RowMajorBound
  <2> QED BY <1>2, <2>1, <2>3
<1>9. b \in Nat /\ ch \in Nat BY <1>2
<1> QED BY <1>1, <1>3, <1>5, <1>6, <1>7, <1>8, <1>9

\* Both modules count products alike.
LEMMA SameCount == ASSUME NEW S PROVE Conv!Cardinality(S) = Cardinality(S)
BY DEF Cardinality, Conv!Cardinality

\* The image of a batch, once all columns are added, holds its values.
LEMMA ImageIs ==
  ASSUME RInv, CoveringLayers, pc = "column", i_col_y = ColY,
         NEW o \in Conv!Outputs, o.batch = i_batch
  PROVE  [quant |-> Place(o) % layer.oc, start |-> img_buf[Place(o)].start,
          sum |-> img_buf[Place(o)].sum, adds |-> img_buf[Place(o)].adds] = Conv!Value(o)
<1>1. layer \in Layers /\ i_col_x = 0
  BY DEF RInv, IInv, Positions
<1>2. Added = InputSize
  <2>1. ColX = layer.iw /\ ColY = layer.ih BY <1>1, ColumnsAre
  <2>2. PICK h \in Nat, w \in Nat : h = layer.ih /\ w = layer.iw BY <1>1, Quantities
  <2>3. Added = h * w + 0 BY <1>1, <2>1, <2>2 DEF Added
  <2>4. InputSize = h * w BY <2>2 DEF InputSize
  <2> QED BY <2>3, <2>4
<1>3. /\ o.batch \in Nat /\ o.ch \in Nat
      /\ o.y \in 0 .. layer.oh - 1 /\ o.x \in 0 .. layer.ow - 1 /\ o.ch \in 0 .. layer.oc - 1
      /\ Place(o) % layer.oc = o.ch
  BY <1>1, IndexIs
<1>4. PICK b \in Nat, ch \in Nat, y \in 0 .. layer.oh - 1, x \in 0 .. layer.ow - 1 :
        /\ b = o.batch /\ ch = o.ch /\ y = o.y /\ x = o.x
        /\ ch \in 0 .. layer.oc - 1
  BY <1>3
<1>5. Fallen(b, ch, y, x, InputSize) = Conv!Products(o) BY <1>1, <1>4, ProductsAre
<1>6. img_buf[Place(o)] = [start |-> IF layer.bias THEN ch ELSE NoBias,
                           sum |-> Fallen(b, ch, y, x, InputSize),
                           adds |-> Cardinality(Fallen(b, ch, y, x, InputSize))]
  BY <1>2, <1>4 DEF RInv, ImageInv, Place
<1>7. /\ img_buf[Place(o)].start = IF layer.bias THEN o.ch ELSE NoBias
      /\ img_buf[Place(o)].sum = Conv!Products(o)
      /\ img_buf[Place(o)].adds = Cardinality(Conv!Products(o))
  BY <1>4, <1>5, <1>6
<1> QED BY <1>3, <1>7, SameCount DEF Conv!Value

LEMMA RequantizeRefines ==
  ASSUME RInv, CoveringLayers, Requantize PROVE RInv' /\ StepRefines
<1>1. IInv' BY RequantizeStep DEF RInv
<1>2. /\ layer \in Layers /\ layer' = layer /\ pc = "column" /\ i_col_y = ColY
      /\ out = i_batch * ImageSize /\ out' = out + ImageSize
      /\ DOMAIN output_data = 0 .. layer.n * ImageSize - 1
      /\ in_ch' = in_ch /\ i_col_y' = 0 /\ i_col_x' = i_col_x
      /\ pc' = IF i_batch + 1 < layer.n THEN "clear" ELSE "return"
      /\ i_batch' = i_batch + 1 /\ i_batch < layer.n
  BY DEF Requantize, inputs, RInv, IInv, Positions, Contents
<1>3. /\ ImageSize \in Nat \ {0} /\ layer.n \in Nat /\ i_batch \in Nat
      /\ i_col_x = 0 /\ in_ch = 0
  <2>1. ImageSize \in Nat \ {0} /\ layer.n \in Nat BY <1>2, Quantities
  <2> QED BY <1>2, <2>1 DEF RInv, IInv, Positions, Phases
<1>4. PICK size \in Nat \ {0}, b \in Nat, base \in Nat, all \in Nat :
        size = ImageSize /\ b = i_batch /\ base = b * size /\ all = layer.n * size
  <2>1. i_batch * ImageSize \in Nat /\ layer.n * ImageSize \in Nat BY <1>3
  <2> QED BY <1>3, <2>1
<1>5. Phases' BY <1>2, <1>3 DEF Phases
<1>6. ColumnInv' /\ ImageInv' BY <1>2 DEF ColumnInv, ImageInv
<1>7. OutputFresh'
  <2>1. ASSUME NEW e \in 0 .. layer.n * ImageSize - 1, e >= out + ImageSize
        PROVE  output_data'[e] = Undefined
    <3>1. e \in Int /\ out = base BY <1>2, <1>4
    <3>2. e \notin out .. out + ImageSize - 1 /\ e >= out BY <1>4, <2>1, <3>1
    <3>3. output_data'[e] = output_data[e] BY <1>2, <3>2 DEF Requantize
    <3> QED BY <3>2, <3>3 DEF RInv, OutputFresh
  <2> QED BY <1>2, <2>1, FixedSizes DEF OutputFresh
<1>8. ASSUME NEW o \in Conv!Outputs
      PROVE  IF Index(o) \in out .. out + ImageSize - 1
             THEN output_data[Index(o)] = Undefined /\ output_data'[Index(o)] = Conv!Value(o)
             ELSE output_data'[Index(o)] = output_data[Index(o)]
  <2>1. /\ o.batch \in Nat /\ Place(o) \in 0 .. ImageSize - 1
        /\ Index(o) = o.batch * ImageSize + Place(o)
        /\ Index(o) \in 0 .. layer.n * ImageSize - 1
    BY <1>2, IndexIs
  <2>2. PICK e \in Nat, i \in 0 .. size - 1, b2 \in Nat :
          e = Index(o) /\ i = Place(o) /\ b2 = o.batch
    BY <1>4, <2>1
  <2>3. e = b2 * size + i /\ e \in 0 .. layer.n * ImageSize - 1 BY <1>4, <2>1, <2>2
  <2>4. output_data'[e] =
          IF e \in out .. out + ImageSize - 1
          THEN LET acc == img_buf[e - out]
               IN [quant |-> (e - out) % layer.oc, start |-> acc.start, sum |-> acc.sum,
                   adds |-> acc.adds]
          ELSE output_data[e]
    BY <1>2, <2>3 DEF Requantize
  <2>5. CASE e \in out .. out + ImageSize - 1
    <3>1. out = base /\ e \in base .. base + size - 1 BY <1>2, <1>4, <2>5
    <3>2. PICK j \in 0 .. size - 1 : e = base + j
      <4>1. e - base \in 0 .. size - 1 /\ e = base + (e - base) BY <3>1
      <4> QED BY <4>1
    <3>3. b * size + j = b2 * size + i BY <1>4, <2>3, <3>2
    <3>4. b2 = b /\ j = i BY <3>3, RowMajorUnique
    <3>5. e - out = Place(o) BY <2>2, <3>1, <3>2, <3>4
    <3>6. output_data'[e]
            = [quant |-> Place(o) % layer.oc, start |-> img_buf[Place(o)].start,
               sum |-> img_buf[Place(o)].sum, adds |-> img_buf[Place(o)].adds]
      BY <2>4, <2>5, <3>5
    <3>7. output_data'[e] = Conv!Value(o) BY <1>2, <1>4, <2>2, <3>4, <3>6, ImageIs
    <3>8. e >= out BY <3>1
    <3>9. output_data[e] = Undefined BY <2>3, <3>8 DEF RInv, OutputFresh
    <3> QED BY <2>2, <2>5, <3>7, <3>9
  <2>6. CASE e \notin out .. out + ImageSize - 1 BY <2>2, <2>4, <2>6
  <2> QED BY <2>5, <2>6
<1>9. Conv!Compute
  <2>1. \A o \in Conv!Outputs :
          Index(o) = ((o.batch * layer.oh + o.y) * layer.ow + o.x) * layer.oc + o.ch
    BY DEF Index
  <2>2. Conv!Outputs = [batch : 0 .. layer.n - 1, y : 0 .. layer.oh - 1,
                        x : 0 .. layer.ow - 1, ch : 0 .. layer.oc - 1]
    BY DEF Conv!Outputs
  <2> QED BY <1>2, <1>8, <2>1, <2>2 DEF Conv!Compute
<1>10. OutputDone'
  <2>1. ASSUME NEW o \in Conv!Outputs, Index(o) < out + ImageSize
        PROVE  output_data'[Index(o)] = Conv!Value(o)
    <3>1. PICK e \in Nat : e = Index(o)
      <4>1. Index(o) \in 0 .. layer.n * ImageSize - 1 BY <1>2, IndexIs
      <4> QED BY <4>1
    <3>2. e \in out .. out + ImageSize - 1 \/ e < out BY <1>2, <1>4, <2>1, <3>1
    <3>3. CASE e \in out .. out + ImageSize - 1 BY <1>8, <3>1, <3>3
    <3>4. CASE e < out
      <4>1. e \notin out .. out + ImageSize - 1 BY <1>2, <1>4, <3>4
      <4>2. output_data'[e] = output_data[e] BY <1>8, <3>1, <4>1
      <4> QED BY <3>1, <3>4, <4>2 DEF RInv, OutputDone
    <3> QED BY <3>2, <3>3, <3>4
  <2> QED BY <1>2, <2>1, FixedValues DEF OutputDone
<1> QED BY <1>1, <1>5, <1>6, <1>7, <1>9, <1>10 DEF RInv, StepRefines

LEMMA StutterRefines == ASSUME RInv, UNCHANGED vars PROVE RInv' /\ StepRefines
<1>1. IInv' BY StutterStep DEF RInv
<1>2. /\ layer' = layer /\ pc' = pc /\ i_batch' = i_batch /\ out' = out
      /\ output_data' = output_data /\ col_data' = col_data /\ img_buf' = img_buf
      /\ i_output_ch' = i_output_ch /\ in_ch' = in_ch
      /\ i_col_y' = i_col_y /\ i_col_x' = i_col_x
  BY DEF vars, inputs, product, column
<1>3. StepRefines /\ OutputFresh' /\ OutputDone' BY <1>2, Quiet, QuietOutput DEF RInv
<1>4. Phases' BY <1>2 DEF RInv, Phases
<1>5. PICK b, n : b = i_batch' /\ n = Added' OBVIOUS
<1>6. CASE pc \in {"product", "column"}
  <2>1. ColumnInv'
    <3>1. \A ch : Done(ch)' = Done(ch) BY <1>2 DEF Done
    <3> QED BY <1>2, <1>5, <1>6, <3>1, ColumnsAfter DEF RInv, ColumnInv
  <2>2. ImageInv'
    <3>1. n = Added BY <1>2, <1>5, FixedSizes DEF Added
    <3> QED BY <1>2, <1>5, <1>6, <3>1, ImageAfter DEF RInv, ImageInv
  <2> QED BY <1>1, <1>3, <1>4, <2>1, <2>2 DEF RInv
<1>7. CASE pc \notin {"product", "column"}
  <2>1. ColumnInv' /\ ImageInv' BY <1>2, <1>7 DEF ColumnInv, ImageInv
  <2> QED BY <1>1, <1>3, <1>4, <2>1 DEF RInv
<1> QED BY <1>6, <1>7

LEMMA InitRefines == ASSUME Init PROVE RInv /\ Conv!Init
<1>1. IInv BY InitInvariant
<1>2. layer \in Layers BY DEF Init
<1>3. output_data = [e \in 0 .. layer.n * ImageSize - 1 |-> Undefined] BY DEF Init
<1>4. RInv
  <2>1. Phases BY DEF Init, Phases
  <2>2. ColumnInv /\ ImageInv BY DEF Init, ColumnInv, ImageInv
  <2>3. OutputFresh BY <1>3 DEF OutputFresh
  <2>4. OutputDone
    <3>1. ASSUME NEW o \in Conv!Outputs PROVE ~(Index(o) < out)
      <4>1. PICK e \in Nat : e = Index(o)
        <5>1. Index(o) \in 0 .. layer.n * ImageSize - 1 BY <1>2, IndexIs
        <5> QED BY <5>1
      <4> QED BY <4>1 DEF Init
    <3> QED BY <3>1 DEF OutputDone
  <2> QED BY <1>1, <2>1, <2>2, <2>3, <2>4 DEF RInv
<1>5. Conv!Init
  <2>1. Conv!Outputs = [batch : 0 .. layer.n - 1, y : 0 .. layer.oh - 1,
                        x : 0 .. layer.ow - 1, ch : 0 .. layer.oc - 1]
    BY DEF Conv!Outputs
  <2>2. ASSUME NEW o \in Conv!Outputs PROVE output_data[Index(o)] = Undefined
    <3>1. PICK e \in 0 .. layer.n * ImageSize - 1 : e = Index(o) BY <1>2, IndexIs
    <3> QED BY <1>3, <3>1
  <2>3. \A o \in Conv!Outputs :
          Index(o) = ((o.batch * layer.oh + o.y) * layer.ow + o.x) * layer.oc + o.ch
    BY DEF Index
  <2> QED BY <2>1, <2>2, <2>3 DEF Conv!Init
<1> QED BY <1>4, <1>5

LEMMA InvarianceRefines == ASSUME CoveringLayers PROVE Spec => []RInv
<1>1. Init => RInv BY InitRefines
<1>2. RInv /\ [Next]_vars => RInv'
  BY CallRefines, ClearRefines, ProductRefines, ColumnRefines, RequantizeRefines, StutterRefines
     DEF Next
<1> QED BY <1>1, <1>2, PTL DEF Spec

\* For all layers whose columns are the input's pixels: with both buffers, every
\* element of the output is computed once, from its own bias and from each
\* product that falls on it, added once.
THEOREM TransposedRefinement == ASSUME CoveringLayers PROVE Spec => ImplementsTransposed
<1>1. Init => Conv!Init BY InitRefines
<1>2. RInv /\ [Next]_vars => StepRefines
  BY CallRefines, ClearRefines, ProductRefines, ColumnRefines, RequantizeRefines, StutterRefines
     DEF Next
<1> QED BY <1>1, <1>2, InvarianceRefines, PTL
     DEF Spec, ImplementsTransposed, Conv!Spec, StepRefines

\* For the same layers: what the call returns is the transposed convolution.
THEOREM ReturnedResult == ASSUME CoveringLayers PROVE Spec => []ReturnsComplete
<1>1. ASSUME RInv, pc = "return", NEW o \in Conv!Outputs
      PROVE  output_data[Index(o)] = Conv!Value(o)
  <2>1. layer \in Layers /\ out = layer.n * ImageSize
    BY <1>1 DEF RInv, IInv, Positions, Phases
  <2>2. Index(o) \in 0 .. layer.n * ImageSize - 1 BY <2>1, IndexIs
  <2>3. PICK all \in Nat : all = layer.n * ImageSize
    <3>1. layer.n \in Nat /\ ImageSize \in Nat BY <2>1, Quantities
    <3> QED BY <3>1
  <2>4. Index(o) < out BY <2>1, <2>2, <2>3
  <2> QED BY <1>1, <2>4 DEF RInv, OutputDone
<1>2. RInv => ReturnsComplete
  <2>1. \A o : Index(o) = ((o.batch * layer.oh + o.y) * layer.ow + o.x) * layer.oc + o.ch
    BY DEF Index
  <2>2. Conv!Outputs = [batch : 0 .. layer.n - 1, y : 0 .. layer.oh - 1,
                        x : 0 .. layer.ow - 1, ch : 0 .. layer.oc - 1]
    BY DEF Conv!Outputs
  <2> QED BY <1>1, <2>1, <2>2 DEF ReturnsComplete, Conv!Complete
<1> QED BY <1>2, InvarianceRefines, PTL
=============================================================================
