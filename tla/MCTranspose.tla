----------------------------- MODULE MCTranspose -----------------------------
(***************************************************************************)
(* Layers for TransposeConvS8.  Output size and padding are TensorFlow's:  *)
(* SAME gives stride times the input and pads, VALID gives room for every  *)
(* window.  What an odd total of padding has over goes to the far side,    *)
(* and the padding offset is the padding of the far side.                  *)
(***************************************************************************)
EXTENDS TransposeConvS8

Larger(a, b) == IF a > b THEN a ELSE b

OutSize(same, in, k, s) == IF same THEN in * s ELSE in * s + Larger(k - s, 0)

Total(same, in, k, s) == Larger(0, (in - 1) * s + k - OutSize(same, in, k, s))
Near(same, in, k, s)  == Total(same, in, k, s) \div 2
Far(same, in, k, s)   == Total(same, in, k, s) - Near(same, in, k, s)

MakeLayer(n, c, oc, h, w, k, s, same, bias) ==
  [n |-> n, c |-> c, oc |-> oc, ih |-> h, iw |-> w, kh |-> k[1], kw |-> k[2],
   sy |-> s[1], sx |-> s[2],
   py |-> Near(same, h, k[1], s[1]), px |-> Near(same, w, k[2], s[2]),
   qy |-> Far(same, h, k[1], s[1]), qx |-> Far(same, w, k[2], s[2]),
   oh |-> OutSize(same, h, k[1], s[1]), ow |-> OutSize(same, w, k[2], s[2]),
   bias |-> bias]

\* One and two batches, one to three input channels, windows that overlap, touch
\* and leave gaps, pixels whose window hangs over the edge.
MCLayers ==
  { MakeLayer(n, c, oc, hw[1], hw[2], k, s, same, bias) :
      n \in {1, 2}, c \in {1, 2, 3}, oc \in {1, 2}, hw \in {<<1, 2>>, <<2, 2>>},
      k \in {<<1, 1>>, <<2, 3>>, <<3, 2>>}, s \in {<<1, 1>>, <<1, 2>>, <<2, 1>>},
      same \in BOOLEAN, bias \in BOOLEAN }

\* The padding belongs to the output: no window starts behind the last pixel,
\* and the output has room for the window of every pixel.
ASSUME TensorFlowPadding ==
  \A l \in MCLayers :
    /\ l.ow + l.qx + l.px < l.iw * l.sx + l.kw
    /\ l.oh + l.qy + l.py < l.ih * l.sy + l.kh
    /\ (l.iw - 1) * l.sx + l.kw <= l.ow + l.qx + l.px
    /\ (l.ih - 1) * l.sy + l.kh <= l.oh + l.qy + l.py
=============================================================================
