----------------------------- MODULE MCConvolve -----------------------------
(***************************************************************************)
(* Layers for ConvolveS8.  The output size and the padding follow from the *)
(* other parameters the way TensorFlow computes them: SAME pads, VALID     *)
(* does not.                                                               *)
(***************************************************************************)
EXTENDS ConvolveS8

CONSTANT Shapes   \* which layers, see below

OutSize(same, in, k, s, d) ==
  IF same THEN (in + s - 1) \div s ELSE (in - (k - 1) * d - 1 + s) \div s

Pad(same, in, k, s, d) ==
  IF same
  THEN Larger(0, (OutSize(same, in, k, s, d) - 1) * s + (k - 1) * d + 1 - in) \div 2
  ELSE 0

MakeLayer(n, c, oc, h, w, k, s, d, same) ==
  [n |-> n, c |-> c, oc |-> oc, ih |-> h, iw |-> w, kh |-> k[1], kw |-> k[2],
   sx |-> s, sy |-> s, dx |-> d, dy |-> d,
   py |-> Pad(same, h, k[1], s, d), px |-> Pad(same, w, k[2], s, d),
   oh |-> OutSize(same, h, k[1], s, d), ow |-> OutSize(same, w, k[2], s, d)]

MakeLayers(ns, cs, ocs, hs, ws, ks, ss, ds) ==
  { l \in { MakeLayer(n, c, oc, h, w, k, s, d, same) :
              n \in ns, c \in cs, oc \in ocs, h \in hs, w \in ws, k \in ks, s \in ss,
              d \in ds, same \in BOOLEAN } :
      l.oh > 0 /\ l.ow > 0 }

\* Layers of several rows: every number of leftover columns, one and two
\* batches, windows inside, at the edges and wider than the image.
Planes ==
  MakeLayers({2}, {1, 4}, {2}, {2, 3}, {1, 3}, {<<1, 1>>, <<2, 2>>, <<3, 1>>}, {1, 2}, {1, 2})
    \cup MakeLayers({1, 3}, {3}, {1}, {2}, {2, 3}, {<<2, 3>>}, {1, 2}, {1})

\* Layers of one row with the one-row filter that the 1xN kernel documents.
Rowed ==
  MakeLayers({1, 2}, {3}, {1, 2}, {1}, {4, 8, 9}, {<<1, 2>>, <<1, 3>>, <<1, 5>>}, {1, 2}, {1, 2})

\* Layers of one row with a filter of several rows.
TallFilter ==
  MakeLayers({1}, {1, 4}, {1, 2}, {1}, {4, 8}, {<<3, 1>>, <<3, 3>>}, {1}, {1})

\* Layers for convolve_1x1_s8, whose stride is vertical only (see Row1x1); it
\* refuses the padded ones.
Rows1x1 ==
  { [l EXCEPT !.sx = 1, !.ow = l.iw] :
      l \in MakeLayers({1, 2}, {3, 4}, {1, 2}, {1, 3, 4}, {1, 3}, {<<1, 1>>}, {1, 2}, {1}) }
  \cup { [l EXCEPT !.px = 1] : l \in MakeLayers({1}, {3}, {1}, {2}, {2}, {<<1, 1>>}, {1}, {1}) }

MCLayers == CASE Shapes = "fitting"     -> Planes \cup Rowed \cup Rows1x1
              [] Shapes = "tall_filter" -> TallFilter

MCLayers1x1 == IF Shapes = "fitting" THEN Rows1x1 ELSE {}

\* The layers of the passing run are ones ConvolveProofs!FittingLayers asks for.
ASSUME PassingLayers ==
  Shapes = "fitting" =>
    /\ \A l \in MCLayers1x1 :
         l.px = 0 /\ l.py = 0 => l.sx = 1 /\ l.ow <= l.iw /\ (l.oh - 1) * l.sy < l.ih
    /\ \A l \in MCLayers :
      /\ /\ l.px = 0 /\ l.py = 0 /\ l.c % 4 = 0
         /\ l.sx = 1 /\ l.sy = 1 /\ l.kw = 1 /\ l.kh = 1 /\ l.dx = 1 /\ l.dy = 1
         => l.oh = l.ih /\ l.ow = l.iw
      /\ "vector" \in Builds /\ l.ih = 1 /\ l.ow % 4 = 0 /\ l.dx = 1
         => l.kh = 1 /\ l.py = 0 /\ l.oh = 1
=============================================================================
