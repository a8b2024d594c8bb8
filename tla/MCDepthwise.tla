----------------------------- MODULE MCDepthwise -----------------------------
(***************************************************************************)
(* Layers for DepthwiseS8.  The output size and the padding follow from    *)
(* the other parameters the way TensorFlow computes them: SAME pads, VALID *)
(* does not.                                                               *)
(***************************************************************************)
EXTENDS DepthwiseS8

CONSTANT Shapes   \* which layers, see below

OutSize(same, in, k, s, d) ==
  IF same THEN (in + s - 1) \div s ELSE (in - (k - 1) * d - 1 + s) \div s

Pad(same, in, k, s, d) ==
  IF same
  THEN Larger(0, (OutSize(same, in, k, s, d) - 1) * s + (k - 1) * d + 1 - in) \div 2
  ELSE 0

MakeLayer(n, c, mult, h, w, k, s, d, same, bias) ==
  [n |-> n, c |-> c, mult |-> mult, ih |-> h, iw |-> w, kh |-> k[1], kw |-> k[2],
   sx |-> s, sy |-> s, dx |-> d, dy |-> d,
   py |-> Pad(same, h, k[1], s, d), px |-> Pad(same, w, k[2], s, d),
   oh |-> OutSize(same, h, k[1], s, d), ow |-> OutSize(same, w, k[2], s, d),
   bias |-> bias]

MakeLayers(ns, cs, mults, hs, ws, ks, ss, ds, biases) ==
  { l \in { MakeLayer(n, c, mult, h, w, k, s, d, same, bias) :
              n \in ns, c \in cs, mult \in mults, h \in hs, w \in ws, k \in ks, s \in ss,
              d \in ds, same \in BOOLEAN, bias \in biases } :
      l.oh > 0 /\ l.ow > 0 }

\* One block of channels, every number of leftover windows; 3x3 windows inside,
\* at the edges and wider than the image, four channels and less.
OneBlock ==
  MakeLayers({1}, {1, 3, 4}, {1}, {2}, {1, 3}, {<<1, 1>>, <<2, 2>>}, {1, 2}, {1}, BOOLEAN)
    \cup MakeLayers({1}, {2}, {1}, {1, 3}, {1, 2, 3, 4}, {<<3, 3>>}, {1, 2, 3}, {1}, {TRUE})
    \cup MakeLayers({1}, {3}, {1}, {2}, {2}, {<<2, 3>>}, {1}, {1}, {TRUE})

\* Layers for the basic kernel: batches, dilation, channel multipliers.
Basic ==
  MakeLayers({1, 2}, {2}, {1, 2, 4}, {3}, {2, 4}, {<<2, 2>>}, {1, 2}, {1, 2}, BOOLEAN)
    \cup MakeLayers({1, 2}, {1}, {8}, {2}, {2}, {<<3, 3>>}, {1}, {1}, BOOLEAN)

\* More channels than a block has, and no leftover windows.
Blocks ==
  { l \in MakeLayers({1}, {5, 6, 8, 9}, {1}, {2}, {2, 4}, {<<2, 2>>, <<3, 3>>}, {1}, {1}, {TRUE}) :
      (l.oh * l.ow) % 4 = 0 }

\* More channels than a block has, and leftover windows.
BlocksLeftover ==
  { l \in MakeLayers({1}, {5, 6}, {1}, {2}, {1, 3}, {<<1, 1>>, <<2, 2>>}, {1}, {1}, {TRUE}) :
      (l.oh * l.ow) % 4 # 0 }

MCLayers == CASE Shapes = "blocks_flushed"  -> OneBlock \cup Basic \cup Blocks
              [] Shapes = "blocks_leftover" -> BlocksLeftover

\* The layers of the passing run are ones DepthwiseProofs!FittingLayers asks for.
ASSUME FlushedLayers ==
  Shapes = "blocks_flushed" =>
    \A l \in MCLayers :
      l.mult = 1 /\ l.n = 1 /\ l.dx = 1 /\ l.dy = 1 =>
        /\ Builds # {"vector"} /\ l.kw = 3 /\ l.kh = 3 /\ l.px <= 1 /\ l.py <= 1
             => l.bias /\ (l.ow - 1) * l.sx - l.px + 1 < l.iw
        /\ "vector" \in Builds
             => l.c <= CH_IN_BLOCK_MVE \/ (l.bias /\ (l.oh * l.ow) % 4 = 0)
=============================================================================
