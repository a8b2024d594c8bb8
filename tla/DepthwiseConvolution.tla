------------------------ MODULE DepthwiseConvolution ------------------------
(***************************************************************************)
(* What an s8 depthwise convolution promises: every element of the output  *)
(* tensor is computed once, from the values under its window in the input  *)
(* channel it belongs to, with the bias and the quantization of its own    *)
(* output channel.                                                         *)
(*                                                                         *)
(* A sum of products is the set of pairs <<weight, value>> it multiplies:  *)
(* the weight an index of the flat [HK, WK, C_OUT] filter, the value one   *)
(* of the flat [N, H, W, C_IN] input.  Padding contributes no pair.        *)
(***************************************************************************)
EXTENDS Integers

CONSTANTS Undefined,   \* an element not computed yet
          NoBias       \* the layer has no bias

VARIABLES layer, output

vars == <<layer, output>>

OutCh == layer.c * layer.mult

Outputs == [batch : 0 .. layer.n - 1, y : 0 .. layer.oh - 1,
            x : 0 .. layer.ow - 1, ch : 0 .. OutCh - 1]

Taps == (0 .. layer.kh - 1) \X (0 .. layer.kw - 1)

TapY(o, tap) == layer.sy * o.y - layer.py + layer.dy * tap[1]
TapX(o, tap) == layer.sx * o.x - layer.px + layer.dx * tap[2]

Window(o) ==
  { tap \in Taps : /\ TapY(o, tap) \in 0 .. layer.ih - 1
                   /\ TapX(o, tap) \in 0 .. layer.iw - 1 }

Value(o) ==
  [quant |-> o.ch,
   bias  |-> IF layer.bias THEN o.ch ELSE NoBias,
   sum   |-> { <<(tap[1] * layer.kw + tap[2]) * OutCh + o.ch,
                 ((o.batch * layer.ih + TapY(o, tap)) * layer.iw + TapX(o, tap)) * layer.c
                   + (o.ch \div layer.mult)>> : tap \in Window(o) }]

Init == output = [o \in Outputs |-> Undefined]

\* Some of the missing outputs get their value; no other element changes.
Compute ==
  /\ \A o \in Outputs :
       \/ output'[o] = output[o]
       \/ output[o] = Undefined /\ output'[o] = Value(o)
  /\ UNCHANGED layer

Spec == Init /\ [][Compute]_vars

\* Every element has its value.
Complete == \A o \in Outputs : output[o] = Value(o)

\* The layer finishes.
Completes == <>(\A o \in Outputs : output[o] # Undefined)
=============================================================================
