---------------------------- MODULE Convolution ----------------------------
(***************************************************************************)
(* What an s8 convolution promises: every element of the output tensor is  *)
(* computed once, from the pixels under its window, and eventually all of  *)
(* them are.  In which order, by which kernel and through which scratch    *)
(* buffer is left open.                                                    *)
(*                                                                         *)
(* A sum of products is the set of pairs <<weight, pixel>> it multiplies,  *)
(* each an index in units of input_ch values: the weight in the flat       *)
(* [C_OUT, HK, WK] filter, the pixel in the flat [N, H, W] input.  Padding *)
(* contributes zero, so it contributes no pair.                            *)
(***************************************************************************)
EXTENDS Integers

CONSTANT Undefined

VARIABLES layer, output

vars == <<layer, output>>

Outputs == [batch : 0 .. layer.n - 1, y : 0 .. layer.oh - 1,
            x : 0 .. layer.ow - 1, ch : 0 .. layer.oc - 1]

Taps == (0 .. layer.kh - 1) \X (0 .. layer.kw - 1)

\* Row and column of the input pixel tap <<ky, kx>> of output o falls on.
TapY(o, tap) == layer.sy * o.y - layer.py + layer.dy * tap[1]
TapX(o, tap) == layer.sx * o.x - layer.px + layer.dx * tap[2]

Inside(y, x) == y \in 0 .. layer.ih - 1 /\ x \in 0 .. layer.iw - 1

Window(o) ==
  { <<(o.ch * layer.kh + tap[1]) * layer.kw + tap[2],
      (o.batch * layer.ih + TapY(o, tap)) * layer.iw + TapX(o, tap)>> :
    tap \in {t \in Taps : Inside(TapY(o, t), TapX(o, t))} }

Missing == {o \in Outputs : output[o] = Undefined}

Init == output = [o \in Outputs |-> Undefined]

\* Some of the missing outputs get their value; no other element changes.
Compute ==
  /\ \A o \in Outputs :
       \/ output'[o] = output[o]
       \/ output[o] = Undefined /\ output'[o] = Window(o)
  /\ UNCHANGED layer

Spec == Init /\ [][Compute]_vars

\* Every output is the one it should be.
Complete == \A o \in Outputs : output[o] = Window(o)

\* The layer finishes.
Completes == <>(Missing = {})
=============================================================================
