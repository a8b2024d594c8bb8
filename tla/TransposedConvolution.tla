----------------------- MODULE TransposedConvolution -----------------------
(***************************************************************************)
(* What a transposed convolution promises: every input pixel spreads its   *)
(* window over the output, and every element of the output is, once, the   *)
(* sum of all that falls on it.                                            *)
(*                                                                         *)
(* A sum is a record: what it started from, the <<weight, value>> products *)
(* in it and how many additions put them there, so that a product added    *)
(* twice is not mistaken for one.  The weight is an index of the flat      *)
(* [C_OUT, HK, WK, C_IN] filter, the value one of the flat [N, H, W, C_IN] *)
(* input.                                                                  *)
(***************************************************************************)
EXTENDS Integers, FiniteSets

CONSTANTS Undefined,   \* an element not computed yet
          NoBias       \* the layer has no bias

VARIABLES layer, output

vars == <<layer, output>>

Outputs == [batch : 0 .. layer.n - 1, y : 0 .. layer.oh - 1,
            x : 0 .. layer.ow - 1, ch : 0 .. layer.oc - 1]

\* An input pixel and a kernel element of its window.
Spreads == [y : 0 .. layer.ih - 1, x : 0 .. layer.iw - 1,
            ky : 0 .. layer.kh - 1, kx : 0 .. layer.kw - 1]

FallsOn(s, o) ==
  /\ s.y * layer.sy - layer.py + s.ky = o.y
  /\ s.x * layer.sx - layer.px + s.kx = o.x

Products(o) ==
  { <<((o.ch * layer.kh + p[1].ky) * layer.kw + p[1].kx) * layer.c + p[2],
      ((o.batch * layer.ih + p[1].y) * layer.iw + p[1].x) * layer.c + p[2]>> :
    p \in {s \in Spreads : FallsOn(s, o)} \X (0 .. layer.c - 1) }

Value(o) ==
  [quant |-> o.ch,
   start |-> IF layer.bias THEN o.ch ELSE NoBias,
   sum   |-> Products(o),
   adds  |-> Cardinality(Products(o))]

Init == output = [o \in Outputs |-> Undefined]

\* Some of the missing outputs get their value; no other element changes.
Compute ==
  /\ \A o \in Outputs :
       \/ output'[o] = output[o]
       \/ output[o] = Undefined /\ output'[o] = Value(o)
  /\ UNCHANGED layer

Spec == Init /\ [][Compute]_vars

\* Every element has its value.
Complete == \A o \in Outputs : output[o] = Value(o)

\* The layer finishes.
Completes == <>(\A o \in Outputs : output[o] # Undefined)
=============================================================================
