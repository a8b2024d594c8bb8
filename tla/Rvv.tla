-------------------------------- MODULE Rvv --------------------------------
(***************************************************************************)
(* The one instruction of the RISC-V vector extension the vector kernels   *)
(* depend on for control flow: vsetvl.  The kernels call it as vsetvl_eXmY *)
(* (see Include/muriscv_nn_util.h and the intrinsics header) and use the   *)
(* returned vl as the stride of their strip-mining loops, so a model needs *)
(* every value the architecture lets it return.                            *)
(***************************************************************************)
EXTENDS Integers

(***************************************************************************)
(* The set of vector lengths vsetvl may return for the application vector  *)
(* length avl when the register group holds vlmax elements.  Between vlmax *)
(* and 2*vlmax an implementation is free to balance the last two strips.   *)
(***************************************************************************)
Vsetvl(avl, vlmax) ==
  { vl \in 0 .. vlmax :
      \/ avl <= vlmax /\ vl = avl
      \/ vlmax < avl /\ avl < 2 * vlmax /\ 2 * vl >= avl
      \/ 2 * vlmax <= avl /\ vl = vlmax }
=============================================================================
