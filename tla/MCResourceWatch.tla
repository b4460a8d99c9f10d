-------------------------- MODULE MCResourceWatch --------------------------
(***************************************************************************)
(* ResourceWatch in two deployments.                                       *)
(***************************************************************************)
EXTENDS ResourceWatch, TLC

CONSTANTS w1, w2, a1, a2
=============================================================================
