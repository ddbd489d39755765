---------------------------- MODULE MCMarcoVault ----------------------------
(***************************************************************************)
(* Model checking of MarcoVault: depositors are interchangeable.           *)
(***************************************************************************)
EXTENDS MarcoVault, TLC

Symmetry == Permutations(Holders)
=============================================================================
