---------------------------- MODULE MCMarcoSpot ----------------------------
(***************************************************************************)
(* Model checking of MarcoSpot: the traders are interchangeable.           *)
(***************************************************************************)
EXTENDS MarcoSpot, TLC

Symmetry == Permutations(Traders)
=============================================================================
