---------------------------- MODULE MCSagaRunner ----------------------------
(***************************************************************************)
(* Model checking of SagaRunner: the workers are interchangeable.          *)
(***************************************************************************)
EXTENDS SagaRunner, TLC

Symmetry == Permutations(Workers)
=============================================================================
