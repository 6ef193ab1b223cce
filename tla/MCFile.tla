------------------------------- MODULE MCFile --------------------------------
(* Instances of File for TLC.                                              *)
EXTENDS File, TLC

Symmetry == Permutations(Proc)
==============================================================================
