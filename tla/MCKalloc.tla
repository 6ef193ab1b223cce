------------------------------ MODULE MCKalloc -------------------------------
(* Instances of Kalloc for TLC.                                            *)
EXTENDS Kalloc, TLC

Symmetry == Permutations(Page) \cup Permutations(Thread) \cup Permutations(Slot)
==============================================================================
