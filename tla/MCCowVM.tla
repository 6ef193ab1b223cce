------------------------------ MODULE MCCowVM --------------------------------
(* Instances of CowVM for TLC: pages are numbers.                        *)
EXTENDS CowVM, TLC

CONSTANT NPages   \* number of physical pages

MCPage == 1..NPages

Low == 0..(NPAGE - 1)     \* addresses below MAXVA
Ends == {0, NPAGE}        \* the lowest page, and an address above MAXVA

Children == Permutations(Proc \ {InitProc})
==============================================================================
