-------------------------------- MODULE MCLog --------------------------------
(* Instances of Log for TLC.                                               *)
EXTENDS Log, TLC

(* Calls of two blocks, one at a time, and calls of one block, in groups:  *)
(* both come as near to the end of the log as SizeAssumption lets them.    *)
MCBuilds ==
    {[MAXOPBLOCKS |-> 3, LOGSIZE |-> 4, NLOG |-> 4, OPBLOCKS |-> 2],
     [MAXOPBLOCKS |-> 2, LOGSIZE |-> 4, NLOG |-> 4, OPBLOCKS |-> 1]}

Symmetry == Permutations(Proc) \cup Permutations(Block) \cup Permutations(Val)
==============================================================================
