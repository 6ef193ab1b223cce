--------------------------------- MODULE MCFs --------------------------------
(* Two processes, the names a and b, and the paths /a, /b and /a/b.        *)
EXTENDS Fs, TLC

CONSTANTS p1, p2, a, b

Procs == {p1, p2}

Names == {a, b}

ShortPaths == {<<a>>, <<b>>, <<a, b>>}

Sym == Permutations(Procs)
==============================================================================
