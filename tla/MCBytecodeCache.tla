--------------------------- MODULE MCBytecodeCache ---------------------------
(* Three processes, two contents, two versions; one temporary file may be  *)
(* left behind.                                                            *)
EXTENDS BytecodeCache, TLC
CONSTANTS p1, p2, p3, s1, s2, m1, m2
MCProcs   == {p1, p2, p3}
MCSources == {s1, s2}
MCMagics  == {m1, m2}
Symmetry  == Permutations(Procs) \cup Permutations(Sources)
                \cup Permutations(Magics)
=============================================================================
