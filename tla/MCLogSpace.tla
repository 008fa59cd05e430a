----------------------------- MODULE MCLogSpace -----------------------------
EXTENDS LogSpace, TLC

Symmetry == Permutations(Procs)
=============================================================================
