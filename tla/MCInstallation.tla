---------------------------- MODULE MCInstallation -----------------------------
EXTENDS Installation, TLC

CONSTANTS p1, p2, a

Symmetry == Permutations(Procs)
=============================================================================
