---------------------------- MODULE MCMpscMemory ----------------------------
EXTENDS MpscMemory, TLC

\* Producers run the same code.
Symmetry == Permutations(Producers)
=============================================================================
