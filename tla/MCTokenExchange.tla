-------------------------- MODULE MCTokenExchange --------------------------
EXTENDS TokenExchange, TLC
Symmetry == Permutations(Threads)
=============================================================================
