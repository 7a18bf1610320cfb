--------------------------- MODULE MCAccountStatus ---------------------------
(* Two threads over two accounts.                                           *)
EXTENDS AccountStatus, TLC

Symmetry == Permutations(Accounts) \cup Permutations(Threads)
=============================================================================
