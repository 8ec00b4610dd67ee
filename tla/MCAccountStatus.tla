------------------------- MODULE MCAccountStatus --------------------------
(* Model-checking instance of AccountStatus. *)
EXTENDS AccountStatus, TLC

CONSTANTS a1, t1, t2, c1

Symmetry == Permutations(Threads)
=============================================================================
