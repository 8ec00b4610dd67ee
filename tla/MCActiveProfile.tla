-------------------------- MODULE MCActiveProfile --------------------------
(***************************************************************************)
(* Model-checking instances of ActiveProfile: two accounts with ChatGPT    *)
(* ids of their own, and two that show the same id, as two users or two    *)
(* workspaces of one organisation do.                                      *)
(***************************************************************************)
EXTENDS ActiveProfile, TLC

CONSTANTS a1, a2, t1, t2, x1, x2

OwnIds == a1 :> x1 @@ a2 :> x2
SharedIds == a1 :> x1 @@ a2 :> x1
ThreadSymmetry == Permutations({t1, t2})
=============================================================================
