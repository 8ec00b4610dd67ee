----------------------------- MODULE MCRouting -----------------------------
(* Model-checking instance of Routing: the seconds are scaled down, their order kept. *)
EXTENDS Routing, TLC

CONSTANTS r1, r2, r3, k1, l1, l2, l3, l4, a1

MCSecs == [reason \in Reasons |-> 1]

MCLadder == <<1, 2>>
=============================================================================
