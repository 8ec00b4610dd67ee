--------------------------- MODULE MCUsageRefresh ---------------------------
(***************************************************************************)
(* Model-checking instance of the two executors of usage refreshes, which  *)
(* run side by side: the queue of single accounts (RefreshQueue) and the   *)
(* polling loop (UsagePoll).                                               *)
(***************************************************************************)
EXTENDS RefreshQueue, UsagePoll

CONSTANTS r1, r2, w1, w2, a1, a2, p1, p2, p3

MCOrder == <<p1, p2, p3>>

BothInit == Init /\ PollInit

BothNext ==
  \/ Next /\ UNCHANGED pollVars
  \/ PollNext /\ UNCHANGED vars

BothSpec ==
  BothInit /\ [][BothNext]_<<vars, pollVars>> /\ Fairness /\ PollFairness
=============================================================================
