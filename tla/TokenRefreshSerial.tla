------------------------- MODULE TokenRefreshSerial -------------------------
(***************************************************************************)
(* TokenRefresh implements SerialRefresh.  The exchange an account sees is *)
(* that of the call which holds its lock, from the moment the call has     *)
(* read the row again and goes on with its own token.                      *)
(***************************************************************************)
EXTENDS TokenRefresh

\* The token of the call that exchanges one of a's, and the answer it has in hand
Using(a) ==
  IF lock[a] # Nobody /\ pc[lock[a]] \in Critical \ {"reread"} THEN orig[lock[a]] ELSE NoRow

AnswerFor(a) ==
  IF lock[a] # Nobody /\ pc[lock[a]] = "persist" THEN tok[lock[a]] ELSE NoRow

Serial == INSTANCE SerialRefresh WITH
  None <- NoRow,
  row <- store,
  using <- [a \in Accounts |-> Using(a)],
  answer <- [a \in Accounts |-> AnswerFor(a)]

\* Whatever the interleaving of callers, logins, deletions and crashes, an account's
\* tokens are exchanged one after the other: a call that waited for the lock exchanges
\* the token of the row as it finds it then, and no two answers are ever in hand.
RefreshIsSerial == Serial!Spec
=============================================================================
