--------------------------- MODULE MCTokenRefresh ---------------------------
(* Model-checking instance of TokenRefresh: two callers of one account. *)
EXTENDS TokenRefreshSerial

CONSTANTS c1, c2, a1
=============================================================================
