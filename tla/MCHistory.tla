----------------------------- MODULE MCHistory -----------------------------
(* Model-checking instance of History: one session, and two providers to move it between. *)
EXTENDS History

CONSTANTS s1, openai, cm
=============================================================================
