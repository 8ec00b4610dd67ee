----------------------------- MODULE MCGateway -----------------------------
(* Model-checking instances of Gateway. *)
EXTENDS Gateway, TLC

CONSTANTS r1, r2, a1, a2

P(route, anthropic, conv) == [route |-> route, anthropic |-> anthropic, conv |-> conv]

\* Every route, protocol and way of binding a conversation
MCPlans == {P("account", FALSE, "native"), P("account", TRUE, "cacheOnly"),
            P("hybrid", TRUE, "cache"), P("aggregate", FALSE, "none")}

\* The plan of the run that shows a consumed request
OnePlan == {P("account", FALSE, "none")}

\* The plan of the run that shows a hybrid request with exhausted accounts
HybridPlan == {P("hybrid", FALSE, "none")}
=============================================================================
