---------------------------- MODULE SerialRefresh ----------------------------
(***************************************************************************)
(* What TokenRefresh promises an account: however many callers there are,  *)
(* its tokens are exchanged as if by one.  An exchange takes the token the *)
(* row has at that moment, or any it was ever given when the row is gone;  *)
(* until it has stored the answer or given up there is no other, and       *)
(* nothing but a login or a deletion touches the row.                      *)
(***************************************************************************)
EXTENDS Naturals

CONSTANTS Accounts, None, MaxIssued

VARIABLES
  row,       \* account -> its row
  using,     \* account -> the token being exchanged
  answer,    \* account -> the answer not stored yet
  issued, live, orphaned

vars == <<row, using, answer, issued, live, orphaned>>

Init ==
  /\ row = [a \in Accounts |-> [access |-> 0, refresh |-> 0]]
  /\ using = [a \in Accounts |-> None]
  /\ answer = [a \in Accounts |-> None]
  /\ issued = [a \in Accounts |-> 0]
  /\ live = [a \in Accounts |-> {0}]
  /\ orphaned = [a \in Accounts |-> {}]

Start(a) ==
  /\ using[a] = None
  /\ \E t \in [access : 0..issued[a], refresh : 0..issued[a]] :
       /\ row[a] \in {None, t}
       /\ using' = [using EXCEPT ![a] = t]
  /\ UNCHANGED <<row, answer, issued, live, orphaned>>

\* Upstream accepts the token in use, and may replace it.
Spend(a, rotate) ==
  /\ using[a] # None /\ answer[a] = None
  /\ using[a].refresh \in live[a]
  /\ issued[a] < MaxIssued
  /\ issued' = [issued EXCEPT ![a] = @ + 1]
  /\ live' = IF rotate THEN [live EXCEPT ![a] = (@ \ {using[a].refresh}) \cup {issued[a] + 1}]
                       ELSE live

Exchange(a) ==
  /\ \E rotate \in BOOLEAN :
       /\ Spend(a, rotate)
       /\ answer' = [answer EXCEPT ![a] =
            [access |-> issued[a] + 1,
             refresh |-> IF rotate THEN issued[a] + 1 ELSE using[a].refresh]]
  /\ UNCHANGED <<row, using, orphaned>>

LoseAnswer(a) ==
  /\ Spend(a, TRUE)
  /\ orphaned' = [orphaned EXCEPT ![a] = @ \cup {using[a].refresh}]
  /\ using' \in {using, [using EXCEPT ![a] = None]}
  /\ UNCHANGED <<row, answer>>

GiveUp(a) ==
  /\ using[a] # None /\ answer[a] = None
  /\ using' = [using EXCEPT ![a] = None]
  /\ UNCHANGED <<row, answer, issued, live, orphaned>>

Store(a) ==
  /\ answer[a] # None /\ row[a] # None
  /\ row' = [row EXCEPT ![a] = answer[a]]
  /\ using' = [using EXCEPT ![a] = None]
  /\ answer' = [answer EXCEPT ![a] = None]
  /\ UNCHANGED <<issued, live, orphaned>>

\* The refresh token whose successor goes with the answer
Wasted(a) == IF answer[a] = None THEN {} ELSE {using[a].refresh} \ live[a]

DropAnswer(a) ==
  /\ answer[a] # None
  /\ orphaned' = [orphaned EXCEPT ![a] = @ \cup Wasted(a)]
  /\ using' = [using EXCEPT ![a] = None]
  /\ answer' = [answer EXCEPT ![a] = None]
  /\ UNCHANGED <<row, issued, live>>

Login(a) ==
  LET new == issued[a] + 1 IN
  /\ issued[a] < MaxIssued
  /\ issued' = [issued EXCEPT ![a] = new]
  /\ live' = [live EXCEPT ![a] = @ \cup {new}]
  /\ row' = [row EXCEPT ![a] = [access |-> new, refresh |-> new]]
  /\ UNCHANGED <<using, answer, orphaned>>

Delete(a) ==
  /\ row' = [row EXCEPT ![a] = None]
  /\ UNCHANGED <<using, answer, issued, live, orphaned>>

Crash ==
  /\ orphaned' = [a \in Accounts |-> orphaned[a] \cup Wasted(a)]
  /\ using' = [a \in Accounts |-> None]
  /\ answer' = [a \in Accounts |-> None]
  /\ UNCHANGED <<row, issued, live>>

Next ==
  \/ \E a \in Accounts :
       \/ Start(a) \/ Exchange(a) \/ LoseAnswer(a) \/ GiveUp(a) \/ Store(a) \/ DropAnswer(a)
       \/ Login(a) \/ Delete(a)
  \/ Crash

Spec == Init /\ [][Next]_vars
=============================================================================
