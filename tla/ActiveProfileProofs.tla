------------------------- MODULE ActiveProfileProofs -------------------------
(***************************************************************************)
(* For every set of accounts and threads, and whichever accounts share a   *)
(* ChatGPT id: what a thread is about to store shows the id of the account *)
(* it works on (OwnToken), because it was read from that account's row,    *)
(* issued to the owner of such a token, or read from auth.json and matched.*)
(* While nobody switches and usage requests are accepted, the active       *)
(* profile's token is not consumed either (ProfileStaysUsable).            *)
(***************************************************************************)
EXTENDS ActiveProfile, FiniteSetTheorems, TLAPS

\* Steps at which a thread's token is one it may store or write to auth.json.
Carrying == {"exclude", "usage", "refresh", "persist", "existing", "store", "auth"}

OwnToken ==
  \A t \in Threads :
    call[t] # None /\ call[t].step \in Carrying =>
      call[t].tok \in Token /\ Matches(call[t].acct, call[t].tok)

SnapshotTaken ==
  \A t \in Threads :
    call[t] # None /\ call[t].step \in {"marker", "verify", "undoAuth", "undoMarker"}
      => call[t].was # None

IInv ==
  /\ TypeOK
  /\ OwnToken
  /\ SnapshotTaken
  /\ CredentialsStayWithAccount

-----------------------------------------------------------------------------
LEMMA FreshType ==
  ASSUME issued \in Nat, NEW a \in Accounts
  PROVE  Fresh(a) \in Token /\ Fresh(a).owner = a
  BY DEF Fresh, Token

LEMMA InitInv == Init => IInv
<1> SUFFICES ASSUME Init PROVE IInv
  OBVIOUS
<1>0. PICK number \in [Accounts -> 1 .. Cardinality(Accounts)] :
        row = [a \in Accounts |-> [owner |-> a, n |-> number[a]]]
  BY DEF Init
<1>1. \A a \in Accounts : number[a] \in Nat
  OBVIOUS
<1>2. row \in [Accounts -> Token] /\ \A a \in Accounts : Matches(a, row[a])
  BY <1>0, <1>1 DEF Token, Matches
<1>3. issued \in Nat /\ live \subseteq Nat
  <2>1. Cardinality(Accounts) \in Nat
    BY AccountsAssumption, FS_CardinalityType
  <2> QED
    BY <2>1 DEF Init
<1> QED
  BY <1>2, <1>3 DEF Init, IInv, TypeOK, OwnToken, SnapshotTaken, CredentialsStayWithAccount

\* A thread's own step keeps the other threads' calls as they are.
LEMMA OthersKept ==
  ASSUME IInv, NEW t \in Threads,
         call' \in [Threads -> Call \cup {None}],
         \A u \in Threads \ {t} : call'[u] = call[u],
         call'[t] # None /\ call'[t].step \in Carrying =>
           call'[t].tok \in Token /\ Matches(call'[t].acct, call'[t].tok),
         call'[t] # None /\ call'[t].step \in {"marker", "verify", "undoAuth", "undoMarker"}
           => call'[t].was # None
  PROVE  OwnToken' /\ SnapshotTaken'
  BY DEF IInv, OwnToken, SnapshotTaken

LEMMA GoToKeeps ==
  ASSUME IInv, NEW t \in Threads, NEW step \in Steps \cup {"done"}, call[t] # None,
         GoTo(t, step),
         step \in Carrying => call[t].tok \in Token /\ Matches(call[t].acct, call[t].tok),
         step \in {"marker", "verify", "undoAuth", "undoMarker"} => call[t].was # None
  PROVE  call' \in [Threads -> Call \cup {None}] /\ OwnToken' /\ SnapshotTaken'
<1>1. call' \in [Threads -> Call \cup {None}]
  BY DEF GoTo, IInv, TypeOK, Call
<1>2. \A u \in Threads \ {t} : call'[u] = call[u]
  BY DEF GoTo, IInv, TypeOK
<1>3. call'[t] # None => call'[t].step = step /\ call'[t].tok = call[t].tok
                         /\ call'[t].acct = call[t].acct /\ call'[t].was = call[t].was
  BY DEF GoTo, IInv, TypeOK, Call
<1> QED
  BY <1>1, <1>2, <1>3, OthersKept

LEMMA GoWithKeeps ==
  ASSUME IInv, NEW t \in Threads, NEW step \in Steps \cup {"done"}, call[t] # None,
         NEW token \in Token, GoWith(t, step, token),
         step \in Carrying => Matches(call[t].acct, token),
         step \notin {"marker", "verify", "undoAuth", "undoMarker"}
  PROVE  call' \in [Threads -> Call \cup {None}] /\ OwnToken' /\ SnapshotTaken'
<1>1. call' \in [Threads -> Call \cup {None}]
  BY DEF GoWith, IInv, TypeOK, Call
<1>2. \A u \in Threads \ {t} : call'[u] = call[u]
  BY DEF GoWith, IInv, TypeOK
<1>3. call'[t] # None => call'[t].step = step /\ call'[t].tok = token
                         /\ call'[t].acct = call[t].acct /\ call'[t].was = call[t].was
  BY DEF GoWith, IInv, TypeOK, Call
<1> QED
  BY <1>1, <1>2, <1>3, OthersKept

LEMMA TakeKeeps ==
  ASSUME IInv, NEW t \in Threads, NEW kind \in Jobs, NEW a \in Accounts, NEW step \in Steps,
         NEW token \in Token \cup {None}, Take(t, kind, a, step, token),
         step \in Carrying => token \in Token /\ Matches(a, token),
         step \notin {"marker", "verify", "undoAuth", "undoMarker"}
  PROVE  call' \in [Threads -> Call \cup {None}] /\ OwnToken' /\ SnapshotTaken'
<1>1. call' \in [Threads -> Call \cup {None}]
  BY DEF Take, IInv, TypeOK, Call
<1>2. \A u \in Threads \ {t} : call'[u] = call[u]
  BY DEF Take, IInv, TypeOK
<1>3. call'[t].step = step /\ call'[t].tok = token /\ call'[t].acct = a
  BY DEF Take, IInv, TypeOK
<1> QED
  BY <1>1, <1>2, <1>3, OthersKept

\* A switch or a refused request ends the quiet for good.
LEMMA QuietEnds == [Next]_vars => quiet' = quiet \/ quiet' = FALSE
  BY DEF Next, ThreadStep, vars, ListDue, PollUsage, StartSync, StartSwitch, ExcludeActive,
         UsageAnswered, AdoptLatest, Exchange, RefreshFails, Persist, SyncStatus, SyncRead,
         SyncCompare, SyncStore, CopyAfterSync, WriteAuth, WriteMarker, VerifySwitch,
         UndoAuth, UndoMarker, CliStart, CliRotate, CliLogin, Login

LEMMA NextInv == IInv /\ [Next]_vars => IInv'
<1> SUFFICES ASSUME IInv, [Next]_vars PROVE IInv'
  OBVIOUS
<1> USE DEF managed, upstream
<1> DEFINE Calls == call' \in [Threads -> Call \cup {None}] /\ OwnToken' /\ SnapshotTaken'
           Rest == /\ row' \in [Accounts -> Token] /\ auth' \in Token /\ selected' \in Accounts
                   /\ cli' \in Token \cup {None} /\ issued' \in Nat /\ live' \subseteq Nat
                   /\ \A a \in Accounts : Matches(a, row'[a])
<1>b. quiet' \in BOOLEAN
  BY QuietEnds DEF IInv, TypeOK
<1>q. Calls /\ Rest => IInv'
  BY <1>b DEF IInv, TypeOK, CredentialsStayWithAccount
<1>s. UNCHANGED <<managed, cli, upstream>> => Rest
  BY DEF IInv, TypeOK, CredentialsStayWithAccount
<1>c. UNCHANGED call => Calls
  BY DEF IInv, TypeOK, OwnToken, SnapshotTaken
<1>t. ASSUME NEW t \in Threads, call[t] # None
      PROVE  /\ call[t] \in Call /\ call[t].acct \in Accounts /\ row[call[t].acct] \in Token
             /\ Matches(call[t].acct, row[call[t].acct])
             /\ call[t].step \in Carrying =>
                  call[t].tok \in Token /\ Matches(call[t].acct, call[t].tok)
             /\ call[t].step \in {"marker", "verify", "undoAuth", "undoMarker"}
                  => call[t].was \in [auth: Token, selected: Accounts]
  BY <1>t DEF IInv, TypeOK, Call, OwnToken, SnapshotTaken, CredentialsStayWithAccount
<1>i. ASSUME Issue PROVE issued' \in Nat /\ issued + 1 \in Nat /\ issued' = issued + 1
  BY <1>i DEF Issue, IInv, TypeOK
<1>1. ASSUME NEW t \in Threads, ExcludeActive(t) PROVE IInv'
  <2>1. Calls
    BY <1>1, <1>t, GoToKeeps DEF ExcludeActive, At, Steps, SyncSteps, SwitchSteps, Carrying
  <2>2. Rest
    BY <1>1, <1>s DEF ExcludeActive
  <2> QED
    BY <1>q, <2>1, <2>2
<1>2. ASSUME NEW t \in Threads, UsageAnswered(t) PROVE IInv'
  <2>1. Calls
    BY <1>2, <1>t, GoToKeeps DEF UsageAnswered, At, Steps, SyncSteps, SwitchSteps, Carrying
  <2>2. Rest
    BY <1>2, <1>s DEF UsageAnswered
  <2> QED
    BY <1>q, <2>1, <2>2
<1>3. ASSUME NEW t \in Threads, RefreshFails(t) PROVE IInv'
  <2>1. Calls
    BY <1>3, <1>t, GoToKeeps DEF RefreshFails, Reread, At, Steps, SyncSteps, SwitchSteps, Carrying
  <2>2. Rest
    BY <1>3, <1>s DEF RefreshFails
  <2> QED
    BY <1>q, <2>1, <2>2
<1>4. ASSUME NEW t \in Threads, SyncStatus(t) PROVE IInv'
  <2>1. Calls
    BY <1>4, <1>t, GoToKeeps DEF SyncStatus, AfterSync, At, Steps, SyncSteps, SwitchSteps, Carrying
  <2>2. Rest
    BY <1>4, <1>s DEF SyncStatus
  <2> QED
    BY <1>q, <2>1, <2>2
<1>5. ASSUME NEW t \in Threads, SyncCompare(t) PROVE IInv'
  <2>1. Calls
    BY <1>5, <1>t, GoToKeeps DEF SyncCompare, AfterSync, At, Steps, SyncSteps, SwitchSteps, Carrying
  <2>2. Rest
    BY <1>5, <1>s DEF SyncCompare
  <2> QED
    BY <1>q, <2>1, <2>2
<1>6. ASSUME NEW t \in Threads, VerifySwitch(t) PROVE IInv'
  <2>1. Calls
    BY <1>6, <1>t, GoToKeeps, NoneAssumption
      DEF VerifySwitch, At, Steps, SyncSteps, SwitchSteps, Carrying
  <2>2. Rest
    BY <1>6, <1>s DEF VerifySwitch
  <2> QED
    BY <1>q, <2>1, <2>2
<1>7. ASSUME NEW t \in Threads, AdoptLatest(t) PROVE IInv'
  <2>1. Calls
    BY <1>7, <1>t, GoWithKeeps
      DEF AdoptLatest, Reread, AfterRefresh, At, Steps, SyncSteps, SwitchSteps, Carrying
  <2>2. Rest
    BY <1>7, <1>s DEF AdoptLatest
  <2> QED
    BY <1>q, <2>1, <2>2
<1>8. ASSUME NEW t \in Threads, CopyAfterSync(t) PROVE IInv'
  <2>1. Calls
    BY <1>8, <1>t, GoWithKeeps DEF CopyAfterSync, At, Steps, SyncSteps, SwitchSteps, Carrying
  <2>2. Rest
    BY <1>8, <1>s DEF CopyAfterSync
  <2> QED
    BY <1>q, <2>1, <2>2
<1>9. ASSUME NEW t \in Threads, SyncRead(t) PROVE IInv'
  <2>1. Calls
    <3>1. auth \in Token
      BY DEF IInv, TypeOK
    <3> QED
      BY <1>9, <1>t, <3>1, GoWithKeeps
        DEF SyncRead, At, Steps, SyncSteps, SwitchSteps, Carrying
  <2>2. Rest
    BY <1>9, <1>s DEF SyncRead
  <2> QED
    BY <1>q, <2>1, <2>2
<1>10. ASSUME NEW t \in Threads, Exchange(t) PROVE IInv'
  <2>0. /\ call[t] # None /\ call[t].step = "refresh" /\ Issue
        /\ Matches(call[t].acct, call[t].tok) /\ call[t].acct \in Accounts
        /\ call[t].tok \in Token
    BY <1>10, <1>t DEF Exchange, Reread, At, Carrying
  <2>1. Calls
    <3>1. Fresh(call[t].tok.owner) \in Token /\ Matches(call[t].acct, Fresh(call[t].tok.owner))
      BY <2>0, FreshType DEF IInv, TypeOK, Matches, Token
    <3> QED
      BY <1>10, <2>0, <3>1, GoWithKeeps DEF Exchange, Steps, Carrying
  <2>2. Rest
    BY <1>10, <1>i, <2>0 DEF Exchange, IInv, TypeOK, CredentialsStayWithAccount
  <2> QED
    BY <1>q, <2>1, <2>2
<1>11. ASSUME NEW t \in Threads, Persist(t) PROVE IInv'
  <2>0. /\ call[t] # None /\ call[t].acct \in Accounts
        /\ call[t].tok \in Token /\ Matches(call[t].acct, call[t].tok)
    BY <1>11, <1>t DEF Persist, At, Carrying
  <2>1. Calls
    BY <1>11, <2>0, GoToKeeps DEF Persist, AfterRefresh, Steps, SyncSteps, SwitchSteps, Carrying
  <2>2. Rest
    BY <1>11, <2>0 DEF Persist, IInv, TypeOK, CredentialsStayWithAccount
  <2> QED
    BY <1>q, <2>1, <2>2
<1>12. ASSUME NEW t \in Threads, SyncStore(t) PROVE IInv'
  <2>0. /\ call[t] # None /\ call[t].acct \in Accounts
        /\ call[t].tok \in Token /\ Matches(call[t].acct, call[t].tok)
    BY <1>12, <1>t DEF SyncStore, At, Carrying
  <2>1. Calls
    BY <1>12, <2>0, GoToKeeps DEF SyncStore, AfterSync, Steps, SyncSteps, SwitchSteps, Carrying
  <2>2. Rest
    BY <1>12, <2>0 DEF SyncStore, IInv, TypeOK, CredentialsStayWithAccount
  <2> QED
    BY <1>q, <2>1, <2>2
<1>13. ASSUME NEW t \in Threads, WriteAuth(t) PROVE IInv'
  <2>0. call[t] # None /\ call[t].tok \in Token
    BY <1>13, <1>t DEF WriteAuth, At, Carrying
  <2> DEFINE was == [auth |-> auth, selected |-> selected]
  <2>1. was \in [auth: Token, selected: Accounts]
    BY DEF IInv, TypeOK
  <2>2. call' = [call EXCEPT ![t] = [@ EXCEPT !.step = "marker", !.was = was]]
    BY <1>13 DEF WriteAuth, IInv, TypeOK
  <2>3. call' \in [Threads -> Call \cup {None}]
    BY <2>0, <2>1, <2>2 DEF IInv, TypeOK, Call, Steps, SwitchSteps
  <2>4. /\ \A u \in Threads \ {t} : call'[u] = call[u]
        /\ call'[t].step = "marker" /\ call'[t].was = was
    BY <2>0, <2>2 DEF IInv, TypeOK, Call
  <2>5. was # None
    BY <2>1, NoneAssumption
  <2>6. Calls
    BY <2>3, <2>4, <2>5, OthersKept DEF Carrying
  <2>7. Rest
    BY <1>13, <2>0 DEF WriteAuth, IInv, TypeOK, CredentialsStayWithAccount
  <2> QED
    BY <1>q, <2>6, <2>7
<1>14. ASSUME NEW t \in Threads, WriteMarker(t) PROVE IInv'
  <2>0. /\ call[t] # None /\ call[t].acct \in Accounts
        /\ call[t].was \in [auth: Token, selected: Accounts] /\ call[t].was # None
    BY <1>14, <1>t, NoneAssumption DEF WriteMarker, At
  <2>1. Calls
    BY <1>14, <2>0, GoToKeeps DEF WriteMarker, Steps, SwitchSteps, Carrying
  <2>2. Rest
    BY <1>14, <2>0 DEF WriteMarker, IInv, TypeOK, CredentialsStayWithAccount
  <2> QED
    BY <1>q, <2>1, <2>2
<1>15. ASSUME NEW t \in Threads, UndoAuth(t) PROVE IInv'
  <2>0. /\ call[t] # None /\ call[t].acct \in Accounts
        /\ call[t].was \in [auth: Token, selected: Accounts] /\ call[t].was # None
    BY <1>15, <1>t, NoneAssumption DEF UndoAuth, At
  <2>1. Calls
    BY <1>15, <2>0, GoToKeeps DEF UndoAuth, Steps, SwitchSteps, Carrying
  <2>2. Rest
    BY <1>15, <2>0 DEF UndoAuth, IInv, TypeOK, CredentialsStayWithAccount
  <2> QED
    BY <1>q, <2>1, <2>2
<1>16. ASSUME NEW t \in Threads, UndoMarker(t) PROVE IInv'
  <2>0. /\ call[t] # None /\ call[t].acct \in Accounts
        /\ call[t].was \in [auth: Token, selected: Accounts] /\ call[t].was # None
    BY <1>16, <1>t, NoneAssumption DEF UndoMarker, At
  <2>1. Calls
    BY <1>16, <2>0, GoToKeeps DEF UndoMarker, Steps, SwitchSteps, Carrying
  <2>2. Rest
    BY <1>16, <2>0 DEF UndoMarker, IInv, TypeOK, CredentialsStayWithAccount
  <2> QED
    BY <1>q, <2>1, <2>2
<1>17. ASSUME NEW t \in Threads, NEW a \in Accounts, ListDue(t, a) PROVE IInv'
  <2>0. row[a] \in Token /\ Matches(a, row[a])
    BY DEF IInv, TypeOK, CredentialsStayWithAccount
  <2>1. Calls
    BY <1>17, <2>0, TakeKeeps DEF ListDue, Jobs, Background, Steps, Carrying
  <2>2. Rest
    BY <1>17, <1>s DEF ListDue
  <2> QED
    BY <1>q, <2>1, <2>2
<1>18. ASSUME NEW t \in Threads, NEW a \in Accounts, PollUsage(t, a) PROVE IInv'
  <2>0. row[a] \in Token /\ Matches(a, row[a])
    BY DEF IInv, TypeOK, CredentialsStayWithAccount
  <2>1. Calls
    BY <1>18, <2>0, TakeKeeps DEF PollUsage, Jobs, Background, Steps, Carrying
  <2>2. Rest
    BY <1>18, <1>s DEF PollUsage
  <2> QED
    BY <1>q, <2>1, <2>2
<1>19. ASSUME NEW t \in Threads, NEW a \in Accounts, StartSwitch(t, a) PROVE IInv'
  <2>0. row[a] \in Token /\ Matches(a, row[a])
    BY DEF IInv, TypeOK, CredentialsStayWithAccount
  <2>1. Calls
    BY <1>19, <2>0, TakeKeeps DEF StartSwitch, Jobs, Background, Steps, Carrying
  <2>2. Rest
    BY <1>19, <1>s DEF StartSwitch
  <2> QED
    BY <1>q, <2>1, <2>2
<1>20. ASSUME NEW t \in Threads, NEW a \in Accounts, StartSync(t, a) PROVE IInv'
  <2>1. Calls
    BY <1>20, TakeKeeps DEF StartSync, Jobs, Steps, SyncSteps, Carrying
  <2>2. Rest
    BY <1>20, <1>s DEF StartSync
  <2> QED
    BY <1>q, <2>1, <2>2
<1>21. CASE CliStart
  <2>1. Rest
    BY <1>21 DEF CliStart, IInv, TypeOK, CredentialsStayWithAccount
  <2> QED
    BY <1>21, <1>q, <1>c, <2>1 DEF CliStart
<1>22. CASE CliRotate
  <2>0. cli \in Token /\ cli.owner \in Accounts
    BY <1>22 DEF CliRotate, IInv, TypeOK, Token
  <2>1. Fresh(cli.owner) \in Token
    BY <2>0, FreshType DEF IInv, TypeOK
  <2>2. Rest
    BY <1>22, <1>i, <2>1 DEF CliRotate, IInv, TypeOK, CredentialsStayWithAccount
  <2> QED
    BY <1>22, <1>q, <1>c, <2>2 DEF CliRotate
<1>23. ASSUME NEW a \in Accounts, CliLogin(a) PROVE IInv'
  <2>1. Fresh(a) \in Token /\ Fresh(a).owner = a
    BY FreshType DEF IInv, TypeOK
  <2>2. Rest
    BY <1>23, <1>i, <2>1 DEF CliLogin, IInv, TypeOK, CredentialsStayWithAccount
  <2> QED
    BY <1>23, <1>q, <1>c, <2>2 DEF CliLogin
<1>24. ASSUME NEW a \in Accounts, Login(a) PROVE IInv'
  <2>1. Fresh(a) \in Token /\ Fresh(a).owner = a
    BY FreshType DEF IInv, TypeOK
  <2>2. Rest
    BY <1>24, <1>i, <2>1 DEF Login, IInv, TypeOK, CredentialsStayWithAccount, Matches
  <2> QED
    BY <1>24, <1>q, <1>c, <2>2 DEF Login
<1>25. CASE UNCHANGED vars
  BY <1>25, <1>q, <1>c, <1>s DEF vars
<1> QED
  BY <1>1, <1>2, <1>3, <1>4, <1>5, <1>6, <1>7, <1>8, <1>9, <1>10, <1>11, <1>12, <1>13,
     <1>14, <1>15, <1>16, <1>17, <1>18, <1>19, <1>20, <1>21, <1>22, <1>23, <1>24, <1>25
     DEF Next, ThreadStep

LEMMA SpecInv == Spec => []IInv
<1>1. IInv /\ [Next]_vars => IInv'
  BY NextInv
<1> QED
  BY <1>1, InitInv, PTL DEF Spec

\* Every variable keeps its type.
THEOREM TypeCorrect == Spec => []TypeOK
<1>1. IInv => TypeOK
  BY DEF IInv
<1> QED
  BY <1>1, SpecInv, PTL

\* No sync, refresh, login or switch, interleaved in any way and whatever the CLI writes,
\* stores under an account a token that shows another ChatGPT id, whichever accounts
\* share one.  (Among those that do, tokens may cross: CredentialsNeverCross.)
THEOREM NoCrossing == Spec => []CredentialsStayWithAccount
<1>1. IInv => CredentialsStayWithAccount
  BY DEF IInv
<1> QED
  BY <1>1, SpecInv, PTL
-----------------------------------------------------------------------------
\* The token of the active profile stays usable as long as nobody switches and usage
\* requests are accepted.  ActiveProfileUsable is not inductive: a thread that has passed
\* the exclusion must not hold the token of auth.json (NotActives).  Of the other accounts
\* no thread ever does (OthersApart), although they may match auth.json; a thread for
\* the selected account passes only when auth.json does not match it, and a token that
\* gets there later is newer than any in use (Numbered).

NoSwitch ==
  \A t \in Threads :
    call[t] # None => call[t].job # "switch" /\ call[t].step \notin SwitchSteps

InUse ==
  ({row[a] : a \in Accounts} \cup {auth, cli}
     \cup {call[t].tok : t \in {u \in Threads : call[u] # None}}) \ {None}

Numbered == \A x \in InUse : x.n <= issued

OthersApart ==
  /\ \A a \in Accounts \ {selected} : row[a].n # auth.n
  /\ \A t \in Threads :
       call[t] # None =>
         /\ call[t].step = "raw" => call[t].acct = selected
         /\ call[t].acct # selected /\ call[t].step \in Carrying => call[t].tok.n # auth.n

NotActives ==
  \A t \in Threads :
    call[t] # None /\ call[t].step = "refresh" /\ Matches(selected, auth) =>
      call[t].tok.n # auth.n

ProfileLive == Matches(selected, auth) => auth.n \in live

QuietInv == IInv /\ NoSwitch /\ Numbered /\ OthersApart /\ NotActives /\ ProfileLive

ActiveInv == IInv /\ (quiet => QuietInv)

LEMMA InUseType == IInv => InUse \subseteq Token
  BY DEF IInv, TypeOK, InUse, Call

LEMMA QuietInit == Init => QuietInv
<1> SUFFICES ASSUME Init PROVE QuietInv
  OBVIOUS
<1>0. PICK number \in [Accounts -> 1 .. Cardinality(Accounts)] :
        /\ \A a, b \in Accounts : number[a] = number[b] => a = b
        /\ row = [a \in Accounts |-> [owner |-> a, n |-> number[a]]]
  BY DEF Init
<1>1. Cardinality(Accounts) \in Nat
  BY AccountsAssumption, FS_CardinalityType
<1>2. selected \in Accounts /\ auth = row[selected]
  BY DEF Init
<1>3. \A x \in InUse : \E a \in Accounts : x = [owner |-> a, n |-> number[a]]
  BY <1>0, <1>2 DEF Init, InUse
<1>4. Numbered
  BY <1>0, <1>1, <1>3 DEF Numbered, Init
<1>5. ProfileLive
  BY <1>0, <1>1, <1>2 DEF ProfileLive, Init
<1>6. OthersApart
  BY <1>0, <1>2 DEF OthersApart, Init
<1> QED
  BY <1>4, <1>5, <1>6, InitInv DEF QuietInv, NoSwitch, NotActives, Init

\* A step of a thread that only moves tokens already in use about.
LEMMA MoveKeeps ==
  ASSUME QuietInv, IInv', NEW t \in Threads, NEW new, call' = [call EXCEPT ![t] = new],
         new # None =>
           /\ new.job # "switch" /\ new.step \notin SwitchSteps
           /\ new.tok \in InUse \cup {None}
           /\ new.step = "refresh" /\ Matches(selected, auth) => new.tok.n # auth.n
           /\ new.step = "raw" => new.acct = selected
           /\ new.acct # selected /\ new.step \in Carrying => new.tok.n # auth.n,
         \A a \in Accounts : row'[a] \in InUse,
         \A a \in Accounts \ {selected} : row'[a].n # auth.n,
         UNCHANGED <<auth, selected, cli, upstream>>
  PROVE  QuietInv'
<1>0. /\ \A u \in Threads \ {t} : call'[u] = call[u]
      /\ call'[t] = new
  BY DEF QuietInv, IInv, TypeOK
<1>1. NoSwitch'
  BY <1>0 DEF QuietInv, NoSwitch
<1>2. InUse' \subseteq InUse
  <2>1. ASSUME NEW u \in Threads, call'[u] # None PROVE call'[u].tok \in InUse \cup {None}
    BY <1>0, <2>1 DEF InUse
  <2>2. auth' \in InUse \cup {None} /\ cli' \in InUse \cup {None}
    BY DEF InUse
  <2>3. InUse' = ({row'[a] : a \in Accounts} \cup {auth', cli'}
          \cup {call'[u].tok : u \in {w \in Threads : call'[w] # None}}) \ {None}
    BY DEF InUse
  <2> HIDE DEF InUse
  <2>4. {row'[a] : a \in Accounts} \subseteq InUse
    OBVIOUS
  <2>5. {call'[u].tok : u \in {w \in Threads : call'[w] # None}} \subseteq InUse \cup {None}
    BY <2>1
  <2> QED
    BY <2>2, <2>3, <2>4, <2>5
<1>3. Numbered'
  <2>1. issued' = issued
    BY DEF upstream
  <2>2. \A x \in InUse : x.n <= issued
    BY DEF QuietInv, Numbered
  <2>3. \A x \in InUse' : x.n <= issued'
    BY <1>2, <2>1, <2>2
  <2> QED
    BY <2>3 DEF Numbered
<1>4. NotActives'
  BY <1>0 DEF QuietInv, NotActives
<1>5. ProfileLive'
  BY DEF QuietInv, ProfileLive, upstream
<1>6. OthersApart'
  BY <1>0 DEF QuietInv, OthersApart
<1> QED
  BY <1>1, <1>3, <1>4, <1>5, <1>6 DEF QuietInv

\* A step that brings the next token of an account into use.
LEMMA FreshNumbered ==
  ASSUME QuietInv, NEW a \in Accounts, Issue, InUse' \subseteq InUse \cup {Fresh(a)}
  PROVE  Numbered'
<1>0. issued \in Nat /\ issued' = issued + 1 /\ Fresh(a).n = issued + 1
  BY DEF Issue, Fresh, QuietInv, IInv, TypeOK
<1>1. \A x \in InUse : x.n \in Nat /\ x.n <= issued
  BY InUseType DEF QuietInv, Numbered, Token
<1>3. \A x \in InUse \cup {Fresh(a)} : x.n <= issued'
  BY <1>0, <1>1
<1>4. \A x \in InUse' : x.n <= issued'
  BY <1>3
<1> QED
  BY <1>4 DEF Numbered

LEMMA QuietNext == QuietInv /\ [Next]_vars /\ quiet' => QuietInv'
<1> SUFFICES ASSUME QuietInv, [Next]_vars, quiet' PROVE QuietInv'
  OBVIOUS
<1> USE DEF managed, upstream
<1>n. IInv'
  BY NextInv DEF QuietInv
<1>r. \A a \in Accounts : row[a] \in InUse /\ row[a] \in Token
  BY NoneAssumption DEF InUse, QuietInv, IInv, TypeOK
<1>a. auth \in InUse /\ auth \in Token /\ selected \in Accounts
  BY NoneAssumption DEF InUse, QuietInv, IInv, TypeOK
<1>t. ASSUME NEW t \in Threads, call[t] # None
      PROVE  /\ call[t] \in Call /\ call[t].acct \in Accounts
             /\ call[t].job # "switch" /\ call[t].step \notin SwitchSteps
             /\ call[t].tok \in InUse \cup {None}
             /\ call[t].step = "refresh" /\ Matches(selected, auth) => call[t].tok.n # auth.n
             /\ call[t].step = "raw" => call[t].acct = selected
             /\ call[t].acct # selected /\ call[t].step \in Carrying => call[t].tok.n # auth.n
             /\ call[t].step \in Carrying =>
                  call[t].tok \in Token /\ Matches(call[t].acct, call[t].tok)
  BY <1>t DEF QuietInv, IInv, TypeOK, Call, NoSwitch, InUse, NotActives, OthersApart, OwnToken
<1>m. ActiveAccount = IF Matches(selected, auth) THEN selected ELSE None
  BY <1>a, NoneAssumption DEF ActiveAccount
<1>o. \A a \in Accounts \ {selected} : row[a].n # auth.n
  BY DEF QuietInv, OthersApart
<1>g. ASSUME NEW t \in Threads, call[t] # None, NEW step \in Steps \cup {"done"}, GoTo(t, step),
             step \notin SwitchSteps,
             step = "refresh" /\ Matches(selected, auth) => call[t].tok.n # auth.n,
             step = "raw" => call[t].acct = selected,
             step \in Carrying => call[t].step \in Carrying,
             \A a \in Accounts : row'[a] \in InUse,
             \A a \in Accounts \ {selected} : row'[a].n # auth.n,
             UNCHANGED <<auth, selected, cli, upstream>>
      PROVE  QuietInv'
  <2> DEFINE new == IF step = "done" THEN None ELSE [call[t] EXCEPT !.step = step]
  <2>1. call' = [call EXCEPT ![t] = new]
    BY <1>g DEF GoTo
  <2>2. new # None => /\ new.job = call[t].job /\ new.step = step /\ new.tok = call[t].tok
                      /\ new.acct = call[t].acct
    BY <1>g, <1>t DEF Call
  <2> HIDE DEF new
  <2> QED
    BY <1>g, <1>n, <1>t, <2>1, <2>2, MoveKeeps
<1>w. ASSUME NEW t \in Threads, call[t] # None, NEW step \in Steps \cup {"done"},
             NEW token \in InUse, GoWith(t, step, token),
             step \notin SwitchSteps \cup {"refresh", "raw"},
             call[t].acct # selected /\ step \in Carrying => token.n # auth.n,
             UNCHANGED <<row, auth, selected, cli, upstream>>
      PROVE  QuietInv'
  <2> DEFINE new == IF step = "done" THEN None ELSE [call[t] EXCEPT !.step = step, !.tok = token]
  <2>1. call' = [call EXCEPT ![t] = new]
    BY <1>w DEF GoWith
  <2>2. new # None => /\ new.job = call[t].job /\ new.step = step /\ new.tok = token
                      /\ new.acct = call[t].acct
    BY <1>w, <1>t DEF Call
  <2> HIDE DEF new
  <2> QED
    BY <1>w, <1>n, <1>r, <1>o, <1>t, <2>1, <2>2, MoveKeeps
<1>k. ASSUME NEW t \in Threads, NEW kind, NEW a \in Accounts, NEW step, NEW token \in InUse \cup {None},
             Take(t, kind, a, step, token), kind # "switch", step \notin SwitchSteps \cup {"refresh", "raw"},
             a # selected /\ step \in Carrying => token.n # auth.n,
             UNCHANGED <<row, auth, selected, cli, upstream>>
      PROVE  QuietInv'
  <2> DEFINE new == [job |-> kind, acct |-> a, step |-> step, tok |-> token, was |-> None]
  <2>1. call' = [call EXCEPT ![t] = new] /\ kind # "switch"
    BY <1>k DEF Take
  <2>2. new.job = kind /\ new.step = step /\ new.tok = token /\ new.acct = a
    OBVIOUS
  <2> HIDE DEF new
  <2> QED
    BY <1>k, <1>n, <1>r, <1>o, <2>1, <2>2, MoveKeeps
<1>1. ASSUME NEW t \in Threads, ExcludeActive(t) PROVE QuietInv'
  <2>0. /\ call[t] # None /\ call[t].step = "exclude" /\ call[t].tok \in Token
        /\ Matches(call[t].acct, call[t].tok) /\ call[t].tok \in InUse /\ call[t].acct \in Accounts
    BY <1>1, <1>t, NoneAssumption DEF ExcludeActive, At, Carrying
  <2>1. ASSUME Matches(selected, auth), call[t].acct # ActiveAccount PROVE call[t].tok.n # auth.n
    <3>1. call[t].acct # selected
      BY <2>1, <1>m
    <3> QED
      BY <2>0, <3>1, <1>t DEF Carrying
  <2>2. CASE call[t].acct = ActiveAccount
    <3>1. GoTo(t, "done") /\ UNCHANGED <<managed, cli, upstream>>
      BY <1>1, <2>2 DEF ExcludeActive
    <3> QED
      BY <1>g, <1>r, <1>o, <2>0, <3>1 DEF Steps, SwitchSteps, Carrying
  <2>3. CASE call[t].acct # ActiveAccount
    <3>1. GoTo(t, "refresh") /\ UNCHANGED <<managed, cli, upstream>>
      BY <1>1, <2>3 DEF ExcludeActive
    <3> QED
      BY <1>g, <1>r, <1>o, <2>0, <2>1, <2>3, <3>1 DEF Steps, SwitchSteps, Carrying
  <2> QED
    BY <2>2, <2>3
<1>2. ASSUME NEW t \in Threads, UsageAnswered(t) PROVE QuietInv'
  BY <1>2, <1>g, <1>r, <1>o DEF UsageAnswered, At, SwitchSteps, Carrying
<1>3. ASSUME NEW t \in Threads, AdoptLatest(t) PROVE QuietInv'
  BY <1>3, <1>w, <1>r, <1>t DEF AdoptLatest, Reread, AfterRefresh, At, SwitchSteps, Carrying
<1>4. ASSUME NEW t \in Threads, RefreshFails(t) PROVE QuietInv'
  BY <1>4, <1>g, <1>r, <1>o DEF RefreshFails, Reread, At, SwitchSteps, Carrying
<1>5. ASSUME NEW t \in Threads, Persist(t) \/ SyncStore(t) PROVE QuietInv'
  <2>0. /\ call[t] # None /\ call[t].tok \in InUse /\ call[t].acct \in Accounts
    BY <1>5, <1>t, NoneAssumption DEF Persist, SyncStore, At, Carrying
  <2>1. \A a \in Accounts : row'[a] \in InUse
    BY <1>5, <2>0, <1>r DEF Persist, SyncStore, QuietInv, IInv, TypeOK
  <2>2. /\ call[t].step \in {"persist", "store"} /\ row' = [row EXCEPT ![call[t].acct] = call[t].tok]
        /\ \E step \in {"done", "copy"} : GoTo(t, step)
        /\ UNCHANGED <<auth, selected, cli, upstream>>
    BY <1>5, <1>t, <2>0 DEF Persist, SyncStore, AfterRefresh, AfterSync, At
  <2>3. \A a \in Accounts \ {selected} : row'[a].n # auth.n
    BY <2>0, <2>2, <1>o, <1>t DEF Carrying, QuietInv, IInv, TypeOK
  <2> QED
    BY <1>g, <2>0, <2>1, <2>2, <2>3 DEF Steps, SyncSteps, SwitchSteps, Carrying
<1>6. ASSUME NEW t \in Threads, SyncStatus(t) PROVE QuietInv'
  BY <1>6, <1>g, <1>r, <1>o DEF SyncStatus, AfterSync, At, Steps, SyncSteps, SwitchSteps, Carrying
<1>7. ASSUME NEW t \in Threads, SyncRead(t) PROVE QuietInv'
  BY <1>7, <1>w, <1>a, <1>t DEF SyncRead, At, Steps, SyncSteps, SwitchSteps, Carrying
<1>8. ASSUME NEW t \in Threads, SyncCompare(t) PROVE QuietInv'
  BY <1>8, <1>g, <1>r, <1>o DEF SyncCompare, AfterSync, At, Steps, SyncSteps, SwitchSteps, Carrying
<1>9. ASSUME NEW t \in Threads, CopyAfterSync(t) PROVE QuietInv'
  BY <1>9, <1>w, <1>r, <1>o, <1>t DEF CopyAfterSync, At, Steps, SwitchSteps
<1>10. ASSUME NEW t \in Threads,
              WriteAuth(t) \/ WriteMarker(t) \/ VerifySwitch(t) \/ UndoAuth(t) \/ UndoMarker(t)
       PROVE  QuietInv'
  BY <1>10, <1>t DEF WriteAuth, WriteMarker, VerifySwitch, UndoAuth, UndoMarker, At, SwitchSteps
<1>11. ASSUME NEW t \in Threads, NEW a \in Accounts, ListDue(t, a) PROVE QuietInv'
  BY <1>11, <1>k, <1>r, <1>o DEF ListDue, SwitchSteps
<1>12. ASSUME NEW t \in Threads, NEW a \in Accounts, PollUsage(t, a) PROVE QuietInv'
  BY <1>12, <1>k, <1>r, <1>o DEF PollUsage, SwitchSteps
<1>13. ASSUME NEW t \in Threads, NEW a \in Accounts, StartSync(t, a) PROVE QuietInv'
  BY <1>13, <1>k DEF StartSync, SwitchSteps, Carrying
<1>14. ASSUME NEW t \in Threads, NEW a \in Accounts, StartSwitch(t, a) PROVE QuietInv'
  BY <1>14 DEF StartSwitch
<1>15. ASSUME NEW t \in Threads, Exchange(t) PROVE QuietInv'
  <2>0. /\ call[t] \in Call /\ call[t] # None /\ call[t].acct \in Accounts
        /\ Matches(call[t].acct, call[t].tok) /\ call[t].tok \in Token /\ Issue
        /\ call[t].job # "switch"
        /\ Matches(selected, auth) => call[t].tok.n # auth.n
    BY <1>15, <1>t DEF Exchange, Reread, At, Carrying
  <2> DEFINE fresh == Fresh(call[t].tok.owner)
             new == [call[t] EXCEPT !.step = "persist", !.tok = fresh]
  <2>1. call' = [call EXCEPT ![t] = new]
    BY <1>15, <2>0 DEF Exchange, GoWith
  <2>2. /\ new.job = call[t].job /\ new.step = "persist" /\ new.tok = fresh
        /\ fresh.n = issued + 1
    BY <2>0 DEF Call, Fresh
  <2> HIDE DEF fresh, new
  <2>3. (\A u \in Threads \ {t} : call'[u] = call[u]) /\ call'[t] = new
    BY <2>1 DEF QuietInv, IInv, TypeOK
  <2>4. NoSwitch'
    BY <2>0, <2>2, <2>3 DEF QuietInv, NoSwitch, SwitchSteps
  <2>5. InUse' \subseteq InUse \cup {fresh}
    BY <1>15, <2>2, <2>3 DEF Exchange, InUse
  <2>6. Numbered'
    <3>1. call[t].tok.owner \in Accounts
      BY <2>0 DEF Token
    <3> QED
      BY <2>0, <2>5, <3>1, FreshNumbered DEF fresh
  <2>9. OthersApart'
    <3>1. fresh.n # auth.n
      BY <1>a, <2>2 DEF QuietInv, IInv, TypeOK, Numbered, Token
    <3>2. ASSUME NEW u \in Threads, call'[u] # None
          PROVE  /\ call'[u].step = "raw" => call'[u].acct = selected
                 /\ call'[u].acct # selected /\ call'[u].step \in Carrying =>
                      call'[u].tok.n # auth.n
      BY <2>2, <2>3, <3>1, <3>2 DEF QuietInv, OthersApart
    <3> QED
      BY <1>15, <1>o, <3>2 DEF Exchange, OthersApart
  <2>7. NotActives'
    BY <1>15, <2>2, <2>3 DEF Exchange, QuietInv, NotActives
  <2>8. ProfileLive'
    BY <1>15, <2>0 DEF Exchange, QuietInv, ProfileLive
  <2> QED
    BY <1>n, <2>4, <2>6, <2>7, <2>8, <2>9 DEF QuietInv
<1>16. CASE CliStart
  <2>1. InUse' \subseteq InUse
    BY <1>16 DEF CliStart, InUse
  <2>2. Numbered'
    BY <1>16, <2>1 DEF CliStart, QuietInv, Numbered
  <2> QED
    BY <1>16, <1>n, <2>2 DEF CliStart, QuietInv, NoSwitch, OthersApart, NotActives, ProfileLive
<1>f. ASSUME NEW a \in Accounts, Issue, auth' = Fresh(a), issued' \in live',
             UNCHANGED <<row, selected, call>>, cli' \in {cli, Fresh(a)}
      PROVE  QuietInv'
  <2>1. InUse' \subseteq InUse \cup {Fresh(a)}
    BY <1>f DEF InUse
  <2>2. Numbered'
    BY <1>f, <2>1, FreshNumbered
  <2>3. /\ issued \in Nat /\ issued' = issued + 1 /\ auth'.n = issued + 1
    BY <1>f DEF Issue, Fresh, QuietInv, IInv, TypeOK
  <2>4. \A t \in Threads : call[t] # None /\ call[t].step \in Carrying => call[t].tok.n # auth'.n
    <3>1. ASSUME NEW t \in Threads, call[t] # None, call[t].step \in Carrying
          PROVE  call[t].tok.n \in Nat /\ call[t].tok.n <= issued
      <4>1. call[t].tok \in Token /\ call[t].tok \in InUse
        BY <3>1, <1>t, NoneAssumption DEF Carrying
      <4> QED
        BY <4>1 DEF Token, QuietInv, Numbered
    <3> QED
      BY <3>1, <2>3
  <2>5. NotActives'
    BY <1>f, <2>4 DEF NotActives, Carrying
  <2>6. ProfileLive'
    BY <1>f, <2>3 DEF ProfileLive
  <2>7. OthersApart'
    <3>1. \A b \in Accounts : row[b].n # auth'.n
      BY <1>r, <2>3 DEF Token, QuietInv, Numbered
    <3> QED
      BY <1>f, <2>4, <3>1 DEF QuietInv, OthersApart
  <2> QED
    BY <1>f, <1>n, <2>2, <2>5, <2>6, <2>7 DEF QuietInv, NoSwitch
<1>17. CASE CliRotate
  <2>1. cli.owner \in Accounts
    BY <1>17 DEF CliRotate, QuietInv, IInv, TypeOK, Token
  <2> QED
    BY <1>17, <1>f, <2>1 DEF CliRotate
<1>18. ASSUME NEW a \in Accounts, CliLogin(a) PROVE QuietInv'
  BY <1>18, <1>f DEF CliLogin
<1>19. ASSUME NEW a \in Accounts, Login(a) PROVE QuietInv'
  <2>1. InUse' \subseteq InUse \cup {Fresh(a)}
    <3>1. \A b \in Accounts : row'[b] \in {row[b], Fresh(a)}
      BY <1>19 DEF Login, QuietInv, IInv, TypeOK
    <3> QED
      BY <1>19, <3>1 DEF Login, InUse
  <2>2. Numbered'
    BY <1>19, <2>1, FreshNumbered DEF Login
  <2>3. OthersApart'
    <3>1. Fresh(a).n # auth.n
      BY <1>a DEF Fresh, QuietInv, IInv, TypeOK, Numbered, Token
    <3>2. \A b \in Accounts \ {selected} : row'[b].n # auth.n
      BY <1>19, <1>o, <3>1 DEF Login, QuietInv, IInv, TypeOK
    <3> QED
      BY <1>19, <3>2 DEF Login, QuietInv, OthersApart
  <2> QED
    BY <1>19, <1>n, <2>2, <2>3 DEF Login, QuietInv, NoSwitch, NotActives, ProfileLive
<1>20. CASE UNCHANGED vars
  BY <1>20, <1>n DEF vars, QuietInv, NoSwitch, InUse, Numbered, OthersApart, NotActives, ProfileLive
<1> QED
  BY <1>1, <1>2, <1>3, <1>4, <1>5, <1>6, <1>7, <1>8, <1>9, <1>10, <1>11, <1>12, <1>13,
     <1>14, <1>15, <1>16, <1>17, <1>18, <1>19, <1>20 DEF Next, ThreadStep

LEMMA ActiveInit == Init => ActiveInv
  BY InitInv, QuietInit DEF ActiveInv

LEMMA ActiveNext == ActiveInv /\ [Next]_vars => ActiveInv'
<1> SUFFICES ASSUME ActiveInv, [Next]_vars PROVE ActiveInv'
  OBVIOUS
<1>1. IInv'
  BY NextInv DEF ActiveInv
<1>2. ASSUME quiet' PROVE quiet
  BY <1>2, QuietEnds DEF ActiveInv, IInv, TypeOK
<1>3. quiet' => QuietInv'
  BY <1>2, QuietNext DEF ActiveInv
<1> QED
  BY <1>1, <1>3 DEF ActiveInv

\* Until somebody switches or a usage request is refused, no number of threads, in
\* whatever order they list, exclude, sync and refresh, consumes the active profile's token,
\* whichever accounts share a ChatGPT id.
THEOREM ProfileStaysUsable == Spec => []ActiveProfileUsable
<1>1. ActiveInv /\ [Next]_vars => ActiveInv'
  BY ActiveNext
<1>2. ActiveInv => ActiveProfileUsable
  <2> SUFFICES ASSUME ActiveInv, quiet, ActiveAccount # None PROVE auth.n \in live
    BY DEF ActiveProfileUsable
  <2>1. Matches(selected, auth)
    BY DEF ActiveAccount
  <2>2. ProfileLive
    BY DEF ActiveInv, QuietInv
  <2> QED
    BY <2>1, <2>2 DEF ProfileLive
<1> QED
  BY <1>1, <1>2, ActiveInit, PTL DEF Spec
=============================================================================
