---------------------------- MODULE ActiveProfile ----------------------------
(***************************************************************************)
(* The credentials of the active Codex profile and of the managed accounts *)
(* (crates/service/src: usage/refresh/mod.rs, usage/refresh/batch.rs,      *)
(* usage_analytics.rs, codex_profile.rs).                                  *)
(*                                                                         *)
(* A switch copies an account's token into auth.json.  From then on the    *)
(* Codex CLI rotates that token on its own, while the manager's threads    *)
(* refresh the tokens of its table: the token poller, the usage poller     *)
(* when a usage request is refused, a manual refresh, a switch.  Syncing   *)
(* copies auth.json's token back into the table.                           *)
(*                                                                         *)
(* One refresh call is two steps here, upstream's answer and the write of  *)
(* the row; TokenRefresh has them all.  The files of a switch are two,     *)
(* auth.json and the marker; CodexProfile has them all.  A token is the    *)
(* account it was issued to and its number in the order of issue, by which *)
(* the expiry of its access token grows.                                   *)
(***************************************************************************)
EXTENDS Naturals, FiniteSets

CONSTANTS
  Accounts, Threads,
  ChatgptId,   \* account -> the account_id that auth.json shows for it
  Kinds,       \* which of "poll", "usage", "manual", "analytics", "switch" run
  Users,       \* which of "cli", "cliLogin", "login" happen
  MaxIssued,   \* bound: tokens issued in all
  None

ASSUME AccountsAssumption == IsFiniteSet(Accounts) /\ DOMAIN ChatgptId = Accounts

VARIABLES
  row,       \* table tokens: account -> token
  auth,      \* auth.json
  selected,  \* the marker: the account of the last switch
  cli,       \* the token a running Codex process has in memory
  issued, live,  \* upstream: how many tokens were issued, and the numbers it accepts
  call,      \* what each thread is doing
  quiet      \* history: no switch has begun and no usage request was refused

managed == <<row, auth, selected>>
upstream == <<issued, live>>
vars == <<row, auth, selected, cli, issued, live, call, quiet>>

Token == [owner: Accounts, n: Nat]
Background == {"poll", "usage"}
Jobs == Background \cup {"manual", "analytics", "switch"}
SyncSteps == {"status", "raw", "existing", "store", "copy"}
SwitchSteps == {"auth", "marker", "verify", "undoAuth", "undoMarker"}
Steps == {"exclude", "usage", "refresh", "persist"} \cup SyncSteps \cup SwitchSteps

\* tok: the copy of a row or of auth.json; was: the profile before a switch.
Call == [job: Jobs, acct: Accounts, step: Steps, tok: Token \cup {None},
         was: [auth: Token, selected: Accounts] \cup {None}]

ASSUME NoneAssumption ==
  None \notin Accounts \cup Token \cup Call \cup [auth: Token, selected: Accounts]

-----------------------------------------------------------------------------
\* account_ids_match: a managed id contains the ChatGPT id of its account.  Accounts
\* of several users, or of several workspaces, may share one (account_identity.rs).
Matches(a, token) == ChatgptId[a] = ChatgptId[token.owner]

\* active_direct_account_id
ActiveAccount == IF selected # None /\ Matches(selected, auth) THEN selected ELSE None

\* token_credentials_differ and profile_token_is_at_least_as_fresh
Fresher(profile, stored) == profile # stored /\ profile.n >= stored.n

\* Upstream issues the next token of an account.
Fresh(a) == [owner |-> a, n |-> issued + 1]
Issue == issued < MaxIssued /\ issued' = issued + 1

\* Every account has a token, and one of them was switched to.
Init ==
  /\ \E number \in [Accounts -> 1 .. Cardinality(Accounts)] :
       /\ \A a, b \in Accounts : number[a] = number[b] => a = b
       /\ row = [a \in Accounts |-> [owner |-> a, n |-> number[a]]]
  /\ selected \in Accounts
  /\ auth = row[selected]
  /\ cli = None
  /\ issued = Cardinality(Accounts)
  /\ live = 1 .. issued
  /\ call = [t \in Threads |-> None]
  /\ quiet = TRUE

\* The step a thread is at, and the call it makes.
At(t, step) == call[t] # None /\ call[t].step = step

\* A thread takes up work on an account.
Take(t, kind, a, step, token) ==
  /\ kind \in Kinds
  /\ call[t] = None
  /\ call' = [call EXCEPT ![t] =
       [job |-> kind, acct |-> a, step |-> step, tok |-> token, was |-> None]]

GoTo(t, step) ==
  call' = [call EXCEPT ![t] = IF step = "done" THEN None ELSE [@ EXCEPT !.step = step]]

GoWith(t, step, token) ==
  call' = [call EXCEPT ![t] =
    IF step = "done" THEN None ELSE [@ EXCEPT !.step = step, !.tok = token]]

\* The token poller lists the tokens that are due ...
ListDue(t, a) ==
  /\ Take(t, "poll", a, "exclude", row[a])
  /\ UNCHANGED <<managed, cli, upstream, quiet>>

\* Mutant of ExcludeActive: the active profile is not left out.
ExcludeNobody(t) ==
  /\ At(t, "exclude")
  /\ GoTo(t, "refresh")
  /\ UNCHANGED <<managed, cli, upstream, quiet>>

\* ... and then leaves out the active profile's.
ExcludeActive(t) ==
  /\ At(t, "exclude")
  /\ GoTo(t, IF call[t].acct = ActiveAccount THEN "done" ELSE "refresh")
  /\ UNCHANGED <<managed, cli, upstream, quiet>>

\* The usage poller lists the tokens of all accounts.
PollUsage(t, a) ==
  /\ Take(t, "usage", a, "usage", row[a])
  /\ UNCHANGED <<managed, cli, upstream, quiet>>

\* refresh_usage_for_account and the usage analytics sync the profile first.
StartSync(t, a) ==
  /\ \E kind \in {"manual", "analytics"} : Take(t, kind, a, "status", None)
  /\ UNCHANGED <<managed, cli, upstream, quiet>>

\* A refused usage request is answered by refreshing the token.
UsageAnswered(t) ==
  /\ At(t, "usage")
  /\ \/ GoTo(t, "done") /\ UNCHANGED quiet
     \/ GoTo(t, "refresh") /\ quiet' = FALSE
  /\ UNCHANGED <<managed, cli, upstream>>

-----------------------------------------------------------------------------
\* refresh_and_persist_access_token; a switch goes on with its token.
AfterRefresh(t) == IF call[t].job = "switch" THEN "auth" ELSE "done"

HoldsLock(u, a) == At(u, "persist") /\ call[u].acct = a

\* The row is read again under the account's lock.
Reread(t) == At(t, "refresh") /\ \A u \in Threads : ~HoldsLock(u, call[t].acct)

Unchanged(t) == row[call[t].acct] = call[t].tok

AdoptLatest(t) ==
  /\ Reread(t) /\ ~Unchanged(t)
  /\ GoWith(t, AfterRefresh(t), row[call[t].acct])
  /\ UNCHANGED <<managed, cli, upstream, quiet>>

Exchange(t) ==
  LET sent == call[t].tok IN
  /\ Reread(t) /\ Unchanged(t)
  /\ sent.n \in live
  /\ Issue
  /\ GoWith(t, "persist", Fresh(sent.owner))
  /\ live' = (live \ {sent.n}) \cup {issued'}
  /\ UNCHANGED <<managed, cli, quiet>>

RefreshFails(t) ==
  /\ Reread(t) /\ Unchanged(t)
  /\ GoTo(t, "done")
  /\ UNCHANGED <<managed, cli, upstream, quiet>>

Persist(t) ==
  /\ At(t, "persist")
  /\ row' = [row EXCEPT ![call[t].acct] = call[t].tok]
  /\ GoTo(t, AfterRefresh(t))
  /\ UNCHANGED <<auth, selected, cli, upstream, quiet>>

-----------------------------------------------------------------------------
\* sync_active_profile_credentials_for_account
AfterSync(t) == IF call[t].job = "manual" THEN "copy" ELSE "done"

\* Nothing to sync for another account; an inconsistent profile is an error.
SyncStatus(t) ==
  /\ At(t, "status")
  /\ GoTo(t, IF selected # call[t].acct THEN AfterSync(t)
             ELSE IF ActiveAccount = selected THEN "raw" ELSE "done")
  /\ UNCHANGED <<managed, cli, upstream, quiet>>

\* Mutant of SyncRead: the owner of auth.json is not compared again.
SyncReadUnchecked(t) ==
  /\ At(t, "raw")
  /\ GoWith(t, "existing", auth)
  /\ UNCHANGED <<managed, cli, upstream, quiet>>

\* auth.json is read again, and its owner compared again.
SyncRead(t) ==
  /\ At(t, "raw")
  /\ GoWith(t, IF Matches(call[t].acct, auth) THEN "existing" ELSE "done", auth)
  /\ UNCHANGED <<managed, cli, upstream, quiet>>

SyncCompare(t) ==
  /\ At(t, "existing")
  /\ GoTo(t, IF Fresher(call[t].tok, row[call[t].acct]) THEN "store" ELSE AfterSync(t))
  /\ UNCHANGED <<managed, cli, upstream, quiet>>

SyncStore(t) ==
  /\ At(t, "store")
  /\ row' = [row EXCEPT ![call[t].acct] = call[t].tok]
  /\ GoTo(t, AfterSync(t))
  /\ UNCHANGED <<auth, selected, cli, upstream, quiet>>

CopyAfterSync(t) ==
  /\ At(t, "copy")
  /\ GoWith(t, "usage", row[call[t].acct])
  /\ UNCHANGED <<managed, cli, upstream, quiet>>

-----------------------------------------------------------------------------
\* apply_direct_account; the RPC loop runs one switch at a time.
StartSwitch(t, a) ==
  /\ \A u \in Threads : call[u] # None => call[u].job # "switch"
  /\ Take(t, "switch", a, "refresh", row[a])
  /\ quiet' = FALSE
  /\ UNCHANGED <<managed, cli, upstream>>

WriteAuth(t) ==
  /\ At(t, "auth")
  /\ auth' = call[t].tok
  /\ call' = [call EXCEPT ![t].step = "marker",
                         ![t].was = [auth |-> auth, selected |-> selected]]
  /\ UNCHANGED <<row, selected, cli, upstream, quiet>>

WriteMarker(t) ==
  /\ At(t, "marker")
  /\ selected' = call[t].acct
  /\ GoTo(t, "verify")
  /\ UNCHANGED <<row, auth, cli, upstream, quiet>>

VerifySwitch(t) ==
  /\ At(t, "verify")
  /\ GoTo(t, IF ActiveAccount = call[t].acct THEN "done" ELSE "undoAuth")
  /\ UNCHANGED <<managed, cli, upstream, quiet>>

UndoAuth(t) ==
  /\ At(t, "undoAuth")
  /\ auth' = call[t].was.auth
  /\ GoTo(t, "undoMarker")
  /\ UNCHANGED <<row, selected, cli, upstream, quiet>>

\* Mutant of UndoMarker: auth.json's snapshot goes to the marker.
UndoMarkerSwapped(t) ==
  /\ At(t, "undoMarker")
  /\ selected' = call[t].was.auth
  /\ GoTo(t, "done")
  /\ UNCHANGED <<row, auth, cli, upstream, quiet>>

UndoMarker(t) ==
  /\ At(t, "undoMarker")
  /\ selected' = call[t].was.selected
  /\ GoTo(t, "done")
  /\ UNCHANGED <<row, auth, cli, upstream, quiet>>

-----------------------------------------------------------------------------
\* External: a Codex process starts and reads auth.json, and later rotates the token
\* it has in memory, also after a switch to another account.
CliStart ==
  /\ "cli" \in Users
  /\ cli' = auth
  /\ UNCHANGED <<managed, upstream, call, quiet>>

CliRotate ==
  /\ cli # None /\ cli.n \in live
  /\ Issue
  /\ cli' = Fresh(cli.owner) /\ auth' = Fresh(cli.owner)
  /\ live' = (live \ {cli.n}) \cup {issued'}
  /\ UNCHANGED <<row, selected, call, quiet>>

\* External: `codex login` as any account.
CliLogin(a) ==
  /\ "cliLogin" \in Users
  /\ Issue
  /\ auth' = Fresh(a)
  /\ live' = live \cup {issued'}
  /\ UNCHANGED <<row, selected, cli, call, quiet>>

\* A device login or an import in the manager.
Login(a) ==
  /\ "login" \in Users
  /\ Issue
  /\ row' = [row EXCEPT ![a] = Fresh(a)]
  /\ live' = live \cup {issued'}
  /\ UNCHANGED <<auth, selected, cli, call, quiet>>

ThreadStep(t) ==
  \/ ExcludeActive(t) \/ UsageAnswered(t)
  \/ AdoptLatest(t) \/ Exchange(t) \/ RefreshFails(t) \/ Persist(t)
  \/ SyncStatus(t) \/ SyncRead(t) \/ SyncCompare(t) \/ SyncStore(t) \/ CopyAfterSync(t)
  \/ WriteAuth(t) \/ WriteMarker(t) \/ VerifySwitch(t) \/ UndoAuth(t) \/ UndoMarker(t)

Next ==
  \/ \E t \in Threads : ThreadStep(t)
  \/ \E t \in Threads, a \in Accounts :
       ListDue(t, a) \/ PollUsage(t, a) \/ StartSync(t, a) \/ StartSwitch(t, a)
  \/ CliStart \/ CliRotate
  \/ \E a \in Accounts : CliLogin(a) \/ Login(a)

Spec == Init /\ [][Next]_vars

-----------------------------------------------------------------------------
TypeOK ==
  /\ row \in [Accounts -> Token]
  /\ auth \in Token
  /\ selected \in Accounts
  /\ cli \in Token \cup {None}
  /\ issued \in Nat
  /\ live \subseteq Nat
  /\ call \in [Threads -> Call \cup {None}]
  /\ quiet \in BOOLEAN

\* Whatever the pollers, refreshes, switches, logins and the CLI do, although auth.json
\* may change between the check of the profile and its read, a row holds only tokens
\* that show the ChatGPT id of its account: all that account_ids_match can tell.
CredentialsStayWithAccount == \A a \in Accounts : Matches(a, row[a])

\* As long as usage requests are accepted and nobody switches, whatever the manager
\* does in the background leaves the token of the active profile usable.
ActiveProfileUsable == quiet /\ ActiveAccount # None => auth.n \in live

\* codex_profile.rs, sync_active_profile_credentials_for_account: comparing the account
\* ids "prevents credentials from ever crossing account boundaries".
CredentialsNeverCross == \A a \in Accounts : row[a].owner = a
=============================================================================
