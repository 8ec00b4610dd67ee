---------------------------- MODULE TokenRefresh ----------------------------
(***************************************************************************)
(* Refreshing the OAuth token of managed accounts                          *)
(* (crates/service/src/usage/usage_token_refresh.rs).                      *)
(*                                                                         *)
(* OpenAI refresh tokens are single use: exchanging one may consume it and *)
(* return its successor.  Several threads (the token poller's workers, the *)
(* usage poller's workers, a manual refresh, an account switch) may want   *)
(* to refresh one account at the same time.  A call copies the stored row, *)
(* takes the account's lock, reads the row again, exchanges the refresh    *)
(* token upstream (sending twice when the first send fails in transport)   *)
(* and writes the new row.  A login or an import writes a row without the  *)
(* lock, and an account may be deleted at any time.                        *)
(*                                                                         *)
(* A token is a record of two numbers: which access token and which        *)
(* refresh token of the account it holds, counted in the order upstream    *)
(* issued them.                                                            *)
(***************************************************************************)
EXTENDS Naturals, FiniteSets

CONSTANTS
  Callers,      \* threads that call refresh_and_persist_access_token
  Accounts,     \* managed account ids
  Nobody,       \* owner of a free lock
  NoRow,        \* the tokens table has no row for the account
  MaxIssued     \* bound: grants upstream issues per account after the first

ASSUME NullAssumption == Nobody \notin Callers /\ NoRow \notin [access: Nat, refresh: Nat]
ASSUME BoundAssumption == MaxIssued \in Nat

VARIABLES
  store,     \* table tokens: account -> row
  lock,      \* TOKEN_REFRESH_LOCKS: account -> holder of its mutex
  pc,        \* where each caller is
  acct,      \* the account of each caller's call
  orig,      \* original_access_token and original_refresh_token
  tok,       \* the caller's token, the &mut Token argument
  issued,    \* upstream: last number issued for each account
  live,      \* upstream: refresh tokens it still accepts
  orphaned,  \* history: consumed refresh tokens whose successor was never stored
  blind      \* history: the call found no row when it read it again

codeVars == <<store, lock, pc, acct, orig, tok>>
upstreamVars == <<issued, live>>
historyVars == <<orphaned, blind>>
vars == <<store, lock, pc, acct, orig, tok, issued, live, orphaned, blind>>

Token == [access: Nat, refresh: Nat]

\* Steps of a call that run while it holds the account's lock.
Critical == {"reread", "send", "resend", "recover", "persist"}
Steps == {"idle", "lock", "ok", "err"} \cup Critical

-----------------------------------------------------------------------------
\* The call has upstream's answer and has not stored it yet.
Answered(c, a) == pc[c] = "persist" /\ acct[c] = a

\* The refresh tokens of a that those calls presented.
InHand(a) == {orig[c].refresh : c \in {d \in Callers : Answered(d, a)}}

FirstToken == [access |-> 0, refresh |-> 0]

Init ==
  /\ store = [a \in Accounts |-> FirstToken]
  /\ lock = [a \in Accounts |-> Nobody]
  /\ pc = [c \in Callers |-> "idle"]
  /\ acct \in [Callers -> Accounts]
  /\ orig = [c \in Callers |-> FirstToken]
  /\ tok = [c \in Callers |-> FirstToken]
  /\ issued = [a \in Accounts |-> 0]
  /\ live = [a \in Accounts |-> {0}]
  /\ orphaned = [a \in Accounts |-> {}]
  /\ blind = [c \in Callers |-> FALSE]

GoTo(c, step) == pc' = [pc EXCEPT ![c] = step]

\* Mutant of Finish: only the successful return drops the guard.
FinishHoldingOnError(c, outcome) ==
  /\ GoTo(c, outcome)
  /\ lock' = IF outcome = "ok" THEN [lock EXCEPT ![acct[c]] = Nobody] ELSE lock

\* The guard of the account's mutex is dropped when the function returns.
Finish(c, outcome) ==
  /\ GoTo(c, outcome)
  /\ lock' = [lock EXCEPT ![acct[c]] = Nobody]

\* The caller has read the row and calls with it.
Begin(c, a) ==
  /\ pc[c] = "idle"
  /\ store[a] # NoRow
  /\ acct' = [acct EXCEPT ![c] = a]
  /\ orig' = [orig EXCEPT ![c] = store[a]]
  /\ tok' = [tok EXCEPT ![c] = store[a]]
  /\ blind' = [blind EXCEPT ![c] = FALSE]
  /\ GoTo(c, "lock")
  /\ UNCHANGED <<store, lock, issued, live, orphaned>>

\* Mutant of Acquire: the call does not wait.
AcquireAtOnce(c) ==
  /\ pc[c] = "lock"
  /\ lock' = [lock EXCEPT ![acct[c]] = c]
  /\ GoTo(c, "reread")
  /\ UNCHANGED <<store, acct, orig, tok, issued, live, orphaned, blind>>

Acquire(c) ==
  /\ pc[c] = "lock"
  /\ lock[acct[c]] = Nobody
  /\ lock' = [lock EXCEPT ![acct[c]] = c]
  /\ GoTo(c, "reread")
  /\ UNCHANGED <<store, acct, orig, tok, issued, live, orphaned, blind>>

\* Another call has replaced the row since: its token is taken as it is.
AdoptLatest(c) ==
  /\ pc[c] = "reread"
  /\ store[acct[c]] \notin {NoRow, orig[c]}
  /\ tok' = [tok EXCEPT ![c] = store[acct[c]]]
  /\ Finish(c, "ok")
  /\ UNCHANGED <<store, acct, orig, issued, live, orphaned, blind>>

\* Mutant of KeepOwn: the row is not compared with the caller's token.
KeepOwnUncompared(c) ==
  /\ pc[c] = "reread"
  /\ blind' = [blind EXCEPT ![c] = store[acct[c]] = NoRow]
  /\ GoTo(c, "send")
  /\ UNCHANGED <<store, lock, acct, orig, tok, issued, live, orphaned>>

\* The row is the one the caller had, or it is gone: go on with the caller's token.
KeepOwn(c) ==
  /\ pc[c] = "reread"
  /\ store[acct[c]] \in {NoRow, orig[c]}
  /\ blind' = [blind EXCEPT ![c] = store[acct[c]] = NoRow]
  /\ GoTo(c, "send")
  /\ UNCHANGED <<store, lock, acct, orig, tok, issued, live, orphaned>>

RereadFails(c) ==
  /\ pc[c] = "reread"
  /\ Finish(c, "err")
  /\ UNCHANGED <<store, acct, orig, tok, issued, live, orphaned, blind>>

\* What upstream does with a refresh token it accepts: a new access token, and
\* a successor of the refresh token unless the response leaves it out.
Issue(a, refresh, rotate) ==
  /\ refresh \in live[a]
  /\ issued[a] < MaxIssued
  /\ issued' = [issued EXCEPT ![a] = @ + 1]
  /\ live' = IF rotate THEN [live EXCEPT ![a] = (@ \ {refresh}) \cup {issued[a] + 1}]
                       ELSE live

\* Mutant of Granted: a response without a refresh token clears the one in use.
GrantedClearsRefresh(c) ==
  LET a == acct[c]  sent == tok[c].refresh IN
  /\ pc[c] \in {"send", "resend"}
  /\ \E rotate \in BOOLEAN :
       /\ Issue(a, sent, rotate)
       /\ tok' = [tok EXCEPT ![c] =
            [access |-> issued[a] + 1, refresh |-> IF rotate THEN issued[a] + 1 ELSE NoRow]]
  /\ GoTo(c, "persist")
  /\ UNCHANGED <<store, lock, acct, orig, orphaned, blind>>

Granted(c) ==
  LET a == acct[c]  sent == tok[c].refresh IN
  /\ pc[c] \in {"send", "resend"}
  /\ \E rotate \in BOOLEAN :
       /\ Issue(a, sent, rotate)
       /\ tok' = [tok EXCEPT ![c] =
            [access |-> issued[a] + 1, refresh |-> IF rotate THEN issued[a] + 1 ELSE sent]]
  /\ GoTo(c, "persist")
  /\ UNCHANGED <<store, lock, acct, orig, orphaned, blind>>

\* invalid_grant or refresh_token_reused.
Rejected(c) ==
  /\ pc[c] \in {"send", "resend"}
  /\ tok[c].refresh \notin live[acct[c]]
  /\ GoTo(c, "recover")
  /\ UNCHANGED <<store, lock, acct, orig, tok, issued, live, orphaned, blind>>

\* No answer can be read: upstream may have consumed the token all the same.
NoAnswer(c) ==
  LET a == acct[c]  sent == tok[c].refresh IN
  \/ UNCHANGED <<issued, live, orphaned>>
  \/ /\ Issue(a, sent, TRUE)
     /\ orphaned' = [orphaned EXCEPT ![a] = @ \cup {sent}]

\* A first transport error rebuilds the HTTP client and sends the request again.
SendAgain(c) ==
  /\ pc[c] = "send"
  /\ NoAnswer(c)
  /\ GoTo(c, "resend")
  /\ UNCHANGED <<store, lock, acct, orig, tok, blind>>

\* A second transport error, an unreadable body, or any other refusal (region
\* blocked, expired, a 5xx) is returned to the caller.
SendFails(c) ==
  /\ pc[c] \in {"send", "resend"}
  /\ NoAnswer(c)
  /\ Finish(c, "err")
  /\ UNCHANGED <<store, acct, orig, tok, blind>>

\* Mutant of Recover: the row may hold the very token that was refused.
RecoverRefused(c) ==
  LET latest == store[acct[c]] IN
  /\ pc[c] = "recover"
  /\ \/ /\ latest # NoRow
        /\ tok' = [tok EXCEPT ![c] = latest]
        /\ Finish(c, "ok")
     \/ UNCHANGED tok /\ Finish(c, "err")
  /\ UNCHANGED <<store, acct, orig, issued, live, orphaned, blind>>

\* recover_refresh_race_from_latest_token; reading the row may fail.
Recover(c) ==
  LET latest == store[acct[c]] IN
  /\ pc[c] = "recover"
  /\ \/ /\ latest # NoRow /\ latest.refresh # orig[c].refresh
        /\ tok' = [tok EXCEPT ![c] = latest]
        /\ Finish(c, "ok")
     \/ UNCHANGED tok /\ Finish(c, "err")
  /\ UNCHANGED <<store, acct, orig, issued, live, orphaned, blind>>

\* Mutant of Persist: the row keeps its refresh token.
PersistAccessOnly(c) ==
  /\ pc[c] = "persist"
  /\ store[acct[c]] # NoRow
  /\ store' = [store EXCEPT ![acct[c]].access = tok[c].access]
  /\ Finish(c, "ok")
  /\ UNCHANGED <<acct, orig, tok, issued, live, orphaned, blind>>

Persist(c) ==
  /\ pc[c] = "persist"
  /\ store[acct[c]] # NoRow
  /\ store' = [store EXCEPT ![acct[c]] = tok[c]]
  /\ Finish(c, "ok")
  /\ UNCHANGED <<acct, orig, tok, issued, live, orphaned, blind>>

\* insert_token fails: a storage error, or the account is gone (foreign key).
PersistFails(c) ==
  /\ pc[c] = "persist"
  /\ orphaned' = [orphaned EXCEPT ![acct[c]] = @ \cup ({orig[c].refresh} \ live[acct[c]])]
  /\ Finish(c, "err")
  /\ UNCHANGED <<store, acct, orig, tok, issued, live, blind>>

Return(c) ==
  /\ pc[c] \in {"ok", "err"}
  /\ GoTo(c, "idle")
  /\ UNCHANGED <<store, lock, acct, orig, tok, issued, live, orphaned, blind>>

-----------------------------------------------------------------------------
\* A device login or an import stores a row of a grant of its own, and takes no
\* refresh lock (auth_tokens.rs).
Login(a) ==
  LET new == issued[a] + 1 IN
  /\ issued[a] < MaxIssued
  /\ issued' = [issued EXCEPT ![a] = new]
  /\ live' = [live EXCEPT ![a] = @ \cup {new}]
  /\ store' = [store EXCEPT ![a] = [access |-> new, refresh |-> new]]
  /\ UNCHANGED <<lock, pc, acct, orig, tok, orphaned, blind>>

\* account/delete removes the row with the account.
Delete(a) ==
  /\ store[a] # NoRow
  /\ store' = [store EXCEPT ![a] = NoRow]
  /\ UNCHANGED <<lock, pc, acct, orig, tok, issued, live, orphaned, blind>>

\* The service dies: rows survive, calls and locks do not.
Crash ==
  /\ \E c \in Callers : pc[c] # "idle"
  /\ orphaned' = [a \in Accounts |-> orphaned[a] \cup (InHand(a) \ live[a])]
  /\ pc' = [c \in Callers |-> "idle"]
  /\ lock' = [a \in Accounts |-> Nobody]
  /\ UNCHANGED <<store, acct, orig, tok, issued, live, blind>>

CallStep(c) ==
  \/ Acquire(c) \/ AdoptLatest(c) \/ KeepOwn(c) \/ RereadFails(c)
  \/ Granted(c) \/ Rejected(c) \/ SendAgain(c) \/ SendFails(c)
  \/ Recover(c) \/ Persist(c) \/ PersistFails(c) \/ Return(c)

Next ==
  \/ \E c \in Callers : CallStep(c) \/ (\E a \in Accounts : Begin(c, a))
  \/ \E a \in Accounts : Login(a) \/ Delete(a)
  \/ Crash

\* A thread inside a call runs on: the HTTP client has total timeouts and no
\* step under the lock waits for another thread.
Fairness == \A c \in Callers : WF_vars(CallStep(c))

Spec == Init /\ [][Next]_vars
FairSpec == Spec /\ Fairness

-----------------------------------------------------------------------------
TypeOK ==
  /\ store \in [Accounts -> Token \cup {NoRow}]
  /\ lock \in [Accounts -> Callers \cup {Nobody}]
  /\ pc \in [Callers -> Steps]
  /\ acct \in [Callers -> Accounts]
  /\ orig \in [Callers -> Token]
  /\ tok \in [Callers -> Token]
  /\ issued \in [Accounts -> Nat]
  /\ live \in [Accounts -> SUBSET Nat]
  /\ orphaned \in [Accounts -> SUBSET Nat]
  /\ blind \in [Callers -> BOOLEAN]

\* Known(a): upstream accepts it, or its successor was lost on the way to the row.
Known(a) == live[a] \cup orphaned[a]

\* However calls, logins and deletions interleave, a call never presents a
\* refresh token that another call has already exchanged: waiting for the lock
\* and reading the row again must be enough to notice the other call's work.
\* (A call whose row is gone has only its own token to present.)
PresentsUnspentToken ==
  \A c \in Callers :
    pc[c] \in {"send", "resend"} /\ ~blind[c] => tok[c].refresh \in Known(acct[c])

\* While no call holds an answer it has not stored yet, the row of every account
\* has a refresh token upstream accepts, unless a lost answer, a failed write or
\* a crash destroyed its successor: no write puts an exchanged token back.
StoredTokenUnspent ==
  \A a \in Accounts :
    store[a] # NoRow /\ InHand(a) = {} => store[a].refresh \in Known(a)

\* A call that returns Ok, by its own exchange or by recovering from a rejection,
\* hands its caller a refresh token upstream accepts, and never the one it has just
\* seen refused or whose answer it has lost.  Only a call that adopts the row it
\* finds when it gets the lock cannot tell that the successor was lost before.
OkTokenAccepted ==
  [][\A c \in Callers :
       pc[c] \in Critical /\ pc'[c] = "ok" =>
         \/ tok'[c].refresh \in live'[acct[c]]
         \/ pc[c] = "reread" /\ tok'[c].refresh \in orphaned[acct[c]]]_vars

\* No call keeps the account's lock for ever, whatever upstream and storage do.
LockReleased ==
  \A c \in Callers, a \in Accounts : lock[a] = c ~> lock[a] # c
=============================================================================
