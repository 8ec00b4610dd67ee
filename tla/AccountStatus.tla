--------------------------- MODULE AccountStatus ---------------------------
(***************************************************************************)
(* An account's status and the gateway's cache of candidates.  The user    *)
(* sets the status by hand; usage refreshes, polled or manual, and errors  *)
(* of the upstream set it from whatever thread meets them, each in several *)
(* steps: read the row, write it, invalidate the cache, record the reason. *)
(* Refreshes and collections of candidates also write back a whole row     *)
(* they read before.  What upstream answers is free.  An account is        *)
(* neither added nor deleted here.                                         *)
(***************************************************************************)
EXTENDS FiniteSets

CONSTANTS
  Accounts,
  Threads,     \* threads that refresh usage or report errors of the upstream
  Collectors,  \* requests that collect candidates
  None

ASSUME StatusAssumption == None \notin Accounts \cup Threads \cup Collectors /\ Threads \cap Collectors = {}

\* "active" stands for "unknown" as well: no code tells them apart.
Statuses == {"active", "disabled", "inactive", "unavailable", "limited", "banned"}

\* The reason of the last event: "other" stands for those no code looks for, and for none.
Reasons == {"other", "deactivated", "region"}

Modes == {"NormalOnly", "AppendFallback"}

VARIABLES
  status,   \* accounts.status
  reason,   \* the latest account_status_update event of each account
  task,     \* what each thread does
  collect,  \* what each collector does
  cache,    \* CANDIDATE_SNAPSHOT_CACHE
  older     \* history: the writers at work whose read of an account is older than its row

vars == <<status, reason, task, collect, cache, older>>

Writers == Threads \cup Collectors

NoTask == [at |-> "idle", acct |-> None, held |-> None, new |-> None, why |-> None,
           next |-> "idle", good |-> FALSE]

NoList == [at |-> "idle", list |-> {}, todo |-> {}, mode |-> None]

Init ==
  /\ status \in [Accounts -> {"active", "disabled"}]
  /\ reason = [a \in Accounts |-> "other"]
  /\ task = [t \in Threads |-> NoTask]
  /\ collect = [c \in Collectors |-> NoList]
  /\ cache = None
  /\ older = [a \in Accounts |-> {}]

-----------------------------------------------------------------------------
\* gateway_account_usage_filter_clause
Selectable(a) == status[a] = "active"

\* Mutant of Preserved: only a logged out account is.
PreservedLoggedOut(a) == status[a] = "inactive"

\* should_preserve_manual_account_status
Preserved(a) == status[a] \in {"disabled", "inactive"}

\* is_account_refresh_skipped, load_banned_account_ids
Polled(a) ==
  status[a] \notin {"disabled", "banned"} /\ reason[a] \notin {"deactivated", "region"}

\* What a failure is taken for, and what becomes of the account
Failures == {[new |-> "unavailable", why |-> "other"], [new |-> "unavailable", why |-> "region"],
             [new |-> "banned", why |-> "deactivated"]}

GatewayFailures == Failures \cup {[new |-> "limited", why |-> "other"]}

\* The row of a is written, and all other work on a has an older read of it.
Write(a, new, w) ==
  /\ status' = [status EXCEPT ![a] = new]
  /\ older' = IF new = status[a] THEN older ELSE
       [older EXCEPT ![a] = ({t \in Threads : task[t].acct = a}
                               \cup {c \in Collectors : a \in collect[c].list \cup collect[c].todo}) \ {w}]

\* History: what w does to a disturbs the refreshes of a.
Disturb(a, w) == [t \in Threads |->
  IF t # w /\ task[t].acct = a THEN [task[t] EXCEPT !.good = FALSE] ELSE task[t]]

\* History: the status of a has changed and the cache is not invalidated.
CacheMissed(a) ==
  IF cache = None \/ status'[a] = status[a] THEN cache ELSE [cache EXCEPT !.missed = @ \cup {a}]

\* Thread t is done with a, or reads it anew.
Reread(a, t) == older' = [older EXCEPT ![a] = @ \ {t}]

-----------------------------------------------------------------------------
\* update_account, logout_current_account: neither looks at the cache.
UserSet(a) ==
  /\ \E s \in Statuses : s # status[a] /\ Write(a, s, None)
  /\ task' = Disturb(a, None)
  /\ cache' = CacheMissed(a)
  /\ UNCHANGED <<reason, collect>>

\* refresh_usage_for_account takes up any account, the poll only those it may;
\* the row is read to have its ids brought up to date.
Refresh(t, a) ==
  /\ task[t] = NoTask
  /\ \E next \in {"idle", "after"} :
       /\ next = "idle" => Polled(a)
       /\ task' = [task EXCEPT ![t] = [NoTask EXCEPT !.at = "patch", !.acct = a,
                                                     !.held = status[a], !.next = next]]
  /\ UNCHANGED <<status, reason, collect, cache, older>>

\* patch_account_meta: when the token tells of other ids the whole row is written.
Patch(t) ==
  LET a == task[t].acct
      sent(T) == [T EXCEPT ![t].held = None, ![t].at = IF @ = "patch" THEN "fetch" ELSE "refetch"]
  IN /\ task[t].at \in {"patch", "repatch"}
     /\ \/ /\ Write(a, task[t].held, t)
           /\ task' = sent(Disturb(a, t))
           /\ cache' = CacheMissed(a)
        \/ task' = sent(task) /\ UNCHANGED <<status, older, cache>>
     /\ UNCHANGED <<reason, collect>>

\* Mutant of AskAgain: the row is not read again.
AskAgainUnread(t) ==
  /\ task[t].at = "fetch"
  /\ task' = [task EXCEPT ![t].at = "repatch"]
  /\ UNCHANGED <<status, reason, collect, cache, older>>

\* Usage is refused and the token refreshed: the row is patched and usage asked for once more.
AskAgain(t) ==
  LET a == task[t].acct
  IN /\ task[t].at = "fetch"
     /\ task' = [task EXCEPT ![t].at = "repatch", ![t].held = status[a]]
     /\ Reread(a, t)
     /\ UNCHANGED <<status, reason, collect, cache>>

\* Where a refresh goes when it has no status to set
Proceed(t) ==
  IF task[t].next = "after" THEN [task[t] EXCEPT !.at = "after", !.next = "idle"] ELSE NoTask

\* apply_status_from_snapshot: usage left, used up, or an answer that does not tell
Snapshot(t) ==
  LET a == task[t].acct
  IN /\ task[t].at \in {"fetch", "refetch"}
     /\ \E s \in {[new |-> "active", why |-> "other"], [new |-> "limited", why |-> "other"], None} :
          LET told == [task[t] EXCEPT !.good = task[t].next = "after" /\ s # None /\ s.new = "active"]
          IN task' = [task EXCEPT ![t] =
               IF s = None \/ status[a] = "disabled"
               THEN IF task[t].next = "after"
                    THEN [told EXCEPT !.at = "after", !.next = "idle"] ELSE NoTask
               ELSE [told EXCEPT !.at = "judge", !.new = s.new, !.why = s.why]]
     /\ Reread(a, t)
     /\ UNCHANGED <<status, reason, collect, cache>>

\* usage_status_updates_blocked
Judge(t) ==
  /\ task[t].at = "judge"
  /\ task' = [task EXCEPT ![t] = IF reason[task[t].acct] = "region" THEN Proceed(t)
                                 ELSE [@ EXCEPT !.at = "update"]]
  /\ UNCHANGED <<status, reason, collect, cache, older>>

\* The refresh fails for good: mark_usage_unreachable_if_needed, and an error to the caller.
Fail(t) ==
  LET a == task[t].acct
  IN /\ task[t].at \in {"fetch", "refetch"}
     /\ \/ task' = [task EXCEPT ![t] = NoTask]
        \/ /\ ~Preserved(a)
           /\ \E f \in Failures :
                task' = [task EXCEPT ![t] = [NoTask EXCEPT !.at = "update", !.acct = a,
                                                           !.new = f.new, !.why = f.why]]
     /\ Reread(a, t)
     /\ UNCHANGED <<status, reason, collect, cache>>

\* mark_account_unavailable_for_...: an error of the gateway or of a token refresh
Mark(t, a) ==
  /\ task[t] = NoTask
  /\ ~Preserved(a)
  /\ \E f \in GatewayFailures :
       task' = [task EXCEPT ![t] = [NoTask EXCEPT !.at = "update", !.acct = a,
                                                  !.new = f.new, !.why = f.why]]
  /\ UNCHANGED <<status, reason, collect, cache, older>>

\* set_account_status: the row ...
Update(t) ==
  LET a == task[t].acct
      changes == status[a] # task[t].new
  IN /\ task[t].at = "update"
     /\ Write(a, task[t].new, t)
     /\ task' = [IF changes THEN Disturb(a, t) ELSE task
                   EXCEPT ![t].at = IF changes THEN "invalidate" ELSE "event", ![t].new = None]
     /\ UNCHANGED <<reason, cache, collect>>

\* Mutant of Invalidate: the cache is left as it is.
InvalidateNothing(t) ==
  /\ task[t].at = "invalidate"
  /\ task' = [task EXCEPT ![t].at = "event"]
  /\ UNCHANGED <<status, reason, collect, cache, older>>

\* ... the cache ...
Invalidate(t) ==
  /\ task[t].at = "invalidate"
  /\ cache' = None
  /\ task' = [task EXCEPT ![t].at = "event"]
  /\ UNCHANGED <<status, reason, collect, older>>

\* ... and the event, unless nothing is new.
Event(t) ==
  LET a == task[t].acct
  IN /\ task[t].at = "event"
     /\ reason' = [reason EXCEPT ![a] = task[t].why]
     /\ task' = [IF reason[a] # task[t].why THEN Disturb(a, t) ELSE task EXCEPT ![t] = Proceed(t)]
     /\ Reread(a, t)
     /\ UNCHANGED <<status, collect, cache>>

\* Mutant of After: a manual refresh ends with its snapshot.
AfterNothing(t) ==
  /\ task[t].at = "after"
  /\ task' = [task EXCEPT ![t] = NoTask]
  /\ UNCHANGED <<status, reason, collect, cache, older>>

\* A manual refresh that succeeded brings an unavailable account back.
After(t) ==
  LET a == task[t].acct
  IN /\ task[t].at = "after"
     /\ task' = [task EXCEPT ![t] =
          IF status[a] = "unavailable" THEN [@ EXCEPT !.at = "update", !.new = "active", !.why = "other"]
          ELSE NoTask]
     /\ Reread(a, t)
     /\ UNCHANGED <<status, reason, collect, cache>>

-----------------------------------------------------------------------------
\* read_candidate_cache
Hit(mode) == cache # None /\ cache.live /\ cache.mode = mode

\* collect_gateway_candidates: a cached list of another mode is dropped; otherwise
\* the accounts are read, and apply_quota_guard leaves some of them.
Collect(c) ==
  /\ collect[c].at = "idle"
  /\ \E mode \in Modes, list \in SUBSET {a \in Accounts : Selectable(a)} :
       /\ ~Hit(mode)
       /\ collect' = [collect EXCEPT ![c] =
            [at |-> "list", list |-> list, todo |-> {a \in Accounts : Selectable(a)}, mode |-> mode]]
  /\ cache' = None
  /\ UNCHANGED <<status, reason, task, older>>

\* The ids of one account after the other are brought up to date: the row is
\* written as it was read, active.
CollectPatch(c) ==
  /\ collect[c].at = "list"
  /\ \E a \in collect[c].todo :
       /\ collect' = [collect EXCEPT ![c].todo = @ \ {a}]
       /\ \/ /\ Write(a, "active", c)
             /\ task' = Disturb(a, c)
             /\ cache' = CacheMissed(a)
          \/ UNCHANGED <<status, older, task, cache>>
  /\ UNCHANGED reason

\* write_candidate_cache
Store(c) ==
  /\ collect[c].at = "list"
  /\ collect[c].todo = {}
  /\ cache' = [list |-> collect[c].list, mode |-> collect[c].mode,
               missed |-> {a \in collect[c].list : c \in older[a]}, live |-> TRUE]
  /\ collect' = [collect EXCEPT ![c] = NoList]
  /\ older' = [a \in Accounts |-> older[a] \ {c}]
  /\ UNCHANGED <<status, reason, task>>

\* CANDIDATE_CACHE_TTL_MS is over.
Expire ==
  /\ cache # None
  /\ cache.live
  /\ cache' = [cache EXCEPT !.live = FALSE]
  /\ UNCHANGED <<status, reason, task, collect, older>>

\* set_quota_guard_config, reload_from_env
Reconfigure ==
  /\ cache # None
  /\ cache' = None
  /\ UNCHANGED <<status, reason, task, collect, older>>

Next ==
  \/ \E a \in Accounts : UserSet(a)
  \/ \E t \in Threads, a \in Accounts : Refresh(t, a) \/ Mark(t, a)
  \/ \E t \in Threads :
       \/ Patch(t) \/ AskAgain(t) \/ Snapshot(t) \/ Judge(t) \/ Fail(t)
       \/ Update(t) \/ Invalidate(t) \/ Event(t) \/ After(t)
  \/ \E c \in Collectors : Collect(c) \/ CollectPatch(c) \/ Store(c)
  \/ Expire \/ Reconfigure

Spec == Init /\ [][Next]_vars

-----------------------------------------------------------------------------
Tasks ==
  [at : {"idle", "patch", "fetch", "repatch", "refetch", "judge", "update", "invalidate", "event", "after"},
   acct : Accounts \cup {None}, held : Statuses \cup {None}, new : Statuses \cup {None},
   why : Reasons \cup {None}, next : {"idle", "after"}, good : BOOLEAN]

TypeOK ==
  /\ status \in [Accounts -> Statuses]
  /\ reason \in [Accounts -> Reasons]
  /\ task \in [Threads -> Tasks]
  /\ \A t \in Threads :
       /\ task[t].at # "idle" => task[t].acct \in Accounts
       /\ task[t].at \in {"patch", "repatch"} => task[t].held \in Statuses
       /\ task[t].at \in {"judge", "update"} => task[t].new \in Statuses
       /\ task[t].at \in {"judge", "update", "invalidate", "event"} => task[t].why \in Reasons
  /\ collect \in [Collectors -> [at : {"idle", "list"}, list : SUBSET Accounts,
       todo : SUBSET Accounts, mode : Modes \cup {None}]]
  /\ cache \in {None} \cup
       [list : SUBSET Accounts, mode : Modes \cup {None}, missed : SUBSET Accounts, live : BOOLEAN]
  /\ older \in [Accounts -> SUBSET Writers]

\* A cached candidate that can no longer be selected got there in one of three ways: its
\* status changed after the list was read and before it was stored, or was changed by a
\* writer that does not invalidate (account_management.rs:232), or was changed by
\* set_account_status, whose invalidation is still to come.  A status set while a list is
\* on its way does leave a stale candidate: the code does not prevent it (selection.rs:111).
CacheNotStale ==
  cache # None =>
    \A a \in cache.list \ cache.missed :
      \/ Selectable(a)
      \/ \E t \in Threads : task[t].at = "invalidate" /\ task[t].acct = a

\* A disabled account stays so: only the user, or a writer that has not read the row since
\* it says so, sets another status.
DisabledStays ==
  [][\A a \in Accounts : status[a] = "disabled" /\ status'[a] # "disabled" =>
       \/ UserSet(a)
       \/ \E t \in older[a] \cap Threads : task'[t] # task[t]
       \/ \E c \in older[a] \cap Collectors : collect'[c] # collect[c]]_vars

\* A manual refresh that finds usage left, undisturbed by other writers, brings the account
\* back: it is active, or disabled by hand, or a reason the pollers stay away for is left
\* on a status the refresh does not touch -- but never is it left unavailable.
ManualRefreshRecovers ==
  [][\A t \in Threads : LET a == task[t].acct IN
       task[t].good /\ task'[t].at = "idle" =>
         \/ status[a] \in {"active", "disabled"}
         \/ reason[a] = "region" /\ status[a] # "unavailable"]_vars
=============================================================================
