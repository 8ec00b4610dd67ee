------------------------------ MODULE Routing ------------------------------
(***************************************************************************)
(* What the gateway's requests share in memory: the gates that let one     *)
(* request of a platform key, path and model pass at a time, and the       *)
(* cooldowns of the accounts.  A reload of the runtime configuration       *)
(* clears both under the requests' feet.  Time is relative: a cooldown is  *)
(* the seconds it has left, an offense the seconds since.                  *)
(***************************************************************************)
EXTENDS Integers, FiniteSets, Sequences

CONSTANTS
  Requests, Keys,
  Locks,         \* the locks that memory can hold at once
  Accounts,
  Reasons,       \* why an account is cooled, but for a 429
  Secs,          \* cooldown_secs_for_reason
  Ladder,        \* ACCOUNT_RATE_LIMIT_COOLDOWN_LADDER_SECS
  ForgetAfter,   \* ACCOUNT_RATE_LIMIT_OFFENSE_FORGET_AFTER_SECS
  CleanupEvery,  \* ACCOUNT_COOLDOWN_CLEANUP_INTERVAL_SECS
  MaxOffenses,   \* bound: the offenses counted
  None

ASSUME RoutingAssumption ==
  /\ None \notin Locks \cup Keys /\ None \notin Int
  /\ IsFiniteSet(Locks) /\ IsFiniteSet(Requests) /\ IsFiniteSet(Keys)
  /\ Cardinality(Locks) >= Cardinality(Requests) + Cardinality(Keys)
  /\ Secs \in [Reasons -> Nat] /\ Ladder \in Seq(Nat) /\ Len(Ladder) > 0
  /\ "429" \notin Reasons
  /\ ForgetAfter \in Nat /\ CleanupEvery \in Nat /\ MaxOffenses \in Nat

VARIABLES
  pc,       \* where each request is
  key,      \* the key of its gate
  lock,     \* the lock it has a reference to
  holds,    \* it has a RequestGateGuard
  table,    \* REQUEST_GATE_LOCKS: the lock of each key
  stale,    \* keys whose entry was last seen longer ago than its time to live
  held,     \* the locks whose state says held
  orphans,  \* history: locks a reload took out of the table
  left,     \* the seconds an account's cooldown has left, 0 when there is none
  offenses, \* its 429s in a row
  since,    \* the seconds since the last of them, up to one more than ForgetAfter
  swept     \* the seconds since the last clean-up, up to CleanupEvery; None before the first

gates == <<pc, key, lock, holds, table, stale, held, orphans>>
cooldowns == <<left, offenses, since, swept>>
vars == <<gates, cooldowns>>

Init ==
  /\ pc = [r \in Requests |-> "idle"]
  /\ key = [r \in Requests |-> None]
  /\ lock = [r \in Requests |-> None]
  /\ holds = [r \in Requests |-> FALSE]
  /\ table = [k \in Keys |-> None]
  /\ stale = {} /\ held = {} /\ orphans = {}
  /\ left = [a \in Accounts |-> 0]
  /\ offenses = [a \in Accounts |-> 0]
  /\ since = [a \in Accounts |-> None]
  /\ swept = None

-----------------------------------------------------------------------------
\* Arc::strong_count is more than one.
Referenced(l) == \E r \in Requests : lock[r] = l

\* Mutant of Swept: entries are dropped by their age alone.
SweptByAge == [k \in Keys |-> IF k \in stale THEN None ELSE table[k]]

\* maybe_cleanup_request_gate_locks
Swept == [k \in Keys |-> IF k \in stale /\ ~Referenced(table[k]) THEN None ELSE table[k]]

\* Memory nothing refers to
NewLock(entries) == CHOOSE l \in Locks : ~Referenced(l) /\ \A k \in Keys : entries[k] # l

\* request_gate_lock; the clean-up runs when the last is long enough ago.
Lookup(r, k) ==
  /\ pc[r] = "idle"
  /\ \E entries \in {table, Swept} :
       LET l == IF entries[k] # None THEN entries[k] ELSE NewLock(entries)
       IN /\ table' = [entries EXCEPT ![k] = l]
          /\ stale' = {j \in stale : entries[j] # None} \ {k}
          /\ lock' = [lock EXCEPT ![r] = l]
          /\ orphans' = orphans \ {l}
  /\ key' = [key EXCEPT ![r] = k]
  /\ pc' = [pc EXCEPT ![r] = "found"]
  /\ UNCHANGED <<holds, held, cooldowns>>

\* The request has the gate ...
Take(r) ==
  /\ held' = held \cup {lock[r]}
  /\ holds' = [holds EXCEPT ![r] = TRUE]
  /\ pc' = [pc EXCEPT ![r] = "running"]
  /\ UNCHANGED lock

\* ... or runs without it and drops its reference.
Pass(r) ==
  /\ lock' = [lock EXCEPT ![r] = None]
  /\ pc' = [pc EXCEPT ![r] = "running"]
  /\ UNCHANGED <<held, holds>>

Gated == UNCHANGED <<key, table, stale, orphans, cooldowns>>

\* try_acquire; a request that may not wait passes.
TryAcquire(r) ==
  /\ pc[r] = "found"
  /\ \/ lock[r] \notin held /\ Take(r)
     \/ lock[r] \in held /\ Pass(r)
     \/ lock[r] \in held /\ pc' = [pc EXCEPT ![r] = "ready"] /\ UNCHANGED <<lock, held, holds>>
  /\ Gated

\* acquire, acquire_with_timeout: the state of the lock is looked at before each wait,
\* and once more when the time is up.
Look(r) ==
  /\ pc[r] \in {"ready", "late"}
  /\ \/ lock[r] \notin held /\ Take(r)
     \/ lock[r] \in held /\ Pass(r)
     \/ /\ lock[r] \in held /\ pc[r] = "ready"
        /\ pc' = [pc EXCEPT ![r] = "waiting"]
        /\ UNCHANGED <<lock, held, holds>>
  /\ Gated

TimeOut(r) ==
  /\ pc[r] = "waiting"
  /\ pc' = [pc EXCEPT ![r] = "late"]
  /\ UNCHANGED <<lock, held, holds>>
  /\ Gated

Waiting(l) == {w \in Requests : pc[w] = "waiting" /\ lock[w] = l}

\* Mutant of Notified: nobody is told.
NotifiedNobody(r) == {[pc EXCEPT ![r] = "idle"]}

\* notify_one
Notified(r) ==
  IF holds[r] /\ Waiting(lock[r]) # {}
  THEN {[pc EXCEPT ![r] = "idle", ![w] = "ready"] : w \in Waiting(lock[r])}
  ELSE {[pc EXCEPT ![r] = "idle"]}

\* The request ends; RequestGateGuard::drop
Release(r) ==
  /\ pc[r] = "running"
  /\ pc' \in Notified(r)
  /\ held' = IF holds[r] THEN held \ {lock[r]} ELSE held
  /\ holds' = [holds EXCEPT ![r] = FALSE]
  /\ lock' = [lock EXCEPT ![r] = None]
  /\ key' = [key EXCEPT ![r] = None]
  /\ UNCHANGED <<table, stale, orphans, cooldowns>>

\* An entry has not been seen for REQUEST_GATE_LOCK_TTL_SECS.
Age(k) ==
  /\ table[k] # None /\ k \notin stale
  /\ stale' = stale \cup {k}
  /\ UNCHANGED <<pc, key, lock, holds, table, held, orphans, cooldowns>>

-----------------------------------------------------------------------------
\* rate_limit_cooldown_secs_for_offense
Rung(n) == Ladder[IF n < Len(Ladder) THEN n ELSE Len(Ladder)]

\* Offenses so old that the clean-up, run by a mark now and then, forgets them
Forgotten == {a \in Accounts : since[a] # None /\ since[a] > ForgetAfter}

CleansUp == swept = None \/ swept >= CleanupEvery

Larger(m, n) == IF m > n THEN m ELSE n

\* Mutant of Cooled: the last mark decides.
CooledAnew(a, secs) == left' = [left EXCEPT ![a] = secs]

\* The later end of two cooldowns stays.
Cooled(a, secs) == left' = [left EXCEPT ![a] = Larger(@, secs)]

\* mark_account_cooldown for any reason but a 429
Mark(a, reason) ==
  /\ Cooled(a, Secs[reason])
  /\ swept' = IF CleansUp THEN 0 ELSE swept
  /\ offenses' = IF CleansUp THEN [b \in Accounts |-> IF b \in Forgotten THEN 0 ELSE offenses[b]]
                 ELSE offenses
  /\ since' = IF CleansUp THEN [b \in Accounts |-> IF b \in Forgotten THEN None ELSE since[b]]
              ELSE since
  /\ UNCHANGED gates

\* mark_account_cooldown for a 429: an old offense of the account is forgotten in any case.
RateLimited(a) ==
  LET gone == IF CleansUp THEN Forgotten ELSE Forgotten \cap {a}
      count == IF a \in gone THEN 1 ELSE offenses[a] + 1
  IN /\ count <= MaxOffenses
     /\ Cooled(a, Rung(count))
     /\ swept' = IF CleansUp THEN 0 ELSE swept
     /\ offenses' = [b \in Accounts |-> IF b = a THEN count ELSE IF b \in gone THEN 0 ELSE offenses[b]]
     /\ since' = [b \in Accounts |-> IF b = a THEN 0 ELSE IF b \in gone THEN None ELSE since[b]]
     /\ UNCHANGED gates

\* Mutant of Succeed: an account without offenses counts down as well.
SucceedUnguarded(a) ==
  /\ left' = [left EXCEPT ![a] = 0]
  /\ offenses' = [offenses EXCEPT ![a] = @ - 1]
  /\ since' = [since EXCEPT ![a] = IF offenses[a] = 1 THEN None ELSE @]
  /\ UNCHANGED <<gates, swept>>

\* Mutant of Succeed: the date goes although offenses are left.
SucceedUndated(a) ==
  /\ left' = [left EXCEPT ![a] = 0]
  /\ offenses' = [offenses EXCEPT ![a] = IF @ > 1 THEN @ - 1 ELSE 0]
  /\ since' = [since EXCEPT ![a] = None]
  /\ UNCHANGED <<gates, swept>>

\* clear_account_cooldown, decay_offense_count_for_success
Succeed(a) ==
  /\ left' = [left EXCEPT ![a] = 0]
  /\ offenses' = [offenses EXCEPT ![a] = IF @ > 1 THEN @ - 1 ELSE 0]
  /\ since' = [since EXCEPT ![a] = IF offenses[a] = 1 THEN None ELSE @]
  /\ UNCHANGED <<gates, swept>>

\* A second passes; a cooldown that has run out is none (is_account_in_cooldown).
Tick ==
  LET older(n, most) == IF n = None \/ n >= most THEN n ELSE n + 1
  IN /\ left' = [a \in Accounts |-> IF left[a] = 0 THEN 0 ELSE left[a] - 1]
     /\ since' = [a \in Accounts |-> older(since[a], ForgetAfter + 1)]
     /\ swept' = older(swept, CleanupEvery)
     /\ UNCHANGED <<gates, offenses>>

\* reload_runtime_config_from_env: both clear_runtime_state
Reload ==
  /\ table' = [k \in Keys |-> None]
  /\ stale' = {}
  /\ orphans' = {l \in Locks : Referenced(l)}
  /\ left' = [a \in Accounts |-> 0]
  /\ offenses' = [a \in Accounts |-> 0]
  /\ since' = [a \in Accounts |-> None]
  /\ swept' = None
  /\ UNCHANGED <<pc, key, lock, holds, held>>

Next ==
  \/ \E r \in Requests :
       \/ \E k \in Keys : Lookup(r, k)
       \/ TryAcquire(r) \/ Look(r) \/ TimeOut(r) \/ Release(r)
  \/ \E k \in Keys : Age(k)
  \/ \E a \in Accounts : RateLimited(a) \/ Succeed(a) \/ \E reason \in Reasons : Mark(a, reason)
  \/ Tick \/ Reload

\* A request on its way goes on; waiting may last for ever where no timeout is configured.
Fairness == \A r \in Requests : WF_vars(TryAcquire(r) \/ Look(r) \/ Release(r))

Spec == Init /\ [][Next]_vars /\ Fairness

-----------------------------------------------------------------------------
TypeOK ==
  /\ pc \in [Requests -> {"idle", "found", "ready", "waiting", "late", "running"}]
  /\ key \in [Requests -> Keys \cup {None}]
  /\ lock \in [Requests -> Locks \cup {None}]
  /\ holds \in [Requests -> BOOLEAN]
  /\ table \in [Keys -> Locks \cup {None}]
  /\ stale \subseteq Keys /\ held \subseteq Locks /\ orphans \subseteq Locks
  /\ left \in [Accounts -> Nat]
  /\ offenses \in [Accounts -> 0..MaxOffenses]
  /\ since \in [Accounts -> {None} \cup 0..(ForgetAfter + 1)]
  /\ swept \in {None} \cup 0..CleanupEvery

\* Each held lock is held by one request, and two requests of one key hold gates at the
\* same time only if a reload came between them (request_gate.rs:271): no clean-up, time
\* out or wake-up lets a second one in.
GateExclusive ==
  /\ \A l \in Locks : l \in held <=> \E r \in Requests : holds[r] /\ lock[r] = l
  /\ \A q, r \in Requests :
       q # r /\ holds[q] /\ holds[r] /\ key[q] = key[r] =>
         lock[q] # lock[r] /\ {lock[q], lock[r]} \cap orphans # {}

\* No wake-up is lost: a request does not go on waiting for a lock nobody holds.
WaiterWoken ==
  \A r \in Requests :
    pc[r] = "waiting" /\ lock[r] \notin held ~> pc[r] # "waiting" \/ lock[r] \in held

\* A cooldown ends by time, by a success of the account or by a reload: a mark, whatever
\* its reason, never shortens what an earlier one has set (cooldown.rs:226).
CooldownNeverShortened ==
  [][\A a \in Accounts : left'[a] < left[a] => Tick \/ Succeed(a) \/ Reload]_vars

\* An account has a date for its offenses exactly while it has any: without it they would
\* never be forgotten, and each later 429 would start on a high rung.
OffensesDated == \A a \in Accounts : offenses[a] > 0 <=> since[a] # None
=============================================================================
