# CodexManager in TLA+

CodexManager keeps the OpenAI accounts of a user: it stores their OAuth tokens, polls
their usage, refreshes their tokens, and switches the Codex CLI between them by writing the
CLI's own files. This directory holds TLA+ models of the parts of it where order and failure
matter, the TLC instances that check them and the TLAPS proofs of their main properties.
Line numbers refer to `crates/service/src` unless a path says otherwise.

## 1. The system

| Component | State it keeps | Operations | Hard because of |
|---|---|---|---|
| Account switch, `codex_profile.rs` | `auth.json` and `config.toml` of a Codex home; marker; app settings (managed state, backups, Codex home) | `applyDirectAccount`, `applyGateway`, `restore`, `setConfig`, status | seven writes that can each fail, a rollback, crashes, files that Codex and the user write too |
| History repair, `codex_profile.rs` 942-1700 | rollout files, `state_5.sqlite`, session index, backup directories | repair after a gateway switch or on request, pruning | files that a running Codex appends to |
| Session catalogue, `session_catalog.rs` | `state_5.sqlite`, a backup and an audit record | list, repair one row | the same database, partial failure |
| Token refresh, `usage/usage_token_refresh.rs`, `usage_http.rs` | table `tokens`, one mutex per account | `refresh_and_persist_access_token` | single-use refresh tokens, many callers, retries, lost answers |
| Pollers and profile sync, `usage/refresh/mod.rs`, `batch.rs`, `usage_analytics.rs` | batch cursor, the rows, `auth.json` | token poller, usage poller, manual refresh, sync of the active profile | the CLI rotates the same token |
| Usage refresh queue, `usage/refresh/queue.rs` | pending set, channel, workers | enqueue, run | two locks, panicking tasks |
| Background loops, `usage/refresh/runner.rs`, `lifecycle/` | start-once flags, intervals, failure counts | poll loops, startup, shutdown | backoff, restart |
| Account status, `account/account_status.rs` | column `accounts.status`, status events | the user's changes; mark limited, unavailable, banned; bring back | check, then set; whole rows written back; a cache to invalidate |
| Login and import, `auth/` | login sessions, rows | device login, callback, import | timeouts, a second login |
| Gateway, `gateway/` | cooldowns, gates, in-flight counters, candidate cache, conversation bindings | `handle_gateway_request`: one request over its candidates | failover, retries, deadlines, shared counters and caches, many ways out of an attempt |
| RPC server, `http/server.rs` | none | one `/rpc` request at a time | - |
| Storage, `crates/core/src/storage` | SQLite | one statement or transaction per call | - |
| Web shell, start supervisor, desktop shell, LabContext | sessions, child processes, update files | forward, supervise, update | process lifetimes |

How they interact. RPCs are served one after the other by the loop of `http/server.rs`, so two
profile operations never overlap; but the pollers, the queue's workers and the threads an RPC
leaves behind run beside it. They share the `tokens` table (each statement is atomic, nothing
spans two of them), `auth.json` (which the Codex CLI also writes), and the per-account refresh
locks. Upstream is the authority on which refresh tokens are alive. The status of an account is read and
written by the pollers, by manual refreshes, by the user and by the gateway's requests, which keep a
cache of the accounts they may use. The gateway is compiled and tested with the service, but
`http/backend_router.rs` routes only `/rpc` and `/auth/callback`: its entry
(`gateway/request/request_entry.rs` 14) is reached from `http/gateway_endpoint.rs` alone. It is
modelled as the tests and the code have it.

What makes each component correct:

* Token refresh: a refresh token is exchanged at most once, its successor reaches the row or is
  lost only with an answer, a write or the process; an `Ok` result is a token upstream accepts, as far as
  the call can know; the lock is given back.
* Account switch: the user's files are always restorable; a switch happens as a whole or not at
  all; its success means that `auth.json` identifies the account.
* Pollers and sync: the row of an account never holds the credentials of another ChatGPT id; background
  work leaves the CLI's token alone. (Accounts that share an id are not kept apart, and the sync may put
  an older token over a newer one: sections 4 and 6.)
* Queue: one task per account at a time; no account is barred for ever.
* Session repair, history repair: one row, with a backup and a record that stands for the change; no
  line of a conversation is lost.
* Polling loop: the batches take turns, so every account is polled again and again.
* Account status: a disabled account stays so until the user, or work begun before, says otherwise;
  a manual refresh brings an account back; a status the service sets reaches the gateway's cache, unless
  a list is on its way there (section 6).
* Gateway: a request is answered once, ends, and gives back what it holds; under account rotation it is not
  refused while an account is left to try; a conversation is bound to an account that has served it. One request of a
  key at a time passes its gate, and no wake-up is lost. A mark never shortens a cooldown.

## 2. Plan

Order of work, most important behaviour first.

1. `TokenRefresh`; `SerialRefresh` (abstract) and `TokenRefreshSerial` (the mapping); `TokenRefreshProofs`
2. `CodexProfile`, `CodexProfileProofs`
3. `AtomicSwitch` (abstract) and `CodexProfileAtomic` (the mapping), proved in `CodexProfileProofs`
4. `ActiveProfile` (composes refresh, switch, sync and the CLI at a coarser grain),
   `ActiveProfileProofs`
5. `RefreshQueue` and `UsagePoll`, composed in `MCUsageRefresh` and proved in `UsageRefreshProofs`
6. `History`, `HistoryProofs`: history repair and session index repair on the shared
   `state_5.sqlite`, with a running Codex
7. `AccountStatus`, `AccountStatusProofs`: automatic and manual status changes and the candidate cache
8. `Gateway`, `GatewayProofs`: the life of concurrent requests
9. `Routing`, `RoutingProofs`: request gates and cooldowns

Not reached: the login sessions (device login, callback, cancel and timeout), the start supervisor and
the updater. Still to prove: that `SerialRefresh` together with the sync implements the two-step
refresh of `ActiveProfile`.

## 3. The modules

| Module | Models | State | Actions |
|---|---|---|---|
| `TokenRefresh` | `usage_token_refresh.rs` 27-164, the send of `usage_http.rs` 1362-1405 | `store` (table), `lock`, and for each call `pc`, `acct`, `orig`, `tok` | one per step of the call: `Begin`, `Acquire`, `AdoptLatest`/`KeepOwn`/`RereadFails`, `Granted`/`Rejected`/`SendAgain`/`SendFails`, `Recover`, `Persist`/`PersistFails`, `Return`; and `Login`, `Delete`, `Crash` |
| `SerialRefresh` | what the refreshes of an account promise together | `row`, `using`, `answer` of each account; what upstream issued | `Start`, `Exchange`, `LoseAnswer`, `GiveUp`, `Store`, `DropAnswer`; `Login`, `Delete`, `Crash` |
| `TokenRefreshSerial` | refinement mapping | - | - |
| `CodexProfile` | `codex_profile.rs` 233-698, 732-804, 1944-2167 | the four files of each home, three settings, the running operation | one per write of a switch, of its rollback and of a restore; `SetConfig`, `StatusRequest`; external `CodexLogin`, `EditConfig`; `Crash` |
| `AtomicSwitch` | what a switch promises | `profile`, `selected` | `Switch` |
| `CodexProfileAtomic` | refinement mapping | - | - |
| `ActiveProfile` | `usage/refresh/mod.rs` 416-705, `batch.rs` 56-108, `codex_profile.rs` 282-413 and 810-940 | rows, `auth.json`, marker, the CLI's memory, each thread's work | poller, usage, refresh, sync and switch steps of a thread; external `CliStart`, `CliRotate`, `CliLogin`; `Login` |
| `RefreshQueue` | `usage/refresh/queue.rs` | pending set, channel, workers | `Mark`, `Send`, `SendFails`, `Receive`, `Return`, `Panic`, `Clear` |
| `UsagePoll` | `usage/refresh/batch.rs` 42-108, 140-290, the repetition of `runner.rs` | the accounts that may be polled, `cursor`, the cycle's list, the channel, each worker of its scope | `StartCycle`, `TakeTask`, `FinishTask`, `TaskPanics`, `ChannelEmpty`, `EndCycle`; `Edit` (an account comes on or off the list) |
| `History` | `codex_profile.rs` 495-516, 668-730, 975-1656, 1734-1752; `session_catalog.rs` 250-372 | rollouts, rows, index, backup directories, the audit record, the repair under way; Codex's handles | one per step of the history repair (`StartHistory`, `ReadRollout`, ..., `Prune`) and of the index repair (`StartIndexRepair` ... `CompleteRecord`); `PruneRequest`; `MoveLegacy`, `PruneMigrated` (an earlier version's directories); external `CodexStart`, `CodexResume`, `CodexAppend`, `CodexRow`, `CodexIndex`; `Crash` |
| `AccountStatus` | `account/account_status.rs`, the status effects of `usage_snapshot_store.rs`, `usage_account_meta.rs`, `usage/refresh/mod.rs` 416-560, `account_management.rs`, `gateway/routing/selection.rs` 52-190 | `status`, `reason` (the latest event), each thread's refresh or error, each collector of candidates, `cache` | a refresh: `Refresh`, `Patch`, `AskAgain`, `Snapshot`, `Judge`, `Fail`, `After`; an error: `Mark`; `set_account_status`: `Update`, `Invalidate`, `Event`; a collection: `Collect`, `CollectPatch`, `Store`; `UserSet`, `Expire`, `Reconfigure` |
| `Gateway` | `gateway/upstream/proxy.rs`, `candidate_executor.rs`, `response_finalize.rs`, `postprocess.rs`, `candidates.rs`, `failover_policy.rs`, `aggregate_api.rs`, `conversation_binding.rs`, `delivery.rs` | per request `pc`, `plan` (what key and path make of it), `queue` of candidates, `reply`, `got`, what it holds (`guard`); shared `cooling`, `inflight`, `gate`, `binding` | arrival: `Reject`, `ArriveAggregate`, `ArriveEmpty`, `Arrive`; the loop over candidates: skip, send, fail over, retry, deliver, suppress, end; the aggregate APIs: `ServeApi`, `ApiServed`, `RetryApi`, `NextApi`, `ApiEnd`; `Thaw` (a cooldown runs out) |
| `Routing` | `gateway/routing/request_gate.rs`, `cooldown.rs` | the table of gates and each lock's state, what each request refers to and holds; each account's cooldown, offenses and their date | `Lookup` (with its clean-up), `TryAcquire`, `Look`, `TimeOut`, `Release`, `Age`; `Mark`, `RateLimited`, `Succeed`, `Tick`; `Reload` |

Abstractions. A token is a pair of numbers (which access and which refresh token of its account,
in the order of issue) and, in `ActiveProfile`, its owner and one number. The contents of
`auth.json` are whom they identify; those of `config.toml` the user's own text (a model value) and
whether the managed provider is selected. `by` in `CodexProfile` records who wrote `auth.json`;
no action reads it, and `orphaned`, `blind`, in `ActiveProfile` `quiet` and in `MCCodexProfile` `before`
(what an operation found, and whether nobody disturbed it) are history too. Upstream is external:
it accepts a set of refresh tokens and may consume one although its answer is lost. `model_provider`
lines of the user's own are not told apart from other text. A status request of a poller is one step
in which the legacy marker is migrated; the history index that `applyGateway` repairs is no part of
these files. Times and the schedule of the next attempt are left out: an attempt may be made at any
time. In `ActiveProfile` a refresh is two steps (answer, write) because `TokenRefresh` has the rest,
and the files of a switch are the two that identify an account.

In `History` a rollout is the provider its `session_meta` line names and the set of its later lines;
`session_meta` is the first line Codex writes, so every rollout has one. The copies of the database and
of the index are not kept, only whether making them failed; so is a copy of a rollout that was cut
short, as the rollout then stays. A row that Codex's database cannot have (no column
`model_provider`) and a missing database are left out. Codex keeps its handle on a rollout the repair
replaces: on Unix its later lines go to the file that is gone, and these, the lines written between
copy and replacement and those in directories that retention removed are collected in `stray`, which
no action of the program reads; nor does it read `written`, `touched` and `replaced`.
Backup directories are ordered by when they were last modified, as retention sees them. A status request
of a poller moves the directories of an earlier version in, one by one between any two steps: a rename
makes a directory the oldest, the copy that stands in for a rename makes it the newest, before the
directory of a repair under way, and may leave the original to be copied again (`MoveLegacy`); then it
prunes (`PruneMigrated`). A directory that retention took from a repair is made again by the repair's next
file. Other RPCs wait. `newer` counts, as history, the directories copied in before a running repair's.

In `UsagePoll` the list of accounts is read in one step where the code reads accounts, tokens and
events one after the other, and the switch that turns polling off is left out. `AccountStatus` neither
adds nor deletes accounts, and "active" stands for "unknown" as well, which no code tells apart; what a
failure's text is taken for is free. `older`, `good` and the cache's `missed` are history: which work has read a row
that was written since, whether a manual refresh found usage left and was not disturbed, and which of the
cached accounts had their status changed while the list was on its way or without an invalidation. In `Gateway` the candidates and their order, what
an upstream answers, when a deadline passes and whether a delivery reaches the client are free; the
retry of an attempt without affinity shares the ways out of the first, which allows a little more than
the code. The waiting at the gate, its time-out and its clean-up are the subject of `Routing`, where a
request is only what it refers to and holds. Seconds there are scaled down, time is relative, and a
lock is a model value that can be used again when nothing refers to it.

Mutants: an operator marked "Mutant of" in a module is a plausible bug of the operation it names; with
it in place of the operation, the run finds the property violated.

## 4. The runs

| Run | Instance | Result |
|---|---|---|
| `token_refresh` | 2 callers, 1 account, `MaxIssued` 3; 150,042 states | `PresentsUnspentToken`, `StoredTokenUnspent`, `OkTokenAccepted` and, with fairness, `LockReleased` hold; `RefreshIsSerial`: refines `SerialRefresh` |
| `codex_profile` | 1 home that may come with a legacy marker, 2 accounts of which one can be verified, 1 key, all faults; 3,450,732 states | `ManagedHasBackup`, `BackupIsUsers`, `SwitchVerified`, `SwitchAllOrNothing`, `RestoreLeavesNoTrace` hold; no deadlock |
| `codex_profile_home` | 2 homes, direct switches without faults | **violated**: `RollbackRestoresHome`; a switch that fails its verification leaves the persisted home behind |
| `active_profile` | 2 accounts with ChatGPT ids of their own, 2 threads of every kind, `MaxIssued` 4; 1,134,562 states | `CredentialsStayWithAccount`, `ActiveProfileUsable` hold |
| `active_profile_shared` | the same with one ChatGPT id for both | **violated**: `CredentialsNeverCross`; the sync stores the one account's token for the other |
| `usage_refresh` | the queue with 2 requesters, 2 workers (any of which may not start) and 2 accounts beside the polling loop with 3 accounts, `BatchLimit` 2, `PollWorkers` 2; 473,184 states | `OneTaskPerAccount`, `TakesTurns` and, with fairness, `NeverBarredForEver` and `EveryoneIsPolled` hold; no deadlock |
| `history` | 1 session, 2 providers, retention 1 to 2 of at most 3 directories, 2 directories of an earlier version, 1 line; 1,365,438 states | `LinesKept`, `RecordIsTrue`, `RunningBackupKept`, `RepairAligns` hold; no deadlock |
| `gateway` | 2 requests, 2 accounts, 4 plans, 3 kinds of upstream, `MaxInflight` 1, `MaxApis` 1, `Retries` 1; 380,758 states | `NothingLeaked`, `LastCandidateTried`, `BindingWasServed`, `AnsweredOnce` and, with fairness, `Terminates` hold |
| `gateway_hybrid` | 1 request of a hybrid key, 2 accounts, no retries | **violated**: `HybridFallsBack`; the last account's failure is the answer, the aggregate APIs are not asked |
| `gateway_consumed` | 1 request, 2 accounts, no retries | **violated**: `RequestInHand`; the loop goes on with a request it has given away |
| `account_status` | 1 account, 2 threads, 1 collector; 1,086,915 states | `CacheNotStale`, `DisabledStays`, `ManualRefreshRecovers` hold; no deadlock |
| `routing` | 3 requests of 1 key, 4 locks, 1 account, a ladder of 2; 223,188 states | `GateExclusive`, `OffensesDated`, `CooldownNeverShortened` and, with fairness, `WaiterWoken` hold; no deadlock |

Bounds. `MaxIssued` caps the tokens upstream issues; three grants are enough for two calls and a
login to interleave (one call needs one grant, a lost answer a second), and for the CLI and two
threads to rotate in turn in `ActiveProfile`. `History` has three bounds: `MaxLines` (the properties speak of one line at a time, and Codex may write
it before, between or after the steps of a repair), `MaxDirs` (directories that pile up while pruning
fails) and `MaxLegacy` (two, so that as many old directories as retention keeps can be copied in before a
running repair's). Its retention is 1 to 2 where the code's is 1 to 3, which leaves each
case of keeping by number, by age and not at all. One session is what TLC can finish; the
theorems cover any number, and with it the repairs that fail after the first of several. The rest are small constant
sets. `BatchLimit` 2 of 3 accounts makes batches that wrap around. `MaxInflight` 1 is a limit the first
request meets; `MaxApis` and `Retries` 1 make one of each fallback and retry. `MaxOffenses` caps the
offenses counted, one more than fits under the first rung of the ladder. Three requests are the fewest
of which two wait for the third. In `account_status` one account is enough, as the rows do not touch each
other and the cache is one list. Two callers or threads suffice because a lock, an adopted row or a stale copy
involves two parties; the proofs remove the restriction. One home is enough, as a directory's files are
its own and the settings record one; `SwitchImplementsAtomic` covers any number of homes, where the
settings of one must not leak into another. No run has a `config.toml` that cannot be parsed
(`BrokenTexts`); the theorems cover it. `CHECK_DEADLOCK FALSE` is set
where the cap on tokens ends the behaviour and in `gateway`, where it ends with the requests; the other
runs check for deadlock. Threads are interchangeable and no liveness is checked in `active_profile`
and in `account_status`, so those use symmetry; the other runs do not.

Fairness. `TokenRefresh`: weak fairness of each call's next step; the HTTP client has total timeouts
(`usage_http.rs`), and nothing under the lock waits for another thread. No fairness is assumed of
the start of calls, of logins, of upstream's choice between answers, or of crashes.
`RefreshQueue`: weak fairness of each requester and worker; a task ends because its requests
time out, and neither of the two locks is held while waiting. A caller that waits for the account's
lock is not claimed to get it. `UsagePoll`: weak fairness of the loop and of each worker; sleeps are
bounded, a task's requests time out, and `spawn_background_loop` starts a loop that panicked again
(`runner.rs`). `EveryoneIsPolled` also assumes that from some time on the list stays the same and no
worker fails: a cycle that fails leaves the cursor where it is, so an account whose task panics each time
keeps the others waiting. `Gateway`: weak fairness of each request's next step; each runs on a worker of
its own, its waits at the gate have a limit, and the HTTP client has timeouts. Nothing is assumed of the arrival
of requests or of what upstream answers. `Routing`: weak fairness of each request but while it waits, as
the wait has no limit when none is configured; `WaiterWoken` says that it need not have one.

Disagreements: the four runs that end in a violation are quoted in `PROJECT.json` under "findings".
`ARCHITECTURE.md` 40-45 lets a switch persist the Codex home, verify, and end in "success or rollback";
the rollback (`codex_profile.rs` 383) leaves the home where the failed switch put it
(`codex_profile_home`). The comment on the
profile sync (807-809) says that its comparison of ids keeps credentials from crossing account boundaries;
`account_ids_match` (939) compares the ChatGPT id, which several managed accounts may share
(`account_identity.rs` 95-97, 178-187), and one account's token is stored for the other
(`active_profile_shared`). The UI says that hybrid rotation falls back to the aggregate APIs when the
accounts are exhausted (`apps/src/lib/i18n/messages/en.ts` 658); but the last candidate of any protocol
except Anthropic's is never skipped and its error is the answer, so that the fallback
(`gateway/upstream/proxy.rs` 960) is not reached (`gateway_hybrid`). The loop over the
candidates expects to have the request in hand (`candidate_executor.rs` 213-215, 512-513), but an attempt
that has given it to its delivery may ask for a failover all the same; the next round then ends with
"request already consumed" or a panic, after the client's answer or, if its delivery was suppressed,
without one (`gateway_consumed`).

## 5. The proofs

`tlapm` checks every theorem for all values of the constants.

| Theorem | States | Argument |
|---|---|---|
| `TokenRefreshProofs!NeverPresentsSpentToken`, `RowNeverGoesBack`, `OkIsAccepted` | the three safety properties of `TokenRefresh` | The properties are not inductive. The invariant adds: a call in its critical section holds the lock (`LockHeld`), it works with the token the row had (`OwnToken`), an answered call carries a live token (`AnswerLive`), every row is acceptable or is about to be replaced by the call that exchanged its token (`RowCovered`), and a row that differs from the one a call has read was stored since and is accepted (`RowSinceReread`) |
| `TokenRefreshProofs!LocksAreExact` | an account's lock is held exactly by the call that is inside its critical section | as `IInv`; a call that leaves gives the lock back in the same step |
| `TokenRefreshProofs!HoldersCountDown` | the safety half of `LockReleased`: each step of the holder of a lock releases it or leaves fewer of at most four steps, and no step of another call, a login or a deletion moves the lock or the holder | The steps of the critical section are ranked (`LockedStepsLeft`); by `LockHeld` and `HolderInside` no other call is at a step that touches the lock |
| `TokenRefreshProofs!RefreshImplementsSerial` | `Spec => RefreshIsSerial`: any number of calls implement the serial refresh | The exchange of an account is that of its lock's holder, from its re-read on (`Using`, `AnswerFor`). `KeepOwn` starts an exchange, and by `LocksAreExact` none is under way; a step of a call that does not hold the lock, or waits for it, is a stutter; `TokensIssued` bounds the tokens a caller may bring |
| `CodexProfileProofs!ManagedIsRestorable`, `BackupIsOriginal`, `OkSwitchIsVerified` | that the user's files can always be restored, are never mistaken, and that success means verified | `OpAtStep` (which operation is at which step), `BackupKept` (a backup exists from copy to end), `Reverted` (a restore gives it up only when both files are the user's), `Progress` (what has been written stays) |
| `CodexProfileProofs!RestoreIsComplete` | `RestoreUnmanages`, assuming `~Inherited` | with `NoLegacy`: nothing brings a marker back while it is removed |
| `CodexProfileProofs!RestoreIsRoundTrip` | `CopiesReturn`, assuming `"user" \notin Faults`: a first-touch copy is never replaced, and it goes only when `restore` has put both files back as they were copied | `Returned`: which of the two files the restore has written back at which step; only the writes of a restore lead on through it (`RestoreGoesOn`) |
| `CodexProfileProofs!SwitchImplementsAtomic` | `Spec => SwitchIsAtomic` (refines `AtomicSwitch`; the run checks the step of an undisturbed switch, `SwitchAllOrNothing`), assuming `Undisturbed` (only switches, no crash, no foreign edit, rollbacks can write, no legacy marker) | `Unfinished` says for each step which files are the switch's and which are what it found; every step is then a stutter but the successful `Verify` |
| `ActiveProfileProofs!NoCrossing` | `CredentialsStayWithAccount` | `OwnToken`: a token a thread may store shows the ChatGPT id of the account it works on |
| `ActiveProfileProofs!ProfileStaysUsable` | `ActiveProfileUsable`, assuming distinct ChatGPT ids | `NotActives`: a thread past the exclusion does not hold the token of auth.json; `Numbered`: the number of a token in use tells its owner, so that an exchange of one account's token leaves the profile's alive |
| `UsageRefreshProofs!NoDoubleRefresh` | `OneTaskPerAccount` | `Pending` and `OnePlace`: an account on its way, in the channel or with a worker is pending and nowhere else |
| `UsageRefreshProofs!BarredOnlyInFlight` | the safety half of `NeverBarredForEver`: the pending set is what is in flight, and a task that waits has a worker | the converse of `Pending`: what makes a task leave its place also clears it |
| `UsageRefreshProofs!CyclePollsOnce`, `BatchesTakeTurns` | no account is in two hands in a cycle; `TakesTurns`, the safety half of `EveryoneIsPolled` | a batch is a stretch of a ring no longer than the ring: its places differ (`PlacesDiffer`), the distance from the cursor is the place's number in the batch (`AheadIsPlace`), and moving the cursor on shortens it (`NextCursorNearer`) |
| `HistoryProofs!ConversationsKept`, `RunningBackupStays` | `LinesKept`, `RunningBackupKept` | `Underway` (what the repair works on, and which of its rollouts are copied) with `Placed` (the repair's directory stands behind at most `newer` others, for as long as `newer` is below `MaxBackups`) and `LinesInv` (what a replacement takes from a rollout has been copied or counted); retention keeps the directory as it keeps all young enough up to `MaxBackups` |
| `HistoryProofs!RecordsStandForRepairs` | `RecordIsTrue` | `RecordInv`: at each step of the index repair, what the record says, and that the row is as read unless Codex wrote it |
| `HistoryProofs!RepairIsComplete` | `RepairAligns` | `AlignInv`: without a warning, a session Codex has not written is aligned where the repair is done and on its list elsewhere |
| `GatewayProofs!NothingLeaks`, `AnswersOnce` | `NothingLeaked`, `AnsweredOnce` | `Placed` (what a request holds and has said at each place), `Counted` (each counter is the number of its guards) and `GateHeld` |
| `GatewayProofs!LastIsTried` | `LastCandidateTried` | every way of failing over looks at what comes after the candidate (`LastStays`): at the last one the request is answered instead, and only Anthropic's may be skipped there (`RunsOut`) |
| `GatewayProofs!BindingServed` | `BindingWasServed` | the request that binds has ended with an answer, and an ended request does not change |
| `GatewayProofs!RequestsCountDown` | the safety half of `Terminates`: a request that has arrived ends after `MaxSteps` steps of its own at the latest | `StepsLeft`: six steps for each candidate left, one for each attempt and each aggregate API left; `AgainAtUpstream` makes the retry without affinity the last |
| `AccountStatusProofs!CacheFresh` | `CacheNotStale` | `Listed`: an account on a collector's list is selectable, or the collector is in `older` for it and will store it as `missed` |
| `AccountStatusProofs!DisabledKept` | `DisabledStays` | `Reads`: a thread that has read the row since cannot be about to revive a disabled account |
| `AccountStatusProofs!RefreshRecovers` | `ManualRefreshRecovers` | `Recovering`: what status and reason a refresh that found usage left can meet at each of its steps |
| `RoutingProofs!GatesExclude` | `GateExclusive` | `InTable`: a lock a request refers to is the table's for its key unless a reload took it out |
| `RoutingProofs!WakeUpsAreNotLost` | the safety half of `WaiterWoken`: while somebody waits for a gate it is held, or a waiter has been woken | `WakeUpUnderWay`; a release leaves the gate free and wakes in one step, and the one woken looks before it waits again |
| `RoutingProofs!Dated`, `MarksLengthen` | `OffensesDated`, `CooldownNeverShortened` | from the actions; the larger of two cooldowns is none shorter |
| `TypeCorrect` in each of the eight | the type invariant | by cases on the actions |

The assumptions on constants are the named `ASSUME`s of the modules, which the runs evaluate. The
assumptions of `RestoreIsComplete`, `RestoreIsRoundTrip` and `SwitchImplementsAtomic` are
necessary: a status request can finish a migration a restore has begun to undo; Codex can rewrite
`auth.json` after the restore did; a crash or a rollback that cannot write leaves a switch half done.
`CredentialsStayWithAccount` speaks of ChatGPT ids, of which each account may have any. `ActiveProfileUsable`
claims nothing once a switch has begun or a usage request was refused (`quiet`): both can spend the
profile's token.

Only model-checked: `LockReleased`, `NeverBarredForEver`, `EveryoneIsPolled`, `Terminates` and
`WaiterWoken`, as liveness under fairness is out of the prover's reach. For each the table
above has the safety half as a theorem, which leaves to fairness only that somebody takes the steps that
remain: `HoldersCountDown`, `BarredOnlyInFlight`, `BatchesTakeTurns`, `RequestsCountDown` and `WakeUpsAreNotLost`.

## 6. Not modelled

The components the plan has not reached: login sessions, the start supervisor and the updater. Out of
reach or without interaction to check: parsing of usage answers, statistics and prices, the gateway's
translation of API dialects and its streaming, user interfaces, the LabContext sidecar, SQLite itself,
tables that are read and written one statement at a time (API keys, aggregate APIs, quota pools, model
groups, settings, request log, web sessions). Two writers of the tokens table are left out of
`TokenRefresh`: the gateway's token exchange (`gateway/auth/token_exchange.rs` 145), because no route
leads to it, and the profile sync, which `ActiveProfile` has.

Facts met while reading that no run shows:

* A switch that is rolled back writes back `config.toml` as the switch read it (`codex_profile.rs` 394).
* A refresh does not compare the row again before it writes (`usage_token_refresh.rs` 84): a login that
  stores a new grant meanwhile is overwritten by the successor of the old one. The row stays usable.
* The audit record of an index repair names the provider read before the backup; the update (331) does not
  compare it, so when Codex has written the session in between the record names another provider than the
  one replaced. `RecordIsTrue` excuses this case.
* As many old backup directories as are kept at all (3), copied in while a history repair runs because they
  cannot be renamed, push out the directory the repair writes into, and with it the copies made so far
  (`codex_profile.rs` 670, 1562-1583, 1738). `RunningBackupKept` excuses this case.
* A candidate list that is on its way when an account's status is set is stored after the invalidation and
  keeps the account until it expires (`selection.rs` 107-117). `CacheNotStale` excuses this case, and the
  user's own changes and whole rows written back, which do not invalidate.
* A thread that has read an account before it was disabled revives it: by a status it sets after its check
  (`account_status.rs` 302), or by writing back the whole row with other ids (`usage_account_meta.rs` 232,
  `selection.rs` 145). `DisabledStays` excuses these.
* The usage poller refreshes the active profile's token when its request is refused (`batch.rs` 56-108,
  `refresh/mod.rs` 685), although the token poller leaves that account to the CLI (428-430).
* The sync of the active profile reads, compares and writes the row without a lock (849-884), so a newer
  row stored in between can be replaced by the older token; `applyDirectAccount` does not sync first (318);
  a restore writes back an `auth.json` whose refresh token may have been used since.
* A panic under the refresh lock poisons the account's mutex (`usage_token_refresh.rs` 38).
* `set_account_status` writes row and event in two statements (`account_status.rs` 59-78); a login or a
  re-activation writes no event, so an account whose last event is a region block stays off the
  pollers' list (`auth_tokens.rs` 1217, `account_management.rs` 232).
* A success clears a cooldown that a later request has set (`cooldown.rs` 265).
* The fallback to an OpenAI base is never
  taken (`gateway/upstream/config.rs` 141-168).
* `SHUTDOWN_REQUESTED` (`lifecycle/shutdown.rs`) is a flag of one process, and no route of the shipped
  server answers `/__shutdown` (`backend_router.rs` 19-27; the one in `backend_runtime.rs` 365 is not
  compiled). A service in a process of its own is therefore never stopped by a request: the start
  supervisor's attempt to restart a running service ends in "service 端口仍被占用"
  (`crates/start/src/main.rs` 484-487, 603-614), its own shutdown always comes to the kill after three
  seconds, and `/__quit` of the web shell leaves the service it spawned running.
* When the start supervisor cannot replace or start the web shell, it exits and leaves the service it has just
  spawned running (`crates/start/src/main.rs` 634-657), except on Windows.
* A desktop service that is stopped before it has bound its port misses the request that would wake it
  (`service_runtime.rs` 148-156, `http/server.rs` 4-8): it listens until the next request, and until then
  the next start finds the port taken.
* `selection.rs` 145 writes a whole row and so brings back the row of an account deleted meanwhile.
