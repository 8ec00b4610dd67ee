---------------------------- MODULE RefreshQueue ----------------------------
(***************************************************************************)
(* The queue of usage refreshes of single accounts                         *)
(* (crates/service/src/usage/refresh/queue.rs).                            *)
(*                                                                         *)
(* A request to refresh an account's usage (after a login or an import)    *)
(* enters the account in the set of pending tasks and sends a task to the  *)
(* worker threads; a request for an account that is pending already is     *)
(* dropped.  A worker takes the account out of the set after the task, and *)
(* also when the task panics.  The set and the channel each have a lock of *)
(* their own, so requests and workers interleave between them.             *)
(***************************************************************************)
EXTENDS Naturals, Sequences

CONSTANTS
  Requesters,   \* threads that ask for refreshes
  Workers,      \* the worker threads the settings ask for
  Accounts,
  None

ASSUME NoneAssumption == None \notin Accounts

VARIABLES
  pending,      \* PENDING_USAGE_REFRESH_TASKS
  channel,      \* the tasks sent and not received
  sending,      \* the account each requester has marked and not sent
  spawned,      \* the workers whose thread could be started
  task,         \* the account of each worker's task
  ended         \* workers whose task has returned or panicked

vars == <<pending, channel, sending, spawned, task, ended>>

-----------------------------------------------------------------------------
Init ==
  /\ pending = {}
  /\ channel = <<>>
  /\ sending = [r \in Requesters |-> None]
  /\ spawned \in SUBSET Workers
  /\ task = [w \in Workers |-> None]
  /\ ended = {}

\* mark_usage_refresh_task_pending; when a is pending the request is dropped.
Mark(r, a) ==
  /\ sending[r] = None
  /\ a \notin pending
  /\ pending' = pending \cup {a}
  /\ sending' = [sending EXCEPT ![r] = a]
  /\ UNCHANGED <<channel, spawned, task, ended>>

Send(r) ==
  /\ sending[r] # None
  /\ spawned # {}
  /\ channel' = Append(channel, sending[r])
  /\ sending' = [sending EXCEPT ![r] = None]
  /\ UNCHANGED <<pending, spawned, task, ended>>

\* No thread could be started: the last receiver is gone.
SendFails(r) ==
  /\ sending[r] # None
  /\ spawned = {}
  /\ pending' = pending \ {sending[r]}
  /\ sending' = [sending EXCEPT ![r] = None]
  /\ UNCHANGED <<channel, spawned, task, ended>>

\* Mutant of Receive: the account is taken out of the set before its task runs.
ReceiveClears(w) ==
  /\ w \in spawned
  /\ task[w] = None
  /\ channel # <<>>
  /\ task' = [task EXCEPT ![w] = Head(channel)]
  /\ channel' = Tail(channel)
  /\ pending' = pending \ {Head(channel)}
  /\ UNCHANGED <<sending, spawned, ended>>

Receive(w) ==
  /\ w \in spawned
  /\ task[w] = None
  /\ channel # <<>>
  /\ task' = [task EXCEPT ![w] = Head(channel)]
  /\ channel' = Tail(channel)
  /\ UNCHANGED <<pending, sending, spawned, ended>>

\* The task returns, with or without an error.
Return(w) ==
  /\ task[w] # None /\ w \notin ended
  /\ ended' = ended \cup {w}
  /\ UNCHANGED <<pending, channel, sending, spawned, task>>

\* Mutant of Panic: nothing catches it, and the worker's thread is gone.
PanicKillsWorker(w) ==
  /\ task[w] # None /\ w \notin ended
  /\ task' = [task EXCEPT ![w] = None]
  /\ spawned' = spawned \ {w}
  /\ UNCHANGED <<pending, channel, sending, ended>>

\* catch_unwind: a task that panics ends like one that returns.
Panic(w) ==
  /\ task[w] # None /\ w \notin ended
  /\ ended' = ended \cup {w}
  /\ UNCHANGED <<pending, channel, sending, spawned, task>>

\* Mutant of Clear: the next task counts as ended already.
ClearKeepsEnded(w) ==
  /\ w \in ended
  /\ pending' = pending \ {task[w]}
  /\ task' = [task EXCEPT ![w] = None]
  /\ UNCHANGED <<channel, sending, spawned, ended>>

\* clear_usage_refresh_task_pending, and the worker waits for the next task.
Clear(w) ==
  /\ w \in ended
  /\ pending' = pending \ {task[w]}
  /\ task' = [task EXCEPT ![w] = None]
  /\ ended' = ended \ {w}
  /\ UNCHANGED <<channel, sending, spawned>>

RequesterStep(r) == Send(r) \/ SendFails(r)
WorkerStep(w) == Receive(w) \/ Return(w) \/ Panic(w) \/ Clear(w)

Next ==
  \/ \E r \in Requesters : RequesterStep(r) \/ (\E a \in Accounts : Mark(r, a))
  \/ \E w \in Workers : WorkerStep(w)

\* Threads run on: a task's requests have total timeouts, and neither lock is held
\* while a thread waits.
Fairness ==
  /\ \A r \in Requesters : WF_vars(RequesterStep(r))
  /\ \A w \in Workers : WF_vars(WorkerStep(w))

Spec == Init /\ [][Next]_vars
FairSpec == Spec /\ Fairness

-----------------------------------------------------------------------------
TypeOK ==
  /\ pending \subseteq Accounts
  /\ channel \in Seq(Accounts)
  /\ sending \in [Requesters -> Accounts \cup {None}]
  /\ spawned \subseteq Workers
  /\ task \in [Workers -> Accounts \cup {None}]
  /\ ended \subseteq {w \in Workers : task[w] # None}

\* However requests and workers interleave, two workers never refresh one account at
\* the same time, and no account has a second task waiting in the channel.
OneTaskPerAccount ==
  /\ \A v, w \in Workers : v # w /\ task[v] # None => task[v] # task[w]
  /\ \A i, j \in 1 .. Len(channel) : i # j => channel[i] # channel[j]
  /\ \A w \in Workers, i \in 1 .. Len(channel) : task[w] # channel[i]

\* "worker 若 panic 需要强制清理 pending，避免该账号后续刷新被永久去重": whatever a
\* task does, its account does not stay barred from later refreshes.
NeverBarredForEver == \A a \in Accounts : a \in pending ~> a \notin pending
=============================================================================
