----------------------------- MODULE UsagePoll -----------------------------
(***************************************************************************)
(* The usage polling loop (crates/service/src/usage/refresh/batch.rs and   *)
(* runner.rs).                                                             *)
(*                                                                         *)
(* Each cycle lists the accounts that may be polled, takes a batch of them *)
(* from USAGE_POLL_CURSOR on, wrapping around, and hands it to a scope of  *)
(* worker threads through a channel.  Only a cycle whose workers all ended *)
(* well advances the cursor; one whose storage could not be opened, or     *)
(* whose worker panicked, is an error, or restarts the loop, and the next  *)
(* cycle polls from the same place.  Intervals, jitter and backoff are     *)
(* left out: a cycle may start at any time; polling is switched on.        *)
(***************************************************************************)
EXTENDS Naturals, Sequences

CONSTANTS
  Order,        \* the accounts with a token, as list_tokens lists them
  BatchLimit,   \* CODEXMANAGER_USAGE_POLL_BATCH_LIMIT; 0: no limit
  PollWorkers,  \* USAGE_REFRESH_WORKERS
  NoTask

Polled == {Order[i] : i \in 1 .. Len(Order)}

ASSUME PollAssumption ==
  /\ Order \in Seq(Polled)
  /\ \A i, j \in 1 .. Len(Order) : i # j => Order[i] # Order[j]
  /\ BatchLimit \in Nat
  /\ PollWorkers \in Nat \ {0}
  /\ NoTask \notin Polled

VARIABLES
  eligible,     \* accounts neither disabled, banned nor barred by their last event
  cursor,       \* USAGE_POLL_CURSOR
  listing,      \* all_tasks of the cycle; empty between cycles
  batch,        \* the tasks in the channel
  worker,       \* what each worker of the scope does
  polling       \* the account whose task the worker runs

pollVars == <<eligible, cursor, listing, batch, worker, polling>>

-----------------------------------------------------------------------------
PollInit ==
  /\ eligible \in SUBSET Polled
  /\ cursor = 0
  /\ listing = <<>> /\ batch = <<>>
  /\ worker = [w \in 1 .. PollWorkers |-> "none"]
  /\ polling = [w \in 1 .. PollWorkers |-> NoTask]

\* The status of an account changes, or its latest event.
Edit(a) ==
  /\ eligible' = IF a \in eligible THEN eligible \ {a} ELSE eligible \cup {a}
  /\ UNCHANGED <<cursor, listing, batch, worker, polling>>

\* build_usage_refresh_tasks: the tokens of the eligible accounts, in the order of the list.
Lists(tasks, n) ==
  /\ \A a \in eligible : \E i \in 1 .. n : tasks[i] = a
  /\ \A i, j \in 1 .. n : i < j =>
       \E k, l \in 1 .. Len(Order) : k < l /\ Order[k] = tasks[i] /\ Order[l] = tasks[j]

\* usage_poll_batch_limit
BatchSize(total) == IF BatchLimit = 0 \/ BatchLimit > total THEN total ELSE BatchLimit

\* Mutant of Batch: it begins one place too late.
BatchFromNext(tasks) ==
  LET total == Len(tasks)
  IN  [i \in 1 .. BatchSize(total) |-> tasks[(((cursor % total) + i) % total) + 1]]

\* usage_poll_batch_indices
Batch(tasks) ==
  LET total == Len(tasks)
  IN  [i \in 1 .. BatchSize(total) |-> tasks[(((cursor % total) + i - 1) % total) + 1]]

\* Mutant of NextCursor: the place the batch started from is left out.
NextCursorFromZero(total, processed) == processed % total

\* next_usage_poll_cursor
NextCursor(total, processed) == ((cursor % total) + processed) % total

\* A cycle that cannot list the accounts, or finds none, changes nothing.  Each worker
\* opens the storage, or ends at once; a single one runs in the thread of the loop.
StartCycle ==
  /\ listing = <<>>
  /\ \E n \in 1 .. Len(Order) : \E tasks \in [1 .. n -> eligible] :
       /\ Lists(tasks, n)
       /\ listing' = tasks
       /\ batch' = Batch(tasks)
  /\ worker' \in {f \in [1 .. PollWorkers -> {"none", "open", "failed"}] :
                    \A w \in 1 .. PollWorkers : f[w] = "none" <=> w > Len(batch')}
  /\ UNCHANGED <<eligible, cursor, polling>>

\* A task and the metrics and status it records, whether it succeeds or not.
TakeTask(w) ==
  /\ worker[w] = "open" /\ polling[w] = NoTask /\ batch # <<>>
  /\ polling' = [polling EXCEPT ![w] = Head(batch)]
  /\ batch' = Tail(batch)
  /\ UNCHANGED <<eligible, cursor, listing, worker>>

FinishTask(w) ==
  /\ polling[w] # NoTask
  /\ polling' = [polling EXCEPT ![w] = NoTask]
  /\ UNCHANGED <<eligible, cursor, listing, batch, worker>>

\* Nothing catches the panic of a task in its worker.
TaskPanics(w) ==
  /\ polling[w] # NoTask
  /\ polling' = [polling EXCEPT ![w] = NoTask]
  /\ worker' = [worker EXCEPT ![w] = "failed"]
  /\ UNCHANGED <<eligible, cursor, listing, batch>>

ChannelEmpty(w) ==
  /\ worker[w] = "open" /\ polling[w] = NoTask /\ batch = <<>>
  /\ worker' = [worker EXCEPT ![w] = "done"]
  /\ UNCHANGED <<eligible, cursor, listing, batch, polling>>

\* The scope has joined its workers.
Processed == BatchSize(Len(listing))

EndCycle ==
  /\ listing # <<>>
  /\ \A w \in 1 .. PollWorkers : worker[w] \in {"none", "done", "failed"}
  /\ cursor' = IF \E w \in 1 .. PollWorkers : worker[w] = "failed" THEN cursor
               ELSE NextCursor(Len(listing), Processed)
  /\ listing' = <<>> /\ batch' = <<>>
  /\ worker' = [w \in 1 .. PollWorkers |-> "none"]
  /\ UNCHANGED <<eligible, polling>>

\* A worker fails: its storage is unavailable, or its task panics.
PollFault == \E w \in 1 .. PollWorkers : worker[w] # "failed" /\ worker'[w] = "failed"

PollStep ==
  \/ StartCycle \/ EndCycle
  \/ \E w \in 1 .. PollWorkers :
       TakeTask(w) \/ FinishTask(w) \/ TaskPanics(w) \/ ChannelEmpty(w)

PollNext == PollStep \/ (\E a \in Polled : Edit(a))

PollSpec == PollInit /\ [][PollNext]_pollVars

\* Sleeps are bounded, the requests of a task have total timeouts, and
\* spawn_background_loop starts a loop that panicked again.
PollFairness ==
  /\ WF_pollVars(StartCycle \/ EndCycle)
  /\ \A w \in 1 .. PollWorkers :
       WF_pollVars(TakeTask(w) \/ FinishTask(w) \/ TaskPanics(w) \/ ChannelEmpty(w))

-----------------------------------------------------------------------------
PollTypeOK ==
  /\ eligible \subseteq Polled
  /\ cursor \in Nat
  /\ listing \in Seq(Polled) /\ batch \in Seq(Polled)
  /\ worker \in [1 .. PollWorkers -> {"none", "open", "done", "failed"}]
  /\ polling \in [1 .. PollWorkers -> Polled \cup {NoTask}]

\* The workers share the batch out: no account waits twice in it, is polled by two of them,
\* or still waits while it is polled.
PolledOnce ==
  /\ \A i, j \in 1 .. Len(batch) : i # j => batch[i] # batch[j]
  /\ \A w \in 1 .. PollWorkers, i \in 1 .. Len(batch) : polling[w] # batch[i]
  /\ \A v, w \in 1 .. PollWorkers : v # w /\ polling[v] # NoTask => polling[v] # polling[w]

\* How far place i of a list of that length is from the cursor, going up and around.
Ahead(i, total, from) == ((i - 1) + total - (from % total)) % total

\* The batch of a new cycle is the stretch of its list that is nearest to the cursor.
BatchIsNearest ==
  LET total == Len(listing')
  IN  \A i \in 1 .. total :
        /\ Ahead(i, total, cursor) < BatchSize(total)
             => batch'[Ahead(i, total, cursor) + 1] = listing'[i]
        /\ Ahead(i, total, cursor) >= BatchSize(total)
             => \A j \in 1 .. Len(batch') : batch'[j] # listing'[i]

\* The batch has been polled, and every place beyond is nearer by as many.
RestIsNearer ==
  /\ batch = <<>> /\ \A w \in 1 .. PollWorkers : polling[w] = NoTask
  /\ \A i \in 1 .. Len(listing) :
       Ahead(i, Len(listing), cursor) >= Processed =>
         Ahead(i, Len(listing), cursor') = Ahead(i, Len(listing), cursor) - Processed

NoneFailed == \A w \in 1 .. PollWorkers : worker[w] # "failed"

\* The batches are consecutive stretches of the list, whatever the cursor was left at: a
\* cycle polls each of the places that are nearest to the cursor and no other, and one that
\* ends well brings every other place nearer by as many as it polled.
TakesTurns ==
  [][/\ listing = <<>> /\ listing' # <<>> => BatchIsNearest
     /\ listing # <<>> /\ listing' = <<>> /\ NoneFailed => RestIsNearer]_pollVars

Settled ==
  /\ <>[][eligible' = eligible]_pollVars
  /\ <>[][~PollFault]_pollVars

\* The batches take turns: once the list stays the same and workers stop failing, every
\* account on the list is polled again and again, whatever cursor and half-done batch the
\* changes and failures before have left.
EveryoneIsPolled ==
  Settled =>
    \A a \in Polled :
      <>[](a \in eligible) => []<>(\E w \in 1 .. PollWorkers : polling[w] = a)
=============================================================================
