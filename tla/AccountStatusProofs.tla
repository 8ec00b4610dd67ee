------------------------ MODULE AccountStatusProofs ------------------------
(***************************************************************************)
(* What AccountStatus promises, for any number of accounts, threads and    *)
(* collectors.  None of the three properties is inductive.  The invariant  *)
(* says what a writer may still rely on of the row it read (Reads), of the *)
(* candidates it listed (Listed), and how far a manual refresh nobody      *)
(* disturbed has come (Recovering).                                        *)
(***************************************************************************)
EXTENDS AccountStatus, TLAPS

TaskTyped(T) ==
  /\ T \in Tasks
  /\ T.at # "idle" => T.acct \in Accounts
  /\ T.at \in {"patch", "repatch"} => T.held \in Statuses
  /\ T.at \in {"judge", "update"} => T.new \in Statuses
  /\ T.at \in {"judge", "update", "invalidate", "event"} => T.why \in Reasons

\* What a thread is about to write is what the row says, or its read is an older one.
TaskReads(T, t) ==
  /\ T.at \in {"patch", "repatch"} => T.held = status[T.acct] \/ t \in older[T.acct]
  /\ T.at \in {"judge", "update"} =>
       /\ T.new # "disabled"
       /\ status[T.acct] # "disabled" \/ t \in older[T.acct]

Reads == \A t \in Threads : TaskReads(task[t], t)

Listed ==
  \A c \in Collectors : \A a \in collect[c].list \cup collect[c].todo :
    Selectable(a) \/ c \in older[a]

TaskRecovers(T) ==
  T.good =>
    \/ T.at = "judge" /\ T.new = "active" /\ T.next = "after"
    \/ T.at = "update" /\ T.new = "active"
    \/ T.at \in {"invalidate", "event"} /\ status[T.acct] = "active"
    \/ T.at = "after" /\ (status[T.acct] \in {"active", "disabled"} \/ reason[T.acct] = "region")

Recovering == \A t \in Threads : TaskRecovers(task[t])

IInv == TypeOK /\ Reads /\ Listed /\ Recovering /\ CacheNotStale

LEMMA Initial == Init => IInv
<1> USE StatusAssumption
<1>1. Init => TypeOK
  BY DEF Init, TypeOK, Tasks, NoTask, NoList, Statuses, Reasons, Modes
<1>2. Init => Reads /\ Listed /\ Recovering /\ CacheNotStale
  BY DEF Init, Reads, TaskReads, Listed, Recovering, TaskRecovers, CacheNotStale, NoTask, NoList
<1> QED
  BY <1>1, <1>2 DEF IInv

-----------------------------------------------------------------------------
\* What a write leaves: every other reader of a row that changes has an older read.
LEMMA WriteResult ==
  ASSUME TypeOK, NEW a \in Accounts, NEW new \in Statuses, NEW w, Write(a, new, w)
  PROVE  /\ status' \in [Accounts -> Statuses] /\ older' \in [Accounts -> SUBSET Writers]
         /\ status'[a] = new
         /\ \A b \in Accounts : b # a => status'[b] = status[b] /\ older'[b] = older[b]
         /\ new = status[a] => older'[a] = older[a]
         /\ new # status[a] =>
              /\ \A t \in Threads : t # w /\ task[t].acct = a => t \in older'[a]
              /\ \A c \in Collectors :
                   c # w /\ a \in collect[c].list \cup collect[c].todo => c \in older'[a]
<1>1. status' \in [Accounts -> Statuses] /\ status'[a] = new
  BY DEF Write, TypeOK
<1>2. older' \in [Accounts -> SUBSET Writers]
  BY DEF Write, TypeOK, Writers
<1> QED
  BY <1>1, <1>2 DEF Write, TypeOK

\* Whoever is disturbed keeps its work, but a refresh is no longer good.
LEMMA DisturbResult ==
  ASSUME TypeOK, NEW a \in Accounts, NEW w
  PROVE  /\ Disturb(a, w) \in [Threads -> Tasks]
         /\ \A t \in Threads : LET D == Disturb(a, w)[t] IN
              /\ D.at = task[t].at /\ D.acct = task[t].acct /\ D.held = task[t].held
              /\ D.new = task[t].new /\ D.why = task[t].why /\ D.next = task[t].next
              /\ D.good => task[t].good /\ (t = w \/ task[t].acct # a)
<1> DEFINE Same(D, T) == /\ D.at = T.at /\ D.acct = T.acct /\ D.held = T.held
                         /\ D.new = T.new /\ D.why = T.why /\ D.next = T.next
<1> SUFFICES ASSUME NEW t \in Threads
             PROVE  /\ Disturb(a, w)[t] \in Tasks /\ Same(Disturb(a, w)[t], task[t])
                    /\ Disturb(a, w)[t].good => task[t].good /\ (t = w \/ task[t].acct # a)
  BY DEF Disturb
<1>1. task[t] \in Tasks
  BY DEF TypeOK
<1>2. CASE t # w /\ task[t].acct = a
  BY <1>1, <1>2 DEF Disturb, Tasks
<1>3. CASE ~(t # w /\ task[t].acct = a)
  BY <1>1, <1>3 DEF Disturb, Tasks
<1> QED
  BY <1>2, <1>3

\* A step of a thread that writes nothing but its own work, and loses no other's older read
LEMMA ThreadMoves ==
  ASSUME IInv, NEW t \in Threads,
         task' \in [Threads -> Tasks],
         \A u \in Threads : u # t => task'[u] = task[u],
         task[t].at # "invalidate",
         UNCHANGED <<status, reason, collect, cache>>,
         older' \in [Accounts -> SUBSET Writers],
         \A b \in Accounts : \A u \in Writers \ {t} : u \in older[b] => u \in older'[b],
         TaskTyped(task[t])', TaskReads(task[t], t)', TaskRecovers(task[t])'
  PROVE  IInv'
<1> USE StatusAssumption DEF IInv
<1>1. TypeOK'
  <2>1. \A u \in Threads : TaskTyped(task'[u])
    BY DEF TypeOK, TaskTyped
  <2> QED
    BY <2>1 DEF TypeOK, TaskTyped
<1>2. Reads'
  <2>1. ASSUME NEW u \in Threads, u # t PROVE TaskReads(task[u], u)'
    <3>1. TaskReads(task[u], u) /\ task'[u] = task[u] /\ task[u] \in Tasks /\ u \in Writers \ {t}
      BY <2>1 DEF Reads, TypeOK, Writers
    <3>2. task[u].at # "idle" => task[u].acct \in Accounts
      BY DEF TypeOK
    <3> QED
      BY <3>1, <3>2 DEF TaskReads
  <2> QED
    BY <2>1 DEF Reads, TaskReads
<1>3. Listed'
  <2>1. \A c \in Collectors : c \in Writers \ {t}
    BY DEF Writers
  <2>2. \A c \in Collectors : collect[c].list \cup collect[c].todo \subseteq Accounts
    BY DEF TypeOK
  <2> QED
    BY <2>1, <2>2 DEF Listed, Selectable
<1>4. Recovering'
  BY DEF Recovering, TaskRecovers
<1>5. CacheNotStale'
  BY DEF CacheNotStale, Selectable
<1> QED
  BY <1>1, <1>2, <1>3, <1>4, <1>5

\* The moves that only read the row
LEMMA ReadersMove ==
  ASSUME IInv, NEW t \in Threads,
         \/ AskAgain(t) \/ Snapshot(t) \/ Judge(t) \/ Fail(t) \/ After(t)
         \/ \E a \in Accounts : Refresh(t, a) \/ Mark(t, a)
  PROVE  IInv'
<1> USE StatusAssumption
<1>1. /\ task \in [Threads -> Tasks] /\ TaskTyped(task[t])
      /\ TaskReads(task[t], t) /\ TaskRecovers(task[t])
      /\ status \in [Accounts -> Statuses] /\ older \in [Accounts -> SUBSET Writers]
  BY DEF IInv, TypeOK, TaskTyped, Reads, Recovering
<1>2. /\ UNCHANGED <<status, reason, collect, cache>>
      /\ task[t].at # "invalidate"
      /\ older' \in [Accounts -> SUBSET Writers]
      /\ \A b \in Accounts : \A u \in Writers \ {t} : u \in older[b] => u \in older'[b]
  <2>1. UNCHANGED <<status, reason, collect, cache>>
    BY DEF AskAgain, Snapshot, Judge, Fail, After, Refresh, Mark
  <2>2. task[t].at # "invalidate"
    <3>1. CASE task[t] = NoTask
      BY <3>1 DEF NoTask
    <3>2. CASE task[t] # NoTask
      BY <3>2 DEF AskAgain, Snapshot, Judge, Fail, After, Refresh, Mark
    <3> QED
      BY <3>1, <3>2
  <2>3. older' = older \/ Reread(task[t].acct, t)
    BY DEF AskAgain, Snapshot, Judge, Fail, After, Refresh, Mark
  <2> QED
    BY <1>1, <2>1, <2>2, <2>3 DEF Reread
<1> DEFINE Keeps == TaskTyped(task[t]) /\ TaskReads(task[t], t) /\ TaskRecovers(task[t])
<1>3. ASSUME NEW T \in Tasks, task' = [task EXCEPT ![t] = T], Keeps'
      PROVE  IInv'
  <2>1. task' \in [Threads -> Tasks] /\ \A u \in Threads : u # t => task'[u] = task[u]
    BY <1>1, <1>3
  <2> QED
    BY <1>2, <1>3, <2>1, ThreadMoves
<1>4. NoTask \in Tasks /\ (task' = [task EXCEPT ![t] = NoTask] => Keeps')
  <2>1. NoTask \in Tasks /\ NoTask.at = "idle" /\ ~NoTask.good
    BY DEF NoTask, Tasks
  <2>2. ASSUME task' = [task EXCEPT ![t] = NoTask] PROVE Keeps'
    <3>1. task'[t] = NoTask
      BY <1>1, <2>2
    <3> QED
      BY <2>1, <3>1 DEF TaskTyped, TaskReads, TaskRecovers
  <2> QED
    BY <2>1, <2>2
<1>5. CASE AskAgain(t)
  <2> DEFINE T == [task[t] EXCEPT !.at = "repatch", !.held = status[task[t].acct]]
  <2>1. task' = [task EXCEPT ![t] = T]
    BY <1>1, <1>5 DEF AskAgain
  <2>2. /\ T \in Tasks /\ T.at = "repatch" /\ T.acct = task[t].acct /\ T.good = task[t].good
        /\ T.held = status[task[t].acct] /\ task[t].acct \in Accounts
    BY <1>1, <1>5 DEF AskAgain, Tasks, TaskTyped
  <2> HIDE DEF T
  <2>3. Keeps'
    BY <1>1, <1>2, <1>5, <2>1, <2>2 DEF AskAgain, TaskTyped, TaskReads, TaskRecovers
  <2> QED
    BY <1>3, <2>1, <2>2, <2>3
<1>6. CASE Snapshot(t)
  <2> DEFINE a == task[t].acct
  <2>1. PICK s \in {[new |-> "active", why |-> "other"], [new |-> "limited", why |-> "other"], None} :
          LET told == [task[t] EXCEPT !.good = task[t].next = "after" /\ s # None /\ s.new = "active"]
          IN task' = [task EXCEPT ![t] =
               IF s = None \/ status[a] = "disabled"
               THEN IF task[t].next = "after"
                    THEN [told EXCEPT !.at = "after", !.next = "idle"] ELSE NoTask
               ELSE [told EXCEPT !.at = "judge", !.new = s.new, !.why = s.why]]
    BY <1>6 DEF Snapshot
  <2> DEFINE told == [task[t] EXCEPT !.good = task[t].next = "after" /\ s # None /\ s.new = "active"]
  <2>2. /\ told \in Tasks /\ told.acct = a /\ told.next = task[t].next
        /\ told.good => s # None /\ s.new = "active" /\ told.next = "after"
    BY <1>1 DEF Tasks, TaskTyped
  <2>3. a \in Accounts
    BY <1>1, <1>6 DEF Snapshot, TaskTyped
  <2>4. CASE (s = None \/ status[a] = "disabled") /\ task[t].next = "after"
    <3> DEFINE T == [told EXCEPT !.at = "after", !.next = "idle"]
    <3>1. task' = [task EXCEPT ![t] = T]
      BY <2>1, <2>4
    <3> HIDE DEF told
    <3>2. T \in Tasks /\ T.at = "after" /\ T.acct = a /\ (T.good => status[a] = "disabled")
      BY <2>2, <2>4 DEF Tasks
    <3> HIDE DEF T
    <3>3. Keeps'
      BY <1>1, <1>2, <2>3, <3>1, <3>2 DEF TaskTyped, TaskReads, TaskRecovers
    <3> QED
      BY <1>3, <3>1, <3>2, <3>3
  <2>5. CASE (s = None \/ status[a] = "disabled") /\ task[t].next # "after"
    BY <1>3, <1>4, <2>1, <2>5
  <2>6. CASE s # None /\ status[a] # "disabled"
    <3> DEFINE T == [told EXCEPT !.at = "judge", !.new = s.new, !.why = s.why]
    <3>1. task' = [task EXCEPT ![t] = T]
      BY <2>1, <2>6
    <3> HIDE DEF told
    <3>2. s.new \in {"active", "limited"} /\ s.why = "other"
      BY <2>6
    <3>3. /\ T \in Tasks /\ T.at = "judge" /\ T.acct = a /\ T.new = s.new /\ T.why = "other"
          /\ T.good => T.new = "active" /\ T.next = "after"
      BY <2>2, <3>2 DEF Tasks, Statuses, Reasons
    <3> HIDE DEF T
    <3>4. Keeps'
      BY <1>1, <1>2, <2>3, <2>6, <3>1, <3>2, <3>3
      DEF TaskTyped, TaskReads, TaskRecovers, Statuses, Reasons
    <3> QED
      BY <1>3, <3>1, <3>3, <3>4
  <2> QED
    BY <2>4, <2>5, <2>6
<1>7. CASE Judge(t)
  <2> DEFINE a == task[t].acct
  <2>1. a \in Accounts
    BY <1>1, <1>7 DEF Judge, TaskTyped
  <2>2. CASE reason[a] = "region" /\ task[t].next = "after"
    <3> DEFINE T == [task[t] EXCEPT !.at = "after", !.next = "idle"]
    <3>1. task' = [task EXCEPT ![t] = T]
      BY <1>7, <2>2 DEF Judge, Proceed
    <3>2. T \in Tasks /\ T.at = "after" /\ T.acct = a
      BY <1>1 DEF Tasks, TaskTyped
    <3> HIDE DEF T
    <3>3. Keeps'
      BY <1>1, <1>2, <2>1, <2>2, <3>1, <3>2 DEF TaskTyped, TaskReads, TaskRecovers
    <3> QED
      BY <1>3, <3>1, <3>2, <3>3
  <2>3. CASE reason[a] = "region" /\ task[t].next # "after"
    BY <1>3, <1>7, <1>4, <2>3 DEF Judge, Proceed
  <2>4. CASE reason[a] # "region"
    <3> DEFINE T == [task[t] EXCEPT !.at = "update"]
    <3>1. task' = [task EXCEPT ![t] = T]
      BY <1>1, <1>7, <2>4 DEF Judge
    <3>2. /\ T \in Tasks /\ T.at = "update" /\ T.acct = a /\ T.new = task[t].new
          /\ T.why = task[t].why /\ T.good = task[t].good
      BY <1>1 DEF Tasks, TaskTyped
    <3> HIDE DEF T
    <3>3. Keeps'
      BY <1>1, <1>2, <1>7, <2>1, <3>1, <3>2 DEF Judge, TaskTyped, TaskReads, TaskRecovers
    <3> QED
      BY <1>3, <3>1, <3>2, <3>3
  <2> QED
    BY <2>2, <2>3, <2>4
<1>8. ASSUME NEW a \in Accounts, NEW f \in GatewayFailures, ~Preserved(a),
             task' = [task EXCEPT ![t] = [NoTask EXCEPT !.at = "update", !.acct = a,
                                                        !.new = f.new, !.why = f.why]]
      PROVE  IInv'
  <2> DEFINE T == [NoTask EXCEPT !.at = "update", !.acct = a, !.new = f.new, !.why = f.why]
  <2>1. f.new \in Statuses \ {"disabled"} /\ f.why \in Reasons
    BY DEF GatewayFailures, Failures, Statuses, Reasons
  <2>2. T \in Tasks /\ T.at = "update" /\ T.acct = a /\ T.new = f.new /\ T.why = f.why /\ ~T.good
    BY <2>1 DEF NoTask, Tasks
  <2>3. task' = [task EXCEPT ![t] = T]
    BY <1>8
  <2> HIDE DEF T
  <2>4. Keeps'
    BY <1>1, <1>2, <1>8, <2>1, <2>2, <2>3 DEF Preserved, TaskTyped, TaskReads, TaskRecovers
  <2> QED
    BY <1>3, <2>2, <2>3, <2>4
<1>9. CASE Fail(t)
  <2>1. task[t].acct \in Accounts
    BY <1>1, <1>9 DEF Fail, TaskTyped
  <2>2. CASE task' = [task EXCEPT ![t] = NoTask]
    BY <1>3, <1>4, <2>2
  <2> QED
    BY <1>8, <1>9, <2>1, <2>2 DEF Fail, GatewayFailures
<1>10. ASSUME NEW a \in Accounts, Mark(t, a) PROVE IInv'
  BY <1>8, <1>10 DEF Mark
<1>11. ASSUME NEW a \in Accounts, Refresh(t, a) PROVE IInv'
  <2>1. PICK next \in {"idle", "after"} :
          task' = [task EXCEPT ![t] = [NoTask EXCEPT !.at = "patch", !.acct = a,
                                                     !.held = status[a], !.next = next]]
    BY <1>11 DEF Refresh
  <2> DEFINE T == [NoTask EXCEPT !.at = "patch", !.acct = a, !.held = status[a], !.next = next]
  <2>2. T \in Tasks /\ T.at = "patch" /\ T.acct = a /\ T.held = status[a] /\ ~T.good /\ T.held \in Statuses
    BY <1>1 DEF NoTask, Tasks
  <2>3. task' = [task EXCEPT ![t] = T]
    BY <2>1
  <2> HIDE DEF T
  <2>4. Keeps'
    BY <1>1, <1>2, <2>2, <2>3 DEF TaskTyped, TaskReads, TaskRecovers
  <2> QED
    BY <1>3, <2>2, <2>3, <2>4
<1>12. CASE After(t)
  <2> DEFINE a == task[t].acct
             T == [task[t] EXCEPT !.at = "update", !.new = "active", !.why = "other"]
  <2>1. CASE status[a] # "unavailable"
    BY <1>3, <1>4, <1>12, <2>1 DEF After
  <2>2. CASE status[a] = "unavailable"
    <3>1. task' = [task EXCEPT ![t] = T]
      BY <1>1, <1>12, <2>2 DEF After
    <3>2. T \in Tasks /\ T.at = "update" /\ T.acct = a /\ T.new = "active" /\ T.why = "other"
      BY <1>1 DEF TaskTyped, Tasks, Statuses, Reasons
    <3> HIDE DEF T
    <3>3. Keeps'
      BY <1>1, <1>2, <1>12, <2>2, <3>1, <3>2
      DEF After, TaskTyped, TaskReads, TaskRecovers, Statuses, Reasons
    <3> QED
      BY <1>3, <3>1, <3>2, <3>3
  <2> QED
    BY <2>1, <2>2
<1> QED
  BY <1>5, <1>6, <1>7, <1>9, <1>10, <1>11, <1>12

-----------------------------------------------------------------------------
\* A row is written: the work of every other thread is still as the invariant says ...
LEMMA OthersKeep ==
  ASSUME IInv, NEW a \in Accounts, NEW new \in Statuses, NEW w, Write(a, new, w),
         UNCHANGED reason, NEW u \in Threads, u # w,
         (task'[u] = task[u] /\ new = status[a]) \/ task'[u] = Disturb(a, w)[u]
  PROVE  (TaskTyped(task[u]) /\ TaskReads(task[u], u) /\ TaskRecovers(task[u]))'
<1>1. TaskTyped(task[u]) /\ TaskReads(task[u], u) /\ TaskRecovers(task[u])
  BY DEF IInv, TypeOK, TaskTyped, Reads, Recovering
<1>2. /\ \A b \in Accounts : b # a => status'[b] = status[b] /\ older'[b] = older[b]
      /\ status'[a] = new
      /\ new = status[a] => older'[a] = older[a]
      /\ new # status[a] /\ task[u].acct = a => u \in older'[a]
  <2> HIDE DEF IInv
  <2> QED
    BY WriteResult DEF IInv
<1>3. /\ task'[u] \in Tasks
      /\ task'[u].at = task[u].at /\ task'[u].acct = task[u].acct /\ task'[u].held = task[u].held
      /\ task'[u].new = task[u].new /\ task'[u].why = task[u].why /\ task'[u].next = task[u].next
      /\ task'[u].good => task[u].good /\ (task[u].acct = a => new = status[a])
  <2>1. CASE task'[u] = task[u] /\ new = status[a]
    BY <1>1, <2>1 DEF TaskTyped
  <2>2. CASE task'[u] = Disturb(a, w)[u]
    <3>1. TypeOK
      BY DEF IInv
    <3> QED
      BY <2>2, <3>1, DisturbResult
  <2> QED
    BY <2>1, <2>2
<1>4. task[u].at # "idle" => task[u].acct \in Accounts
  BY <1>1 DEF TaskTyped
<1>5. TaskTyped(task[u])'
  BY <1>1, <1>3 DEF TaskTyped
<1>6. TaskReads(task[u], u)'
  BY <1>1, <1>2, <1>3, <1>4 DEF TaskReads
<1>7. TaskRecovers(task[u])'
  BY <1>1, <1>2, <1>3, <1>4 DEF TaskRecovers
<1> QED
  BY <1>5, <1>6, <1>7

\* ... and so are the lists of the other collectors.
LEMMA ListersKeep ==
  ASSUME IInv, NEW a \in Accounts, NEW new \in Statuses, NEW w, Write(a, new, w),
         NEW c \in Collectors, c # w, collect'[c] = collect[c]
  PROVE  \A b \in collect'[c].list \cup collect'[c].todo : (Selectable(b) \/ c \in older[b])'
<1>1. /\ \A b \in Accounts : b # a => status'[b] = status[b] /\ older'[b] = older[b]
      /\ status'[a] = new
      /\ new = status[a] => older'[a] = older[a]
      /\ new # status[a] /\ a \in collect[c].list \cup collect[c].todo => c \in older'[a]
  BY WriteResult DEF IInv
<1>2. collect[c].list \cup collect[c].todo \subseteq Accounts
  BY DEF IInv, TypeOK
<1>3. \A b \in collect[c].list \cup collect[c].todo : Selectable(b) \/ c \in older[b]
  BY DEF IInv, Listed
<1> QED
  BY <1>1, <1>2, <1>3 DEF Selectable

\* A row is written outside set_account_status: a cached list has missed the change.
LEMMA WriteKeeps ==
  ASSUME IInv, NEW a \in Accounts, NEW new \in Statuses, NEW w, Write(a, new, w),
         UNCHANGED reason, cache' = CacheMissed(a),
         task' \in [Threads -> Tasks],
         \A u \in Threads : u # w => task'[u] = Disturb(a, w)[u],
         w \in Threads => task[w].at # "invalidate",
         w \in Threads => (TaskTyped(task[w]) /\ TaskReads(task[w], w) /\ TaskRecovers(task[w]))',
         collect' \in [Collectors -> [at : {"idle", "list"}, list : SUBSET Accounts,
                                      todo : SUBSET Accounts, mode : Modes \cup {None}]],
         \A c \in Collectors : c # w => collect'[c] = collect[c],
         w \in Collectors =>
           \A b \in collect'[w].list \cup collect'[w].todo : (Selectable(b) \/ w \in older[b])'
  PROVE  IInv'
<1>1. \A u \in Threads : (TaskTyped(task[u]) /\ TaskReads(task[u], u) /\ TaskRecovers(task[u]))'
  BY OthersKeep
<1>2. Reads' /\ Recovering'
  BY <1>1 DEF Reads, Recovering
<1>3. Listed'
  BY ListersKeep DEF Listed
<1>4. cache' \in {None} \cup [list : SUBSET Accounts, mode : Modes \cup {None}, missed : SUBSET Accounts, live : BOOLEAN]
  BY DEF CacheMissed, IInv, TypeOK
<1>5. CacheNotStale'
  <2> SUFFICES ASSUME cache' # None, NEW b \in cache'.list, b \notin cache'.missed
               PROVE  \/ Selectable(b)'
                      \/ \E u \in Threads : task'[u].at = "invalidate" /\ task'[u].acct = b
    BY DEF CacheNotStale
  <2>1. /\ cache # None /\ b \in cache.list \ cache.missed /\ b \in Accounts
        /\ b = a => status'[b] = status[b]
    BY DEF CacheMissed, IInv, TypeOK
  <2>2. status'[b] = status[b]
    BY <2>1, WriteResult DEF IInv
  <2>3. CASE Selectable(b)
    BY <2>2, <2>3 DEF Selectable
  <2>4. ASSUME NEW u \in Threads, task[u].at = "invalidate", task[u].acct = b
        PROVE  task'[u].at = "invalidate" /\ task'[u].acct = b
    BY <2>4, DisturbResult DEF IInv
  <2> QED
    BY <2>1, <2>3, <2>4 DEF IInv, CacheNotStale
<1>6. status' \in [Accounts -> Statuses] /\ older' \in [Accounts -> SUBSET Writers]
  BY WriteResult DEF IInv
<1>7. TypeOK'
  <2>1. reason' \in [Accounts -> Reasons]
    BY DEF IInv, TypeOK
  <2> QED
    BY <1>1, <1>4, <1>6, <2>1 DEF TypeOK, TaskTyped
<1> QED
  BY <1>2, <1>3, <1>5, <1>7 DEF IInv

LEMMA UserSetKeeps == ASSUME IInv, NEW a \in Accounts, UserSet(a) PROVE IInv'
<1>1. PICK new \in Statuses : Write(a, new, None)
  BY DEF UserSet
<1>2. None \notin Threads /\ None \notin Collectors
  BY StatusAssumption
<1>3. task' = Disturb(a, None) /\ cache' = CacheMissed(a) /\ UNCHANGED <<reason, collect>>
  BY DEF UserSet
<1>4. task' \in [Threads -> Tasks]
  BY <1>3, DisturbResult DEF IInv
<1>5. collect' \in [Collectors -> [at : {"idle", "list"}, list : SUBSET Accounts,
                                   todo : SUBSET Accounts, mode : Modes \cup {None}]]
  BY <1>3 DEF IInv, TypeOK
<1> QED
  BY <1>1, <1>2, <1>3, <1>4, <1>5, WriteKeeps

LEMMA PatchKeeps == ASSUME IInv, NEW t \in Threads, Patch(t) PROVE IInv'
<1> DEFINE a == task[t].acct
           sent(T) == [T EXCEPT ![t].held = None, ![t].at = IF @ = "patch" THEN "fetch" ELSE "refetch"]
<1> USE StatusAssumption
<1>1. /\ task \in [Threads -> Tasks] /\ TaskTyped(task[t])
      /\ a \in Accounts /\ task[t].held \in Statuses /\ ~task[t].good
  BY DEF Patch, IInv, TypeOK, TaskTyped, Recovering, TaskRecovers
<1>2. ASSUME NEW F \in [Threads -> Tasks], task' = sent(F),
             F[t].acct = a, F[t].at \in {"patch", "repatch"}, ~F[t].good
      PROVE  /\ task' \in [Threads -> Tasks]
             /\ (TaskTyped(task[t]) /\ TaskReads(task[t], t) /\ TaskRecovers(task[t]))'
             /\ \A u \in Threads : u # t => task'[u] = F[u]
  <2>1. /\ task' \in [Threads -> Tasks]
        /\ \A u \in Threads : u # t => task'[u] = F[u]
        /\ task'[t].at \in {"fetch", "refetch"} /\ task'[t].acct = a /\ ~task'[t].good
    BY <1>2 DEF Tasks
  <2> QED
    BY <1>1, <2>1 DEF TaskTyped, TaskReads, TaskRecovers
<1>3. UNCHANGED <<reason, collect>> /\ task[t].at \in {"patch", "repatch"}
  BY DEF Patch
<1>4. CASE Write(a, task[t].held, t) /\ task' = sent(Disturb(a, t)) /\ cache' = CacheMissed(a)
  <2>1. /\ Disturb(a, t) \in [Threads -> Tasks]
        /\ Disturb(a, t)[t].acct = a /\ Disturb(a, t)[t].at \in {"patch", "repatch"}
        /\ ~Disturb(a, t)[t].good
    BY <1>1, <1>3, DisturbResult DEF IInv
  <2>2. /\ task' \in [Threads -> Tasks]
        /\ (TaskTyped(task[t]) /\ TaskReads(task[t], t) /\ TaskRecovers(task[t]))'
        /\ \A u \in Threads : u # t => task'[u] = Disturb(a, t)[u]
    BY <1>2, <1>4, <2>1
  <2>3. collect' \in [Collectors -> [at : {"idle", "list"}, list : SUBSET Accounts,
                                     todo : SUBSET Accounts, mode : Modes \cup {None}]]
    BY <1>3 DEF IInv, TypeOK
  <2> QED
    BY <1>1, <1>3, <1>4, <2>2, <2>3, WriteKeeps
<1>5. CASE task' = sent(task) /\ UNCHANGED <<status, older, cache>>
  <2>1. /\ task' \in [Threads -> Tasks]
        /\ (TaskTyped(task[t]) /\ TaskReads(task[t], t) /\ TaskRecovers(task[t]))'
        /\ \A u \in Threads : u # t => task'[u] = task[u]
    BY <1>1, <1>2, <1>3, <1>5
  <2>2. older' \in [Accounts -> SUBSET Writers]
    BY <1>5 DEF IInv, TypeOK
  <2> QED
    BY <1>3, <1>5, <2>1, <2>2, ThreadMoves
<1> QED
  BY <1>4, <1>5 DEF Patch

LEMMA UpdateKeeps == ASSUME IInv, NEW t \in Threads, Update(t) PROVE IInv'
<1> DEFINE a == task[t].acct
           new == task[t].new
           changes == status[a] # new
<1> USE StatusAssumption
<1>1. /\ task \in [Threads -> Tasks] /\ TaskTyped(task[t]) /\ TaskRecovers(task[t])
      /\ a \in Accounts /\ new \in Statuses /\ task[t].at = "update"
  BY DEF Update, IInv, TypeOK, TaskTyped, Recovering
<1>2. Write(a, new, t) /\ UNCHANGED <<reason, cache, collect>>
  BY DEF Update
<1>3. PICK F \in [Threads -> Tasks] :
        /\ F = IF changes THEN Disturb(a, t) ELSE task
        /\ task' = [F EXCEPT ![t].at = IF changes THEN "invalidate" ELSE "event", ![t].new = None]
  BY <1>1, DisturbResult DEF Update, IInv
<1>4. /\ F[t].acct = a /\ F[t].why = task[t].why /\ (F[t].good => task[t].good)
  BY <1>1, <1>3, DisturbResult DEF IInv
<1>5. /\ task' \in [Threads -> Tasks]
      /\ \A u \in Threads : u # t => task'[u] = F[u]
      /\ task'[t].at = IF changes THEN "invalidate" ELSE "event"
      /\ task'[t].acct = a /\ task'[t].why = task[t].why /\ (task'[t].good => task[t].good)
  <2> DEFINE at == IF changes THEN "invalidate" ELSE "event"
             T == [F[t] EXCEPT !.at = at, !.new = None]
  <2>1. task' = [F EXCEPT ![t] = T]
    BY <1>3
  <2>2. F[t] \in Tasks /\ at \in {"invalidate", "event"}
    OBVIOUS
  <2> HIDE DEF at
  <2>3. T \in Tasks /\ T.at = at /\ T.acct = F[t].acct /\ T.why = F[t].why /\ T.good = F[t].good
    BY <2>2 DEF Tasks
  <2> HIDE DEF T
  <2>4. /\ task' \in [Threads -> Tasks] /\ task'[t] = T
        /\ \A u \in Threads : u # t => task'[u] = F[u]
    BY <2>1, <2>3
  <2> QED
    BY <1>4, <2>3, <2>4 DEF at
<1>6. /\ status' \in [Accounts -> Statuses] /\ older' \in [Accounts -> SUBSET Writers]
      /\ status'[a] = new
      /\ \A b \in Accounts : b # a => status'[b] = status[b]
  BY <1>1, <1>2, WriteResult DEF IInv
<1>7. (TaskTyped(task[t]) /\ TaskReads(task[t], t) /\ TaskRecovers(task[t]))'
  BY <1>1, <1>5, <1>6 DEF TaskTyped, TaskReads, TaskRecovers
<1>8. ASSUME NEW u \in Threads, u # t
      PROVE  (TaskTyped(task[u]) /\ TaskReads(task[u], u) /\ TaskRecovers(task[u]))'
  <2>1. (task'[u] = task[u] /\ new = status[a]) \/ task'[u] = Disturb(a, t)[u]
    BY <1>3, <1>5, <1>8
  <2> QED
    BY <1>1, <1>2, <1>8, <2>1, OthersKeep
<1>9. Reads' /\ Recovering' /\ \A u \in Threads : TaskTyped(task'[u])
  BY <1>7, <1>8 DEF Reads, Recovering, TaskTyped
<1>10. Listed'
  <2>1. \A c \in Collectors : c # t /\ collect'[c] = collect[c]
    BY <1>2
  <2> QED
    BY <1>1, <1>2, <2>1, ListersKeep DEF Listed
<1>11. TypeOK'
  BY <1>2, <1>5, <1>6, <1>9 DEF IInv, TypeOK, TaskTyped
<1>12. CacheNotStale'
  <2> SUFFICES ASSUME cache # None, NEW b \in cache.list \ cache.missed
               PROVE  \/ Selectable(b)'
                      \/ \E u \in Threads : task'[u].at = "invalidate" /\ task'[u].acct = b
    BY <1>2 DEF CacheNotStale
  <2>1. b \in Accounts
    BY DEF IInv, TypeOK
  <2>2. CASE b = a /\ changes
    BY <1>5, <2>2
  <2>3. CASE ~(b = a /\ changes)
    <3>1. status'[b] = status[b]
      BY <1>6, <2>1, <2>3
    <3>2. CASE Selectable(b)
      BY <3>1, <3>2 DEF Selectable
    <3>3. ASSUME NEW u \in Threads, task[u].at = "invalidate", task[u].acct = b
          PROVE  task'[u].at = "invalidate" /\ task'[u].acct = b
      <4>1. u # t
        BY <1>1, <3>3
      <4>2. F[u].at = task[u].at /\ F[u].acct = task[u].acct
        BY <1>1, <1>3, DisturbResult DEF IInv
      <4> QED
        BY <1>5, <3>3, <4>1, <4>2
    <3> QED
      BY <3>2, <3>3 DEF IInv, CacheNotStale
  <2> QED
    BY <2>2, <2>3
<1> QED
  BY <1>9, <1>10, <1>11, <1>12 DEF IInv

LEMMA InvalidateKeeps == ASSUME IInv, NEW t \in Threads, Invalidate(t) PROVE IInv'
<1> DEFINE T == [task[t] EXCEPT !.at = "event"]
<1>1. /\ task \in [Threads -> Tasks] /\ TaskTyped(task[t]) /\ TaskRecovers(task[t])
      /\ task[t].at = "invalidate"
  BY DEF Invalidate, IInv, TypeOK, TaskTyped, Recovering
<1>2. /\ T \in Tasks /\ T.at = "event" /\ T.acct = task[t].acct /\ T.why = task[t].why
      /\ T.good = task[t].good
  BY <1>1 DEF TaskTyped, Tasks
<1>3. /\ task' = [task EXCEPT ![t] = T] /\ cache' = None
      /\ UNCHANGED <<status, reason, collect, older>>
  BY <1>1 DEF Invalidate
<1> HIDE DEF T
<1>4. /\ task' \in [Threads -> Tasks] /\ task'[t] = T
      /\ \A u \in Threads : u # t => task'[u] = task[u]
  BY <1>1, <1>2, <1>3
<1>5. (TaskTyped(task[t]) /\ TaskReads(task[t], t) /\ TaskRecovers(task[t]))'
  BY <1>1, <1>2, <1>3, <1>4 DEF TaskTyped, TaskReads, TaskRecovers
<1>6. \A u \in Threads : (TaskTyped(task[u]) /\ TaskReads(task[u], u) /\ TaskRecovers(task[u]))'
  <2>1. ASSUME NEW u \in Threads, u # t
        PROVE  (TaskTyped(task[u]) /\ TaskReads(task[u], u) /\ TaskRecovers(task[u]))'
    <3>1. TaskTyped(task[u]) /\ TaskReads(task[u], u) /\ TaskRecovers(task[u])
      BY DEF IInv, TypeOK, TaskTyped, Reads, Recovering
    <3> QED
      BY <1>3, <1>4, <2>1, <3>1 DEF TaskTyped, TaskReads, TaskRecovers
  <2> QED
    BY <1>5, <2>1
<1>7. TypeOK'
  BY <1>3, <1>4, <1>6 DEF IInv, TypeOK, TaskTyped
<1>8. Listed' /\ CacheNotStale'
  BY <1>3 DEF IInv, Listed, Selectable, CacheNotStale
<1> QED
  BY <1>6, <1>7, <1>8 DEF IInv, Reads, Recovering

LEMMA EventKeeps == ASSUME IInv, NEW t \in Threads, Event(t) PROVE IInv'
<1> DEFINE a == task[t].acct
           why == task[t].why
<1> USE StatusAssumption
<1>1. /\ task \in [Threads -> Tasks] /\ TaskTyped(task[t]) /\ TaskRecovers(task[t])
      /\ a \in Accounts /\ why \in Reasons /\ task[t].at = "event"
      /\ status \in [Accounts -> Statuses] /\ older \in [Accounts -> SUBSET Writers]
  BY DEF Event, IInv, TypeOK, TaskTyped, Recovering
<1>2. /\ reason' = [reason EXCEPT ![a] = why] /\ reason' \in [Accounts -> Reasons]
      /\ Reread(a, t) /\ UNCHANGED <<status, collect, cache>>
  BY <1>1 DEF Event, IInv, TypeOK
<1>3. PICK F \in [Threads -> Tasks] :
        /\ F = IF reason[a] # why THEN Disturb(a, t) ELSE task
        /\ task' = [F EXCEPT ![t] = Proceed(t)]
  BY <1>1, DisturbResult DEF Event, IInv
<1>4. \/ Proceed(t) = NoTask
      \/ /\ Proceed(t) \in Tasks /\ Proceed(t).at = "after" /\ Proceed(t).acct = a
         /\ Proceed(t).good = task[t].good
  BY <1>1 DEF Proceed, Tasks, TaskTyped
<1>5. NoTask \in Tasks /\ NoTask.at = "idle" /\ ~NoTask.good
  BY DEF NoTask, Tasks
<1>6. /\ task' \in [Threads -> Tasks] /\ task'[t] = Proceed(t)
      /\ \A u \in Threads : u # t => task'[u] = F[u]
  BY <1>3, <1>4, <1>5
<1>7. /\ older' \in [Accounts -> SUBSET Writers]
      /\ \A b \in Accounts : \A u \in Writers \ {t} : u \in older[b] => u \in older'[b]
  BY <1>1, <1>2 DEF Reread
<1>8. (TaskTyped(task[t]) /\ TaskReads(task[t], t) /\ TaskRecovers(task[t]))'
  BY <1>1, <1>2, <1>4, <1>5, <1>6 DEF TaskTyped, TaskReads, TaskRecovers
<1>9. ASSUME NEW u \in Threads, u # t
      PROVE  /\ (TaskTyped(task[u]) /\ TaskReads(task[u], u) /\ TaskRecovers(task[u]))'
             /\ task'[u].at = task[u].at /\ task'[u].acct = task[u].acct
  <2>1. TaskTyped(task[u]) /\ TaskReads(task[u], u) /\ TaskRecovers(task[u])
    BY DEF IInv, TypeOK, TaskTyped, Reads, Recovering
  <2>2. /\ task'[u] \in Tasks
        /\ task'[u].at = task[u].at /\ task'[u].acct = task[u].acct /\ task'[u].held = task[u].held
        /\ task'[u].new = task[u].new /\ task'[u].why = task[u].why /\ task'[u].next = task[u].next
        /\ task'[u].good => task[u].good /\ (task[u].acct = a => reason[a] = why)
    <3>1. CASE reason[a] = why
      <4>1. task'[u] = task[u]
        BY <1>3, <1>6, <1>9, <3>1
      <4> QED
        BY <2>1, <3>1, <4>1 DEF TaskTyped
    <3>2. CASE reason[a] # why
      <4>1. task'[u] = Disturb(a, t)[u]
        BY <1>3, <1>6, <1>9, <3>2
      <4> QED
        BY <1>1, <1>9, <4>1, DisturbResult DEF IInv
    <3> QED
      BY <3>1, <3>2
  <2>3. u \in Writers \ {t} /\ (task[u].at # "idle" => task[u].acct \in Accounts)
    BY <1>9, <2>1 DEF Writers, TaskTyped
  <2>4. TaskTyped(task[u])'
    BY <2>1, <2>2 DEF TaskTyped
  <2>5. TaskReads(task[u], u)'
    BY <1>2, <1>7, <2>1, <2>2, <2>3 DEF TaskReads
  <2>6. TaskRecovers(task[u])'
    <3>1. reason'[task[u].acct] = reason[task[u].acct] \/ task[u].acct = a
      BY <1>2, <2>3 DEF IInv, TypeOK
    <3>2. reason[a] = why => reason' = reason
      BY <1>2 DEF IInv, TypeOK
    <3> QED
      BY <1>2, <2>1, <2>2, <3>1, <3>2 DEF TaskRecovers
  <2> QED
    BY <2>2, <2>4, <2>5, <2>6
<1>10. \A u \in Threads : (TaskTyped(task[u]) /\ TaskReads(task[u], u) /\ TaskRecovers(task[u]))'
  BY <1>8, <1>9
<1>11. TypeOK'
  BY <1>1, <1>2, <1>6, <1>7, <1>10 DEF IInv, TypeOK, TaskTyped
<1>12. Listed'
  <2>1. \A c \in Collectors : c \in Writers \ {t} /\ collect[c].list \cup collect[c].todo \subseteq Accounts
    BY DEF IInv, TypeOK, Writers
  <2> QED
    BY <1>2, <1>7, <2>1 DEF IInv, Listed, Selectable
<1>13. CacheNotStale'
  <2>1. \A u \in Threads : task[u].at = "invalidate" => task'[u].at = "invalidate" /\ task'[u].acct = task[u].acct
    BY <1>1, <1>9
  <2> QED
    BY <1>2, <2>1 DEF IInv, CacheNotStale, Selectable
<1> QED
  BY <1>10, <1>11, <1>12, <1>13 DEF IInv, Reads, Recovering

-----------------------------------------------------------------------------
\* The steps that neither touch a row nor a thread's work
LEMMA TasksStay ==
  ASSUME IInv, UNCHANGED <<status, reason, task>>,
         \A b \in Accounts : \A u \in Threads : u \in older[b] => u \in older'[b]
  PROVE  Reads' /\ Recovering'
<1>1. ASSUME NEW u \in Threads PROVE TaskReads(task[u], u)' /\ TaskRecovers(task[u])'
  <2>1. /\ TaskReads(task[u], u) /\ TaskRecovers(task[u])
        /\ task[u].at # "idle" => task[u].acct \in Accounts
    BY DEF IInv, TypeOK, Reads, Recovering
  <2> QED
    BY <2>1 DEF TaskReads, TaskRecovers
<1> QED
  BY <1>1 DEF Reads, Recovering

LEMMA CollectKeeps == ASSUME IInv, NEW c \in Collectors, Collect(c) PROVE IInv'
<1>1. PICK mode \in Modes, list \in SUBSET {a \in Accounts : Selectable(a)} :
        collect' = [collect EXCEPT ![c] =
          [at |-> "list", list |-> list, todo |-> {a \in Accounts : Selectable(a)}, mode |-> mode]]
  BY DEF Collect
<1>2. cache' = None /\ UNCHANGED <<status, reason, task, older>>
  BY DEF Collect
<1>3. TypeOK'
  BY <1>1, <1>2 DEF IInv, TypeOK
<1>4. Listed'
  BY <1>1, <1>2 DEF IInv, TypeOK, Listed, Selectable
<1>5. Reads' /\ Recovering'
  BY <1>2, TasksStay
<1> QED
  BY <1>2, <1>3, <1>4, <1>5 DEF IInv, CacheNotStale

LEMMA CollectPatchKeeps == ASSUME IInv, NEW c \in Collectors, CollectPatch(c) PROVE IInv'
<1> USE StatusAssumption
<1>1. PICK a \in collect[c].todo :
        /\ collect' = [collect EXCEPT ![c].todo = @ \ {a}]
        /\ \/ Write(a, "active", c) /\ task' = Disturb(a, c) /\ cache' = CacheMissed(a)
           \/ UNCHANGED <<status, older, task, cache>>
  BY DEF CollectPatch
<1>2. UNCHANGED reason /\ a \in Accounts /\ c \notin Threads
  BY DEF CollectPatch, IInv, TypeOK
<1>3. /\ collect' \in [Collectors -> [at : {"idle", "list"}, list : SUBSET Accounts,
                                      todo : SUBSET Accounts, mode : Modes \cup {None}]]
      /\ \A d \in Collectors : d # c => collect'[d] = collect[d]
      /\ collect'[c].list \cup collect'[c].todo \subseteq collect[c].list \cup collect[c].todo
      /\ collect[c].list \cup collect[c].todo \subseteq Accounts
  BY <1>1 DEF IInv, TypeOK
<1>4. CASE Write(a, "active", c) /\ task' = Disturb(a, c) /\ cache' = CacheMissed(a)
  <2>1. "active" \in Statuses /\ TypeOK
    BY DEF Statuses, IInv
  <2>2. /\ \A b \in Accounts : b # a => status'[b] = status[b] /\ older'[b] = older[b]
        /\ status'[a] = "active"
    BY <1>2, <1>4, <2>1, WriteResult
  <2>3. \A b \in collect'[c].list \cup collect'[c].todo : (Selectable(b) \/ c \in older[b])'
    BY <1>3, <2>2 DEF IInv, Listed, Selectable
  <2>4. task' \in [Threads -> Tasks]
    BY <1>2, <1>4, <2>1, DisturbResult
  <2> QED
    BY <1>2, <1>3, <1>4, <2>1, <2>3, <2>4, WriteKeeps
<1>5. CASE UNCHANGED <<status, older, task, cache>>
  <2>1. TypeOK'
    BY <1>2, <1>3, <1>5 DEF IInv, TypeOK
  <2>2. Listed'
    BY <1>3, <1>5 DEF IInv, Listed, Selectable
  <2>3. CacheNotStale'
    BY <1>5 DEF IInv, CacheNotStale, Selectable
  <2> QED
    BY <1>2, <1>5, <2>1, <2>2, <2>3, TasksStay DEF IInv
<1> QED
  BY <1>1, <1>4, <1>5

LEMMA StoreKeeps == ASSUME IInv, NEW c \in Collectors, Store(c) PROVE IInv'
<1> USE StatusAssumption
<1>1. /\ cache' = [list |-> collect[c].list, mode |-> collect[c].mode,
                   missed |-> {a \in collect[c].list : c \in older[a]}, live |-> TRUE]
      /\ collect' = [collect EXCEPT ![c] = NoList]
      /\ older' = [a \in Accounts |-> older[a] \ {c}]
      /\ UNCHANGED <<status, reason, task>>
  BY DEF Store
<1>2. /\ older' \in [Accounts -> SUBSET Writers]
      /\ \A b \in Accounts : \A u \in Writers \ {c} : u \in older[b] => u \in older'[b]
  BY <1>1 DEF IInv, TypeOK
<1>3. TypeOK'
  <2>2. cache' \in [list : SUBSET Accounts, mode : Modes \cup {None}, missed : SUBSET Accounts, live : BOOLEAN]
    BY <1>1 DEF IInv, TypeOK
  <2>3. collect' \in [Collectors -> [at : {"idle", "list"}, list : SUBSET Accounts,
                                     todo : SUBSET Accounts, mode : Modes \cup {None}]]
    BY <1>1 DEF IInv, TypeOK, NoList
  <2> QED
    BY <1>1, <1>2, <2>2, <2>3 DEF IInv, TypeOK
<1>4. Listed'
  <2>1. ASSUME NEW d \in Collectors, NEW b \in collect'[d].list \cup collect'[d].todo
        PROVE  (Selectable(b) \/ d \in older[b])'
    <3>1. d # c
      BY <1>1, <2>1 DEF IInv, TypeOK, NoList
    <3>2. b \in collect[d].list \cup collect[d].todo /\ b \in Accounts /\ d \in Writers \ {c}
      BY <1>1, <2>1, <3>1 DEF IInv, TypeOK, Writers
    <3> QED
      BY <1>1, <1>2, <3>2 DEF IInv, Listed, Selectable
  <2> QED
    BY <2>1 DEF Listed
<1>5. CacheNotStale'
  <2>1. collect[c].list \subseteq Accounts
    BY DEF IInv, TypeOK
  <2>2. \A a \in collect[c].list : Selectable(a) \/ c \in older[a]
    BY DEF IInv, Listed
  <2> QED
    BY <1>1, <2>1, <2>2 DEF CacheNotStale, Selectable
<1>6. Reads' /\ Recovering'
  <2>1. \A u \in Threads : u \in Writers \ {c}
    BY DEF Writers
  <2> QED
    BY <1>1, <1>2, <2>1, TasksStay
<1> QED
  BY <1>3, <1>4, <1>5, <1>6 DEF IInv

LEMMA Inductive == IInv /\ [Next]_vars => IInv'
<1> SUFFICES ASSUME IInv, [Next]_vars PROVE IInv'
  OBVIOUS
<1>1. ASSUME NEW a \in Accounts, UserSet(a) PROVE IInv'
  BY <1>1, UserSetKeeps
<1>2. ASSUME NEW t \in Threads,
             \/ AskAgain(t) \/ Snapshot(t) \/ Judge(t) \/ Fail(t) \/ After(t)
             \/ \E a \in Accounts : Refresh(t, a) \/ Mark(t, a)
      PROVE  IInv'
  BY <1>2, ReadersMove
<1>3. ASSUME NEW t \in Threads, Patch(t) \/ Update(t) \/ Invalidate(t) \/ Event(t) PROVE IInv'
  BY <1>3, PatchKeeps, UpdateKeeps, InvalidateKeeps, EventKeeps
<1>4. ASSUME NEW c \in Collectors, Collect(c) \/ CollectPatch(c) \/ Store(c) PROVE IInv'
  BY <1>4, CollectKeeps, CollectPatchKeeps, StoreKeeps
<1>5. ASSUME UNCHANGED <<status, reason, task, collect, older>>,
             cache' = None \/ (cache # None /\ cache' = [cache EXCEPT !.live = FALSE]) \/ cache' = cache
      PROVE  IInv'
  <2>1. TypeOK'
    BY <1>5 DEF IInv, TypeOK
  <2>2. Reads' /\ Recovering'
    BY <1>5, TasksStay
  <2>3. Listed'
    BY <1>5 DEF IInv, Listed, Selectable
  <2>4. CacheNotStale'
    <3>1. CASE cache' = None
      BY <3>1 DEF CacheNotStale
    <3>2. CASE cache # None /\ cache' = [cache EXCEPT !.live = FALSE]
      <4>1. cache'.list = cache.list /\ cache'.missed = cache.missed
        BY <3>2 DEF IInv, TypeOK
      <4> QED
        BY <1>5, <3>2, <4>1 DEF IInv, CacheNotStale, Selectable
    <3>3. CASE cache' = cache
      BY <1>5, <3>3 DEF IInv, CacheNotStale, Selectable
    <3> QED
      BY <1>5, <3>1, <3>2, <3>3
  <2> QED
    BY <2>1, <2>2, <2>3, <2>4 DEF IInv
<1>6. CASE Expire \/ Reconfigure
  BY <1>5, <1>6 DEF Expire, Reconfigure
<1>7. CASE UNCHANGED vars
  BY <1>5, <1>7 DEF vars
<1> QED
  BY <1>1, <1>2, <1>3, <1>4, <1>6, <1>7 DEF Next

-----------------------------------------------------------------------------
\* How the steps that write a row move the thread that writes, and no other
LEMMA WritersMove ==
  ASSUME IInv, NEW t \in Threads, Patch(t) \/ Update(t)
  PROVE  /\ Patch(t) => task'[t].at \in {"fetch", "refetch"}
         /\ Update(t) => task'[t].at \in {"invalidate", "event"}
         /\ \A u \in Threads : u # t => task'[u].at = task[u].at
<1>1. task \in [Threads -> Tasks] /\ TaskTyped(task[t]) /\ task[t].acct \in Accounts
  BY DEF Patch, Update, IInv, TypeOK, TaskTyped
<1>3. /\ Disturb(task[t].acct, t) \in [Threads -> Tasks]
      /\ \A u \in Threads : Disturb(task[t].acct, t)[u].at = task[u].at
  BY <1>1, DisturbResult DEF IInv
<1>4. CASE Patch(t)
  <2> DEFINE sent(T) == [T EXCEPT ![t].held = None, ![t].at = IF @ = "patch" THEN "fetch" ELSE "refetch"]
  <2>1. PICK G \in [Threads -> Tasks] :
          (G = task \/ G = Disturb(task[t].acct, t)) /\ task' = sent(G)
    BY <1>1, <1>3, <1>4 DEF Patch
  <2>2. task'[t].at \in {"fetch", "refetch"} /\ \A u \in Threads : u # t => task'[u] = G[u]
    BY <2>1 DEF Tasks
  <2>3. ~Update(t)
    BY <1>4 DEF Patch, Update
  <2> QED
    BY <1>3, <2>1, <2>2, <2>3
<1>5. CASE Update(t)
  <2> DEFINE changes == status[task[t].acct] # task[t].new
  <2>1. PICK G \in [Threads -> Tasks] :
          /\ G = task \/ G = Disturb(task[t].acct, t)
          /\ task' = [G EXCEPT ![t].at = IF changes THEN "invalidate" ELSE "event", ![t].new = None]
    BY <1>1, <1>3, <1>5 DEF Update
  <2> HIDE DEF changes
  <2>2. task'[t].at \in {"invalidate", "event"} /\ \A u \in Threads : u # t => task'[u] = G[u]
    BY <2>1 DEF Tasks
  <2>3. ~Patch(t)
    BY <1>5 DEF Patch, Update
  <2> QED
    BY <1>3, <2>1, <2>2, <2>3
<1> QED
  BY <1>4, <1>5

\* Every variable keeps its type, for any accounts, threads and collectors.
THEOREM TypeCorrect == Spec => []TypeOK
<1>1. IInv => TypeOK
  BY DEF IInv
<1> QED
  BY Initial, Inductive, <1>1, PTL DEF Spec

\* A cached candidate is stale only where its status changed while the list was on its way,
\* or by a writer that does not invalidate, or its invalidation is still to come.
THEOREM CacheFresh == Spec => []CacheNotStale
<1>1. IInv => CacheNotStale
  BY DEF IInv
<1> QED
  BY Initial, Inductive, <1>1, PTL DEF Spec

\* However many threads refresh, mark and collect, a disabled account is set otherwise only
\* by the user or from an older read.
THEOREM DisabledKept == Spec => DisabledStays
<1> DEFINE A == \A a \in Accounts : status[a] = "disabled" /\ status'[a] # "disabled" =>
                  \/ UserSet(a)
                  \/ \E t \in older[a] \cap Threads : task'[t] # task[t]
                  \/ \E c \in older[a] \cap Collectors : collect'[c] # collect[c]
<1>1. IInv /\ [Next]_vars => [A]_vars
  <2> SUFFICES ASSUME IInv, Next, NEW b \in Accounts, status[b] = "disabled", status'[b] # "disabled"
               PROVE  \/ UserSet(b)
                      \/ \E t \in older[b] \cap Threads : task'[t] # task[t]
                      \/ \E c \in older[b] \cap Collectors : collect'[c] # collect[c]
    OBVIOUS
  <2>1. ASSUME NEW a \in Accounts, UserSet(a) PROVE a = b
    <3>1. PICK new \in Statuses : Write(a, new, None)
      BY <2>1 DEF UserSet
    <3> QED
      BY <3>1, WriteResult DEF IInv
  <2>2. ASSUME NEW t \in Threads, Patch(t) PROVE t \in older[b] /\ task'[t] # task[t]
    <3>1. /\ task[t].at \in {"patch", "repatch"} /\ TaskTyped(task[t]) /\ TaskReads(task[t], t)
          /\ task \in [Threads -> Tasks]
      BY <2>2 DEF Patch, IInv, TypeOK, TaskTyped, Reads
    <3>2. Write(task[t].acct, task[t].held, t)
      BY <2>2 DEF Patch
    <3>3. task[t].acct \in Accounts /\ task[t].held \in Statuses
      BY <3>1 DEF TaskTyped
    <3>4. task[t].acct = b /\ task[t].held # "disabled"
      BY <3>2, <3>3, WriteResult DEF IInv
    <3>5. task'[t].at \in {"fetch", "refetch"}
      BY <2>2, WritersMove
    <3> QED
      BY <3>1, <3>4, <3>5 DEF TaskReads
  <2>3. ASSUME NEW t \in Threads, Update(t) PROVE t \in older[b] /\ task'[t] # task[t]
    <3>1. /\ task[t].at = "update" /\ TaskTyped(task[t]) /\ TaskReads(task[t], t)
          /\ task \in [Threads -> Tasks]
      BY <2>3 DEF Update, IInv, TypeOK, TaskTyped, Reads
    <3>2. Write(task[t].acct, task[t].new, t)
      BY <2>3 DEF Update
    <3>3. task[t].acct \in Accounts /\ task[t].new \in Statuses
      BY <3>1 DEF TaskTyped
    <3>4. task[t].acct = b
      BY <3>2, <3>3, WriteResult DEF IInv
    <3>5. task'[t].at \in {"invalidate", "event"}
      BY <2>3, WritersMove
    <3> QED
      BY <3>1, <3>4, <3>5 DEF TaskReads
  <2>4. ASSUME NEW c \in Collectors, CollectPatch(c) PROVE c \in older[b] /\ collect'[c] # collect[c]
    <3>1. PICK a \in collect[c].todo :
            /\ collect' = [collect EXCEPT ![c].todo = @ \ {a}]
            /\ Write(a, "active", c) \/ status' = status
      BY <2>4 DEF CollectPatch
    <3>2. a \in Accounts /\ "active" \in Statuses
      BY DEF IInv, TypeOK, Statuses
    <3>3. a = b
      BY <3>1, <3>2, WriteResult DEF IInv
    <3>4. collect'[c].todo = collect[c].todo \ {a}
      BY <3>1 DEF IInv, TypeOK
    <3>5. Selectable(a) \/ c \in older[a]
      BY DEF IInv, Listed
    <3> QED
      BY <3>3, <3>4, <3>5 DEF Selectable
  <2>5. ASSUME NEW t \in Threads,
               \/ AskAgain(t) \/ Snapshot(t) \/ Judge(t) \/ Fail(t) \/ After(t) \/ Invalidate(t) \/ Event(t)
               \/ \E a \in Accounts : Refresh(t, a) \/ Mark(t, a)
        PROVE  status' = status
    BY <2>5 DEF AskAgain, Snapshot, Judge, Fail, After, Invalidate, Event, Refresh, Mark
  <2>6. ASSUME NEW c \in Collectors, Collect(c) \/ Store(c) PROVE status' = status
    BY <2>6 DEF Collect, Store
  <2>7. Expire \/ Reconfigure => status' = status
    BY DEF Expire, Reconfigure
  <2> QED
    BY <2>1, <2>2, <2>3, <2>4, <2>5, <2>6, <2>7 DEF Next
<1> QED
  BY Initial, Inductive, <1>1, PTL DEF Spec, DisabledStays

\* A manual refresh that nobody disturbs never ends with its account unavailable.
THEOREM RefreshRecovers == Spec => ManualRefreshRecovers
<1> DEFINE A == \A t \in Threads : LET a == task[t].acct IN
                  task[t].good /\ task'[t].at = "idle" =>
                    \/ status[a] \in {"active", "disabled"}
                    \/ reason[a] = "region" /\ status[a] # "unavailable"
<1>1. IInv /\ [Next]_vars => [A]_vars
  <2> SUFFICES ASSUME IInv, Next, NEW t \in Threads, task[t].good, task'[t].at = "idle"
               PROVE  \/ status[task[t].acct] \in {"active", "disabled"}
                      \/ reason[task[t].acct] = "region" /\ status[task[t].acct] # "unavailable"
    OBVIOUS
  <2>1. TaskTyped(task[t]) /\ TaskRecovers(task[t]) /\ task \in [Threads -> Tasks]
    BY DEF IInv, TypeOK, TaskTyped, Recovering
  <2>2. task[t].at \in {"judge", "update", "invalidate", "event", "after"}
    BY <2>1 DEF TaskRecovers
  <2>3. ASSUME NEW u \in Threads, Judge(u) \/ Invalidate(u) \/ After(u)
        PROVE  u = t /\ (Judge(u) \/ After(u))
    <3>1. u = t
      BY <2>1, <2>2, <2>3 DEF Judge, Invalidate, After
    <3>2. ~Invalidate(t)
      BY <2>1 DEF Invalidate, Tasks
    <3> QED
      BY <2>3, <3>1, <3>2
  <2>4. ASSUME NEW u \in Threads, NEW a \in Accounts,
               AskAgain(u) \/ Snapshot(u) \/ Fail(u) \/ Refresh(u, a) \/ Mark(u, a)
        PROVE  FALSE
    <3>1. u # t
      <4>1. CASE task[u] = NoTask
        BY <2>2, <4>1 DEF NoTask
      <4>2. CASE task[u] # NoTask
        BY <2>2, <2>4, <4>2 DEF AskAgain, Snapshot, Fail, Refresh, Mark
      <4> QED
        BY <4>1, <4>2
    <3>2. task'[t] = task[t]
      BY <2>1, <2>4, <3>1 DEF AskAgain, Snapshot, Fail, Refresh, Mark
    <3> QED
      BY <2>2, <3>2
  <2>5. ASSUME NEW u \in Threads, Patch(u) \/ Update(u) PROVE FALSE
    BY <2>2, <2>5, WritersMove
  <2>6. CASE Judge(t)
    <3>1. task[t].next = "after" /\ task[t].at = "judge"
      BY <2>1, <2>6 DEF Judge, TaskRecovers
    <3> QED
      BY <2>1, <2>6, <3>1 DEF Judge, Proceed, Tasks
  <2>7. CASE After(t)
    <3>1. task[t].at = "after"
      BY <2>7 DEF After
    <3>2. status[task[t].acct] # "unavailable"
      BY <2>1, <2>7 DEF After, Tasks
    <3> QED
      BY <2>1, <3>1, <3>2 DEF TaskRecovers
  <2>8. ASSUME NEW u \in Threads, Event(u)
        PROVE  status[task[t].acct] = "active"
    <3>1. u = t
      <4> SUFFICES ASSUME u # t PROVE FALSE
        OBVIOUS
      <4>1. task[u].acct \in Accounts
        BY <2>8 DEF Event, IInv, TypeOK
      <4>2. /\ Disturb(task[u].acct, u) \in [Threads -> Tasks]
            /\ Disturb(task[u].acct, u)[t].at = task[t].at
        BY <4>1, DisturbResult DEF IInv
      <4>3. task'[t].at = task[t].at
        BY <2>1, <2>8, <4>2 DEF Event
      <4> QED
        BY <2>2, <4>3
    <3> QED
      BY <2>1, <2>8, <3>1 DEF Event, TaskRecovers
  <2>9. ASSUME NEW a \in Accounts, NEW w, task' = Disturb(a, w) PROVE FALSE
    BY <2>1, <2>2, <2>9, DisturbResult DEF IInv
  <2>10. task' # task
    BY <2>2
  <2>11. ASSUME NEW c \in Collectors, Collect(c) \/ CollectPatch(c) \/ Store(c) PROVE FALSE
    <3>1. \/ task' = task
          \/ \E a \in collect[c].todo : task' = Disturb(a, c)
      BY <2>11 DEF Collect, CollectPatch, Store
    <3>2. collect[c].todo \subseteq Accounts
      BY DEF IInv, TypeOK
    <3> QED
      BY <2>9, <2>10, <3>1, <3>2
  <2>12. ASSUME (\E a \in Accounts : UserSet(a)) \/ Expire \/ Reconfigure PROVE FALSE
    BY <2>9, <2>10, <2>12 DEF UserSet, Expire, Reconfigure
  <2> DEFINE Back == \/ status[task[t].acct] \in {"active", "disabled"}
                     \/ reason[task[t].acct] = "region" /\ status[task[t].acct] # "unavailable"
  <2>13. ASSUME NEW u \in Threads, Judge(u) \/ Invalidate(u) \/ After(u) PROVE Back
    BY <2>3, <2>6, <2>7, <2>13
  <2>14. ASSUME NEW u \in Threads,
                \/ Patch(u) \/ AskAgain(u) \/ Snapshot(u) \/ Judge(u) \/ Fail(u)
                \/ Update(u) \/ Invalidate(u) \/ Event(u) \/ After(u)
         PROVE  Back
    <3>1. task[u].acct \in Accounts \/ ~(AskAgain(u) \/ Snapshot(u) \/ Fail(u))
      BY DEF AskAgain, Snapshot, Fail, IInv, TypeOK
    <3> HIDE DEF Back
    <3> QED
      BY <2>4, <2>5, <2>8, <2>13, <2>14, <3>1 DEF Back
  <2> HIDE DEF Back
  <2>15. Back
    BY <2>4, <2>11, <2>12, <2>14 DEF Next
  <2> QED
    BY <2>15 DEF Back
<1> QED
  BY Initial, Inductive, <1>1, PTL DEF Spec, ManualRefreshRecovers
=============================================================================
