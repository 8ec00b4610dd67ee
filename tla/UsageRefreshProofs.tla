------------------------- MODULE UsageRefreshProofs -------------------------
(***************************************************************************)
(* What RefreshQueue and UsagePoll promise, for any number of requesters,  *)
(* workers and accounts.                                                   *)
(*                                                                         *)
(* The queue.  OneTaskPerAccount is not inductive: that a second task is   *)
(* never sent follows from where the accounts of the pending set are.      *)
(* Each is in one place only, on its way to the channel, in the channel,   *)
(* or with a worker (OnePlace), and each of those is pending (Pending), so *)
(* a request that finds an account absent from the set finds it nowhere.   *)
(***************************************************************************)
EXTENDS RefreshQueue, UsagePoll, TLAPS

Pending ==
  /\ \A r \in Requesters : sending[r] # None => sending[r] \in pending
  /\ \A i \in 1 .. Len(channel) : channel[i] \in pending
  /\ \A w \in Workers : task[w] # None => task[w] \in pending

OnePlace ==
  /\ \A r, s \in Requesters : r # s /\ sending[r] # None => sending[r] # sending[s]
  /\ \A r \in Requesters, i \in 1 .. Len(channel) : sending[r] # channel[i]
  /\ \A r \in Requesters, w \in Workers : sending[r] # None => sending[r] # task[w]
  /\ OneTaskPerAccount

IInv == TypeOK /\ Pending /\ OnePlace

LEMMA Initial == Init => IInv
BY NoneAssumption DEF Init, IInv, TypeOK, Pending, OnePlace, OneTaskPerAccount

LEMMA Inductive == IInv /\ [Next]_vars => IInv'
<1> SUFFICES ASSUME IInv, [Next]_vars PROVE IInv'
  OBVIOUS
<1> USE NoneAssumption DEF IInv, TypeOK, Pending, OnePlace, OneTaskPerAccount
<1>1. ASSUME NEW r \in Requesters, NEW a \in Accounts, Mark(r, a) PROVE IInv'
  BY <1>1 DEF Mark
<1>2. ASSUME NEW r \in Requesters, Send(r) PROVE IInv'
  <2>1. /\ sending[r] \in Accounts
        /\ channel' \in Seq(Accounts)
        /\ Len(channel') = Len(channel) + 1
        /\ \A i \in 1 .. Len(channel) : channel'[i] = channel[i]
        /\ channel'[Len(channel) + 1] = sending[r]
    BY <1>2 DEF Send
  <2>2. TypeOK'
    BY <1>2, <2>1 DEF Send
  <2>3. Pending'
    BY <1>2, <2>1 DEF Send
  <2>4. OneTaskPerAccount'
    BY <1>2, <2>1 DEF Send
  <2>5. OnePlace'
    BY <1>2, <2>1, <2>4 DEF Send
  <2> QED
    BY <2>2, <2>3, <2>5
<1>3. ASSUME NEW r \in Requesters, SendFails(r) PROVE IInv'
  <2>1. TypeOK'
    BY <1>3 DEF SendFails
  <2>2. Pending'
    BY <1>3 DEF SendFails
  <2>3. OnePlace'
    BY <1>3 DEF SendFails
  <2> QED
    BY <2>1, <2>2, <2>3
<1>4. ASSUME NEW w \in Workers, Receive(w) PROVE IInv'
  <2>1. /\ channel' \in Seq(Accounts)
        /\ Len(channel') = Len(channel) - 1
        /\ Len(channel) \in Nat \ {0}
        /\ \A i \in 1 .. Len(channel') : channel'[i] = channel[i + 1]
        /\ task'[w] = channel[1]
        /\ channel[1] \in Accounts
    BY <1>4 DEF Receive
  <2>2. TypeOK'
    BY <1>4, <2>1 DEF Receive
  <2>3. Pending'
    BY <1>4, <2>1 DEF Receive
  <2>4. OneTaskPerAccount'
    BY <1>4, <2>1 DEF Receive
  <2>5. OnePlace'
    BY <1>4, <2>1, <2>4 DEF Receive
  <2> QED
    BY <2>2, <2>3, <2>5
<1>5. ASSUME NEW w \in Workers, Return(w) \/ Panic(w) PROVE IInv'
  <2>1. TypeOK'
    BY <1>5 DEF Return, Panic
  <2>2. Pending' /\ OnePlace'
    BY <1>5 DEF Return, Panic
  <2> QED
    BY <2>1, <2>2
<1>6. ASSUME NEW w \in Workers, Clear(w) PROVE IInv'
  <2>1. TypeOK'
    BY <1>6 DEF Clear
  <2>2. Pending'
    BY <1>6 DEF Clear
  <2>3. OnePlace'
    BY <1>6 DEF Clear
  <2> QED
    BY <2>1, <2>2, <2>3
<1>7. CASE UNCHANGED vars
  BY <1>7 DEF vars
<1> QED
  BY <1>1, <1>2, <1>3, <1>4, <1>5, <1>6, <1>7 DEF Next, RequesterStep, WorkerStep

\* The typing invariant of RefreshQueue holds for any threads and accounts.
THEOREM TypeCorrect == Spec => []TypeOK
<1>1. IInv => TypeOK
  BY DEF IInv
<1> QED
  BY Initial, Inductive, <1>1, PTL DEF Spec

\* Pending tasks are never doubled: no account is in two tasks at once, whether
\* running or waiting in the channel.
THEOREM NoDoubleRefresh == Spec => []OneTaskPerAccount
<1>1. IInv => OneTaskPerAccount
  BY DEF IInv, OnePlace
<1> QED
  BY Initial, Inductive, <1>1, PTL DEF Spec

-----------------------------------------------------------------------------
(***************************************************************************)
(* Why no account stays barred.  An account is in the pending set exactly  *)
(* while somebody has it, and whoever has it will give it back: a task is  *)
(* in the channel only if there is a worker to receive it, and a worker    *)
(* that has a task is one that was started.                                *)
(***************************************************************************)
InChannel == {channel[i] : i \in 1 .. Len(channel)}
WithWorkers == {task[w] : w \in Workers}

InFlight == {sending[r] : r \in Requesters} \cup InChannel \cup WithWorkers

\* The pending set is what is in flight, no more and no less, and a task that was sent
\* has a worker it can reach.
BarredWhileInFlight ==
  /\ pending = InFlight \ {None}
  /\ channel # <<>> => spawned # {}
  /\ \A w \in Workers : task[w] # None => w \in spawned

LEMMA FlightMarked ==
  ASSUME IInv, BarredWhileInFlight, NEW r \in Requesters, NEW a \in Accounts, Mark(r, a)
  PROVE  BarredWhileInFlight'
<1> USE NoneAssumption DEF IInv, TypeOK, BarredWhileInFlight
<1>1. /\ sending[r] = None /\ sending' = [sending EXCEPT ![r] = a] /\ pending' = pending \cup {a}
      /\ UNCHANGED <<channel, spawned, task>>
  BY DEF Mark
<1>2. \A b \in Accounts :
        (\E q \in Requesters : sending'[q] = b) <=> b = a \/ \E q \in Requesters : sending[q] = b
  BY <1>1
<1> QED
  BY <1>1, <1>2 DEF InFlight, InChannel, WithWorkers

LEMMA FlightSent ==
  ASSUME IInv, BarredWhileInFlight, NEW r \in Requesters, Send(r)
  PROVE  BarredWhileInFlight'
<1> USE NoneAssumption DEF IInv, TypeOK, BarredWhileInFlight, OnePlace
<1>1. /\ sending[r] \in Accounts /\ spawned # {}
      /\ sending' = [sending EXCEPT ![r] = None]
      /\ Len(channel') = Len(channel) + 1 /\ Len(channel) \in Nat
      /\ \A i \in 1 .. Len(channel) : channel'[i] = channel[i]
      /\ channel'[Len(channel) + 1] = sending[r]
      /\ UNCHANGED <<pending, spawned, task>>
  BY DEF Send
<1>2. InChannel' = InChannel \cup {sending[r]}
  <2>1. 1 .. Len(channel') = (1 .. Len(channel)) \cup {Len(channel) + 1}
    BY <1>1
  <2> QED
    BY <1>1, <2>1 DEF InChannel
<1>3. {sending'[q] : q \in Requesters} \cup {sending[r], None}
        = {sending[q] : q \in Requesters} \cup {None}
  BY <1>1
<1> QED
  BY <1>1, <1>2, <1>3 DEF InFlight, InChannel, WithWorkers

LEMMA FlightSendFails ==
  ASSUME IInv, BarredWhileInFlight, NEW r \in Requesters, SendFails(r)
  PROVE  BarredWhileInFlight'
<1> USE NoneAssumption DEF IInv, TypeOK, BarredWhileInFlight, OnePlace
<1>1. /\ sending[r] # None /\ spawned = {}
      /\ sending' = [sending EXCEPT ![r] = None] /\ pending' = pending \ {sending[r]}
      /\ UNCHANGED <<channel, spawned, task>>
  BY DEF SendFails
<1>2. {sending'[q] : q \in Requesters} \cup {None}
        = ({sending[q] : q \in Requesters} \cup {None}) \ {sending[r]}
  BY <1>1
<1>3. \A i \in 1 .. Len(channel) : channel[i] # sending[r]
  BY <1>1
<1>4. \A w \in Workers : task[w] # sending[r]
  BY <1>1
<1> QED
  BY <1>1, <1>2, <1>3, <1>4 DEF InFlight, InChannel, WithWorkers

LEMMA FlightReceived ==
  ASSUME IInv, BarredWhileInFlight, NEW w \in Workers, Receive(w)
  PROVE  BarredWhileInFlight'
<1> USE NoneAssumption DEF IInv, TypeOK, BarredWhileInFlight
<1>1. /\ task[w] = None /\ w \in spawned
      /\ task' = [task EXCEPT ![w] = channel[1]]
      /\ Len(channel) \in Nat \ {0} /\ Len(channel') = Len(channel) - 1
      /\ \A i \in 1 .. Len(channel') : channel'[i] = channel[i + 1]
      /\ UNCHANGED <<pending, spawned, sending>>
  BY DEF Receive
<1>2. InChannel = InChannel' \cup {channel[1]}
  <2>1. ASSUME NEW i \in 1 .. Len(channel)
        PROVE  channel[i] \in InChannel' \cup {channel[1]}
    <3>1. CASE i = 1
      BY <3>1
    <3>2. CASE i # 1
      <4>1. i - 1 \in 1 .. Len(channel') /\ channel'[i - 1] = channel[i]
        BY <1>1, <3>2
      <4> QED
        BY <4>1 DEF InChannel
    <3> QED
      BY <3>1, <3>2
  <2>2. ASSUME NEW i \in 1 .. Len(channel') PROVE channel'[i] \in InChannel
    <3>1. i + 1 \in 1 .. Len(channel) /\ channel[i + 1] = channel'[i]
      BY <1>1
    <3> QED
      BY <3>1 DEF InChannel
  <2>3. channel[1] \in InChannel
    BY <1>1 DEF InChannel
  <2> QED
    BY <2>1, <2>2, <2>3 DEF InChannel
<1>3. WithWorkers' \cup {None} = WithWorkers \cup {None, channel[1]}
  BY <1>1 DEF WithWorkers
<1>4. pending' = InFlight' \ {None}
  <2>1. pending = InFlight \ {None} /\ UNCHANGED <<pending, sending>>
    BY <1>1
  <2> HIDE DEF IInv, TypeOK, BarredWhileInFlight
  <2> QED
    BY <1>2, <1>3, <2>1 DEF InFlight
<1> QED
  BY <1>1, <1>4

LEMMA FlightCleared ==
  ASSUME IInv, BarredWhileInFlight, NEW w \in Workers, Clear(w)
  PROVE  BarredWhileInFlight'
<1> USE NoneAssumption DEF IInv, TypeOK, BarredWhileInFlight, OnePlace, OneTaskPerAccount
<1>1. /\ task[w] # None /\ task[w] \in Accounts
      /\ task' = [task EXCEPT ![w] = None] /\ pending' = pending \ {task[w]}
      /\ UNCHANGED <<channel, spawned, sending>>
  BY DEF Clear
<1>2. WithWorkers' \cup {None} = (WithWorkers \cup {None}) \ {task[w]}
  BY <1>1 DEF WithWorkers
<1>3. \A i \in 1 .. Len(channel) : channel[i] # task[w]
  BY <1>1
<1>4. \A r \in Requesters : sending[r] # task[w]
  BY <1>1
<1> QED
  BY <1>1, <1>2, <1>3, <1>4 DEF InFlight, InChannel, WithWorkers

\* The safety half of NeverBarredForEver, for any number of threads and accounts: no
\* interleaving, failed send or panic leaves an account in the pending set that nobody
\* will take out again.
THEOREM BarredOnlyInFlight == Spec => []BarredWhileInFlight
<1>1. Init => BarredWhileInFlight
  <2> SUFFICES ASSUME Init PROVE BarredWhileInFlight
    OBVIOUS
  <2>1. channel = <<>> /\ Len(channel) = 0
    BY DEF Init
  <2> QED
    BY <2>1 DEF Init, BarredWhileInFlight, InFlight, InChannel, WithWorkers
<1>2. IInv /\ BarredWhileInFlight /\ [Next]_vars => BarredWhileInFlight'
  <2> SUFFICES ASSUME IInv, BarredWhileInFlight, [Next]_vars PROVE BarredWhileInFlight'
    OBVIOUS
  <2>1. ASSUME UNCHANGED <<pending, channel, sending, spawned, task>> PROVE BarredWhileInFlight'
    BY <2>1 DEF BarredWhileInFlight, InFlight, InChannel, WithWorkers
  <2>2. ASSUME NEW r \in Requesters, RequesterStep(r) \/ \E a \in Accounts : Mark(r, a)
        PROVE  BarredWhileInFlight'
    BY <2>2, FlightMarked, FlightSent, FlightSendFails DEF RequesterStep
  <2>3. ASSUME NEW w \in Workers, WorkerStep(w) PROVE BarredWhileInFlight'
    BY <2>1, <2>3, FlightReceived, FlightCleared DEF WorkerStep, Return, Panic
  <2> QED
    BY <2>1, <2>2, <2>3 DEF Next, vars
<1> QED
  BY Initial, Inductive, <1>1, <1>2, PTL DEF Spec

-----------------------------------------------------------------------------
(***************************************************************************)
(* The polling loop.  Its batches are stretches of a ring: the proofs need *)
(* what a remainder is for numbers that wrap around once, and no more.     *)
(***************************************************************************)
\* A number below twice the divisor wraps around at most once.
LEMMA WrapOnce ==
  ASSUME NEW t \in Nat \ {0}, NEW x \in 0 .. 2 * t - 1
  PROVE  x % t = IF x < t THEN x ELSE x - t
BY SMT

LEMMA RestRange ==
  ASSUME NEW t \in Nat \ {0}, NEW x \in Nat
  PROVE  x % t \in 0 .. t - 1
BY SMT

LEMMA BatchSizeRange ==
  ASSUME NEW t \in Nat \ {0}
  PROVE  BatchSize(t) \in 1 .. t
BY PollAssumption DEF BatchSize

\* The place in the list of the i-th task of a batch.
Place(i, total, from) == (((from % total) + i - 1) % total) + 1

\* As i runs over a stretch no longer than the list, its places are places of the list, and
\* no two of them the same.
LEMMA PlacesDiffer ==
  ASSUME NEW t \in Nat \ {0}, NEW from \in Nat, NEW i \in 1 .. t, NEW j \in 1 .. t
  PROVE  /\ Place(i, t, from) \in 1 .. t
         /\ i # j => Place(i, t, from) # Place(j, t, from)
<1> DEFINE c == from % t
           x == c + i - 1
           y == c + j - 1
<1>1. c \in 0 .. t - 1
  BY RestRange
<1> HIDE DEF c
<1>2. x \in 0 .. 2 * t - 1 /\ y \in 0 .. 2 * t - 1
  BY <1>1
<1> HIDE DEF x, y
<1>3. /\ x % t = IF x < t THEN x ELSE x - t
      /\ y % t = IF y < t THEN y ELSE y - t
  BY <1>2, WrapOnce
<1>4. Place(i, t, from) = (x % t) + 1 /\ Place(j, t, from) = (y % t) + 1
  BY DEF Place, x, y, c
<1>5. /\ (x % t) + 1 \in 1 .. t
      /\ i # j => x % t # y % t
  BY <1>1, <1>2, <1>3 DEF x, y
<1> QED
  BY <1>1, <1>2, <1>3, <1>4, <1>5

\* What is left of a list in front of a place, in terms of the cursor's own place.
LEMMA AheadUnfolded ==
  ASSUME NEW t \in Nat \ {0}, NEW from \in Nat, NEW i \in 1 .. t
  PROVE  LET c == from % t
         IN  /\ c \in 0 .. t - 1
             /\ Ahead(i, t, from) = IF i - 1 < c THEN (i - 1) + t - c ELSE (i - 1) - c
<1> DEFINE c == from % t
           x == (i - 1) + t - c
<1>1. c \in 0 .. t - 1
  BY RestRange
<1> HIDE DEF c
<1>2. x \in 0 .. 2 * t - 1
  BY <1>1
<1> HIDE DEF x
<1>3. x % t = IF x < t THEN x ELSE x - t
  BY <1>2, WrapOnce
<1>4. Ahead(i, t, from) = x % t
  BY DEF Ahead, x, c
<1>5. x % t = IF i - 1 < c THEN (i - 1) + t - c ELSE (i - 1) - c
  BY <1>1, <1>3 DEF x
<1> QED
  BY <1>1, <1>4, <1>5 DEF c

\* Ahead and Place are inverse to each other.
LEMMA AheadIsPlace ==
  ASSUME NEW t \in Nat \ {0}, NEW from \in Nat, NEW i \in 1 .. t
  PROVE  /\ Ahead(i, t, from) \in 0 .. t - 1
         /\ Place(Ahead(i, t, from) + 1, t, from) = i
<1> DEFINE c == from % t
           a == Ahead(i, t, from)
           x == c + a
<1>1. /\ c \in 0 .. t - 1
      /\ a = IF i - 1 < c THEN (i - 1) + t - c ELSE (i - 1) - c
  BY AheadUnfolded
<1> HIDE DEF c, a
<1>2. a \in 0 .. t - 1 /\ x \in 0 .. 2 * t - 1
  BY <1>1
<1> HIDE DEF x
<1>3. x % t = IF x < t THEN x ELSE x - t
  BY <1>2, WrapOnce
<1>4. x % t = i - 1
  BY <1>1, <1>3 DEF x
<1>5. c + (a + 1) - 1 = x
  BY <1>1, <1>2 DEF x
<1>6. Place(a + 1, t, from) = (x % t) + 1
  BY <1>5 DEF Place, c
<1> QED
  BY <1>2, <1>4, <1>6 DEF a

\* Moving the cursor on brings what is beyond nearer by as many places.
LEMMA NextCursorNearer ==
  ASSUME NEW t \in Nat \ {0}, NEW from \in Nat, NEW i \in 1 .. t, NEW p \in 1 .. t,
         Ahead(i, t, from) >= p
  PROVE  /\ ((from % t) + p) % t \in Nat
         /\ Ahead(i, t, ((from % t) + p) % t) = Ahead(i, t, from) - p
<1> DEFINE c == from % t
           x == c + p
           d == x % t
<1>1. /\ c \in 0 .. t - 1
      /\ Ahead(i, t, from) = IF i - 1 < c THEN (i - 1) + t - c ELSE (i - 1) - c
  BY AheadUnfolded
<1> HIDE DEF c
<1>2. x \in 0 .. 2 * t - 1
  BY <1>1
<1> HIDE DEF x
<1>3. d = IF x < t THEN x ELSE x - t
  BY <1>2, WrapOnce
<1> HIDE DEF d
<1>4. d \in Nat /\ d \in 0 .. 2 * t - 1 /\ d < t
  BY <1>2, <1>3
<1>5. d % t = d
  BY <1>4, WrapOnce
<1>6. Ahead(i, t, d) = IF i - 1 < d THEN (i - 1) + t - d ELSE (i - 1) - d
  BY <1>4, <1>5, AheadUnfolded
<1>7. Ahead(i, t, d) = Ahead(i, t, from) - p
  BY <1>1, <1>3, <1>4, <1>6 DEF x
<1> QED
  BY <1>4, <1>7 DEF c, d, x

-----------------------------------------------------------------------------
\* Where the workers of a cycle are: only between cycles is there none, and one that found
\* the channel empty has seen the last of the batch.
ScopeOK ==
  /\ listing = <<>> => batch = <<>> /\ \A w \in 1 .. PollWorkers : worker[w] = "none"
  /\ listing # <<>> => worker[1] # "none"
  /\ \A w \in 1 .. PollWorkers :
       /\ polling[w] # NoTask => worker[w] = "open"
       /\ worker[w] = "done" => batch = <<>>

PollIInv == PollTypeOK /\ PolledOnce /\ ScopeOK

\* A list of tasks has each eligible account once.
LEMMA ListedOnce ==
  ASSUME eligible \subseteq Polled,
         NEW n \in 1 .. Len(Order), NEW tasks \in [1 .. n -> eligible], Lists(tasks, n)
  PROVE  /\ tasks \in Seq(Polled) /\ Len(tasks) = n /\ tasks # <<>>
         /\ \A i, j \in 1 .. n : i # j => tasks[i] # tasks[j]
<1>1. n \in Nat \ {0}
  BY PollAssumption
<1>2. tasks \in Seq(Polled) /\ Len(tasks) = n
  BY <1>1
<1>3. tasks # <<>>
  BY <1>1, <1>2
<1>4. ASSUME NEW i \in 1 .. n, NEW j \in 1 .. n, i < j PROVE tasks[i] # tasks[j]
  <2>1. PICK k, l \in 1 .. Len(Order) : k < l /\ Order[k] = tasks[i] /\ Order[l] = tasks[j]
    BY <1>4 DEF Lists
  <2>2. k # l
    BY <1>1, <2>1, PollAssumption
  <2> QED
    BY <2>1, <2>2, PollAssumption
<1>5. ASSUME NEW i \in 1 .. n, NEW j \in 1 .. n, i # j PROVE tasks[i] # tasks[j]
  <2>1. i < j \/ j < i
    BY <1>1, <1>5
  <2> QED
    BY <1>4, <2>1
<1> QED
  BY <1>2, <1>3, <1>5

\* A batch is a stretch of the list, of different places.
LEMMA BatchIsStretch ==
  ASSUME NEW tasks \in Seq(Polled), Len(tasks) # 0, cursor \in Nat
  PROVE  LET n == Len(tasks)
         IN  /\ Batch(tasks) \in Seq(Polled)
             /\ Len(Batch(tasks)) = BatchSize(n)
             /\ \A i \in 1 .. BatchSize(n) :
                  /\ Place(i, n, cursor) \in 1 .. n
                  /\ Batch(tasks)[i] = tasks[Place(i, n, cursor)]
<1> DEFINE n == Len(tasks)
           size == BatchSize(n)
           at(i) == tasks[Place(i, n, cursor)]
<1>1. n \in Nat \ {0} /\ size \in 1 .. n
  BY BatchSizeRange
<1>2. Batch(tasks) = [i \in 1 .. size |-> at(i)]
  BY DEF Batch, Place
<1> HIDE DEF n, size
<1>3. ASSUME NEW i \in 1 .. size PROVE Place(i, n, cursor) \in 1 .. n
  <2>1. i \in 1 .. n
    BY <1>1
  <2> QED
    BY <1>1, <2>1, PlacesDiffer
<1>4. \A i \in 1 .. size : at(i) \in Polled
  BY <1>3 DEF n
<1> HIDE DEF at
<1>5. /\ [i \in 1 .. size |-> at(i)] \in Seq(Polled)
      /\ Len([i \in 1 .. size |-> at(i)]) = size
  BY <1>1, <1>4
<1> QED
  BY <1>1, <1>2, <1>3, <1>5 DEF at, size, n

\* A cycle starts with a batch of different accounts, and with its first worker.
LEMMA CycleStarts ==
  ASSUME PollTypeOK, StartCycle
  PROVE  /\ listing' \in Seq(Polled) /\ listing' # <<>>
         /\ batch' = Batch(listing')
         /\ batch' \in Seq(Polled)
         /\ Len(batch') = BatchSize(Len(listing'))
         /\ Len(batch') \in 1 .. Len(listing')
         /\ \A i, j \in 1 .. Len(listing') : i # j => listing'[i] # listing'[j]
         /\ \A i, j \in 1 .. Len(batch') : i # j => batch'[i] # batch'[j]
         /\ worker' \in [1 .. PollWorkers -> {"none", "open", "failed"}]
         /\ worker'[1] # "none"
<1>1. PICK n \in 1 .. Len(Order) : \E tasks \in [1 .. n -> eligible] :
        Lists(tasks, n) /\ listing' = tasks /\ batch' = Batch(tasks)
  BY DEF StartCycle
<1>2. PICK tasks \in [1 .. n -> eligible] :
        Lists(tasks, n) /\ listing' = tasks /\ batch' = Batch(tasks)
  BY <1>1
<1>3. /\ tasks \in Seq(Polled) /\ Len(tasks) = n /\ tasks # <<>>
      /\ \A i, j \in 1 .. n : i # j => tasks[i] # tasks[j]
  BY <1>2, ListedOnce DEF PollTypeOK
<1>4. n \in Nat \ {0} /\ BatchSize(n) \in 1 .. n /\ cursor \in Nat
  BY PollAssumption, BatchSizeRange DEF PollTypeOK
<1>5. /\ Batch(tasks) \in Seq(Polled)
      /\ Len(Batch(tasks)) = BatchSize(n)
      /\ \A i \in 1 .. BatchSize(n) :
           /\ Place(i, n, cursor) \in 1 .. n
           /\ Batch(tasks)[i] = tasks[Place(i, n, cursor)]
  BY <1>3, <1>4, BatchIsStretch
<1>6. ASSUME NEW i \in 1 .. BatchSize(n), NEW j \in 1 .. BatchSize(n), i # j
      PROVE  Batch(tasks)[i] # Batch(tasks)[j]
  <2>1. i \in 1 .. n /\ j \in 1 .. n
    BY <1>4
  <2>2. Place(i, n, cursor) # Place(j, n, cursor)
    BY <1>4, <1>6, <2>1, PlacesDiffer
  <2> QED
    BY <1>3, <1>5, <2>2
<1>7. /\ worker' \in [1 .. PollWorkers -> {"none", "open", "failed"}]
      /\ \A w \in 1 .. PollWorkers : worker'[w] = "none" <=> w > Len(batch')
  BY DEF StartCycle
<1>8. worker'[1] # "none"
  BY <1>2, <1>4, <1>5, <1>7, PollAssumption
<1> QED
  BY <1>2, <1>3, <1>4, <1>5, <1>6, <1>7, <1>8

LEMMA PollInitial == PollInit => PollIInv
BY PollAssumption DEF PollInit, PollIInv, PollTypeOK, PolledOnce, ScopeOK

LEMMA PollInductive == PollIInv /\ [PollNext]_pollVars => PollIInv'
<1> SUFFICES ASSUME PollIInv, [PollNext]_pollVars PROVE PollIInv'
  OBVIOUS
<1> USE PollAssumption DEF PollIInv, PollTypeOK, PolledOnce, ScopeOK
<1>1. CASE StartCycle
  <2>1. \A w \in 1 .. PollWorkers : polling'[w] = NoTask
    BY <1>1 DEF StartCycle
  <2> QED
    BY <1>1, <2>1, CycleStarts DEF StartCycle
<1>2. CASE EndCycle
  <2>1. cursor' \in Nat
    <3> DEFINE t == Len(listing)
               x == (cursor % t) + Processed
    <3>1. t \in Nat \ {0}
      BY <1>2 DEF EndCycle
    <3> HIDE DEF t
    <3>2. cursor % t \in Nat
      BY <3>1, RestRange
    <3>3. Processed \in Nat
      BY <3>1, BatchSizeRange DEF Processed, t
    <3>4. x \in Nat
      BY <3>2, <3>3
    <3> HIDE DEF x
    <3>5. x % t \in Nat
      BY <3>1, <3>4, RestRange
    <3> QED
      BY <1>2, <3>5 DEF EndCycle, NextCursor, x, t
  <2>2. \A w \in 1 .. PollWorkers : polling'[w] = NoTask
    BY <1>2 DEF EndCycle
  <2> QED
    BY <1>2, <2>1, <2>2 DEF EndCycle
<1>3. ASSUME NEW w \in 1 .. PollWorkers, TakeTask(w) PROVE PollIInv'
  <2>1. /\ Head(batch) = batch[1] /\ Head(batch) \in Polled
        /\ Tail(batch) \in Seq(Polled)
        /\ Len(batch) \in Nat \ {0} /\ Len(Tail(batch)) = Len(batch) - 1
        /\ \A i \in 1 .. Len(Tail(batch)) : Tail(batch)[i] = batch[i + 1]
    BY <1>3 DEF TakeTask
  <2>2. PollTypeOK'
    BY <1>3, <2>1 DEF TakeTask
  <2>3. PolledOnce'
    BY <1>3, <2>1 DEF TakeTask
  <2>4. ScopeOK'
    BY <1>3, <2>1 DEF TakeTask
  <2> QED
    BY <2>2, <2>3, <2>4
<1>4. ASSUME NEW w \in 1 .. PollWorkers, FinishTask(w) PROVE PollIInv'
  BY <1>4 DEF FinishTask
<1>5. ASSUME NEW w \in 1 .. PollWorkers, TaskPanics(w) PROVE PollIInv'
  <2>1. PollTypeOK' /\ PolledOnce'
    BY <1>5 DEF TaskPanics
  <2>2. ScopeOK'
    BY <1>5 DEF TaskPanics
  <2> QED
    BY <2>1, <2>2
<1>6. ASSUME NEW w \in 1 .. PollWorkers, ChannelEmpty(w) PROVE PollIInv'
  <2>1. PollTypeOK' /\ PolledOnce'
    BY <1>6 DEF ChannelEmpty
  <2>2. ScopeOK'
    BY <1>6 DEF ChannelEmpty
  <2> QED
    BY <2>1, <2>2
<1>7. ASSUME NEW a \in Polled, Edit(a) PROVE PollIInv'
  BY <1>7 DEF Edit
<1>8. CASE UNCHANGED pollVars
  BY <1>8 DEF pollVars
<1> QED
  BY <1>1, <1>2, <1>3, <1>4, <1>5, <1>6, <1>7, <1>8 DEF PollNext, PollStep

\* The workers of a cycle share its batch out: no account is polled by two of them at once,
\* nor waits in the batch a second time.
THEOREM CyclePollsOnce == PollSpec => [](PollTypeOK /\ PolledOnce)
<1>1. PollIInv => PollTypeOK /\ PolledOnce
  BY DEF PollIInv
<1> QED
  BY <1>1, PollInitial, PollInductive, PTL DEF PollSpec

\* A cycle that ends well has polled its whole batch.
LEMMA BatchIsDone ==
  ASSUME PollIInv, EndCycle, NoneFailed
  PROVE  batch = <<>> /\ \A w \in 1 .. PollWorkers : polling[w] = NoTask
<1> USE PollAssumption DEF PollIInv, PollTypeOK, ScopeOK
<1>1. worker[1] = "done"
  BY DEF EndCycle, NoneFailed
<1>2. batch = <<>>
  BY <1>1
<1> QED
  BY <1>2 DEF EndCycle

\* The safety half of EveryoneIsPolled.
THEOREM BatchesTakeTurns == PollSpec => TakesTurns
<1>1. ASSUME PollIInv, StartCycle PROVE BatchIsNearest
  <2> SUFFICES ASSUME NEW i \in 1 .. Len(listing')
               PROVE  LET total == Len(listing')
                      IN  /\ Ahead(i, total, cursor) < BatchSize(total)
                               => batch'[Ahead(i, total, cursor) + 1] = listing'[i]
                          /\ Ahead(i, total, cursor) >= BatchSize(total)
                               => \A j \in 1 .. Len(batch') : batch'[j] # listing'[i]
    BY DEF BatchIsNearest
  <2> DEFINE total == Len(listing')
             far == Ahead(i, total, cursor)
  <2>1. /\ total \in Nat \ {0} /\ cursor \in Nat
        /\ batch' = Batch(listing') /\ listing' \in Seq(Polled)
        /\ Len(batch') = BatchSize(total) /\ BatchSize(total) \in 1 .. total
        /\ \A k, l \in 1 .. total : k # l => listing'[k] # listing'[l]
    BY <1>1, CycleStarts DEF PollIInv, PollTypeOK
  <2>2. \A j \in 1 .. BatchSize(total) :
          /\ Place(j, total, cursor) \in 1 .. total
          /\ batch'[j] = listing'[Place(j, total, cursor)]
    BY <2>1, BatchIsStretch
  <2>3. far \in 0 .. total - 1 /\ Place(far + 1, total, cursor) = i
    BY <2>1, AheadIsPlace
  <2> HIDE DEF far
  <2>4. far < BatchSize(total) => batch'[far + 1] = listing'[i]
    BY <2>1, <2>2, <2>3
  <2>5. ASSUME far >= BatchSize(total), NEW j \in 1 .. Len(batch')
        PROVE  batch'[j] # listing'[i]
    <3>1. j \in 1 .. total /\ far + 1 \in 1 .. total /\ j # far + 1
      BY <2>1, <2>3, <2>5
    <3>2. Place(j, total, cursor) # i
      BY <2>1, <2>3, <3>1, PlacesDiffer
    <3> QED
      BY <2>1, <2>2, <3>2
  <2> QED
    BY <2>4, <2>5 DEF far
<1>2. ASSUME PollIInv, EndCycle, NoneFailed PROVE RestIsNearer
  <2>1. Len(listing) \in Nat \ {0} /\ cursor \in Nat
    BY <1>2 DEF EndCycle, PollIInv, PollTypeOK
  <2>2. Processed \in 1 .. Len(listing)
    BY <2>1, BatchSizeRange DEF Processed
  <2>3. cursor' = ((cursor % Len(listing)) + Processed) % Len(listing)
    BY <1>2 DEF EndCycle, NextCursor, NoneFailed
  <2>4. ASSUME NEW i \in 1 .. Len(listing), Ahead(i, Len(listing), cursor) >= Processed
        PROVE  Ahead(i, Len(listing), cursor') = Ahead(i, Len(listing), cursor) - Processed
    BY <2>1, <2>2, <2>3, <2>4, NextCursorNearer
  <2> QED
    BY <1>2, <2>4, BatchIsDone DEF RestIsNearer
<1>3. ASSUME [PollNext]_pollVars, listing' # listing PROVE StartCycle \/ EndCycle
  BY <1>3 DEF PollNext, PollStep, TakeTask, FinishTask, TaskPanics, ChannelEmpty, Edit,
              pollVars
<1>4. (StartCycle => listing = <<>>) /\ (EndCycle => listing # <<>>)
  BY DEF StartCycle, EndCycle
<1>5. PollIInv /\ [PollNext]_pollVars =>
        [/\ listing = <<>> /\ listing' # <<>> => BatchIsNearest
         /\ listing # <<>> /\ listing' = <<>> /\ NoneFailed => RestIsNearer]_pollVars
  BY <1>1, <1>2, <1>3, <1>4
<1> QED
  BY <1>5, PollInitial, PollInductive, PTL DEF PollSpec, TakesTurns
=============================================================================
