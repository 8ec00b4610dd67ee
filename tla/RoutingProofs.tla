--------------------------- MODULE RoutingProofs ---------------------------
(***************************************************************************)
(* What Routing promises, for any number of requests, keys and accounts,   *)
(* any cooldowns and any ladder.  GateExclusive is not inductive: that a   *)
(* request finds the gate in use taken follows from where its lock is.     *)
(* Whatever a request has a reference to is the lock the table has for its *)
(* key, unless a reload took it out (InTable), so the clean-up leaves it   *)
(* and the next request of the key meets it there.                         *)
(***************************************************************************)
EXTENDS Routing, FiniteSetTheorems, TLAPS

References ==
  \A r \in Requests :
    /\ pc[r] = "idle" => lock[r] = None
    /\ pc[r] \in {"found", "ready", "waiting", "late"} => lock[r] \in Locks
    /\ pc[r] # "running" => ~holds[r]
    /\ pc[r] = "running" => (holds[r] <=> lock[r] # None)

Alone ==
  /\ \A l \in Locks : l \in held <=> \E r \in Requests : holds[r] /\ lock[r] = l
  /\ \A q, r \in Requests : q # r /\ holds[q] /\ holds[r] => lock[q] # lock[r]

InTable ==
  /\ \A r \in Requests : lock[r] # None => /\ key[r] \in Keys
                                           /\ lock[r] \in orphans \/ table[key[r]] = lock[r]
  /\ \A k \in Keys : table[k] \notin orphans

GateInv == References /\ Alone /\ InTable

IInv == TypeOK /\ GateInv /\ OffensesDated

\* There is memory for one more lock whenever a request looks one up.
LEMMA MemoryLeft ==
  ASSUME NEW entries \in [Keys -> Locks \cup {None}],
         lock \in [Requests -> Locks \cup {None}],
         NEW r \in Requests, lock[r] = None
  PROVE  /\ NewLock(entries) \in Locks
         /\ ~Referenced(NewLock(entries))
         /\ \A k \in Keys : entries[k] # NewLock(entries)
<1> DEFINE Ls == {lock[q] : q \in Requests}
           Es == {entries[k] : k \in Keys}
<1>1. IsFiniteSet(Ls) /\ Cardinality(Ls) <= Cardinality(Requests)
  <2>1. lock \in Surjection(Requests, Ls)
    BY DEF Surjection
  <2> QED
    BY <2>1, FS_Surjection, RoutingAssumption
<1>2. IsFiniteSet(Es) /\ Cardinality(Es) <= Cardinality(Keys)
  <2>1. entries \in Surjection(Keys, Es)
    BY DEF Surjection
  <2> QED
    BY <2>1, FS_Surjection, RoutingAssumption
<1> HIDE DEF Ls, Es
<1> DEFINE Used == Ls \cup Es
<1>3. /\ IsFiniteSet(Used)
      /\ Cardinality(Used) <= Cardinality(Requests) + Cardinality(Keys)
  <2>1. IsFiniteSet(Ls \cap Es)
    BY <1>1, FS_Subset, Ls \cap Es \in SUBSET Ls
  <2>2. /\ Cardinality(Ls) \in Nat /\ Cardinality(Es) \in Nat /\ Cardinality(Ls \cap Es) \in Nat
        /\ Cardinality(Requests) \in Nat /\ Cardinality(Keys) \in Nat
    BY <1>1, <1>2, <2>1, FS_CardinalityType, RoutingAssumption
  <2>3. IsFiniteSet(Used) /\ Cardinality(Used) = Cardinality(Ls) + Cardinality(Es) - Cardinality(Ls \cap Es)
    BY <1>1, <1>2, FS_Union
  <2> QED
    BY <1>1, <1>2, <2>2, <2>3
<1>4. \E l \in Locks : l \notin Used
  <2> SUFFICES ASSUME Locks \subseteq Used PROVE FALSE
    OBVIOUS
  <2>1. None \in Used /\ Locks \in SUBSET (Used \ {None})
    BY RoutingAssumption DEF Ls
  <2>2. IsFiniteSet(Used \ {None}) /\ Cardinality(Used \ {None}) = Cardinality(Used) - 1
    BY <1>3, <2>1, FS_RemoveElement
  <2>3. Cardinality(Locks) <= Cardinality(Used \ {None})
    BY <2>1, <2>2, FS_Subset
  <2>4. /\ Cardinality(Used) \in Nat /\ Cardinality(Locks) \in Nat
        /\ Cardinality(Requests) \in Nat /\ Cardinality(Keys) \in Nat
    BY <1>3, FS_CardinalityType, RoutingAssumption
  <2> QED
    BY <1>3, <2>2, <2>3, <2>4, RoutingAssumption
<1>5. \E l \in Locks : ~Referenced(l) /\ \A k \in Keys : entries[k] # l
  BY <1>4 DEF Ls, Es, Referenced
<1> QED
  BY <1>5 DEF NewLock

LEMMA Initial == Init => IInv
<1> SUFFICES ASSUME Init PROVE IInv
  OBVIOUS
<1> USE RoutingAssumption
<1>1. TypeOK
  BY DEF Init, TypeOK
<1>2. GateInv
  BY DEF Init, GateInv, References, Alone, InTable
<1>3. OffensesDated
  BY DEF Init, OffensesDated
<1> QED
  BY <1>1, <1>2, <1>3 DEF IInv

\* What a request that looks up its lock finds in the table
LEMMA LookedUp ==
  ASSUME IInv, NEW r \in Requests, NEW k \in Keys, Lookup(r, k)
  PROVE  \E entries \in [Keys -> Locks \cup {None}], l \in Locks :
           /\ \A j \in Keys : entries[j] = table[j] \/ (entries[j] = None /\ ~Referenced(table[j]))
           /\ IF entries[k] = None THEN ~Referenced(l) ELSE l = entries[k]
           /\ table' = [entries EXCEPT ![k] = l]
           /\ lock' = [lock EXCEPT ![r] = l]
           /\ orphans' = orphans \ {l}
<1> USE RoutingAssumption DEF IInv, GateInv
<1>1. PICK entries \in {table, Swept} :
        LET l == IF entries[k] # None THEN entries[k] ELSE NewLock(entries)
        IN /\ table' = [entries EXCEPT ![k] = l]
           /\ lock' = [lock EXCEPT ![r] = l]
           /\ orphans' = orphans \ {l}
  BY DEF Lookup
<1> DEFINE l == IF entries[k] # None THEN entries[k] ELSE NewLock(entries)
<1>2. /\ entries \in [Keys -> Locks \cup {None}]
      /\ \A j \in Keys : entries[j] = table[j] \/ (entries[j] = None /\ ~Referenced(table[j]))
  BY <1>1 DEF Swept, TypeOK
<1>3. NewLock(entries) \in Locks /\ ~Referenced(NewLock(entries))
  BY <1>2, MemoryLeft DEF Lookup, References, TypeOK
<1>4. l \in Locks /\ IF entries[k] = None THEN ~Referenced(l) ELSE l = entries[k]
  BY <1>2, <1>3
<1> QED
  BY <1>1, <1>2, <1>4

LEMMA LookupKeeps ==
  ASSUME IInv, NEW r \in Requests, NEW k \in Keys, Lookup(r, k)
  PROVE  IInv'
<1> USE RoutingAssumption
<1>1. PICK entries \in [Keys -> Locks \cup {None}], l \in Locks :
        /\ \A j \in Keys : entries[j] = table[j] \/ (entries[j] = None /\ ~Referenced(table[j]))
        /\ IF entries[k] = None THEN ~Referenced(l) ELSE l = entries[k]
        /\ table' = [entries EXCEPT ![k] = l]
        /\ lock' = [lock EXCEPT ![r] = l]
        /\ orphans' = orphans \ {l}
  BY LookedUp
<1>2. /\ pc[r] = "idle" /\ pc' = [pc EXCEPT ![r] = "found"]
      /\ key' = [key EXCEPT ![r] = k]
      /\ stale' \subseteq stale
      /\ UNCHANGED <<holds, held, cooldowns>>
  BY DEF Lookup
<1>3. TypeOK'
  BY <1>1, <1>2 DEF IInv, TypeOK, cooldowns
<1>4. References'
  BY <1>1, <1>2 DEF IInv, GateInv, TypeOK, References
<1>5. Alone'
  BY <1>1, <1>2 DEF IInv, GateInv, TypeOK, References, Alone
<1>6. InTable'
  <2>1. ASSUME NEW q \in Requests, lock'[q] # None
        PROVE  key'[q] \in Keys /\ (lock'[q] \in orphans' \/ table'[key'[q]] = lock'[q])
    <3>1. CASE q = r
      BY <1>1, <1>2, <3>1 DEF IInv, TypeOK
    <3>2. CASE q # r
      <4>1. lock'[q] = lock[q] /\ key'[q] = key[q] /\ key[q] \in Keys
        BY <1>1, <1>2, <2>1, <3>2 DEF IInv, GateInv, TypeOK, InTable
      <4>2. Referenced(lock[q])
        BY DEF Referenced
      <4>3. CASE lock[q] \in orphans
        BY <1>1, <4>1, <4>2, <4>3 DEF IInv, GateInv, TypeOK, InTable
      <4>4. CASE table[key[q]] = lock[q]
        BY <1>1, <2>1, <4>1, <4>2, <4>4 DEF IInv, GateInv, TypeOK
      <4> QED
        BY <2>1, <4>1, <4>3, <4>4 DEF IInv, GateInv, InTable
    <3> QED
      BY <3>1, <3>2
  <2>2. ASSUME NEW j \in Keys PROVE table'[j] \notin orphans'
    BY <1>1 DEF IInv, GateInv, TypeOK, InTable
  <2> QED
    BY <2>1, <2>2 DEF InTable
<1>7. OffensesDated'
  BY <1>2 DEF IInv, OffensesDated, cooldowns
<1> QED
  BY <1>3, <1>4, <1>5, <1>6, <1>7 DEF IInv, GateInv

\* A step that touches the gates alone and leaves the table as it is
LEMMA TakeOrPassKeeps ==
  ASSUME IInv, NEW r \in Requests,
         pc[r] \in {"found", "ready", "late"},
         \/ lock[r] \notin held /\ Take(r)
         \/ lock[r] \in held /\ Pass(r)
         \/ lock[r] \in held /\ pc' = [pc EXCEPT ![r] = "ready"] /\ UNCHANGED <<lock, held, holds>>
         \/ lock[r] \in held /\ pc' = [pc EXCEPT ![r] = "waiting"] /\ UNCHANGED <<lock, held, holds>>,
         Gated
  PROVE  IInv'
<1> USE RoutingAssumption
<1>1. TypeOK'
  BY DEF IInv, GateInv, References, TypeOK, Gated, Take, Pass, cooldowns
<1>2. References'
  BY DEF IInv, GateInv, References, TypeOK, Gated, Take, Pass
<1>3. Alone'
  <2> USE DEF IInv, GateInv, References, Alone, TypeOK
  <2>1. CASE lock[r] \notin held /\ Take(r)
    BY <2>1 DEF Take
  <2>2. CASE lock[r] \in held /\ Pass(r)
    BY <2>2 DEF Pass
  <2>3. CASE UNCHANGED <<lock, held, holds>>
    BY <2>3
  <2> QED
    BY <2>1, <2>2, <2>3
<1>4. InTable'
  BY DEF IInv, GateInv, InTable, TypeOK, Gated, Take, Pass
<1>5. OffensesDated'
  BY DEF IInv, OffensesDated, Gated, cooldowns
<1> QED
  BY <1>1, <1>2, <1>3, <1>4, <1>5 DEF IInv, GateInv

LEMMA ReleaseKeeps ==
  ASSUME IInv, NEW r \in Requests, Release(r)
  PROVE  IInv'
<1> USE RoutingAssumption
<1> DEFINE Woken ==
      /\ pc[r] = "running" /\ pc'[r] = "idle"
      /\ pc' \in [Requests -> {"idle", "found", "ready", "waiting", "late", "running"}]
      /\ \A q \in Requests : q # r => \/ pc'[q] = pc[q]
                                      \/ pc[q] = "waiting" /\ pc'[q] = "ready"
<1>1. Woken
  <2>1. CASE pc' = [pc EXCEPT ![r] = "idle"]
    BY <2>1 DEF Release, IInv, TypeOK
  <2>2. ASSUME NEW w \in Waiting(lock[r]), pc' = [pc EXCEPT ![r] = "idle", ![w] = "ready"]
        PROVE  Woken
    BY <2>2 DEF Release, Waiting, IInv, TypeOK
  <2> QED
    BY <2>1, <2>2 DEF Release, Notified
<1>2. /\ held' = IF holds[r] THEN held \ {lock[r]} ELSE held
      /\ holds' = [holds EXCEPT ![r] = FALSE]
      /\ lock' = [lock EXCEPT ![r] = None]
      /\ key' = [key EXCEPT ![r] = None]
      /\ UNCHANGED <<table, stale, orphans, cooldowns>>
  BY DEF Release
<1>3. TypeOK'
  BY <1>1, <1>2 DEF IInv, TypeOK, cooldowns
<1>4. References'
  BY <1>1, <1>2 DEF IInv, GateInv, References, TypeOK
<1>5. Alone'
  BY <1>1, <1>2 DEF IInv, GateInv, References, Alone, TypeOK
<1>6. InTable'
  BY <1>2 DEF IInv, GateInv, InTable, TypeOK
<1>7. OffensesDated'
  BY <1>2 DEF IInv, OffensesDated, cooldowns
<1> QED
  BY <1>3, <1>4, <1>5, <1>6, <1>7 DEF IInv, GateInv

LEMMA ReloadKeeps == ASSUME IInv, Reload PROVE IInv'
<1> USE RoutingAssumption
<1>1. TypeOK'
  BY DEF Reload, IInv, TypeOK
<1>2. References' /\ Alone'
  BY DEF Reload, IInv, GateInv, References, Alone
<1>3. InTable'
  BY DEF Reload, IInv, GateInv, InTable, TypeOK, Referenced
<1>4. OffensesDated'
  BY DEF Reload, OffensesDated
<1> QED
  BY <1>1, <1>2, <1>3, <1>4 DEF IInv, GateInv

-----------------------------------------------------------------------------
\* The cooldown of every rung is a number of seconds.
LEMMA RungType == ASSUME NEW n \in Nat \ {0} PROVE Rung(n) \in Nat
BY RoutingAssumption DEF Rung

\* What a mark leaves: longer cooldowns, and offenses with their dates
LEMMA MarkKeeps ==
  ASSUME IInv, NEW a \in Accounts,
         RateLimited(a) \/ \E reason \in Reasons : Mark(a, reason)
  PROVE  IInv' /\ \A b \in Accounts : left'[b] >= left[b]
<1> USE RoutingAssumption
<1>1. PICK secs \in Nat : Cooled(a, secs)
  <2>1. ASSUME NEW reason \in Reasons, Mark(a, reason)
        PROVE  \E secs \in Nat : Cooled(a, secs)
    BY <2>1 DEF Mark
  <2>2. CASE RateLimited(a)
    <3> DEFINE gone == IF CleansUp THEN Forgotten ELSE Forgotten \cap {a}
               count == IF a \in gone THEN 1 ELSE offenses[a] + 1
    <3>1. count \in Nat \ {0}
      BY DEF IInv, TypeOK
    <3>2. Cooled(a, Rung(count))
      BY <2>2 DEF RateLimited
    <3> QED
      BY <3>1, <3>2, RungType
  <2> QED
    BY <2>1, <2>2
<1>2. left' \in [Accounts -> Nat] /\ \A b \in Accounts : left'[b] >= left[b]
  BY <1>1 DEF Cooled, Larger, IInv, TypeOK
<1>3. UNCHANGED gates /\ swept' \in {None} \cup 0..CleanupEvery
  BY DEF Mark, RateLimited, IInv, TypeOK
<1> DEFINE Recount ==
      /\ offenses' \in [Accounts -> 0..MaxOffenses]
      /\ since' \in [Accounts -> {None} \cup 0..(ForgetAfter + 1)]
      /\ OffensesDated'
<1>4. Recount
  <2>1. CASE RateLimited(a)
    BY <2>1 DEF RateLimited, IInv, TypeOK, OffensesDated
  <2>2. ASSUME NEW reason \in Reasons, Mark(a, reason)
        PROVE  Recount
    BY <2>2 DEF Mark, IInv, TypeOK, OffensesDated
  <2> QED
    BY <2>1, <2>2
<1>5. TypeOK'
  BY <1>2, <1>3, <1>4 DEF IInv, TypeOK, gates
<1>6. GateInv'
  BY <1>3 DEF IInv, GateInv, References, Alone, InTable, gates
<1> QED
  BY <1>2, <1>4, <1>5, <1>6 DEF IInv

LEMMA SucceedKeeps == ASSUME IInv, NEW a \in Accounts, Succeed(a) PROVE IInv'
<1> USE RoutingAssumption
<1>1. TypeOK'
  BY DEF Succeed, IInv, TypeOK, gates
<1>2. GateInv'
  BY DEF Succeed, IInv, GateInv, References, Alone, InTable, gates
<1>3. OffensesDated'
  BY DEF Succeed, IInv, TypeOK, OffensesDated
<1> QED
  BY <1>1, <1>2, <1>3 DEF IInv

LEMMA TickKeeps == ASSUME IInv, Tick PROVE IInv'
<1> USE RoutingAssumption
<1>1. TypeOK'
  BY DEF Tick, IInv, TypeOK, gates
<1>2. GateInv'
  BY DEF Tick, IInv, GateInv, References, Alone, InTable, gates
<1>3. OffensesDated'
  BY DEF Tick, IInv, TypeOK, OffensesDated
<1> QED
  BY <1>1, <1>2, <1>3 DEF IInv

LEMMA Inductive == IInv /\ [Next]_vars => IInv'
<1> SUFFICES ASSUME IInv, [Next]_vars PROVE IInv'
  OBVIOUS
<1>1. ASSUME NEW r \in Requests, NEW k \in Keys, Lookup(r, k) PROVE IInv'
  BY <1>1, LookupKeeps
<1>2. ASSUME NEW r \in Requests, TryAcquire(r) \/ Look(r) PROVE IInv'
  BY <1>2, TakeOrPassKeeps DEF TryAcquire, Look
<1>3. ASSUME NEW r \in Requests, TimeOut(r) PROVE IInv'
  <2>1. TypeOK'
    BY <1>3 DEF TimeOut, Gated, IInv, TypeOK, cooldowns
  <2>2. GateInv'
    BY <1>3 DEF TimeOut, Gated, IInv, TypeOK, GateInv, References, Alone, InTable
  <2>3. OffensesDated'
    BY <1>3 DEF TimeOut, Gated, IInv, OffensesDated, cooldowns
  <2> QED
    BY <2>1, <2>2, <2>3 DEF IInv
<1>4. ASSUME NEW r \in Requests, Release(r) PROVE IInv'
  BY <1>4, ReleaseKeeps
<1>5. ASSUME NEW k \in Keys, Age(k) PROVE IInv'
  <2>1. TypeOK'
    BY <1>5 DEF Age, IInv, TypeOK, cooldowns
  <2>2. GateInv' /\ OffensesDated'
    BY <1>5 DEF Age, IInv, GateInv, References, Alone, InTable, OffensesDated, cooldowns
  <2> QED
    BY <2>1, <2>2 DEF IInv
<1>6. ASSUME NEW a \in Accounts, RateLimited(a) \/ \E reason \in Reasons : Mark(a, reason) PROVE IInv'
  BY <1>6, MarkKeeps
<1>7. ASSUME NEW a \in Accounts, Succeed(a) PROVE IInv'
  BY <1>7, SucceedKeeps
<1>8. CASE Tick
  BY <1>8, TickKeeps
<1>9. CASE Reload
  BY <1>9, ReloadKeeps
<1>10. CASE UNCHANGED vars
  <2>1. TypeOK'
    BY <1>10 DEF vars, gates, cooldowns, IInv, TypeOK
  <2>2. GateInv' /\ OffensesDated'
    BY <1>10 DEF vars, gates, cooldowns, IInv, GateInv, References, Alone, InTable, OffensesDated
  <2> QED
    BY <2>1, <2>2 DEF IInv
<1> QED
  BY <1>1, <1>2, <1>3, <1>4, <1>5, <1>6, <1>7, <1>8, <1>9, <1>10 DEF Next

-----------------------------------------------------------------------------
\* Every variable of the gates and the cooldowns keeps its type.
THEOREM TypeCorrect == Spec => []TypeOK
<1>1. IInv => TypeOK
  BY DEF IInv
<1> QED
  BY Initial, Inductive, <1>1, PTL DEF Spec

\* Only a reload lets two requests of one key hold gates at the same time, for any
\* number of requests and keys.
THEOREM GatesExclude == Spec => []GateExclusive
<1>1. IInv => GateExclusive
  <2> SUFFICES ASSUME IInv PROVE GateExclusive
    OBVIOUS
  <2>1. ASSUME NEW q \in Requests, NEW r \in Requests, q # r, holds[q], holds[r], key[q] = key[r]
        PROVE  lock[q] # lock[r] /\ {lock[q], lock[r]} \cap orphans # {}
    <3>1. lock[q] # None /\ lock[r] # None
      BY <2>1 DEF IInv, GateInv, References
    <3>2. lock[q] # lock[r]
      BY <2>1 DEF IInv, GateInv, Alone
    <3>3. lock[q] \in orphans \/ lock[r] \in orphans
      BY <2>1, <3>1, <3>2 DEF IInv, GateInv, InTable
    <3> QED
      BY <3>2, <3>3
  <2> QED
    BY <2>1 DEF GateExclusive, IInv, GateInv, Alone
<1> QED
  BY Initial, Inductive, <1>1, PTL DEF Spec

\* The count of an account's 429s and the date of the last go together, whatever the ladder.
THEOREM Dated == Spec => []OffensesDated
<1>1. IInv => OffensesDated
  BY DEF IInv
<1> QED
  BY Initial, Inductive, <1>1, PTL DEF Spec

\* No mark shortens a cooldown, whatever the reasons, their seconds and the ladder.
THEOREM MarksLengthen == Spec => CooldownNeverShortened
<1> DEFINE A == \A a \in Accounts : left'[a] < left[a] => Tick \/ Succeed(a) \/ Reload
<1>1. IInv /\ [Next]_vars => [A]_vars
  <2> SUFFICES ASSUME IInv, Next PROVE A
    OBVIOUS
  <2> USE DEF IInv, TypeOK
  <2>1. CASE Tick \/ Reload
    BY <2>1
  <2>2. ASSUME NEW a \in Accounts, Succeed(a) PROVE A
    <3>1. \A b \in Accounts : b # a => left'[b] = left[b]
      BY <2>2 DEF Succeed
    <3>2. \A b \in Accounts : left[b] \in Nat
      OBVIOUS
    <3> QED
      BY <2>2, <3>1, <3>2
  <2>3. ASSUME NEW a \in Accounts, RateLimited(a) \/ \E reason \in Reasons : Mark(a, reason) PROVE A
    <3>1. left' \in [Accounts -> Nat] /\ \A b \in Accounts : left'[b] >= left[b]
      BY <2>3, MarkKeeps
    <3> QED
      BY <3>1
  <2>4. ASSUME UNCHANGED cooldowns PROVE A
    BY <2>4 DEF cooldowns
  <2>5. ASSUME NEW r \in Requests,
               (\E k \in Keys : Lookup(r, k)) \/ TryAcquire(r) \/ Look(r) \/ TimeOut(r) \/ Release(r)
        PROVE  UNCHANGED cooldowns
    BY <2>5 DEF Lookup, TryAcquire, Look, TimeOut, Release, Gated
  <2>6. ASSUME NEW k \in Keys, Age(k) PROVE UNCHANGED cooldowns
    BY <2>6 DEF Age
  <2> QED
    BY <2>1, <2>2, <2>3, <2>4, <2>5, <2>6 DEF Next
<1> QED
  BY Initial, Inductive, <1>1, PTL DEF Spec, CooldownNeverShortened

-----------------------------------------------------------------------------
(***************************************************************************)
(* Why no wake-up is lost, whatever the threads do in between: only the    *)
(* release of the holder frees a lock, it wakes one of those that wait for *)
(* it, and the woken request leaves only by taking the lock or by finding  *)
(* it taken again.                                                         *)
(***************************************************************************)
\* A request waits for a lock nobody holds only while another has been woken for it.
WakeUpUnderWay ==
  \A w \in Requests :
    pc[w] = "waiting" /\ lock[w] \notin held =>
      \E v \in Requests : pc[v] = "ready" /\ lock[v] = lock[w]

LEMMA LookupLeavesWaiters ==
  ASSUME IInv, WakeUpUnderWay, NEW r \in Requests, NEW k \in Keys, Lookup(r, k)
  PROVE  WakeUpUnderWay'
<1>1. /\ pc[r] = "idle" /\ pc' = [pc EXCEPT ![r] = "found"] /\ UNCHANGED held
      /\ \A q \in Requests : q # r => lock'[q] = lock[q]
  BY LookedUp DEF Lookup, IInv, TypeOK
<1> QED
  BY <1>1 DEF WakeUpUnderWay, IInv, TypeOK

LEMMA LookLeavesWaiters ==
  ASSUME IInv, WakeUpUnderWay, NEW r \in Requests, TryAcquire(r) \/ Look(r)
  PROVE  WakeUpUnderWay'
<1> USE DEF IInv, TypeOK
<1>0. lock[r] \in Locks
  BY DEF TryAcquire, Look, GateInv, References
<1>1. CASE lock[r] \notin held /\ Take(r)
  \* The free lock is taken, whoever was woken for it.
  <2>1. /\ pc' = [pc EXCEPT ![r] = "running"] /\ UNCHANGED lock /\ held' = held \cup {lock[r]}
    BY <1>1 DEF Take
  <2> SUFFICES ASSUME NEW w \in Requests, pc'[w] = "waiting", lock'[w] \notin held'
               PROVE  \E v \in Requests : pc'[v] = "ready" /\ lock'[v] = lock'[w]
    BY DEF WakeUpUnderWay
  <2>2. pc[w] = "waiting" /\ lock[w] \notin held /\ lock[w] # lock[r]
    BY <2>1
  <2>3. PICK v \in Requests : pc[v] = "ready" /\ lock[v] = lock[w]
    BY <2>2 DEF WakeUpUnderWay
  <2> QED
    BY <2>1, <2>2, <2>3
<1>2. CASE lock[r] \in held /\ Pass(r)
  \* It finds the lock held: those that wait for another one are as before.
  <2>1. /\ pc' = [pc EXCEPT ![r] = "running"] /\ UNCHANGED held /\ lock' = [lock EXCEPT ![r] = None]
    BY <1>2 DEF Pass
  <2> SUFFICES ASSUME NEW w \in Requests, pc'[w] = "waiting", lock'[w] \notin held'
               PROVE  \E v \in Requests : pc'[v] = "ready" /\ lock'[v] = lock'[w]
    BY DEF WakeUpUnderWay
  <2>2. w # r /\ pc[w] = "waiting" /\ lock'[w] = lock[w] /\ lock[w] \notin held
    BY <2>1
  <2>3. PICK v \in Requests : pc[v] = "ready" /\ lock[v] = lock[w]
    BY <2>2 DEF WakeUpUnderWay
  <2> QED
    BY <1>2, <2>1, <2>2, <2>3
<1>3. ASSUME lock[r] \in held, NEW step \in {"ready", "waiting"}, pc' = [pc EXCEPT ![r] = step],
             UNCHANGED <<lock, held>>
      PROVE  WakeUpUnderWay'
  <2> SUFFICES ASSUME NEW w \in Requests, pc'[w] = "waiting", lock'[w] \notin held'
               PROVE  \E v \in Requests : pc'[v] = "ready" /\ lock'[v] = lock'[w]
    BY DEF WakeUpUnderWay
  <2>1. w # r /\ pc[w] = "waiting" /\ lock[w] \notin held
    BY <1>3
  <2>2. PICK v \in Requests : pc[v] = "ready" /\ lock[v] = lock[w]
    BY <2>1 DEF WakeUpUnderWay
  <2> QED
    BY <1>3, <2>1, <2>2
<1> QED
  BY <1>1, <1>2, <1>3 DEF TryAcquire, Look

LEMMA ReleaseWakes ==
  ASSUME IInv, WakeUpUnderWay, NEW r \in Requests, Release(r)
  PROVE  WakeUpUnderWay'
<1> USE DEF IInv, TypeOK
<1>1. /\ pc[r] = "running"
      /\ held' = IF holds[r] THEN held \ {lock[r]} ELSE held
      /\ lock' = [lock EXCEPT ![r] = None]
  BY DEF Release
<1> SUFFICES ASSUME NEW w \in Requests, pc'[w] = "waiting", lock'[w] \notin held'
             PROVE  \E v \in Requests : pc'[v] = "ready" /\ lock'[v] = lock'[w]
  BY DEF WakeUpUnderWay
<1>2. CASE holds[r] /\ Waiting(lock[r]) # {}
  <2>1. PICK u \in Waiting(lock[r]) : pc' = [pc EXCEPT ![r] = "idle", ![u] = "ready"]
    BY <1>2 DEF Release, Notified
  <2>2. u \in Requests /\ u # r /\ pc[u] = "waiting" /\ lock[u] = lock[r]
    BY <1>1, <2>1 DEF Waiting
  <2>3. w # r /\ w # u /\ pc[w] = "waiting" /\ lock'[w] = lock[w]
    BY <1>1, <2>1, <2>2
  <2>4. CASE lock[w] = lock[r]
    BY <1>1, <2>1, <2>2, <2>3, <2>4
  <2>5. CASE lock[w] # lock[r]
    <3>1. PICK v \in Requests : pc[v] = "ready" /\ lock[v] = lock[w]
      BY <1>1, <2>3, <2>5 DEF WakeUpUnderWay
    <3> QED
      BY <1>1, <2>1, <2>2, <2>3, <3>1
  <2> QED
    BY <2>4, <2>5
<1>3. CASE ~(holds[r] /\ Waiting(lock[r]) # {})
  <2>1. pc' = [pc EXCEPT ![r] = "idle"]
    BY <1>3 DEF Release, Notified
  <2>2. w # r /\ pc[w] = "waiting" /\ lock'[w] = lock[w]
    BY <1>1, <2>1
  <2>3. holds[r] => lock[w] # lock[r]
    BY <1>3, <2>2 DEF Waiting
  <2>4. PICK v \in Requests : pc[v] = "ready" /\ lock[v] = lock[w]
    BY <1>1, <2>2, <2>3 DEF WakeUpUnderWay
  <2> QED
    BY <1>1, <2>1, <2>2, <2>4
<1> QED
  BY <1>2, <1>3

LEMMA WakeUpsLast == IInv /\ WakeUpUnderWay /\ [Next]_vars => WakeUpUnderWay'
<1> SUFFICES ASSUME IInv, WakeUpUnderWay, [Next]_vars PROVE WakeUpUnderWay'
  OBVIOUS
<1>1. ASSUME NEW r \in Requests, NEW k \in Keys, Lookup(r, k) PROVE WakeUpUnderWay'
  BY <1>1, LookupLeavesWaiters
<1>2. ASSUME NEW r \in Requests, TryAcquire(r) \/ Look(r) PROVE WakeUpUnderWay'
  BY <1>2, LookLeavesWaiters
<1>3. ASSUME NEW r \in Requests, TimeOut(r) PROVE WakeUpUnderWay'
  BY <1>3 DEF TimeOut, WakeUpUnderWay, IInv, TypeOK
<1>4. ASSUME NEW r \in Requests, Release(r) PROVE WakeUpUnderWay'
  BY <1>4, ReleaseWakes
<1>5. ASSUME UNCHANGED <<pc, lock, held>> PROVE WakeUpUnderWay'
  BY <1>5 DEF WakeUpUnderWay
<1>6. ASSUME NEW a \in Accounts, RateLimited(a) \/ Succeed(a) \/ \E reason \in Reasons : Mark(a, reason)
      PROVE  UNCHANGED <<pc, lock, held>>
  BY <1>6 DEF RateLimited, Succeed, Mark, gates
<1>7. ASSUME Tick \/ Reload \/ (\E k \in Keys : Age(k)) \/ UNCHANGED vars
      PROVE  UNCHANGED <<pc, lock, held>>
  BY <1>7 DEF Tick, Reload, Age, vars, gates
<1> QED
  BY <1>1, <1>2, <1>3, <1>4, <1>5, <1>6, <1>7 DEF Next

\* The safety half of WaiterWoken, for any number of requests and keys: a release, a
\* time-out, a reload or a latecomer that takes the lock first never leaves a request
\* waiting for a free lock with nobody woken for it.  (That the woken one looks is fairness.)
THEOREM WakeUpsAreNotLost == Spec => []WakeUpUnderWay
<1>1. Init => WakeUpUnderWay
  BY DEF Init, WakeUpUnderWay
<1> QED
  BY Initial, Inductive, <1>1, WakeUpsLast, PTL DEF Spec
=============================================================================
