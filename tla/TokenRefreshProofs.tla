------------------------- MODULE TokenRefreshProofs -------------------------
(***************************************************************************)
(* TokenRefresh for every set of callers and accounts and every bound.     *)
(*                                                                         *)
(* PresentsUnspentToken and StoredTokenUnspent are not inductive: a call   *)
(* may only be trusted to present an unspent token because it holds the    *)
(* account's lock from the moment it reads the row again (LockHeld), goes  *)
(* on only with the token the row had then (OwnToken), and, once answered, *)
(* carries a live token (AnswerLive) whose predecessor may still be in the *)
(* row (RowCovered).  That a recovered token is accepted rests on what the *)
(* lock keeps out of the row meanwhile (RowSinceReread).                   *)
(***************************************************************************)
EXTENDS TokenRefreshSerial, TLAPS

LockHeld == \A c \in Callers : pc[c] \in Critical => lock[acct[c]] = c

OwnToken ==
  \A c \in Callers :
    pc[c] \in {"lock", "reread", "send", "resend", "recover"} => tok[c] = orig[c]

AnswerLive ==
  \A c \in Callers : pc[c] = "persist" => tok[c].refresh \in live[acct[c]]

\* What has come into the row since a call read it again is a login's grant.
RowSinceReread ==
  \A c \in Callers :
    pc[c] \in {"send", "resend", "recover"} /\ store[acct[c]] # NoRow =>
      store[acct[c]].refresh \in live[acct[c]] \cup {orig[c].refresh}

RowCovered ==
  \A a \in Accounts :
    store[a] # NoRow =>
      \/ store[a].refresh \in Known(a)
      \/ \E c \in Callers : Answered(c, a) /\ orig[c].refresh = store[a].refresh

IInv ==
  /\ TypeOK
  /\ LockHeld
  /\ OwnToken
  /\ AnswerLive
  /\ RowCovered
  /\ RowSinceReread
  /\ PresentsUnspentToken

-----------------------------------------------------------------------------
\* The state variables keep their types: every value a step writes is a row
\* read before, a token upstream just issued, or a step name.
LEMMA InitType == Init => TypeOK
  BY DEF Init, TypeOK, FirstToken, Token, Steps

LEMMA NextType == TypeOK /\ [Next]_vars => TypeOK'
<1> SUFFICES ASSUME TypeOK, [Next]_vars PROVE TypeOK'
  OBVIOUS
<1> USE DEF TypeOK, Token, Steps, Critical, GoTo, Finish
<1>0. ASSUME NEW c \in Callers, NoAnswer(c)
      PROVE  /\ issued' \in [Accounts -> Nat]
             /\ live' \in [Accounts -> SUBSET Nat]
             /\ orphaned' \in [Accounts -> SUBSET Nat]
  <2>1. CASE UNCHANGED <<issued, live, orphaned>>
    BY <2>1
  <2>2. CASE /\ Issue(acct[c], tok[c].refresh, TRUE)
             /\ orphaned' = [orphaned EXCEPT ![acct[c]] = @ \cup {tok[c].refresh}]
    BY <2>2 DEF Issue
  <2> QED
    BY <1>0, <2>1, <2>2 DEF NoAnswer
<1>1. ASSUME NEW c \in Callers, NEW a \in Accounts, Begin(c, a) PROVE TypeOK'
  BY <1>1 DEF Begin
<1>2. ASSUME NEW c \in Callers, Acquire(c) PROVE TypeOK'
  BY <1>2 DEF Acquire
<1>3. ASSUME NEW c \in Callers, AdoptLatest(c) PROVE TypeOK'
  BY <1>3 DEF AdoptLatest
<1>4. ASSUME NEW c \in Callers, KeepOwn(c) PROVE TypeOK'
  BY <1>4 DEF KeepOwn
<1>5. ASSUME NEW c \in Callers, RereadFails(c) PROVE TypeOK'
  BY <1>5 DEF RereadFails
<1>6. ASSUME NEW c \in Callers, Granted(c) PROVE TypeOK'
  BY <1>6 DEF Granted, Issue
<1>7. ASSUME NEW c \in Callers, Rejected(c) PROVE TypeOK'
  BY <1>7 DEF Rejected
<1>8. ASSUME NEW c \in Callers, SendAgain(c) PROVE TypeOK'
  BY <1>0, <1>8 DEF SendAgain
<1>9. ASSUME NEW c \in Callers, SendFails(c) PROVE TypeOK'
  BY <1>0, <1>9 DEF SendFails
<1>10. ASSUME NEW c \in Callers, Recover(c) PROVE TypeOK'
  BY <1>10 DEF Recover
<1>11. ASSUME NEW c \in Callers, Persist(c) PROVE TypeOK'
  BY <1>11 DEF Persist
<1>12. ASSUME NEW c \in Callers, PersistFails(c) PROVE TypeOK'
  BY <1>12 DEF PersistFails
<1>13. ASSUME NEW c \in Callers, Return(c) PROVE TypeOK'
  BY <1>13 DEF Return
<1>14. ASSUME NEW a \in Accounts, Login(a) PROVE TypeOK'
  BY <1>14 DEF Login
<1>15. ASSUME NEW a \in Accounts, Delete(a) PROVE TypeOK'
  BY <1>15 DEF Delete
<1>16. CASE Crash
  BY <1>16 DEF Crash, InHand, Answered
<1>17. CASE UNCHANGED vars
  BY <1>17 DEF vars
<1> QED
  BY <1>1, <1>2, <1>3, <1>4, <1>5, <1>6, <1>7, <1>8, <1>9, <1>10, <1>11, <1>12,
     <1>13, <1>14, <1>15, <1>16, <1>17 DEF Next, CallStep

-----------------------------------------------------------------------------
\* A request without an answer may consume its token, but then records it as
\* orphaned, and it leaves the other accounts alone.
LEMMA LostAnswer ==
  ASSUME TypeOK, NEW c \in Callers, NoAnswer(c)
  PROVE  /\ \A b \in Accounts : Known(b) \subseteq Known(b)'
         /\ \A b \in Accounts : live[b] \ live'[b] \subseteq
                                 IF b = acct[c] THEN {tok[c].refresh} ELSE {}
<1>1. CASE UNCHANGED <<issued, live, orphaned>>
  BY <1>1 DEF Known
<1>2. CASE /\ Issue(acct[c], tok[c].refresh, TRUE)
           /\ orphaned' = [orphaned EXCEPT ![acct[c]] = @ \cup {tok[c].refresh}]
  BY <1>2 DEF Issue, Known, TypeOK
<1> QED
  BY <1>1, <1>2 DEF NoAnswer

\* Every step preserves the inductive invariant.
LEMMA NextInv == IInv /\ [Next]_vars => IInv'
<1> SUFFICES ASSUME IInv, [Next]_vars PROVE IInv'
  OBVIOUS
<1>0. TypeOK /\ TypeOK'
  BY NextType DEF IInv
<1> USE NullAssumption, <1>0
    DEF IInv, LockHeld, OwnToken, AnswerLive, RowCovered, RowSinceReread,
        PresentsUnspentToken, TypeOK, Critical, Known, Answered, GoTo, Finish
<1>1. ASSUME NEW c \in Callers, NEW a \in Accounts, Begin(c, a) PROVE IInv'
  BY <1>1 DEF Begin
<1>2. ASSUME NEW c \in Callers, Acquire(c) PROVE IInv'
  BY <1>2 DEF Acquire
<1>3. ASSUME NEW c \in Callers, AdoptLatest(c) PROVE IInv'
  BY <1>3 DEF AdoptLatest
<1>4. ASSUME NEW c \in Callers, KeepOwn(c) PROVE IInv'
  \* The row is the caller's own token, and no other call can be between its
  \* answer and its write: it would hold the lock.
  <2>1. store[acct[c]] # NoRow => tok[c].refresh \in Known(acct[c])
    <3>1. pc[c] = "reread" /\ store[acct[c]] \in {NoRow, orig[c]} /\ tok[c] = orig[c]
      BY <1>4 DEF KeepOwn
    <3>2. lock[acct[c]] = c
      BY <3>1
    <3>3. \A d \in Callers : pc[d] = "persist" => acct[d] # acct[c]
      BY <3>1, <3>2
    <3>4. ~\E d \in Callers : Answered(d, acct[c])
      BY <3>3
    <3> QED
      BY <3>1, <3>4
  <2>2. PresentsUnspentToken'
    <3> SUFFICES ASSUME NEW d \in Callers, pc'[d] \in {"send", "resend"}, ~blind'[d]
                 PROVE  tok[d].refresh \in Known(acct[d])
      BY <1>4 DEF KeepOwn
    <3>1. CASE d = c
      <4>1. blind'[c] = (store[acct[c]] = NoRow)
        BY <1>4 DEF KeepOwn
      <4>2. store[acct[c]] # NoRow
        BY <3>1, <4>1
      <4> QED
        BY <2>1, <3>1, <4>2
    <3>2. CASE d # c
      BY <1>4, <3>2 DEF KeepOwn
    <3> QED
      BY <3>1, <3>2
  <2>3. \A d \in Callers : pc'[d] = "persist" <=> pc[d] = "persist"
    BY <1>4 DEF KeepOwn
  <2>4. RowCovered'
    <3> SUFFICES ASSUME NEW a \in Accounts, store[a] # NoRow
                 PROVE  \/ store[a].refresh \in Known(a)
                        \/ \E d \in Callers :
                             pc'[d] = "persist" /\ acct[d] = a /\ orig[d].refresh = store[a].refresh
      BY <1>4 DEF KeepOwn
    <3> QED
      BY <2>3
  <2> QED
    BY <1>4, <2>2, <2>4 DEF KeepOwn
<1>5. ASSUME NEW c \in Callers, RereadFails(c) PROVE IInv'
  BY <1>5 DEF RereadFails
<1>6. ASSUME NEW c \in Callers, Granted(c) PROVE IInv'
  BY <1>6 DEF Granted, Issue
<1>7. ASSUME NEW c \in Callers, Rejected(c) PROVE IInv'
  BY <1>7 DEF Rejected
<1>8. ASSUME NEW c \in Callers, SendAgain(c) PROVE IInv'
  <2>1. /\ \A b \in Accounts : Known(b) \subseteq Known(b)'
        /\ \A b \in Accounts : live[b] \ live'[b] \subseteq
                                IF b = acct[c] THEN {tok[c].refresh} ELSE {}
    BY <1>8, LostAnswer DEF SendAgain
  <2>2. \A d \in Callers : pc[d] = "persist" => d # c /\ acct[d] # acct[c]
    BY <1>8 DEF SendAgain
  <2>3. RowCovered'
    BY <1>8, <2>1, <2>2 DEF SendAgain
  <2>4. AnswerLive'
    BY <1>8, <2>1, <2>2 DEF SendAgain
  <2>5. PresentsUnspentToken'
    BY <1>8, <2>1 DEF SendAgain
  <2>6. RowSinceReread'
    BY <1>8, <2>1 DEF SendAgain
  <2> QED
    BY <1>8, <2>3, <2>4, <2>5, <2>6 DEF SendAgain
<1>9. ASSUME NEW c \in Callers, SendFails(c) PROVE IInv'
  <2>1. /\ \A b \in Accounts : Known(b) \subseteq Known(b)'
        /\ \A b \in Accounts : live[b] \ live'[b] \subseteq
                                IF b = acct[c] THEN {tok[c].refresh} ELSE {}
    BY <1>9, LostAnswer DEF SendFails
  <2>2. \A d \in Callers : pc[d] = "persist" => d # c /\ acct[d] # acct[c]
    BY <1>9 DEF SendFails
  <2>3. RowCovered'
    BY <1>9, <2>1, <2>2 DEF SendFails
  <2>4. AnswerLive'
    BY <1>9, <2>1, <2>2 DEF SendFails
  <2>5. PresentsUnspentToken'
    BY <1>9, <2>1 DEF SendFails
  <2>6. RowSinceReread'
    BY <1>9, <2>1 DEF SendFails
  <2> QED
    BY <1>9, <2>3, <2>4, <2>5, <2>6 DEF SendFails
<1>10. ASSUME NEW c \in Callers, Recover(c) PROVE IInv'
  <2>1. CASE tok' = [tok EXCEPT ![c] = store[acct[c]]] /\ Finish(c, "ok")
    BY <1>10, <2>1 DEF Recover
  <2>2. CASE UNCHANGED tok /\ Finish(c, "err")
    BY <1>10, <2>2 DEF Recover
  <2> QED
    BY <1>10, <2>1, <2>2 DEF Recover
<1>11. ASSUME NEW c \in Callers, Persist(c) PROVE IInv'
  BY <1>11 DEF Persist
<1>12. ASSUME NEW c \in Callers, PersistFails(c) PROVE IInv'
  BY <1>12 DEF PersistFails
<1>13. ASSUME NEW c \in Callers, Return(c) PROVE IInv'
  BY <1>13 DEF Return
<1>14. ASSUME NEW a \in Accounts, Login(a) PROVE IInv'
  BY <1>14 DEF Login
<1>15. ASSUME NEW a \in Accounts, Delete(a) PROVE IInv'
  BY <1>15 DEF Delete
<1>16. CASE Crash
  <2>1. \A c \in Callers : pc'[c] = "idle"
    BY <1>16 DEF Crash
  <2>2. LockHeld' /\ OwnToken' /\ AnswerLive' /\ RowSinceReread' /\ PresentsUnspentToken'
    BY <2>1
  <2>3. RowCovered'
    BY <1>16 DEF Crash, InHand
  <2> QED
    BY <2>2, <2>3
<1>17. CASE UNCHANGED vars
  BY <1>17 DEF vars
<1> QED
  BY <1>1, <1>2, <1>3, <1>4, <1>5, <1>6, <1>7, <1>8, <1>9, <1>10, <1>11, <1>12,
     <1>13, <1>14, <1>15, <1>16, <1>17 DEF Next, CallStep

-----------------------------------------------------------------------------
LEMMA InitInv == Init => IInv
  BY InitType DEF Init, IInv, LockHeld, OwnToken, AnswerLive, RowCovered,
     RowSinceReread, PresentsUnspentToken, Critical, Known, FirstToken

LEMMA SpecInv == Spec => []IInv
  BY InitInv, NextInv, PTL DEF Spec

\* Type correctness.
THEOREM TypeCorrect == Spec => []TypeOK
<1>1. IInv => TypeOK
  BY DEF IInv
<1> QED
  BY SpecInv, <1>1, PTL

\* refresh_and_persist_access_token never presents a refresh token another call
\* has exchanged, for any number of threads, accounts, logins and crashes.
THEOREM NeverPresentsSpentToken == Spec => []PresentsUnspentToken
<1>1. IInv => PresentsUnspentToken
  BY DEF IInv
<1> QED
  BY SpecInv, <1>1, PTL

\* No interleaving of refreshes and logins leaves an exchanged token in the row.
THEOREM RowNeverGoesBack == Spec => []StoredTokenUnspent
<1>1. ASSUME IInv PROVE StoredTokenUnspent
  BY <1>1 DEF IInv, RowCovered, StoredTokenUnspent, InHand
<1> QED
  BY SpecInv, <1>1, PTL

\* An Ok result carries a token upstream accepts, never one this call has lost the
\* answer of or seen refused; only an adopted row may have lost its successor before.
THEOREM OkIsAccepted == Spec => OkTokenAccepted
<1>1. ASSUME IInv, IInv', [Next]_vars
      PROVE  [\A c \in Callers :
                pc[c] \in Critical /\ pc'[c] = "ok" =>
                  \/ tok'[c].refresh \in live'[acct[c]]
                  \/ pc[c] = "reread" /\ tok'[c].refresh \in orphaned[acct[c]]]_vars
  <2> SUFFICES ASSUME NEW c \in Callers, pc[c] \in Critical, pc'[c] = "ok"
               PROVE  \/ tok'[c].refresh \in live'[acct[c]]
                      \/ pc[c] = "reread" /\ tok'[c].refresh \in orphaned[acct[c]]
    OBVIOUS
  <2> USE <1>1 DEF IInv, TypeOK, LockHeld, AnswerLive, RowCovered, RowSinceReread, Critical,
        Known, Answered, GoTo, Finish
  <2>1. CASE UNCHANGED vars
    BY <2>1 DEF vars
  <2>2. CASE \E d \in Callers : AdoptLatest(d)
    \* The call holds the lock and has no answer of its own, so nobody has: the row
    \* it takes over is covered by RowCovered alone.
    <3>1. PICK d \in Callers : AdoptLatest(d)
      BY <2>2
    <3>2. d = c
      BY <3>1 DEF AdoptLatest
    <3>3. /\ pc[c] = "reread"
          /\ store[acct[c]] # NoRow
          /\ tok'[c] = store[acct[c]]
          /\ UNCHANGED live
      BY <3>1, <3>2, NullAssumption DEF AdoptLatest
    <3>4. \A e \in Callers : pc[e] = "persist" => acct[e] # acct[c]
      BY <3>3
    <3>5. store[acct[c]].refresh \in Known(acct[c])
      BY <3>3, <3>4
    <3> QED
      BY <3>3, <3>5
  <2>8. CASE \E d \in Callers : Recover(d)
    \* The row differs from what the call presented, so it came with a login since.
    <3>1. PICK d \in Callers : Recover(d)
      BY <2>8
    <3>2. d = c
      BY <3>1 DEF Recover
    <3>3. /\ pc[c] = "recover"
          /\ store[acct[c]] # NoRow /\ store[acct[c]].refresh # orig[c].refresh
          /\ tok'[c] = store[acct[c]]
          /\ UNCHANGED live
      BY <3>1, <3>2 DEF Recover
    <3> QED
      BY <3>3
  <2>3. CASE \E d \in Callers : Persist(d)
    <3>1. PICK d \in Callers : Persist(d)
      BY <2>3
    <3>2. d = c
      BY <3>1 DEF Persist
    <3>3. tok'[c] = tok[c] /\ UNCHANGED live /\ pc[c] = "persist"
      BY <3>1, <3>2 DEF Persist
    <3> QED
      BY <3>3
  <2>4. CASE \E d \in Callers : Acquire(d) \/ KeepOwn(d) \/ RereadFails(d) \/ Rejected(d)
    BY <2>4 DEF Acquire, KeepOwn, RereadFails, Rejected
  <2>5. CASE \E d \in Callers : Granted(d) \/ SendAgain(d) \/ SendFails(d)
    <3>1. PICK d \in Callers : Granted(d) \/ SendAgain(d) \/ SendFails(d)
      BY <2>5
    <3>2. \E step \in {"persist", "resend", "err"} : pc' = [pc EXCEPT ![d] = step]
      BY <3>1 DEF Granted, SendAgain, SendFails
    <3> QED
      BY <3>2
  <2>6. CASE \E d \in Callers : PersistFails(d) \/ Return(d) \/ (\E a \in Accounts : Begin(d, a))
    BY <2>6 DEF PersistFails, Return, Begin
  <2>7. CASE (\E a \in Accounts : Login(a) \/ Delete(a)) \/ Crash
    BY <2>7 DEF Login, Delete, Crash
  <2> QED
    BY <2>1, <2>2, <2>3, <2>4, <2>5, <2>6, <2>7, <2>8 DEF Next, CallStep
<1> QED
  BY SpecInv, <1>1, PTL DEF Spec, OkTokenAccepted

-----------------------------------------------------------------------------
(***************************************************************************)
(* The refinement.  Whose exchange an account sees is read off its lock,   *)
(* so a locked account must have its holder inside the call (HolderInside, *)
(* the converse of LockHeld); and no call makes a token up (TokensIssued). *)
(***************************************************************************)
HolderInside ==
  \A a \in Accounts : lock[a] # Nobody => pc[lock[a]] \in Critical /\ acct[lock[a]] = a

IssuedTokens(a) == [access : 0..issued[a], refresh : 0..issued[a]]

TokensIssued ==
  /\ \A a \in Accounts : store[a] \in IssuedTokens(a) \cup {NoRow}
  /\ \A c \in Callers : pc[c] # "idle" => /\ orig[c] \in IssuedTokens(acct[c])
                                          /\ tok[c] \in IssuedTokens(acct[c])

SInv == IInv /\ HolderInside /\ TokensIssued

LEMMA InitSerial == Init => SInv
<1> SUFFICES ASSUME Init PROVE SInv
  OBVIOUS
<1>1. IInv
  BY InitInv
<1>2. HolderInside /\ TokensIssued
  BY DEF Init, HolderInside, TokensIssued, IssuedTokens, FirstToken
<1> QED
  BY <1>1, <1>2 DEF SInv

\* The lock is held by a call inside its critical section, whatever the call does.
LEMMA HolderStays ==
  ASSUME SInv, [Next]_vars
  PROVE  HolderInside'
<1> USE NullAssumption DEF SInv, IInv, TypeOK, LockHeld, HolderInside, Critical, GoTo, Finish
<1>1. ASSUME NEW c \in Callers, NEW a \in Accounts, Begin(c, a) PROVE HolderInside'
  BY <1>1 DEF Begin
<1>2. ASSUME NEW c \in Callers, Acquire(c) PROVE HolderInside'
  BY <1>2 DEF Acquire
<1>3. ASSUME NEW c \in Callers, AdoptLatest(c) \/ RereadFails(c) PROVE HolderInside'
  BY <1>3 DEF AdoptLatest, RereadFails
<1>4. ASSUME NEW c \in Callers, KeepOwn(c) \/ Granted(c) \/ Rejected(c) \/ SendAgain(c)
      PROVE  HolderInside'
  <2>1. /\ pc[c] \in Critical /\ UNCHANGED <<lock, acct>>
        /\ \E step \in {"send", "persist", "recover", "resend"} : pc' = [pc EXCEPT ![c] = step]
    BY <1>4 DEF KeepOwn, Granted, Rejected, SendAgain
  <2> QED
    BY <2>1
<1>5. ASSUME NEW c \in Callers, SendFails(c) \/ Recover(c) \/ Persist(c) \/ PersistFails(c)
      PROVE  HolderInside'
  <2>1. /\ pc[c] \in Critical /\ UNCHANGED acct
        /\ lock' = [lock EXCEPT ![acct[c]] = Nobody]
        /\ \E step \in {"ok", "err"} : pc' = [pc EXCEPT ![c] = step]
    BY <1>5 DEF SendFails, Recover, Persist, PersistFails
  <2> QED
    BY <2>1
<1>6. ASSUME NEW c \in Callers, Return(c) PROVE HolderInside'
  BY <1>6 DEF Return
<1>7. CASE (\E a \in Accounts : Login(a) \/ Delete(a)) \/ Crash \/ UNCHANGED vars
  BY <1>7 DEF Login, Delete, Crash, vars
<1> QED
  BY <1>1, <1>2, <1>3, <1>4, <1>5, <1>6, <1>7 DEF Next, CallStep

\* Upstream's numbers only grow, so a token it has issued stays one.
LEMMA IssuedGrow ==
  ASSUME SInv, [Next]_vars
  PROVE  \A a \in Accounts : issued[a] \in Nat /\ issued'[a] \in Nat /\ issued[a] <= issued'[a]
<1> USE DEF SInv, IInv, TypeOK, Issue
<1>1. CASE \E c \in Callers : CallStep(c)
  <2>1. UNCHANGED issued \/ \E b \in Accounts : issued' = [issued EXCEPT ![b] = @ + 1]
    BY <1>1 DEF CallStep, Acquire, AdoptLatest, KeepOwn, RereadFails, Granted, Rejected, SendAgain,
       SendFails, NoAnswer, Recover, Persist, PersistFails, Return
  <2> QED
    BY <2>1
<1>2. CASE \E c \in Callers, a \in Accounts : Begin(c, a)
  BY <1>2 DEF Begin
<1>3. CASE (\E a \in Accounts : Login(a) \/ Delete(a)) \/ Crash \/ UNCHANGED vars
  BY <1>3 DEF Login, Delete, Crash, vars
<1> QED
  BY <1>1, <1>2, <1>3 DEF Next

LEMMA TokensStayIssued ==
  ASSUME SInv, [Next]_vars
  PROVE  TokensIssued'
<1>0. \A a \in Accounts : IssuedTokens(a) \subseteq IssuedTokens(a)'
  BY IssuedGrow DEF IssuedTokens
<1> USE <1>0, NullAssumption DEF SInv, IInv, TypeOK, TokensIssued, Critical, GoTo, Finish, Steps
<1>1. ASSUME NEW c \in Callers, NEW a \in Accounts, Begin(c, a) PROVE TokensIssued'
  BY <1>1 DEF Begin
<1>2. ASSUME NEW c \in Callers, Acquire(c) \/ KeepOwn(c) \/ RereadFails(c) \/ Rejected(c) \/ Return(c)
      PROVE  TokensIssued'
  BY <1>2 DEF Acquire, KeepOwn, RereadFails, Rejected, Return
<1>3. ASSUME NEW c \in Callers, AdoptLatest(c) \/ Recover(c) PROVE TokensIssued'
  BY <1>3 DEF AdoptLatest, Recover
<1>4. ASSUME NEW c \in Callers, Granted(c) PROVE TokensIssued'
  <2> DEFINE a == acct[c]
  <2>1. PICK rotate \in BOOLEAN :
          /\ Issue(a, tok[c].refresh, rotate)
          /\ tok' = [tok EXCEPT ![c] =
               [access |-> issued[a] + 1,
                refresh |-> IF rotate THEN issued[a] + 1 ELSE tok[c].refresh]]
    BY <1>4 DEF Granted
  <2>2. tok[c] \in IssuedTokens(a) /\ issued'[a] = issued[a] + 1 /\ issued[a] \in Nat
    BY <1>4, <2>1 DEF Granted, Issue
  <2>3. tok'[c] \in IssuedTokens(a)'
    BY <1>4, <2>1, <2>2 DEF IssuedTokens, Granted
  <2> QED
    BY <1>4, <2>1, <2>3 DEF Granted
<1>5. ASSUME NEW c \in Callers, SendAgain(c) \/ SendFails(c) PROVE TokensIssued'
  BY <1>5 DEF SendAgain, SendFails
<1>6. ASSUME NEW c \in Callers, Persist(c) \/ PersistFails(c) PROVE TokensIssued'
  BY <1>6 DEF Persist, PersistFails
<1>7. ASSUME NEW a \in Accounts, Login(a) PROVE TokensIssued'
  <2>1. store' = [store EXCEPT ![a] = [access |-> issued[a] + 1, refresh |-> issued[a] + 1]]
        /\ issued'[a] = issued[a] + 1 /\ issued[a] \in Nat
    BY <1>7 DEF Login
  <2>2. store'[a] \in IssuedTokens(a)'
    BY <2>1 DEF IssuedTokens
  <2> QED
    BY <1>7, <2>1, <2>2 DEF Login
<1>8. ASSUME NEW a \in Accounts, Delete(a) PROVE TokensIssued'
  BY <1>8 DEF Delete
<1>9. CASE Crash \/ UNCHANGED vars
  BY <1>9 DEF Crash, vars
<1> QED
  BY <1>1, <1>2, <1>3, <1>4, <1>5, <1>6, <1>7, <1>8, <1>9 DEF Next, CallStep

LEMMA NextSerial == SInv /\ [Next]_vars => SInv'
<1> SUFFICES ASSUME SInv, [Next]_vars PROVE SInv'
  OBVIOUS
<1>1. IInv'
  BY NextInv DEF SInv
<1>2. HolderInside' /\ TokensIssued'
  BY HolderStays, TokensStayIssued
<1> QED
  BY <1>1, <1>2 DEF SInv

-----------------------------------------------------------------------------
Usings == [a \in Accounts |-> Using(a)]
Answers == [a \in Accounts |-> AnswerFor(a)]

\* What an account sees of a step in the critical section of a call
LEMMA CriticalStep ==
  ASSUME SInv, SInv', NEW c \in Callers, NEW step \in Steps,
         pc[c] \in Critical, GoTo(c, step), UNCHANGED <<acct, orig>>,
         \A d \in Callers \ {c} : tok'[d] = tok[d],
         \/ step \in Critical /\ UNCHANGED lock
         \/ step \notin Critical /\ lock' = [lock EXCEPT ![acct[c]] = Nobody]
  PROVE  /\ Using(acct[c]) = IF pc[c] = "reread" THEN NoRow ELSE orig[c]
         /\ AnswerFor(acct[c]) = IF pc[c] = "persist" THEN tok[c] ELSE NoRow
         /\ Usings' = [Usings EXCEPT ![acct[c]] =
                         IF step \in Critical \ {"reread"} THEN orig[c] ELSE NoRow]
         /\ Answers' = [Answers EXCEPT ![acct[c]] = IF step = "persist" THEN tok'[c] ELSE NoRow]
<1> USE NullAssumption DEF SInv, IInv, TypeOK, LockHeld, HolderInside, GoTo
<1> DEFINE a == acct[c]
<1>1. a \in Accounts /\ lock[a] = c
  OBVIOUS
<1>2. /\ Using(a) = IF pc[c] = "reread" THEN NoRow ELSE orig[c]
      /\ AnswerFor(a) = IF pc[c] = "persist" THEN tok[c] ELSE NoRow
  BY <1>1 DEF Using, AnswerFor
<1>3. /\ Using(a)' = IF step \in Critical \ {"reread"} THEN orig[c] ELSE NoRow
      /\ AnswerFor(a)' = IF step = "persist" THEN tok'[c] ELSE NoRow
  <2>1. CASE step \in Critical /\ UNCHANGED lock
    BY <1>1, <2>1 DEF Using, AnswerFor
  <2>2. CASE step \notin Critical /\ lock' = [lock EXCEPT ![a] = Nobody]
    BY <1>1, <2>2 DEF Using, AnswerFor, Critical
  <2> QED
    BY <2>1, <2>2
<1>4. ASSUME NEW b \in Accounts, b # a
      PROVE  Using(b)' = Using(b) /\ AnswerFor(b)' = AnswerFor(b)
  <2>1. lock'[b] = lock[b] /\ lock[b] # c
    BY <1>1, <1>4
  <2>2. lock[b] # Nobody => lock[b] \in Callers \ {c} /\ pc'[lock[b]] = pc[lock[b]]
    BY <2>1
  <2> QED
    BY <2>1, <2>2 DEF Using, AnswerFor
<1> HIDE DEF SInv, IInv, TypeOK, LockHeld, HolderInside, GoTo
<1>5. Usings' = [Usings EXCEPT ![a] = IF step \in Critical \ {"reread"} THEN orig[c] ELSE NoRow]
  BY <1>1, <1>3, <1>4 DEF Usings
<1>6. Answers' = [Answers EXCEPT ![a] = IF step = "persist" THEN tok'[c] ELSE NoRow]
  BY <1>1, <1>3, <1>4 DEF Answers
<1> QED
  BY <1>2, <1>5, <1>6

\* A step of a call that is not in its critical section, before and after
LEMMA OtherStep ==
  ASSUME SInv, NEW c \in Callers, pc[c] \notin Critical,
         \A d \in Callers \ {c} : pc'[d] = pc[d] /\ orig'[d] = orig[d] /\ tok'[d] = tok[d],
         UNCHANGED lock
  PROVE  UNCHANGED <<Usings, Answers>>
<1> USE NullAssumption DEF SInv, IInv, TypeOK, HolderInside
<1>1. ASSUME NEW b \in Accounts PROVE Using(b)' = Using(b) /\ AnswerFor(b)' = AnswerFor(b)
  BY DEF Using, AnswerFor
<1> QED
  BY <1>1 DEF Usings, Answers

\* The step that takes the lock is not seen yet.
LEMMA AcquireUnseen ==
  ASSUME SInv, NEW c \in Callers, Acquire(c)
  PROVE  UNCHANGED <<Usings, Answers>>
<1> USE NullAssumption DEF SInv, IInv, TypeOK, HolderInside, Acquire, GoTo
<1>1. ASSUME NEW b \in Accounts PROVE Using(b)' = Using(b) /\ AnswerFor(b)' = AnswerFor(b)
  <2>1. CASE b = acct[c]
    BY <2>1 DEF Using, AnswerFor, Critical
  <2>2. CASE b # acct[c]
    <3>1. lock'[b] = lock[b] /\ (lock[b] # Nobody => lock[b] # c /\ pc'[lock[b]] = pc[lock[b]])
      BY <2>2 DEF Critical
    <3> QED
      BY <3>1 DEF Using, AnswerFor
  <2> QED
    BY <2>1, <2>2
<1> QED
  BY <1>1 DEF Usings, Answers

-----------------------------------------------------------------------------
LEMMA SerialInit == Init => Serial!Init
<1> SUFFICES ASSUME Init PROVE Serial!Init
  OBVIOUS
<1>1. \A a \in Accounts : Using(a) = NoRow /\ AnswerFor(a) = NoRow
  BY DEF Init, Using, AnswerFor
<1> QED
  BY <1>1 DEF Init, Serial!Init, FirstToken

\* Going on with the token of the row, as it is read again, starts an exchange.
LEMMA KeepOwnStarts ==
  ASSUME SInv, SInv', NEW c \in Callers, KeepOwn(c)
  PROVE  Serial!Start(acct[c])
<1> DEFINE a == acct[c]
<1>1. /\ pc[c] = "reread" /\ GoTo(c, "send") /\ store[a] \in {NoRow, orig[c]}
      /\ UNCHANGED <<store, lock, acct, orig, tok, issued, live, orphaned>>
  BY DEF KeepOwn
<1>2. /\ Using(a) = NoRow
      /\ Usings' = [Usings EXCEPT ![a] = orig[c]]
      /\ Answers' = [Answers EXCEPT ![a] = NoRow]
      /\ AnswerFor(a) = NoRow
  BY <1>1, CriticalStep DEF Critical, Steps
<1>3. a \in Accounts /\ orig[c] \in [access : 0..issued[a], refresh : 0..issued[a]]
  BY <1>1 DEF SInv, IInv, TypeOK, TokensIssued, IssuedTokens
<1>4. Answers' = Answers
  BY <1>2, <1>3 DEF Answers
<1> QED
  BY <1>1, <1>2, <1>3, <1>4 DEF Serial!Start, Usings, Answers

\* The call that sends is the one whose token its account sees in use.
LEMMA SenderUses ==
  ASSUME SInv, NEW c \in Callers, pc[c] \in {"send", "resend", "recover"}
  PROVE  /\ acct[c] \in Accounts /\ lock[acct[c]] = c
         /\ Using(acct[c]) = tok[c] /\ AnswerFor(acct[c]) = NoRow
         /\ tok[c] = orig[c] /\ tok[c] # NoRow
BY NullAssumption
   DEF SInv, IInv, TypeOK, LockHeld, OwnToken, Critical, Using, AnswerFor, Token

LEMMA GrantedExchanges ==
  ASSUME SInv, SInv', NEW c \in Callers, Granted(c)
  PROVE  Serial!Exchange(acct[c])
<1> DEFINE a == acct[c]
<1>1. PICK rotate \in BOOLEAN :
        /\ Issue(a, tok[c].refresh, rotate)
        /\ tok' = [tok EXCEPT ![c] =
             [access |-> issued[a] + 1,
              refresh |-> IF rotate THEN issued[a] + 1 ELSE tok[c].refresh]]
  BY DEF Granted
<1>2. /\ pc[c] \in {"send", "resend"} /\ GoTo(c, "persist")
      /\ UNCHANGED <<store, lock, acct, orig, orphaned>>
  BY DEF Granted
<1>3. /\ a \in Accounts /\ Using(a) = tok[c] /\ AnswerFor(a) = NoRow
      /\ tok[c] = orig[c] /\ tok[c] # NoRow
  BY <1>2, SenderUses
<1>4. \A d \in Callers \ {c} : tok'[d] = tok[d]
  BY <1>1 DEF SInv, IInv, TypeOK
<1>5. /\ Usings' = [Usings EXCEPT ![a] = orig[c]]
      /\ Answers' = [Answers EXCEPT ![a] = tok'[c]]
  BY <1>2, <1>4, CriticalStep DEF Critical, Steps
<1>6. Usings' = Usings
  BY <1>3, <1>5 DEF Usings
<1>7. tok'[c] = [access |-> issued[a] + 1,
                 refresh |-> IF rotate THEN issued[a] + 1 ELSE tok[c].refresh]
  BY <1>1 DEF SInv, IInv, TypeOK
<1>8. Serial!Spend(a, rotate)
  BY <1>1, <1>3 DEF Issue, Serial!Spend
<1>9. Answers' = [Answers EXCEPT ![a] = [access |-> issued[a] + 1,
                 refresh |-> IF rotate THEN issued[a] + 1 ELSE Using(a).refresh]]
  BY <1>3, <1>5, <1>7
<1> QED
  BY <1>2, <1>3, <1>6, <1>8, <1>9 DEF Serial!Exchange, Usings, Answers

\* A request without an answer changes nothing, or loses the answer.
LEMMA NoAnswerLoses ==
  ASSUME SInv, NEW c \in Callers, pc[c] \in {"send", "resend"}, NoAnswer(c),
         UNCHANGED store, UNCHANGED Answers,
         Usings' \in {Usings, [Usings EXCEPT ![acct[c]] = NoRow]}
  PROVE  UNCHANGED <<issued, live, orphaned>> \/ Serial!LoseAnswer(acct[c])
<1> DEFINE a == acct[c]
<1>1. /\ a \in Accounts /\ Using(a) = tok[c] /\ AnswerFor(a) = NoRow /\ tok[c] # NoRow
  BY SenderUses
<1>2. CASE UNCHANGED <<issued, live, orphaned>>
  BY <1>2
<1>3. CASE /\ Issue(a, tok[c].refresh, TRUE)
           /\ orphaned' = [orphaned EXCEPT ![a] = @ \cup {tok[c].refresh}]
  <2>1. Serial!Spend(a, TRUE)
    BY <1>1, <1>3 DEF Issue, Serial!Spend
  <2>2. orphaned' = [orphaned EXCEPT ![a] = @ \cup {Using(a).refresh}]
    BY <1>1, <1>3
  <2> QED
    BY <1>1, <2>1, <2>2 DEF Serial!LoseAnswer, Usings, Answers
<1> QED
  BY <1>2, <1>3 DEF NoAnswer

LEMMA SendAgainSeen ==
  ASSUME SInv, SInv', NEW c \in Callers, SendAgain(c)
  PROVE  Serial!LoseAnswer(acct[c]) \/ UNCHANGED Serial!vars
<1> DEFINE a == acct[c]
<1>1. /\ pc[c] = "send" /\ GoTo(c, "resend") /\ NoAnswer(c)
      /\ UNCHANGED <<store, lock, acct, orig, tok>>
  BY DEF SendAgain
<1>2. a \in Accounts /\ Using(a) = orig[c] /\ AnswerFor(a) = NoRow
  BY <1>1, SenderUses
<1>3. /\ Usings' = [Usings EXCEPT ![a] = orig[c]]
      /\ Answers' = [Answers EXCEPT ![a] = NoRow]
  BY <1>1, CriticalStep DEF Critical, Steps
<1>4. Usings' = Usings /\ Answers' = Answers
  BY <1>2, <1>3 DEF Usings, Answers
<1>5. UNCHANGED <<issued, live, orphaned>> \/ Serial!LoseAnswer(a)
  BY <1>1, <1>4, NoAnswerLoses
<1> QED
  BY <1>1, <1>4, <1>5 DEF Serial!vars, Usings, Answers

LEMMA SendFailsSeen ==
  ASSUME SInv, SInv', NEW c \in Callers, SendFails(c)
  PROVE  Serial!LoseAnswer(acct[c]) \/ Serial!GiveUp(acct[c])
<1> DEFINE a == acct[c]
<1>1. /\ pc[c] \in {"send", "resend"} /\ Finish(c, "err") /\ NoAnswer(c)
      /\ UNCHANGED <<store, acct, orig, tok>>
  BY DEF SendFails
<1>2. a \in Accounts /\ Using(a) # NoRow /\ AnswerFor(a) = NoRow
  BY <1>1, SenderUses
<1>3. /\ Usings' = [Usings EXCEPT ![a] = NoRow]
      /\ Answers' = [Answers EXCEPT ![a] = NoRow]
  <2>1. pc[c] \in Critical /\ "err" \in Steps \ Critical /\ "err" # "persist"
    BY <1>1 DEF Critical, Steps
  <2>2. GoTo(c, "err") /\ lock' = [lock EXCEPT ![a] = Nobody]
    BY <1>1 DEF Finish
  <2> QED
    BY <1>1, <2>1, <2>2, CriticalStep
<1>4. Answers' = Answers
  BY <1>2, <1>3 DEF Answers
<1>5. UNCHANGED <<issued, live, orphaned>> \/ Serial!LoseAnswer(a)
  BY <1>1, <1>3, <1>4, NoAnswerLoses
<1> QED
  BY <1>1, <1>2, <1>3, <1>4, <1>5 DEF Serial!GiveUp, Usings, Answers

\* A call that returns without an exchange of its own is not seen ...
LEMMA AdoptUnseen ==
  ASSUME SInv, SInv', NEW c \in Callers, AdoptLatest(c) \/ RereadFails(c)
  PROVE  UNCHANGED Serial!vars
<1> DEFINE a == acct[c]
<1>1. /\ pc[c] = "reread" /\ (Finish(c, "ok") \/ Finish(c, "err"))
      /\ UNCHANGED <<store, acct, orig, issued, live, orphaned>>
      /\ tok' = tok \/ tok' = [tok EXCEPT ![c] = store[a]]
  BY DEF AdoptLatest, RereadFails
<1>2. \A d \in Callers \ {c} : tok'[d] = tok[d]
  BY <1>1 DEF SInv, IInv, TypeOK
<1>3. /\ a \in Accounts
      /\ Using(a) = NoRow /\ AnswerFor(a) = NoRow
      /\ Usings' = [Usings EXCEPT ![a] = NoRow]
      /\ Answers' = [Answers EXCEPT ![a] = NoRow]
  BY <1>1, <1>2, CriticalStep DEF Critical, Steps, Finish, SInv, IInv, TypeOK
<1>4. Usings' = Usings /\ Answers' = Answers
  BY <1>3 DEF Usings, Answers
<1> QED
  BY <1>1, <1>4 DEF Serial!vars, Usings, Answers

\* ... nor is the refusal of its token, until it returns.
LEMMA RejectedUnseen ==
  ASSUME SInv, SInv', NEW c \in Callers, Rejected(c)
  PROVE  UNCHANGED Serial!vars
<1> DEFINE a == acct[c]
<1>1. /\ pc[c] \in {"send", "resend"} /\ GoTo(c, "recover")
      /\ UNCHANGED <<store, lock, acct, orig, tok, issued, live, orphaned>>
  BY DEF Rejected
<1>2. a \in Accounts /\ Using(a) = orig[c] /\ AnswerFor(a) = NoRow
  BY <1>1, SenderUses
<1>3. /\ Usings' = [Usings EXCEPT ![a] = orig[c]]
      /\ Answers' = [Answers EXCEPT ![a] = NoRow]
  BY <1>1, CriticalStep DEF Critical, Steps
<1>4. Usings' = Usings /\ Answers' = Answers
  BY <1>2, <1>3 DEF Usings, Answers
<1> QED
  BY <1>1, <1>4 DEF Serial!vars, Usings, Answers

LEMMA RecoverGivesUp ==
  ASSUME SInv, SInv', NEW c \in Callers, Recover(c)
  PROVE  Serial!GiveUp(acct[c])
<1> DEFINE a == acct[c]
<1>1. /\ pc[c] = "recover" /\ (Finish(c, "ok") \/ Finish(c, "err"))
      /\ UNCHANGED <<store, acct, orig, issued, live, orphaned>>
      /\ tok' = tok \/ tok' = [tok EXCEPT ![c] = store[a]]
  BY DEF Recover
<1>2. \A d \in Callers \ {c} : tok'[d] = tok[d]
  BY <1>1 DEF SInv, IInv, TypeOK
<1>3. a \in Accounts /\ Using(a) # NoRow /\ AnswerFor(a) = NoRow
  BY <1>1, SenderUses
<1>4. /\ Usings' = [Usings EXCEPT ![a] = NoRow]
      /\ Answers' = [Answers EXCEPT ![a] = NoRow]
  BY <1>1, <1>2, CriticalStep DEF Critical, Steps, Finish
<1>5. Answers' = Answers
  BY <1>3, <1>4 DEF Answers
<1> QED
  BY <1>1, <1>3, <1>4, <1>5 DEF Serial!GiveUp, Usings, Answers

LEMMA PersistEnds ==
  ASSUME SInv, SInv', NEW c \in Callers, Persist(c) \/ PersistFails(c)
  PROVE  Serial!Store(acct[c]) \/ Serial!DropAnswer(acct[c])
<1> DEFINE a == acct[c]
<1>1. /\ pc[c] = "persist" /\ (Finish(c, "ok") \/ Finish(c, "err"))
      /\ UNCHANGED <<acct, orig, tok, issued, live>>
  BY DEF Persist, PersistFails
<1>2. /\ a \in Accounts
      /\ Using(a) = orig[c] /\ AnswerFor(a) = tok[c]
      /\ Usings' = [Usings EXCEPT ![a] = NoRow]
      /\ Answers' = [Answers EXCEPT ![a] = NoRow]
  BY <1>1, CriticalStep DEF Critical, Steps, Finish, SInv, IInv, TypeOK
<1>3. tok[c] # NoRow
  BY NullAssumption DEF SInv, IInv, TypeOK, Token
<1>4. CASE Persist(c)
  <2>1. /\ store[a] # NoRow /\ store' = [store EXCEPT ![a] = AnswerFor(a)]
        /\ UNCHANGED orphaned
    BY <1>2, <1>4 DEF Persist
  <2> QED
    BY <1>1, <1>2, <1>3, <2>1 DEF Serial!Store, Usings, Answers
<1>5. CASE PersistFails(c)
  <2>1. /\ UNCHANGED store
        /\ orphaned' = [orphaned EXCEPT ![a] = @ \cup ({Using(a).refresh} \ live[a])]
    BY <1>2, <1>5 DEF PersistFails
  <2> QED
    BY <1>1, <1>2, <1>3, <2>1 DEF Serial!DropAnswer, Serial!Wasted, Usings, Answers
<1> QED
  BY <1>4, <1>5

\* Where a call is under way, and no account's lock changes hands
LEMMA OutsideSeen ==
  ASSUME SInv, UNCHANGED <<lock, pc, orig, tok>>
  PROVE  UNCHANGED <<Usings, Answers>>
BY DEF Usings, Answers, Using, AnswerFor

\* A crash drops the answers in hand of all accounts at once.
LEMMA CrashDrops ==
  ASSUME SInv, Crash
  PROVE  Serial!Crash
<1> USE NullAssumption DEF SInv, IInv, TypeOK, LockHeld, HolderInside
<1>1. \A a \in Accounts : Using(a)' = NoRow /\ AnswerFor(a)' = NoRow
  BY DEF Crash, Using, AnswerFor
<1>2. ASSUME NEW a \in Accounts
      PROVE  InHand(a) = IF AnswerFor(a) = NoRow THEN {} ELSE {Using(a).refresh}
  <2>1. CASE lock[a] # Nobody /\ pc[lock[a]] = "persist"
    <3>1. lock[a] \in Callers /\ Answered(lock[a], a)
      BY <2>1 DEF Answered
    <3>2. \A c \in Callers : Answered(c, a) => c = lock[a]
      BY DEF Answered, Critical
    <3>3. AnswerFor(a) = tok[lock[a]] /\ AnswerFor(a) # NoRow /\ Using(a) = orig[lock[a]]
      BY <2>1, <3>1 DEF AnswerFor, Using, Token, Critical
    <3>4. {d \in Callers : Answered(d, a)} = {lock[a]}
      BY <3>1, <3>2
    <3>5. InHand(a) = {orig[lock[a]].refresh}
      BY <3>4 DEF InHand
    <3> QED
      BY <3>3, <3>5
  <2>2. CASE ~(lock[a] # Nobody /\ pc[lock[a]] = "persist")
    <3>1. \A c \in Callers : ~Answered(c, a)
      BY <2>2 DEF Answered, Critical
    <3>2. InHand(a) = {}
      BY <3>1 DEF InHand
    <3> QED
      BY <2>2, <3>2 DEF AnswerFor
  <2> QED
    BY <2>1, <2>2
<1> HIDE DEF SInv, IInv, TypeOK, LockHeld, HolderInside
<1>3. orphaned' = [a \in Accounts |-> orphaned[a] \cup
          (IF AnswerFor(a) = NoRow THEN {} ELSE {Using(a).refresh} \ live[a])]
  BY <1>2 DEF Crash
<1> QED
  BY <1>1, <1>3 DEF Crash, Serial!Crash, Serial!Wasted

\* Every step of TokenRefresh is one of SerialRefresh, or is not seen.
LEMMA SerialStep ==
  ASSUME SInv, SInv', [Next]_vars
  PROVE  [Serial!Next]_(Serial!vars)
<1>1. ASSUME NEW c \in Callers, pc[c] \in Critical, CallStep(c)
      PROVE  \/ \E a \in Accounts :
                  \/ Serial!Start(a) \/ Serial!Exchange(a) \/ Serial!LoseAnswer(a)
                  \/ Serial!GiveUp(a) \/ Serial!Store(a) \/ Serial!DropAnswer(a)
             \/ UNCHANGED Serial!vars
  <2>1. acct[c] \in Accounts
    BY DEF SInv, IInv, TypeOK
  <2>2. CASE KeepOwn(c)
    BY <2>1, <2>2, KeepOwnStarts
  <2>3. CASE Granted(c)
    BY <2>1, <2>3, GrantedExchanges
  <2>4. CASE SendAgain(c)
    BY <2>1, <2>4, SendAgainSeen
  <2>5. CASE SendFails(c)
    BY <2>1, <2>5, SendFailsSeen
  <2>6. CASE AdoptLatest(c) \/ RereadFails(c)
    BY <2>6, AdoptUnseen
  <2>7. CASE Rejected(c)
    BY <2>7, RejectedUnseen
  <2>8. CASE Recover(c)
    BY <2>1, <2>8, RecoverGivesUp
  <2>9. CASE Persist(c) \/ PersistFails(c)
    BY <2>1, <2>9, PersistEnds
  <2>10. ~Acquire(c) /\ ~Return(c)
    BY <1>1 DEF Acquire, Return, Critical
  <2> QED
    BY <1>1, <2>2, <2>3, <2>4, <2>5, <2>6, <2>7, <2>8, <2>9, <2>10 DEF CallStep
<1>2. ASSUME NEW c \in Callers, Acquire(c) \/ Return(c) \/ \E a \in Accounts : Begin(c, a)
      PROVE  UNCHANGED Serial!vars
  <2>1. UNCHANGED <<store, issued, live, orphaned>>
    BY <1>2 DEF Acquire, Return, Begin
  <2>2. CASE Acquire(c)
    BY <2>1, <2>2, AcquireUnseen DEF Serial!vars, Usings, Answers
  <2>3. CASE Return(c) \/ \E a \in Accounts : Begin(c, a)
    <3>1. /\ pc[c] \notin Critical /\ UNCHANGED lock
          /\ \A d \in Callers \ {c} : pc'[d] = pc[d] /\ orig'[d] = orig[d] /\ tok'[d] = tok[d]
      BY <2>3 DEF Return, Begin, GoTo, Critical, SInv, IInv, TypeOK
    <3> QED
      BY <2>1, <3>1, OtherStep DEF Serial!vars, Usings, Answers
  <2> QED
    BY <1>2, <2>2, <2>3
<1>3. ASSUME NEW c \in Callers, CallStep(c)
      PROVE  pc[c] \in Critical \/ Acquire(c) \/ Return(c)
  BY <1>3 DEF CallStep, AdoptLatest, KeepOwn, RereadFails, Granted, Rejected, SendAgain,
     SendFails, Recover, Persist, PersistFails, Critical
<1>4. ASSUME NEW a \in Accounts, Login(a) \/ Delete(a)
      PROVE  Serial!Login(a) \/ Serial!Delete(a)
  <2>1. UNCHANGED <<lock, pc, orig, tok>>
    BY <1>4 DEF Login, Delete
  <2>2. UNCHANGED <<Usings, Answers>>
    BY <2>1, OutsideSeen
  <2>3. CASE Login(a)
    BY <2>2, <2>3 DEF Login, Serial!Login, Usings, Answers
  <2>4. CASE Delete(a)
    BY <2>2, <2>4 DEF Delete, Serial!Delete, Usings, Answers
  <2> QED
    BY <1>4, <2>3, <2>4
<1>5. CASE Crash
  BY <1>5, CrashDrops DEF Serial!Next
<1>6. CASE UNCHANGED vars
  <2>1. UNCHANGED <<Usings, Answers>>
    BY <1>6, OutsideSeen DEF vars
  <2> QED
    BY <1>6, <2>1 DEF vars, Serial!vars, Usings, Answers
<1>7. CASE \E c \in Callers : CallStep(c) \/ \E a \in Accounts : Begin(c, a)
  BY <1>1, <1>2, <1>3, <1>7 DEF Serial!Next
<1>8. CASE \E a \in Accounts : Login(a) \/ Delete(a)
  BY <1>4, <1>8 DEF Serial!Next
<1> QED
  BY <1>5, <1>6, <1>7, <1>8 DEF Next

\* Callers, locks and second looks at the row make refresh_and_persist_access_token
\* exchange each account's tokens one after the other, as SerialRefresh says: for any
\* number of threads and accounts, and whatever fails.
THEOREM RefreshImplementsSerial == Spec => RefreshIsSerial
<1>1. Spec => []SInv
  BY InitSerial, NextSerial, PTL DEF Spec
<1>2. Init => Serial!Init
  BY SerialInit
<1>3. SInv /\ SInv' /\ [Next]_vars => [Serial!Next]_(Serial!vars)
  BY SerialStep
<1> QED
  BY <1>1, <1>2, <1>3, PTL DEF Spec, RefreshIsSerial, Serial!Spec

\* The lock of an account is taken exactly while one call exchanges its token: two
\* calls are never inside for one account, and no failure, deletion or crash leaves the
\* lock behind without a call that is on its way to release it.
LockExact ==
  \A a \in Accounts, c \in Callers : lock[a] = c <=> pc[c] \in Critical /\ acct[c] = a

THEOREM LocksAreExact == Spec => []LockExact
<1>1. SInv => LockExact
  BY NullAssumption DEF SInv, IInv, TypeOK, LockHeld, HolderInside, LockExact
<1> QED
  BY InitSerial, NextSerial, <1>1, PTL DEF Spec

-----------------------------------------------------------------------------
(***************************************************************************)
(* What LockReleased needs besides the fairness of the calls: the holder   *)
(* of a lock has a few steps left to its release, every step it takes      *)
(* brings it nearer, and no step of anybody else takes it back.            *)
(***************************************************************************)
LockedStepsLeft(c) ==
  CASE pc[c] = "reread"               -> 4
    [] pc[c] = "send"                 -> 3
    [] pc[c] = "resend"               -> 2
    [] pc[c] \in {"recover", "persist"} -> 1
    [] OTHER                          -> 0

\* Under the lock nothing is tried again without end and nobody else is waited for: each
\* step of the holder releases the lock or leaves it fewer steps to take, and other calls,
\* logins and deletions leave the lock and the holder where they are.
HolderCountsDown ==
  [][\A a \in Accounts, c \in Callers :
       lock[a] = c =>
         \/ lock'[a] = Nobody
         \/ /\ lock'[a] = c
            /\ \/ LockedStepsLeft(c)' < LockedStepsLeft(c)
               \/ UNCHANGED pc[c] /\ ~CallStep(c)]_vars

\* A step of a call moves that call, and no other.
LEMMA CallMoves ==
  ASSUME TypeOK, NEW c \in Callers, CallStep(c)
  PROVE  /\ pc'[c] # pc[c]
         /\ \A d \in Callers \ {c} : pc'[d] = pc[d]
<1>1. \E step \in Steps : step # pc[c] /\ pc' = [pc EXCEPT ![c] = step]
  BY DEF CallStep, Acquire, AdoptLatest, KeepOwn, RereadFails, Granted, Rejected, SendAgain,
     SendFails, Recover, Persist, PersistFails, Return, GoTo, Finish, Steps, Critical
<1> QED
  BY <1>1 DEF TypeOK

\* A step of the holder brings it nearer to the release.
LEMMA HolderNearer ==
  ASSUME SInv, NEW a \in Accounts, NEW c \in Callers, lock[a] = c, CallStep(c)
  PROVE  \/ lock'[a] = Nobody
         \/ lock'[a] = c /\ LockedStepsLeft(c)' < LockedStepsLeft(c)
<1>1. acct[c] = a /\ pc[c] \in Critical
  BY NullAssumption DEF SInv, HolderInside
<1>2. CASE /\ \E step \in {"ok", "err"} : Finish(c, step)
  BY <1>1, <1>2 DEF Finish, SInv, IInv, TypeOK
<1>3. CASE KeepOwn(c) \/ Granted(c) \/ Rejected(c) \/ SendAgain(c)
  <2>1. lock'[a] = c
    BY <1>3 DEF KeepOwn, Granted, Rejected, SendAgain
  <2>2. LockedStepsLeft(c)' < LockedStepsLeft(c)
    BY <1>3 DEF KeepOwn, Granted, Rejected, SendAgain, GoTo, LockedStepsLeft, SInv, IInv, TypeOK
  <2> QED
    BY <2>1, <2>2
<1>4. ~Acquire(c) /\ ~Return(c)
  BY <1>1 DEF Acquire, Return, Critical
<1> QED
  BY <1>2, <1>3, <1>4
     DEF CallStep, AdoptLatest, RereadFails, SendFails, Recover, Persist, PersistFails

\* A step of another call leaves the lock and its holder alone.
LEMMA OthersLeaveLock ==
  ASSUME SInv, NEW a \in Accounts, NEW c \in Callers, lock[a] = c,
         NEW d \in Callers, d # c, CallStep(d) \/ \E b \in Accounts : Begin(d, b)
  PROVE  lock'[a] = c /\ UNCHANGED pc[c]
<1>1. c # Nobody /\ acct[c] = a /\ pc[c] \in Critical
  BY NullAssumption DEF SInv, HolderInside
<1>2. pc[d] \in Critical => acct[d] # a
  BY DEF SInv, IInv, LockHeld
<1>3. CASE \E b \in Accounts : Begin(d, b)
  BY <1>3 DEF Begin, GoTo, SInv, IInv, TypeOK
<1>4. CASE CallStep(d)
  <2>1. UNCHANGED pc[c]
    BY <1>4, CallMoves DEF SInv, IInv
  <2>2. CASE Acquire(d)
    BY <1>1, <2>1, <2>2 DEF Acquire, SInv, IInv, TypeOK
  <2>3. CASE UNCHANGED lock
    BY <2>1, <2>3
  <2>4. CASE pc[d] \in Critical /\ lock' = [lock EXCEPT ![acct[d]] = Nobody]
    BY <1>2, <2>1, <2>4 DEF SInv, IInv, TypeOK
  <2> QED
    BY <1>4, <2>2, <2>3, <2>4
       DEF CallStep, AdoptLatest, KeepOwn, RereadFails, Granted, Rejected, SendAgain,
           SendFails, Recover, Persist, PersistFails, Return, Finish, Critical
<1> QED
  BY <1>3, <1>4

\* refresh_and_persist_access_token holds an account's lock for at most four steps of its
\* own after it has taken it, for any number of threads and accounts: what is left to
\* LockReleased is that the holder's thread runs.
THEOREM HoldersCountDown == Spec => HolderCountsDown
<1>1. ASSUME SInv, [Next]_vars
      PROVE  [\A a \in Accounts, c \in Callers :
                lock[a] = c =>
                  \/ lock'[a] = Nobody
                  \/ /\ lock'[a] = c
                     /\ \/ LockedStepsLeft(c)' < LockedStepsLeft(c)
                        \/ UNCHANGED pc[c] /\ ~CallStep(c)]_vars
  <2> SUFFICES ASSUME Next, NEW a \in Accounts, NEW c \in Callers, lock[a] = c
               PROVE  \/ lock'[a] = Nobody
                      \/ /\ lock'[a] = c
                         /\ \/ LockedStepsLeft(c)' < LockedStepsLeft(c)
                            \/ UNCHANGED pc[c] /\ ~CallStep(c)
    BY <1>1 DEF vars
  <2>0. TypeOK
    BY <1>1 DEF SInv, IInv
  <2>1. CASE CallStep(c)
    BY <1>1, <2>1, HolderNearer
  <2>2. CASE ~CallStep(c) /\ \E d \in Callers : CallStep(d) \/ \E b \in Accounts : Begin(d, b)
    <3>1. ~\E b \in Accounts : Begin(c, b)
      BY <1>1, NullAssumption DEF Begin, SInv, HolderInside, Critical
    <3> QED
      BY <1>1, <2>2, <3>1, OthersLeaveLock
  <2>3. CASE ~CallStep(c) /\ \E b \in Accounts : Login(b) \/ Delete(b)
    BY <2>3 DEF Login, Delete
  <2>4. CASE Crash
    BY <2>4 DEF Crash
  <2> QED
    BY <1>1, <2>1, <2>2, <2>3, <2>4 DEF Next
<1> QED
  BY InitSerial, NextSerial, <1>1, PTL DEF Spec, HolderCountsDown
=============================================================================
