--------------------------- MODULE GatewayProofs ---------------------------
(***************************************************************************)
(* What Gateway promises, for any number of requests, accounts and         *)
(* aggregate APIs and whatever the upstreams answer.  The invariant says   *)
(* where a request can be with what in its hands (Placed): a guard while   *)
(* it is at an upstream, and no answer given before it is delivered.       *)
(***************************************************************************)
EXTENDS Gateway, FiniteSetTheorems, SequenceTheorems, TLAPS

AtUpstream == {"sent", "answered", "serving"}

Placed(r) ==
  /\ pc[r] \in {"gate", "chosen", "sent", "answered"} => queue[r] # <<>>
  /\ pc[r] \in {"sent", "answered"} => guard[r] = Serving(r)
  /\ pc[r] = "serving" => guard[r] = Key
  /\ pc[r] \notin AtUpstream => guard[r] = None
  /\ pc[r] \in {"new", "gate", "api"} \cup AtUpstream => reply[r] = "none"

Holders(a) == {r \in Requests : guard[r] = a}

Counted == \A a \in Accounts \cup {Key} : inflight[a] = Cardinality(Holders(a))

GateHeld == gate # None => pc[gate] \notin Ended \cup {"new", "gate"}

\* Only an Anthropic request's last candidate can be skipped, whatever the route.
RunsOut ==
  \A r \in Requests :
    pc[r] = "loop" /\ queue[r] = <<>> /\ reply[r] = "none" => plan[r].anthropic

IInv ==
  /\ TypeOK
  /\ \A r \in Requests : Placed(r)
  /\ Counted /\ GateHeld
  /\ RunsOut /\ BindingWasServed

Pcs == {"new", "gate", "loop", "chosen", "sent", "answered", "api", "serving"} \cup Ended
Replies == {"none", "local", "noAccount", "upstream", "suppressed", "dropped"}

LEMMA Initial == Init => IInv
<1> SUFFICES ASSUME Init PROVE IInv
  OBVIOUS
<1> USE GatewayAssumption
<1>1. TypeOK
  BY DEF Init, TypeOK
<1>2. \A r \in Requests : Placed(r)
  BY DEF Init, Placed, AtUpstream
<1>3. Counted
  <2>1. \A a \in Accounts \cup {Key} : Holders(a) = {}
    BY DEF Init, Holders
  <2> QED
    BY <2>1, FS_EmptySet DEF Init, Counted
<1>4. GateHeld /\ RunsOut /\ BindingWasServed
  BY DEF Init, GateHeld, RunsOut, BindingWasServed
<1> QED
  BY <1>1, <1>2, <1>3, <1>4 DEF IInv

-----------------------------------------------------------------------------
\* What is left of a list of candidates without its first is one again, or nothing.
LEMMA RestOfList ==
  ASSUME NEW q \in Lists
  PROVE  q # <<>> /\ Head(q) \in Accounts /\ Tail(q) \in Lists \cup {<<>>}
<1>1. PICK n \in 1..Cardinality(Accounts) : q \in [1..n -> Accounts] /\ IsInjective(q)
  BY DEF Lists
<1>2. n \in Nat \ {0} /\ Cardinality(Accounts) \in Nat
  BY FS_CardinalityType, GatewayAssumption
<1>3. q \in Seq(Accounts) /\ Len(q) = n
  BY <1>1, <1>2
<1>4. q # <<>> /\ Head(q) \in Accounts
  BY <1>2, <1>3
<1> DEFINE T == Tail(q)
<1>5. T \in Seq(Accounts) /\ Len(T) = n - 1 /\ \A i \in 1..(n - 1) : T[i] = q[i + 1]
  BY <1>2, <1>3, <1>4
<1> HIDE DEF T
<1>6. CASE n = 1
  <2>1. T = <<>>
    BY <1>5, <1>6
  <2> QED
    BY <1>4, <2>1 DEF T
<1>7. CASE n # 1
  <2>1. T \in [1..(n - 1) -> Accounts] /\ \A i \in 1..(n - 1) : T[i] = q[i + 1]
    BY <1>2, <1>5
  <2>2. IsInjective(T)
    <3>1. DOMAIN T = 1..(n - 1) /\ DOMAIN q = 1..n
      BY <1>1, <2>1
    <3> SUFFICES ASSUME NEW i \in 1..(n - 1), NEW j \in 1..(n - 1), T[i] = T[j] PROVE i = j
      BY <3>1 DEF IsInjective
    <3>2. q[i + 1] = q[j + 1] /\ i + 1 \in 1..n /\ j + 1 \in 1..n
      BY <1>2, <2>1
    <3>3. i + 1 = j + 1
      BY <1>1, <3>1, <3>2 DEF IsInjective
    <3> QED
      BY <3>3
  <2>3. n - 1 \in 1..Cardinality(Accounts)
    BY <1>2, <1>7
  <2> QED
    BY <1>4, <2>1, <2>2, <2>3 DEF Lists, T
<1> QED
  BY <1>6, <1>7

\* The counters follow the guards: nobody's changes, ...
LEMMA CountsStay ==
  ASSUME Counted, UNCHANGED <<guard, inflight>>
  PROVE  Counted'
BY DEF Counted, Holders

\* ... a request takes one, ...
LEMMA CountsTake ==
  ASSUME IInv, NEW r \in Requests, NEW a \in Accounts \cup {Key}, guard[r] = None,
         guard' = [guard EXCEPT ![r] = a], inflight' = [inflight EXCEPT ![a] = @ + 1]
  PROVE  Counted' /\ inflight' \in [Accounts \cup {Key} -> Nat]
<1> USE GatewayAssumption DEF IInv, TypeOK
<1>1. \A b \in Accounts \cup {Key} : IsFiniteSet(Holders(b)) /\ inflight[b] = Cardinality(Holders(b))
  <2> SUFFICES ASSUME NEW b \in Accounts \cup {Key} PROVE IsFiniteSet(Holders(b))
    BY DEF Counted
  <2>1. Holders(b) \in SUBSET Requests
    BY DEF Holders
  <2> QED
    BY <2>1, FS_Subset
<1>2. Holders(a)' = Holders(a) \cup {r} /\ r \notin Holders(a)
  BY DEF Holders
<1>3. \A b \in Accounts \cup {Key} : b # a => Holders(b)' = Holders(b)
  BY DEF Holders
<1>4. Cardinality(Holders(a) \cup {r}) = Cardinality(Holders(a)) + 1
  BY <1>1, <1>2, FS_AddElement
<1>5. ASSUME NEW b \in Accounts \cup {Key}
      PROVE  inflight'[b] = Cardinality(Holders(b)') /\ inflight'[b] \in Nat
  <2>1. CASE b = a
    <3>1. inflight'[b] = inflight[a] + 1 /\ Holders(b)' = Holders(a) \cup {r}
      BY <1>2, <2>1
    <3> QED
      BY <1>1, <1>4, <3>1
  <2>2. CASE b # a
    BY <1>1, <1>3, <2>2
  <2> QED
    BY <2>1, <2>2
<1> QED
  BY <1>5 DEF Counted

\* ... or gives its own back.
LEMMA CountsDrop ==
  ASSUME IInv, NEW r \in Requests, guard[r] # None,
         guard' = [guard EXCEPT ![r] = None], inflight' = [inflight EXCEPT ![guard[r]] = @ - 1]
  PROVE  Counted' /\ inflight' \in [Accounts \cup {Key} -> Nat]
<1> USE GatewayAssumption DEF IInv, TypeOK
<1> DEFINE a == guard[r]
<1>1. \A b \in Accounts \cup {Key} : IsFiniteSet(Holders(b)) /\ inflight[b] = Cardinality(Holders(b))
  <2> SUFFICES ASSUME NEW b \in Accounts \cup {Key} PROVE IsFiniteSet(Holders(b))
    BY DEF Counted
  <2>1. Holders(b) \in SUBSET Requests
    BY DEF Holders
  <2> QED
    BY <2>1, FS_Subset
<1>2. a \in Accounts \cup {Key}
  OBVIOUS
<1>3. {q \in Requests : guard'[q] = a} = Holders(a) \ {r} /\ r \in Holders(a)
  BY DEF Holders
<1>4. \A b \in Accounts \cup {Key} : b # a => Holders(b)' = Holders(b)
  BY DEF Holders
<1>5. /\ IsFiniteSet(Holders(a) \ {r})
      /\ Cardinality(Holders(a) \ {r}) = Cardinality(Holders(a)) - 1
  BY <1>1, <1>2, <1>3, FS_RemoveElement
<1>6. Cardinality(Holders(a) \ {r}) \in Nat
  BY <1>5, FS_CardinalityType
<1>7. ASSUME NEW b \in Accounts \cup {Key}
      PROVE  inflight'[b] = Cardinality(Holders(b)') /\ inflight'[b] \in Nat
  <2>1. CASE b = a
    <3>1. inflight'[b] = inflight[a] - 1 /\ Holders(b)' = Holders(a) \ {r}
      BY <1>2, <1>3, <2>1 DEF Holders
    <3> QED
      BY <1>1, <1>2, <1>5, <1>6, <3>1
  <2>2. CASE b # a
    BY <1>1, <1>4, <2>2
  <2> QED
    BY <2>1, <2>2
<1> QED
  BY <1>7 DEF Counted

-----------------------------------------------------------------------------
\* The situations of an attempt that does not fail over
Staying == [got : Answers \cup {"none"}, exit : {"go", "terminal", "respond"},
            cool : {"keep", "mark", "clear"}]

LEMMA StayingSteps ==
  ASSUME NEW s \in Staying
  PROVE  /\ Marked(s) \in Staying
         /\ \A e \in {"go", "terminal", "respond"} : Exit(s, e) \in Staying /\ FollowUp(s, e, FALSE) \in Staying
         /\ Answered(s) \subseteq Staying
         /\ [s EXCEPT !.cool = "clear"] \in Staying /\ [s EXCEPT !.got = "ok"] \in Staying
BY DEF Staying, Marked, Exit, FollowUp, Answered, Answers

\* No stage of an attempt at the last candidate fails over.
LEMMA StagesStay ==
  ASSUME NEW s \in Staying, NEW base
  PROVE  /\ Cloudflare(s, FALSE) \subseteq Staying
         /\ Unauthorized(s) \subseteq Staying
         /\ AltPath(s, FALSE) \subseteq Staying
         /\ ServerError(s) \subseteq Staying
         /\ Uncompressed(s, base) \subseteq Staying
         /\ Stateless(s, base) \subseteq Staying
         /\ Outcome(s, base, FALSE) \subseteq Staying
<1> DEFINE Exits == {"go", "terminal", "respond"}
<1>a. Marked(s) \in Staying
  BY StayingSteps
<1>b. \A t \in Staying : \A e \in Exits : FollowUp(t, e, FALSE) \in Staying
  BY StayingSteps
<1>1. /\ Marked(s) \in Staying
      /\ \A e \in Exits : Exit(s, e) \in Staying
      /\ \A e \in Exits : FollowUp(Marked(s), e, FALSE) \in Staying
      /\ Answered(s) \subseteq Staying
      /\ [s EXCEPT !.got = "ok"] \in Staying
  BY <1>a, <1>b, StayingSteps
<1>2. [Exit(s, "respond") EXCEPT !.cool = "clear"] \in Staying
  BY <1>1, StayingSteps
<1>3. Cloudflare(s, FALSE) \subseteq Staying
  BY DEF Cloudflare
<1>4. Unauthorized(s) \subseteq Staying
  BY <1>1 DEF Unauthorized
<1>5. AltPath(s, FALSE) \subseteq Staying
  BY <1>1 DEF AltPath
<1>6. ServerError(s) \subseteq Staying
  BY <1>1 DEF ServerError
<1>7. Uncompressed(s, base) \subseteq Staying
  BY <1>1 DEF Uncompressed
<1>8. Stateless(s, base) \subseteq Staying
  BY <1>1 DEF Stateless
<1>9. Outcome(s, base, FALSE) \subseteq Staying
  <2> DEFINE respond == Exit(s, "respond")
             blame == FollowUp(Marked(s), "respond", FALSE)
             clear == [respond EXCEPT !.cool = "clear"]
  <2>1. respond \in Staying /\ blame \in Staying /\ clear \in Staying
    BY <1>1, <1>2
  <2> HIDE DEF respond, blame, clear
  <2>2. Outcome(s, base, FALSE) \in {{respond}, {blame}, {clear}, {respond, blame}}
    BY DEF Outcome, respond, blame, clear
  <2> QED
    BY <2>1, <2>2
<1> QED
  BY <1>3, <1>4, <1>5, <1>6, <1>7, <1>8, <1>9

LEMMA LastStays ==
  ASSUME NEW anthropic \in BOOLEAN
  PROVE  \A s \in Attempts[FALSE][anthropic] : s.exit # "failover"
<1>1. Fresh \in Staying
  BY DEF Fresh, Staying
<1>2. Primary(FALSE) \subseteq Staying
  BY <1>1, StayingSteps DEF Primary
<1>3. ASSUME NEW base PROVE PostRetry(Primary(FALSE), base, FALSE, anthropic) \subseteq Staying
  <2> DEFINE a == Through(Primary(FALSE), LAMBDA s : Cloudflare(s, FALSE))
             b == Through(a, Unauthorized)
             c == Through(b, LAMBDA s : AltPath(s, FALSE))
             d == Through(c, ServerError)
             e == Through(d, LAMBDA s : Uncompressed(s, base))
             f == Through(e, LAMBDA s : Stateless(s, base))
             g == Through(f, LAMBDA s : {IF anthropic /\ s.got = "challenge" THEN Marked(s) ELSE s})
             h == Through(g, LAMBDA s : Outcome(s, base, FALSE))
  <2>1. a \subseteq Staying
    BY <1>2, StagesStay DEF Through
  <2> HIDE DEF a
  <2>2. b \subseteq Staying
    BY <2>1, StagesStay DEF Through
  <2> HIDE DEF b
  <2>3. c \subseteq Staying
    BY <2>2, StagesStay DEF Through
  <2> HIDE DEF c
  <2>4. d \subseteq Staying
    BY <2>3, StagesStay DEF Through
  <2> HIDE DEF d
  <2>5. e \subseteq Staying
    <3>1. \A s \in Staying : Uncompressed(s, base) \subseteq Staying
      BY StagesStay
    <3> QED
      BY <2>4, <3>1 DEF Through
  <2> HIDE DEF e
  <2>6. f \subseteq Staying
    <3>1. \A s \in Staying : Stateless(s, base) \subseteq Staying
      BY StagesStay
    <3> QED
      BY <2>5, <3>1 DEF Through
  <2> HIDE DEF f
  <2>7. g \subseteq Staying
    BY <2>6, StayingSteps DEF Through
  <2> HIDE DEF g
  <2>8. h \subseteq Staying
    <3>1. \A s \in Staying : Outcome(s, base, FALSE) \subseteq Staying
      BY StagesStay
    <3> QED
      BY <2>7, <3>1 DEF Through
  <2>9. PostRetry(Primary(FALSE), base, FALSE, anthropic) = h
    BY DEF PostRetry, a, b, c, d, e, f, g
  <2> QED
    BY <2>8, <2>9
<1>4. OpenAiBase(FALSE) \subseteq Staying
  <2>1. Answered(Fresh) \subseteq Staying
    BY <1>1, StayingSteps
  <2>2. Through(Answered(Fresh), LAMBDA s : Outcome(s, "openai", FALSE)) \subseteq Staying
    BY <2>1, StagesStay DEF Through
  <2>3. /\ Exit(Marked(Fresh), "terminal") \in Staying
        /\ FollowUp(Marked(Fresh), "terminal", FALSE) \in Staying
    BY <1>1, StayingSteps
  <2> QED
    BY <2>2, <2>3 DEF OpenAiBase
<1> DEFINE All == UNION {IF base = "openai" THEN OpenAiBase(FALSE)
                         ELSE PostRetry(Primary(FALSE), base, FALSE, anthropic) : base \in Bases}
           View(s) == [exit |-> s.exit, cool |-> s.cool,
                       got |-> IF s.got \in {"ok", "bad"} THEN s.got ELSE "error"]
<1>5. All \subseteq Staying
  BY <1>3, <1>4
<1>6. Attempts[FALSE][anthropic] = {View(s) : s \in All}
  BY DEF Attempts
<1> HIDE DEF All
<1>7. \A s \in Staying : View(s).exit # "failover"
  BY DEF Staying
<1> QED
  BY <1>5, <1>6, <1>7

-----------------------------------------------------------------------------
\* What AnsweredOnce says of a step
NothingMore(r) ==
  reply[r] # "none" => reply'[r] = reply[r] /\ pc'[r] \notin {"sent", "serving"}

\* A step of r touches nothing of the other requests.
Untouched(r) ==
  \A q \in Requests \ {r} : /\ pc'[q] = pc[q] /\ plan'[q] = plan[q] /\ queue'[q] = queue[q]
                             /\ reply'[q] = reply[q] /\ got'[q] = got[q] /\ guard'[q] = guard[q]

Kept == IInv' /\ \A q \in Requests : NothingMore(q)

\* What a step of a running request has to show for itself
LEMMA StepKeeps ==
  ASSUME IInv, NEW r \in Requests, pc[r] \notin Ended, Untouched(r), NothingMore(r),
         TypeOK', Placed(r)', Counted',
         gate' \in {None, gate, r}, gate' = r => pc'[r] \notin Ended \cup {"new", "gate"},
         pc'[r] = "loop" /\ queue'[r] = <<>> /\ reply'[r] = "none" => plan'[r].anthropic,
         \/ binding' = binding
         \/ /\ pc'[r] = "done" /\ reply'[r] = "upstream" /\ got'[r] = "ok"
            /\ queue'[r] # <<>> /\ Head(queue'[r]) = binding'.account
  PROVE  Kept
<1>1. \A q \in Requests : Placed(q)'
  <2> SUFFICES ASSUME NEW q \in Requests \ {r} PROVE Placed(q)'
    OBVIOUS
  <2>1. Placed(q)
    BY DEF IInv
  <2> QED
    BY <2>1 DEF Untouched, Placed, Serving
<1>2. GateHeld'
  BY GatewayAssumption DEF IInv, TypeOK, GateHeld, Untouched
<1>3. RunsOut'
  BY DEF IInv, RunsOut, Untouched
<1>4. BindingWasServed'
  <2>1. CASE binding' = binding
    <3> SUFFICES ASSUME binding # None PROVE BindingWasServed'
      BY <2>1 DEF BindingWasServed
    <3>1. PICK q \in Requests :
            /\ pc[q] = "done" /\ reply[q] = "upstream" /\ got[q] = "ok"
            /\ queue[q] # <<>> /\ Serving(q) = binding.account
      BY DEF IInv, BindingWasServed
    <3>2. q # r
      BY <3>1 DEF Ended
    <3> QED
      BY <2>1, <3>1, <3>2 DEF BindingWasServed, Untouched, Serving
  <2>2. CASE binding' # binding
    BY <2>2 DEF BindingWasServed, Serving
  <2> QED
    BY <2>1, <2>2
<1>5. \A q \in Requests : NothingMore(q)
  <2> SUFFICES ASSUME NEW q \in Requests \ {r} PROVE NothingMore(q)
    OBVIOUS
  <2>1. pc'[q] = pc[q] /\ reply'[q] = reply[q]
    BY DEF Untouched
  <2>2. reply[q] # "none" => pc[q] \notin {"sent", "serving"}
    BY DEF IInv, Placed, AtUpstream
  <2> QED
    BY <2>1, <2>2 DEF NothingMore
<1> QED
  BY <1>1, <1>2, <1>3, <1>4, <1>5 DEF IInv, Kept

\* An end drops the guard and the gate, and leaves the request with an answer.
LEMMA EndKeeps ==
  ASSUME IInv, NEW r \in Requests, pc[r] \notin Ended,
         NEW p \in Ended, NEW answer \in Replies \ {"none"}, End(r, p, answer),
         reply[r] # "none" => answer = reply[r],
         UNCHANGED <<plan, queue, got>>,
         cooling' \subseteq Accounts,
         binding' \in {None} \cup [account : Accounts, epoch : Nat],
         \/ binding' = binding
         \/ /\ p = "done" /\ answer = "upstream" /\ got[r] = "ok"
            /\ queue[r] # <<>> /\ Serving(r) = binding'.account
  PROVE  Kept
<1> USE GatewayAssumption
<1>1. Counted' /\ inflight' \in [Accounts \cup {Key} -> Nat]
  <2>1. CASE guard[r] = None
    <3>1. guard' = guard /\ inflight' = inflight
      BY <2>1 DEF End, IInv, TypeOK
    <3> QED
      BY <3>1, CountsStay DEF IInv, TypeOK
  <2>2. CASE guard[r] # None
    BY <2>2, CountsDrop DEF End
  <2> QED
    BY <2>1, <2>2
<1>2. /\ pc'[r] = p /\ reply'[r] = answer /\ guard'[r] = None
      /\ gate' = IF gate = r THEN None ELSE gate
  BY DEF End, Goto, IInv, TypeOK
<1>3. Untouched(r)
  BY DEF Untouched, End, Goto, IInv, TypeOK
<1>4. TypeOK'
  BY <1>1 DEF End, Goto, IInv, TypeOK, Replies
<1>5. Placed(r)'
  BY <1>2 DEF Placed, AtUpstream, Ended
<1>6. NothingMore(r)
  BY <1>2 DEF NothingMore, Ended
<1>7. \/ binding' = binding
      \/ /\ pc'[r] = "done" /\ reply'[r] = "upstream" /\ got'[r] = "ok"
         /\ queue'[r] # <<>> /\ Head(queue'[r]) = binding'.account
  BY <1>2 DEF Serving
<1>8. pc'[r] # "loop" /\ gate' # r /\ gate' \in {None, gate, r}
  BY <1>2 DEF Ended, IInv, TypeOK
<1> QED
  BY <1>1, <1>3, <1>4, <1>5, <1>6, <1>7, <1>8, StepKeeps

LEMMA AggregatesKeep ==
  ASSUME IInv, NEW r \in Requests, pc[r] \in {"new", "loop"}, reply[r] = "none",
         ToAggregates(r), UNCHANGED <<plan, queue, got, cooling, binding>>
  PROVE  Kept
<1> USE GatewayAssumption
<1>1. CASE End(r, "done", "local")
  BY <1>1, EndKeeps DEF Ended, Replies, IInv, TypeOK
<1>2. ASSUME NEW n \in 1..MaxApis, apis' = [apis EXCEPT ![r] = n], Goto(r, "api"),
             UNCHANGED <<reply, guard, inflight, gate, again, bound, tries>>
      PROVE  Kept
  <2>1. pc'[r] = "api" /\ guard[r] = None
    BY <1>2 DEF Goto, IInv, TypeOK, Placed, AtUpstream
  <2>2. Untouched(r)
    BY <1>2 DEF Untouched, Goto, IInv, TypeOK
  <2>3. TypeOK'
    BY <1>2 DEF Goto, IInv, TypeOK
  <2>4. Placed(r)' /\ NothingMore(r)
    BY <1>2, <2>1 DEF Placed, AtUpstream, NothingMore
  <2>5. Counted'
    BY <1>2, CountsStay DEF IInv
  <2>6. /\ pc[r] \notin Ended /\ pc'[r] \notin Ended \cup {"new", "gate", "loop"}
        /\ gate' = gate /\ binding' = binding
    BY <1>2, <2>1 DEF Ended
  <2> QED
    BY <2>2, <2>3, <2>4, <2>5, <2>6, StepKeeps
<1> QED
  BY <1>1, <1>2 DEF ToAggregates

-----------------------------------------------------------------------------
\* Up to the gate
LEMMA RejectKeeps ==
  ASSUME IInv, NEW r \in Requests, Reject(r)
  PROVE  Kept
<1>1. pc[r] \notin Ended /\ reply[r] = "none"
  BY DEF Reject, Turn, Ended, IInv, Placed
<1> QED
  BY <1>1, EndKeeps DEF Reject, Turn, Ended, Replies, IInv, TypeOK

LEMMA ArrivalsKeep ==
  ASSUME IInv, NEW r \in Requests, ArriveAggregate(r) \/ ArriveEmpty(r)
  PROVE  Kept
<1>1. pc[r] = "new" /\ pc[r] \notin Ended /\ reply[r] = "none"
  BY DEF ArriveAggregate, ArriveEmpty, Turn, Ended, IInv, Placed
<1>2. UNCHANGED <<plan, queue, got, cooling, binding>>
  BY DEF ArriveAggregate, ArriveEmpty, Turn
<1>3. CASE ToAggregates(r)
  BY <1>1, <1>2, <1>3, AggregatesKeep
<1>4. CASE End(r, "done", "noAccount")
  BY <1>1, <1>2, <1>4, EndKeeps DEF Ended, Replies, IInv, TypeOK
<1> QED
  BY <1>3, <1>4 DEF ArriveAggregate, ArriveEmpty

LEMMA ArriveKeeps ==
  ASSUME IInv, NEW r \in Requests, Arrive(r)
  PROVE  Kept
<1> USE GatewayAssumption
<1>1. /\ pc[r] = "new" /\ pc'[r] = "gate" /\ pc' = [pc EXCEPT ![r] = "gate"]
      /\ UNCHANGED <<plan, reply, got, again, apis, tries, guard, inflight, gate, cooling, binding>>
  BY DEF Arrive, Turn, Goto, IInv, TypeOK
<1>2. PICK preferred \in Accounts \cup {None}, q \in Lists :
        queue' = [queue EXCEPT ![r] = q] /\ bound' = [bound EXCEPT ![r] = Bound(r, q)]
  BY DEF Arrive
<1>3. Bound(r, q) \in {None} \cup [account : Accounts, epoch : Nat, selectable : BOOLEAN]
  BY DEF Bound, IInv, TypeOK
<1>4. TypeOK'
  BY <1>1, <1>2, <1>3 DEF IInv, TypeOK
<1>5. Untouched(r)
  BY <1>1, <1>2 DEF Untouched, IInv, TypeOK
<1>6. queue'[r] # <<>>
  BY <1>2, RestOfList DEF IInv, TypeOK
<1>7. Placed(r)' /\ NothingMore(r)
  BY <1>1, <1>6 DEF Placed, AtUpstream, NothingMore, IInv
<1>8. Counted'
  BY <1>1, CountsStay DEF IInv
<1>9. gate' = gate /\ gate' # r /\ binding' = binding /\ pc[r] \notin Ended /\ pc'[r] # "loop"
  BY <1>1 DEF IInv, GateHeld, Ended
<1> QED
  BY <1>4, <1>5, <1>7, <1>8, <1>9, StepKeeps

LEMMA EnterGateKeeps ==
  ASSUME IInv, NEW r \in Requests, EnterGate(r)
  PROVE  Kept
<1> USE GatewayAssumption
<1>1. /\ pc[r] = "gate" /\ pc'[r] = "loop" /\ pc' = [pc EXCEPT ![r] = "loop"]
      /\ gate' \in {r, gate} /\ queue'[r] # <<>> /\ reply[r] = "none"
      /\ UNCHANGED <<reply, guard, plan, queue, got, again, bound, apis, tries, cooling, inflight, binding>>
  BY DEF EnterGate, Goto, IInv, TypeOK, Placed, local, stack
<1>2. TypeOK'
  BY <1>1 DEF IInv, TypeOK
<1>3. Untouched(r)
  BY <1>1 DEF Untouched, IInv, TypeOK
<1>4. Placed(r)' /\ NothingMore(r)
  BY <1>1 DEF Placed, AtUpstream, NothingMore, IInv
<1>5. Counted'
  BY <1>1, CountsStay DEF IInv
<1>6. /\ gate' \in {None, gate, r}
      /\ pc'[r] \notin Ended \cup {"new", "gate"} /\ pc[r] \notin Ended
  BY <1>1 DEF Ended
<1> QED
  BY <1>1, <1>2, <1>3, <1>4, <1>5, <1>6, StepKeeps

-----------------------------------------------------------------------------
\* The loop over the candidates
LEMMA TimeOutKeeps ==
  ASSUME IInv, NEW r \in Requests, TimeOut(r)
  PROVE  Kept
<1>1. pc[r] = "loop" /\ pc[r] \notin Ended /\ reply[r] \in Replies
  BY DEF TimeOut, Looping, Ended, IInv, TypeOK, Replies
<1>2. UNCHANGED <<plan, queue, got, cooling, binding>>
  BY DEF TimeOut
<1>3. CASE reply[r] = "none"
  <2>1. End(r, "done", "local")
    BY <1>3 DEF TimeOut
  <2> QED
    BY <1>1, <1>2, <1>3, <2>1, EndKeeps DEF Ended, Replies, IInv, TypeOK
<1>4. CASE reply[r] # "none"
  <2>1. End(r, "failed", reply[r])
    BY <1>4 DEF TimeOut
  <2> QED
    BY <1>1, <1>2, <1>4, <2>1, EndKeeps DEF Ended, IInv, TypeOK
<1> QED
  BY <1>3, <1>4

\* A list whose first is left still has one to try, if there was more than one.
LEMMA MoreRemain ==
  ASSUME IInv, NEW r \in Requests, queue[r] # <<>>
  PROVE  /\ queue[r] \in Lists /\ Serving(r) \in Accounts
         /\ Tail(queue[r]) \in Lists \cup {<<>>}
         /\ More(r) => Tail(queue[r]) # <<>>
<1>1. queue[r] \in Lists
  BY DEF IInv, TypeOK
<1>2. queue[r] \in Seq(Accounts)
  <2>1. PICK n \in 1..Cardinality(Accounts) : queue[r] \in [1..n -> Accounts]
    BY <1>1 DEF Lists
  <2>2. n \in Nat
    BY FS_CardinalityType, GatewayAssumption
  <2> QED
    BY <2>1, <2>2
<1> DEFINE rest == Tail(queue[r])
           n == Len(queue[r])
<1>3. n \in Nat /\ (n > 1 => rest \in Seq(Accounts) /\ Len(rest) = n - 1)
  BY <1>2
<1>4. \A s \in Seq(Accounts) : s = <<>> => Len(s) = 0
  BY EmptySeq
<1>5. More(r) => rest # <<>>
  <2>1. More(r) => n > 1
    BY DEF More
  <2> HIDE DEF rest, n
  <2> QED
    BY <1>3, <1>4, <2>1
<1> QED
  BY <1>1, <1>5, RestOfList DEF Serving

LEMMA SkipKeeps ==
  ASSUME IInv, NEW r \in Requests, Skip(r)
  PROVE  Kept
<1> USE GatewayAssumption
<1>1. /\ pc[r] = "loop" /\ queue[r] # <<>> /\ SkipReason(r)
      /\ queue' = [queue EXCEPT ![r] = Tail(@)] /\ queue'[r] = Tail(queue[r])
      /\ UNCHANGED <<pc, reply, guard, plan, got, again, bound, apis, tries, cooling, inflight, gate, binding>>
  BY DEF Skip, Looping, shared, IInv, TypeOK
<1>2. TypeOK'
  BY <1>1, MoreRemain DEF IInv, TypeOK
<1>3. Untouched(r)
  BY <1>1 DEF Untouched, IInv, TypeOK
<1>4. Placed(r)' /\ NothingMore(r)
  BY <1>1 DEF Placed, AtUpstream, NothingMore, IInv
<1>5. Counted'
  BY <1>1, CountsStay DEF IInv
<1>6. queue'[r] = <<>> => plan'[r].anthropic
  BY <1>1, MoreRemain DEF SkipReason
<1>7. pc[r] \notin Ended /\ pc'[r] \notin Ended \cup {"new", "gate"} /\ gate' = gate /\ binding' = binding
  BY <1>1 DEF Ended
<1> QED
  BY <1>2, <1>3, <1>4, <1>5, <1>6, <1>7, StepKeeps

LEMMA ChooseKeeps ==
  ASSUME IInv, NEW r \in Requests, Choose(r)
  PROVE  Kept
<1> USE GatewayAssumption
<1>1. /\ pc[r] = "loop" /\ queue[r] # <<>>
      /\ pc'[r] = "chosen" /\ pc' = [pc EXCEPT ![r] = "chosen"]
      /\ UNCHANGED <<reply, guard, plan, queue, got, again, bound, apis, tries, cooling, inflight, gate, binding>>
  BY DEF Choose, Looping, Goto, IInv, TypeOK, local, stack, shared
<1>2. TypeOK'
  BY <1>1 DEF IInv, TypeOK
<1>3. Untouched(r)
  BY <1>1 DEF Untouched, IInv, TypeOK
<1>4. Placed(r)' /\ NothingMore(r)
  BY <1>1 DEF Placed, AtUpstream, NothingMore, IInv
<1>5. Counted'
  BY <1>1, CountsStay DEF IInv
<1>6. /\ pc[r] \notin Ended /\ pc'[r] \notin Ended \cup {"new", "gate", "loop"}
      /\ gate' = gate /\ binding' = binding
  BY <1>1 DEF Ended
<1> QED
  BY <1>2, <1>3, <1>4, <1>5, <1>6, StepKeeps

LEMMA AdmitKeeps ==
  ASSUME IInv, NEW r \in Requests, Admit(r)
  PROVE  Kept
<1> USE GatewayAssumption
<1>1. /\ pc[r] = "chosen" /\ pc[r] \notin Ended /\ queue[r] # <<>> /\ guard[r] = None
      /\ UNCHANGED <<plan, queue, got, cooling, binding>>
  BY DEF Admit, Ended, IInv, Placed, AtUpstream
<1>2. CASE reply[r] # "none" /\ End(r, "failed", reply[r])
  BY <1>1, <1>2, EndKeeps DEF Ended, Replies, IInv, TypeOK
<1>3. CASE /\ reply[r] = "none" /\ Goto(r, "sent")
           /\ guard' = [guard EXCEPT ![r] = Serving(r)]
           /\ inflight' = [inflight EXCEPT ![Serving(r)] = @ + 1]
           /\ UNCHANGED <<reply, gate, stack>>
  <2>1. Serving(r) \in Accounts
    BY <1>1, MoreRemain
  <2>2. Counted' /\ inflight' \in [Accounts \cup {Key} -> Nat]
    BY <1>1, <1>3, <2>1, CountsTake
  <2>3. pc' = [pc EXCEPT ![r] = "sent"] /\ pc'[r] = "sent" /\ guard'[r] = Serving(r)
    BY <1>3 DEF Goto, IInv, TypeOK
  <2>4. TypeOK'
    BY <1>1, <1>3, <2>1, <2>2, <2>3 DEF IInv, TypeOK, stack
  <2>5. Untouched(r)
    BY <1>1, <1>3, <2>3 DEF Untouched, IInv, TypeOK
  <2>6. Placed(r)' /\ NothingMore(r)
    BY <1>1, <1>3, <2>3 DEF Placed, AtUpstream, NothingMore, Serving, IInv
  <2>7. /\ pc'[r] \notin Ended \cup {"new", "gate", "loop"}
        /\ gate' = gate /\ binding' = binding
    BY <1>1, <1>3, <2>3 DEF Ended
  <2> QED
    BY <1>1, <2>2, <2>4, <2>5, <2>6, <2>7, StepKeeps
<1> QED
  BY <1>2, <1>3 DEF Admit

-----------------------------------------------------------------------------
\* An attempt and its answer

\* An account is left only for another one.
LEMMA LeaveKeeps ==
  ASSUME IInv, NEW r \in Requests, pc[r] \in {"sent", "answered"}, More(r), LeaveAccount(r),
         NEW answer \in Replies, reply' = [reply EXCEPT ![r] = answer],
         cooling' \subseteq Accounts, binding' = binding
  PROVE  Kept
<1> USE GatewayAssumption
<1>1. /\ pc[r] \notin Ended /\ reply[r] = "none" /\ queue[r] # <<>>
      /\ guard[r] = Serving(r) /\ Serving(r) \in Accounts
  BY MoreRemain DEF IInv, Placed, AtUpstream, Ended
<1>2. /\ pc' = [pc EXCEPT ![r] = "loop"] /\ pc'[r] = "loop"
      /\ queue' = [queue EXCEPT ![r] = Tail(@)] /\ queue'[r] = Tail(queue[r])
      /\ guard' = [guard EXCEPT ![r] = None] /\ guard'[r] = None
      /\ inflight' = [inflight EXCEPT ![guard[r]] = @ - 1]
      /\ got' = [got EXCEPT ![r] = "none"] /\ again' = [again EXCEPT ![r] = FALSE]
      /\ UNCHANGED <<plan, bound, apis, tries, gate>>
  BY DEF LeaveAccount, Goto, IInv, TypeOK
<1>3. guard[r] # None
  BY <1>1
<1>4. Counted' /\ inflight' \in [Accounts \cup {Key} -> Nat]
  BY <1>2, <1>3, CountsDrop
<1>5. Tail(queue[r]) \in Lists /\ Tail(queue[r]) # <<>>
  BY <1>1, MoreRemain
<1>6. TypeOK'
  BY <1>2, <1>4, <1>5 DEF IInv, TypeOK, Replies
<1>7. Untouched(r)
  BY <1>2 DEF Untouched, IInv, TypeOK
<1>8. Placed(r)' /\ NothingMore(r)
  BY <1>1, <1>2 DEF Placed, AtUpstream, NothingMore
<1>9. /\ pc'[r] \notin Ended \cup {"new", "gate"} /\ queue'[r] # <<>> /\ gate' = gate
  BY <1>2, <1>5 DEF Ended
<1> QED
  BY <1>1, <1>4, <1>6, <1>7, <1>8, <1>9, StepKeeps

LEMMA CoolKeeps ==
  ASSUME IInv, NEW a \in Accounts, NEW how, Cool(a, how)
  PROVE  cooling' \subseteq Accounts
<1>1. cooling' \in {cooling \cup {a}, cooling \ {a}, cooling}
  BY DEF Cool
<1> QED
  BY <1>1 DEF IInv, TypeOK

LEMMA FailoverKeeps ==
  ASSUME IInv, NEW r \in Requests, Failover(r)
  PROVE  Kept
<1>1. PICK s \in Ending(r, "failover") : Cool(Serving(r), s.cool)
  BY DEF Failover
<1>2. pc[r] = "sent" /\ queue[r] # <<>> /\ LeaveAccount(r) /\ UNCHANGED <<reply, binding>>
  BY DEF Failover, IInv, Placed
<1>3. More(r)
  <2> SUFFICES ASSUME ~More(r) PROVE FALSE
    OBVIOUS
  <2>1. plan[r].anthropic \in BOOLEAN
    BY GatewayAssumption DEF IInv, TypeOK
  <2>2. More(r) = FALSE
    BY DEF More
  <2>3. s \in Attempts[FALSE][plan[r].anthropic] /\ s.exit = "failover"
    BY <2>2 DEF Ending
  <2> QED
    BY <2>1, <2>3, LastStays
<1>4. cooling' \subseteq Accounts
  BY <1>1, <1>2, CoolKeeps, MoreRemain
<1>5. reply' = [reply EXCEPT ![r] = reply[r]] /\ reply[r] \in Replies
  BY <1>2 DEF IInv, TypeOK, Replies
<1> QED
  BY <1>2, <1>3, <1>4, <1>5, LeaveKeeps

LEMMA TerminalKeeps ==
  ASSUME IInv, NEW r \in Requests, Terminal(r)
  PROVE  Kept
<1>1. PICK s \in Ending(r, "terminal") : Cool(Serving(r), s.cool)
  BY DEF Terminal
<1>2. /\ pc[r] = "sent" /\ pc[r] \notin Ended /\ reply[r] = "none" /\ queue[r] # <<>>
      /\ End(r, "done", "local") /\ UNCHANGED <<plan, queue, got, binding>>
  BY DEF Terminal, Ended, IInv, Placed, AtUpstream
<1>3. cooling' \subseteq Accounts
  BY <1>1, <1>2, CoolKeeps, MoreRemain
<1>4. binding' \in {None} \cup [account : Accounts, epoch : Nat]
  BY <1>2 DEF IInv, TypeOK
<1> QED
  BY <1>2, <1>3, <1>4, EndKeeps DEF Ended, Replies

\* An answer to be delivered is of a known class.
LEMMA EndingGot ==
  ASSUME NEW more \in BOOLEAN, NEW anthropic \in BOOLEAN, NEW s \in Attempts[more][anthropic]
  PROVE  s.got \in {"ok", "bad", "error"}
BY DEF Attempts

LEMMA RespondUpstreamKeeps ==
  ASSUME IInv, NEW r \in Requests, RespondUpstream(r)
  PROVE  Kept
<1> USE GatewayAssumption
<1>1. PICK s \in Ending(r, "respond") :
        Cool(Serving(r), s.cool) /\ got' = [got EXCEPT ![r] = s.got]
  BY DEF RespondUpstream
<1>2. /\ pc[r] = "sent" /\ pc[r] \notin Ended /\ reply[r] = "none" /\ queue[r] # <<>>
      /\ guard[r] = Serving(r) /\ pc' = [pc EXCEPT ![r] = "answered"] /\ pc'[r] = "answered"
      /\ UNCHANGED <<reply, guard, plan, queue, again, bound, apis, tries, inflight, gate, binding>>
  BY DEF RespondUpstream, Goto, Ended, IInv, TypeOK, Placed, AtUpstream
<1>3. cooling' \subseteq Accounts
  BY <1>1, <1>2, CoolKeeps, MoreRemain
<1>4. s.got \in {"ok", "bad", "error"}
  <2>1. plan[r].anthropic \in BOOLEAN /\ More(r) \in BOOLEAN
    BY DEF IInv, TypeOK, More
  <2> QED
    BY <2>1, EndingGot DEF Ending
<1>5. TypeOK'
  BY <1>1, <1>2, <1>3, <1>4 DEF IInv, TypeOK
<1>6. Untouched(r)
  BY <1>1, <1>2 DEF Untouched, IInv, TypeOK
<1>7. Placed(r)' /\ NothingMore(r)
  BY <1>2 DEF Placed, AtUpstream, NothingMore, Serving
<1>8. Counted'
  BY <1>2, CountsStay DEF IInv
<1>9. /\ pc'[r] \notin Ended \cup {"new", "gate", "loop"} /\ gate' = gate /\ binding' = binding
  BY <1>2 DEF Ended
<1> QED
  BY <1>2, <1>5, <1>6, <1>7, <1>8, <1>9, StepKeeps

LEMMA AskAgainKeeps ==
  ASSUME IInv, NEW r \in Requests, RetryWithoutAffinity(r)
  PROVE  Kept
<1> USE GatewayAssumption
<1>1. /\ pc[r] = "answered" /\ pc[r] \notin Ended /\ reply[r] = "none" /\ queue[r] # <<>>
      /\ guard[r] = Serving(r) /\ pc' = [pc EXCEPT ![r] = "sent"] /\ pc'[r] = "sent"
      /\ again' = [again EXCEPT ![r] = TRUE] /\ got' = [got EXCEPT ![r] = "none"]
      /\ UNCHANGED <<reply, guard, plan, queue, bound, apis, tries, cooling, inflight, gate, binding>>
  BY DEF RetryWithoutAffinity, Goto, Ended, IInv, TypeOK, Placed, AtUpstream, shared
<1>2. TypeOK'
  BY <1>1 DEF IInv, TypeOK
<1>3. Untouched(r)
  BY <1>1 DEF Untouched, IInv, TypeOK
<1>4. Placed(r)' /\ NothingMore(r)
  BY <1>1 DEF Placed, AtUpstream, NothingMore, Serving
<1>5. Counted'
  BY <1>1, CountsStay DEF IInv
<1>6. /\ pc'[r] \notin Ended \cup {"new", "gate", "loop"} /\ gate' = gate /\ binding' = binding
  BY <1>1 DEF Ended
<1> QED
  BY <1>1, <1>2, <1>3, <1>4, <1>5, <1>6, StepKeeps

-----------------------------------------------------------------------------
\* The delivery of an answer, and what follows when there is none
LEMMA BodyLostKeeps ==
  ASSUME IInv, NEW r \in Requests, BodyLost(r)
  PROVE  Kept
<1>1. /\ pc[r] = "answered" /\ pc[r] \notin Ended /\ reply[r] = "none"
      /\ End(r, "failed", "dropped") /\ UNCHANGED <<plan, queue, got, cooling, binding>>
  BY DEF BodyLost, Ended, IInv, Placed, AtUpstream
<1> QED
  BY <1>1, EndKeeps DEF Ended, Replies, IInv, TypeOK

LEMMA HandedOnKeeps ==
  ASSUME IInv, NEW r \in Requests, DeliverAndFailover(r) \/ Suppress(r)
  PROVE  Kept
<1>1. /\ pc[r] = "answered" /\ More(r) /\ LeaveAccount(r) /\ binding' = binding
      /\ queue[r] # <<>>
  BY DEF DeliverAndFailover, Suppress, IInv, Placed
<1>2. CASE DeliverAndFailover(r)
  <2>1. cooling' \subseteq Accounts
    BY <1>1, <1>2, CoolKeeps, MoreRemain DEF DeliverAndFailover
  <2> QED
    BY <1>1, <1>2, <2>1, LeaveKeeps DEF DeliverAndFailover, Replies
<1>3. CASE Suppress(r)
  BY <1>1, <1>3, LeaveKeeps DEF Suppress, Replies, IInv, TypeOK
<1> QED
  BY <1>2, <1>3

LEMMA DeliverKeeps ==
  ASSUME IInv, NEW r \in Requests, Deliver(r)
  PROVE  Kept
<1>1. /\ pc[r] = "answered" /\ pc[r] \notin Ended /\ reply[r] = "none" /\ queue[r] # <<>>
      /\ End(r, "done", "upstream") /\ UNCHANGED <<plan, queue, got>>
      /\ binding' = Recorded(r, Serving(r))
  BY DEF Deliver, Ended, IInv, Placed, AtUpstream
<1>2. Serving(r) \in Accounts
  BY <1>1, MoreRemain
<1>3. cooling' \subseteq Accounts
  BY <1>2, CoolKeeps DEF Deliver
<1>4. bound[r] # None => bound[r].epoch + 1 \in Nat
  BY DEF IInv, TypeOK
<1>5. \/ binding' = binding
      \/ /\ got[r] = "ok" /\ binding'.account = Serving(r)
         /\ binding' \in [account : Accounts, epoch : Nat]
  BY <1>1, <1>2, <1>4 DEF Recorded
<1>6. binding' \in {None} \cup [account : Accounts, epoch : Nat]
  BY <1>5 DEF IInv, TypeOK
<1> QED
  BY <1>1, <1>3, <1>5, <1>6, EndKeeps DEF Ended, Replies

LEMMA ExhaustedKeeps ==
  ASSUME IInv, NEW r \in Requests, Exhausted(r)
  PROVE  Kept
<1>1. /\ pc[r] = "loop" /\ pc[r] \notin Ended /\ UNCHANGED <<plan, queue, got, cooling, binding>>
      /\ reply[r] \in Replies
  BY DEF Exhausted, Ended, IInv, TypeOK, Replies
<1>2. CASE reply[r] # "none" /\ End(r, "failed", reply[r])
  BY <1>1, <1>2, EndKeeps DEF Ended, IInv, TypeOK
<1>3. CASE reply[r] = "none" /\ ToAggregates(r)
  BY <1>1, <1>3, AggregatesKeep
<1>4. CASE reply[r] = "none" /\ End(r, "done", "noAccount")
  BY <1>1, <1>4, EndKeeps DEF Ended, Replies, IInv, TypeOK
<1> QED
  BY <1>2, <1>3, <1>4 DEF Exhausted

-----------------------------------------------------------------------------
\* The aggregate APIs
LEMMA ApiEndsKeep ==
  ASSUME IInv, NEW r \in Requests, ApiEnd(r) \/ ApiServed(r)
  PROVE  Kept
<1>1. /\ pc[r] \in {"api", "serving"} /\ pc[r] \notin Ended /\ reply[r] = "none"
      /\ UNCHANGED <<plan, queue, got, cooling, binding>>
  BY DEF ApiEnd, ApiServed, Ended, IInv, Placed, AtUpstream
<1>2. \/ End(r, "done", "local") \/ End(r, "failed", "dropped") \/ End(r, "done", "upstream")
  BY DEF ApiEnd, ApiServed
<1> QED
  BY <1>1, <1>2, EndKeeps DEF Ended, Replies, IInv, TypeOK

LEMMA ChannelsKeep ==
  ASSUME IInv, NEW r \in Requests, NextApi(r) \/ RetryApi(r)
  PROVE  Kept
<1> USE GatewayAssumption
<1>1. /\ pc[r] = "api" /\ pc[r] \notin Ended /\ apis[r] > 0
      /\ UNCHANGED <<pc, reply, guard, plan, queue, got, again, bound, cooling, inflight, gate, binding>>
  BY DEF NextApi, RetryApi, Ended, shared
<1>2. apis' \in [Requests -> 0..MaxApis] /\ tries' \in [Requests -> 0..Retries]
  <2>1. CASE NextApi(r)
    BY <2>1 DEF NextApi, IInv, TypeOK
  <2>2. CASE RetryApi(r)
    BY <2>2 DEF RetryApi, IInv, TypeOK
  <2> QED
    BY <2>1, <2>2
<1>3. TypeOK'
  BY <1>1, <1>2 DEF IInv, TypeOK
<1>4. Untouched(r)
  BY <1>1 DEF Untouched
<1>5. Placed(r)' /\ NothingMore(r)
  BY <1>1 DEF Placed, AtUpstream, NothingMore, Serving, IInv
<1>6. Counted'
  BY <1>1, CountsStay DEF IInv
<1>7. pc'[r] \notin Ended \cup {"new", "gate", "loop"} /\ gate' = gate /\ binding' = binding
  BY <1>1 DEF Ended
<1> QED
  BY <1>1, <1>3, <1>4, <1>5, <1>6, <1>7, StepKeeps

LEMMA ServeApiKeeps ==
  ASSUME IInv, NEW r \in Requests, ServeApi(r)
  PROVE  Kept
<1> USE GatewayAssumption
<1>1. /\ pc[r] = "api" /\ pc[r] \notin Ended /\ guard[r] = None /\ reply[r] = "none"
      /\ pc' = [pc EXCEPT ![r] = "serving"] /\ pc'[r] = "serving"
      /\ guard' = [guard EXCEPT ![r] = Key] /\ guard'[r] = Key
      /\ inflight' = [inflight EXCEPT ![Key] = @ + 1]
      /\ UNCHANGED <<reply, plan, queue, got, again, bound, apis, tries, cooling, gate, binding>>
  BY DEF ServeApi, Goto, Ended, IInv, TypeOK, Placed, AtUpstream, local, stack
<1>2. Counted' /\ inflight' \in [Accounts \cup {Key} -> Nat]
  BY <1>1, CountsTake
<1>3. TypeOK'
  BY <1>1, <1>2 DEF IInv, TypeOK
<1>4. Untouched(r)
  BY <1>1 DEF Untouched, IInv, TypeOK
<1>5. Placed(r)' /\ NothingMore(r)
  BY <1>1 DEF Placed, AtUpstream, NothingMore
<1>6. pc'[r] \notin Ended \cup {"new", "gate", "loop"} /\ gate' = gate /\ binding' = binding
  BY <1>1 DEF Ended
<1> QED
  BY <1>1, <1>2, <1>3, <1>4, <1>5, <1>6, StepKeeps

-----------------------------------------------------------------------------
\* A cooldown that runs out touches no request.
LEMMA ThawKeeps ==
  ASSUME IInv, UNCHANGED <<pc, plan, queue, reply, got, again, bound, apis, tries, guard,
                           inflight, gate, binding>>,
         cooling' \subseteq cooling
  PROVE  Kept
<1>1. TypeOK'
  BY DEF IInv, TypeOK
<1>2. ASSUME NEW q \in Requests PROVE Placed(q)' /\ NothingMore(q)
  <2>1. Placed(q)
    BY DEF IInv
  <2> QED
    BY <2>1 DEF Placed, NothingMore, Serving, AtUpstream
<1>3. Counted' /\ GateHeld' /\ RunsOut' /\ BindingWasServed'
  BY CountsStay DEF IInv, GateHeld, RunsOut, BindingWasServed, Serving
<1> QED
  BY <1>1, <1>2, <1>3 DEF IInv, Kept

LEMMA NextKeeps ==
  ASSUME IInv, [Next]_vars
  PROVE  Kept
<1>1. CASE UNCHANGED vars
  BY <1>1, ThawKeeps DEF vars, local, stack, shared
<1>2. ASSUME NEW r \in Requests, Advance(r) PROVE Kept
  BY <1>2, EnterGateKeeps, TimeOutKeeps, SkipKeeps, ChooseKeeps, AdmitKeeps, FailoverKeeps,
     TerminalKeeps, RespondUpstreamKeeps, AskAgainKeeps, BodyLostKeeps, HandedOnKeeps,
     DeliverKeeps, ExhaustedKeeps, ApiEndsKeep, ChannelsKeep, ServeApiKeeps
  DEF Advance
<1>3. ASSUME NEW r \in Requests,
             Reject(r) \/ ArriveAggregate(r) \/ ArriveEmpty(r) \/ Arrive(r)
      PROVE  Kept
  BY <1>3, RejectKeeps, ArrivalsKeep, ArriveKeeps
<1>4. ASSUME NEW a \in Accounts, Thaw(a) PROVE Kept
  BY <1>4, ThawKeeps DEF Thaw, local, stack
<1> QED
  BY <1>1, <1>2, <1>3, <1>4 DEF Next

LEMMA Invariance == Spec => []IInv
<1>1. IInv /\ [Next]_vars => IInv'
  BY NextKeeps DEF Kept
<1> QED
  BY Initial, <1>1, PTL DEF Spec

\* Types: the state stays in the ranges the pipeline's code gives it.
THEOREM TypeCorrect == Spec => []TypeOK
<1>1. IInv => TypeOK
  BY DEF IInv
<1> QED
  BY Invariance, <1>1, PTL

\* candidate_executor.rs, request_gate.rs: the in-flight guards and the gate are
\* given back on every way out of a request.
THEOREM NothingLeaks == Spec => []NothingLeaked
<1>1. IInv => NothingLeaked
  <2> SUFFICES ASSUME IInv PROVE NothingLeaked
    OBVIOUS
  <2>1. \A a \in Accounts \cup {Key} : inflight[a] = Cardinality({r \in Requests : guard[r] = a})
    BY DEF IInv, Counted, Holders
  <2>2. \A r \in Requests : guard[r] # None => pc[r] \in AtUpstream
    BY DEF IInv, Placed
  <2>3. GateHeld
    BY DEF IInv
  <2> QED
    BY <2>1, <2>2, <2>3 DEF NothingLeaked, AtUpstream, GateHeld
<1> QED
  BY Invariance, <1>1, PTL

\* candidates.rs: a request of an account-rotation key that is not Anthropic's never
\* runs out of candidates with its request in hand.
THEOREM LastIsTried == Spec => []LastCandidateTried
<1>1. IInv => LastCandidateTried
  BY DEF IInv, RunsOut, LastCandidateTried
<1> QED
  BY Invariance, <1>1, PTL

\* conversation_binding.rs: a conversation is bound only to an account that served it.
THEOREM BindingServed == Spec => []BindingWasServed
<1>1. IInv => BindingWasServed
  BY DEF IInv
<1> QED
  BY Invariance, <1>1, PTL

\* candidate_executor.rs: whatever failed over or was suppressed after the answer
\* began, the request is sent to nobody again.
THEOREM AnswersOnce == Spec => AnsweredOnce
<1>1. IInv /\ [Next]_vars => [\A r \in Requests :
        reply[r] # "none" => reply'[r] = reply[r] /\ pc'[r] \notin {"sent", "serving"}]_vars
  BY NextKeeps DEF Kept, NothingMore
<1> QED
  BY Invariance, <1>1, PTL DEF Spec, AnsweredOnce

-----------------------------------------------------------------------------
(***************************************************************************)
(* Why a request ends.  At a candidate it takes six steps at most: chosen, *)
(* sent, answered, sent again without its affinity, answered, left.  An    *)
(* aggregate API takes as many as it has attempts, and one to leave it.    *)
(***************************************************************************)
Span == Retries + 1

Walk(r) == MaxApis * Span + Span + 1 + 6 * Len(queue[r])

\* The most steps a request that has arrived can still take
StepsLeft(r) ==
  CASE pc[r] = "gate" -> Walk(r) + 2
    [] pc[r] = "loop" -> Walk(r) + 1
    [] pc[r] = "chosen" -> Walk(r)
    [] pc[r] = "sent" -> Walk(r) - (IF again[r] THEN 3 ELSE 1)
    [] pc[r] = "answered" -> Walk(r) - (IF again[r] THEN 4 ELSE 2)
    [] pc[r] = "api" -> apis[r] * Span + (Span - tries[r]) + 1
    [] pc[r] = "serving" -> 1
    [] OTHER -> 0

MaxSteps == MaxApis * Span + Span + 3 + 6 * Cardinality(Accounts)

\* A request that has arrived has no more than MaxSteps steps left, and none at its end only.
StepsBounded ==
  \A r \in Requests : pc[r] # "new" =>
    StepsLeft(r) \in 0 .. MaxSteps /\ (StepsLeft(r) = 0 <=> pc[r] \in Ended)

\* Each of its steps leaves it fewer, and no step of another request gives it more.
CountsDown ==
  [][\A r \in Requests : pc[r] # "new" =>
       /\ Advance(r) => StepsLeft(r)' < StepsLeft(r)
       /\ ~Advance(r) => StepsLeft(r)' = StepsLeft(r)]_vars

\* Only while an attempt is under way is it known to be the one without affinity.
AgainAtUpstream == \A r \in Requests : again[r] => pc[r] \in {"sent", "answered"}

Same(q) ==
  /\ pc'[q] = pc[q] /\ queue'[q] = queue[q] /\ again'[q] = again[q]
  /\ apis'[q] = apis[q] /\ tries'[q] = tries[q]

\* A request leaves the others where they are, and its own second try at the upstream.
LEMMA StepsAlone ==
  ASSUME IInv, AgainAtUpstream, NEW r \in Requests,
         Reject(r) \/ ArriveAggregate(r) \/ ArriveEmpty(r) \/ Arrive(r) \/ Advance(r)
  PROVE  /\ \A q \in Requests \ {r} : Same(q)
         /\ again'[r] => pc'[r] \in {"sent", "answered"}
<1> DEFINE Goal == /\ \A q \in Requests \ {r} : Same(q)
                   /\ again'[r] => pc'[r] \in {"sent", "answered"}
<1> USE DEF IInv, TypeOK, AgainAtUpstream, Same, Goto
<1>1. ASSUME NEW p, NEW answer, End(r, p, answer), UNCHANGED queue PROVE Goal
  BY <1>1 DEF End
<1>2. ASSUME LeaveAccount(r) PROVE Goal
  BY <1>2 DEF LeaveAccount
<1>3. ASSUME ToAggregates(r), UNCHANGED queue, pc[r] \in {"new", "loop"} PROVE Goal
  BY <1>1, <1>3 DEF ToAggregates
<1>4. ASSUME Reject(r) \/ ArriveAggregate(r) \/ ArriveEmpty(r) PROVE Goal
  BY <1>1, <1>3, <1>4 DEF Reject, ArriveAggregate, ArriveEmpty, Turn
<1>5. ASSUME Arrive(r) PROVE Goal
  BY <1>5 DEF Arrive, Turn
<1>6. ASSUME EnterGate(r) \/ Choose(r) \/ Skip(r) PROVE Goal
  BY <1>6 DEF EnterGate, Choose, Skip, Looping, local, stack
<1>7. ASSUME TimeOut(r) \/ Terminal(r) \/ BodyLost(r) \/ Deliver(r) PROVE Goal
  BY <1>1, <1>7 DEF TimeOut, Terminal, BodyLost, Deliver
<1>8. ASSUME Admit(r) PROVE Goal
  BY <1>1, <1>8 DEF Admit, stack
<1>9. ASSUME Failover(r) \/ DeliverAndFailover(r) \/ Suppress(r) PROVE Goal
  BY <1>2, <1>9 DEF Failover, DeliverAndFailover, Suppress
<1>10. ASSUME RespondUpstream(r) \/ RetryWithoutAffinity(r) PROVE Goal
  BY <1>10 DEF RespondUpstream, RetryWithoutAffinity
<1>11. ASSUME Exhausted(r) PROVE Goal
  BY <1>1, <1>3, <1>11 DEF Exhausted
<1>12. ASSUME ApiEnd(r) \/ ApiServed(r) PROVE Goal
  BY <1>1, <1>12 DEF ApiEnd, ApiServed
<1>13. ASSUME NextApi(r) \/ RetryApi(r) \/ ServeApi(r) PROVE Goal
  BY <1>13 DEF NextApi, RetryApi, ServeApi, local, stack
<1> HIDE DEF Goal
<1> QED
  BY <1>4, <1>5, <1>6, <1>7, <1>8, <1>9, <1>10, <1>11, <1>12, <1>13 DEF Advance, Goal

LEMMA AgainStays ==
  ASSUME IInv, AgainAtUpstream, [Next]_vars
  PROVE  AgainAtUpstream'
<1>1. ASSUME NEW r \in Requests,
             Reject(r) \/ ArriveAggregate(r) \/ ArriveEmpty(r) \/ Arrive(r) \/ Advance(r)
      PROVE  AgainAtUpstream'
  BY <1>1, StepsAlone DEF AgainAtUpstream, Same
<1>2. CASE UNCHANGED vars \/ \E a \in Accounts : Thaw(a)
  BY <1>2 DEF AgainAtUpstream, Thaw, vars, local, stack
<1> QED
  BY <1>1, <1>2 DEF Next

\* A list without its first is shorter by one.
LEMMA RestIsShorter ==
  ASSUME IInv, NEW r \in Requests, queue[r] # <<>>
  PROVE  Len(queue[r]) \in Nat \ {0} /\ Len(Tail(queue[r])) = Len(queue[r]) - 1
<1>1. PICK n \in 1..Cardinality(Accounts) : queue[r] \in [1..n -> Accounts]
  BY MoreRemain DEF Lists
<1>2. n \in Nat \ {0}
  BY <1>1, FS_CardinalityType, GatewayAssumption
<1>3. queue[r] \in Seq(Accounts) /\ Len(queue[r]) = n
  BY <1>1, <1>2
<1> QED
  BY <1>2, <1>3

LEMMA LengthBounded ==
  ASSUME IInv, NEW r \in Requests
  PROVE  /\ Cardinality(Accounts) \in Nat
         /\ Len(queue[r]) \in 0 .. Cardinality(Accounts)
<1>1. Cardinality(Accounts) \in Nat
  BY FS_CardinalityType, GatewayAssumption
<1>2. CASE queue[r] = <<>>
  BY <1>1, <1>2
<1>3. CASE queue[r] # <<>>
  <2>1. PICK n \in 1..Cardinality(Accounts) : queue[r] \in [1..n -> Accounts]
    BY <1>3, MoreRemain DEF Lists
  <2>2. n \in Nat \ {0}
    BY <1>1, <2>1
  <2>3. Len(queue[r]) = n
    BY <2>1, <2>2
  <2> QED
    BY <1>1, <2>1, <2>3
<1> QED
  BY <1>1, <1>2, <1>3

\* What is left at the aggregate APIs is a number the walk over the candidates allows for,
\* and shrinks with every attempt and every API left.
LEMMA ApiSteps ==
  ASSUME NEW a \in 0 .. MaxApis, NEW t \in 0 .. Retries
  PROVE  /\ Span \in Nat \ {0} /\ a * Span \in Nat /\ MaxApis * Span \in Nat
         /\ a * Span + (Span - t) + 1 \in 2 .. MaxApis * Span + Span + 1
         /\ a > 0 => (a - 1) * Span + Span = a * Span
<1>1. Span \in Nat \ {0} /\ MaxApis \in Nat /\ a \in Nat /\ a <= MaxApis
  BY GatewayAssumption DEF Span
<1>2. Span - t \in 1 .. Span
  BY <1>1, GatewayAssumption DEF Span
<1> HIDE DEF Span
<1>3. a * Span \in Nat /\ MaxApis * Span \in Nat /\ a * Span <= MaxApis * Span
  BY <1>1
<1>4. (a - 1) * Span + Span = a * Span
  BY <1>1
<1> QED
  BY <1>1, <1>2, <1>3, <1>4

LEMMA ApiBase == MaxApis * Span + Span + 1 \in Nat
<1>1. 0 \in 0 .. MaxApis /\ 0 \in 0 .. Retries
  BY GatewayAssumption
<1>2. Span \in Nat /\ MaxApis * Span \in Nat
  BY <1>1, ApiSteps
<1> QED
  BY <1>2

LEMMA StepsAreBounded == IInv => StepsBounded
<1> SUFFICES ASSUME IInv, NEW r \in Requests, pc[r] # "new"
             PROVE  StepsLeft(r) \in 0 .. MaxSteps /\ (StepsLeft(r) = 0 <=> pc[r] \in Ended)
  BY DEF StepsBounded
<1>1. /\ Cardinality(Accounts) \in Nat
      /\ Len(queue[r]) \in 0 .. Cardinality(Accounts)
  BY LengthBounded
<1>2. /\ Span \in Nat \ {0} /\ MaxApis * Span \in Nat
      /\ apis[r] * Span + (Span - tries[r]) + 1 \in 2 .. MaxApis * Span + Span + 1
  BY ApiSteps DEF IInv, TypeOK
<1>3. pc[r] \in {"chosen", "sent", "answered"} => Len(queue[r]) > 0
  BY RestIsShorter DEF IInv, Placed
<1>4. pc[r] \in Pcs /\ again[r] \in BOOLEAN
  BY DEF IInv, TypeOK, Pcs
<1> DEFINE walk == MaxApis * Span
           api == apis[r] * Span + (Span - tries[r]) + 1
           n == Len(queue[r])
           most == Cardinality(Accounts)
<1> HIDE DEF walk, api, n, most
<1>5. /\ Walk(r) = walk + Span + 1 + 6 * n
      /\ MaxSteps = walk + Span + 3 + 6 * most
      /\ walk \in Nat /\ Span \in Nat \ {0} /\ api \in 2 .. walk + Span + 1
  BY <1>2 DEF Walk, MaxSteps, walk, api, n, most
<1>6. most \in Nat
  BY <1>1 DEF most
<1>7. CASE pc[r] \in {"gate", "loop"}
  <2>1. StepsLeft(r) \in {Walk(r) + 1, Walk(r) + 2}
    BY <1>7 DEF StepsLeft
  <2>2. n \in 0 .. most /\ most \in Nat
    BY <1>1 DEF n, most
  <2>3. StepsLeft(r) \in 1 .. MaxSteps
    BY <1>5, <2>1, <2>2
  <2> QED
    BY <1>7, <2>3 DEF Ended
<1>8. CASE pc[r] \in {"chosen", "sent", "answered"}
  <2>1. StepsLeft(r) \in {Walk(r), Walk(r) - 1, Walk(r) - 2, Walk(r) - 3, Walk(r) - 4}
    BY <1>8 DEF StepsLeft
  <2>2. n \in 1 .. most /\ most \in Nat
    BY <1>1, <1>3, <1>8 DEF n, most
  <2>3. StepsLeft(r) \in 1 .. MaxSteps
    BY <1>5, <2>1, <2>2
  <2> QED
    BY <1>8, <2>3 DEF Ended
<1>9. CASE pc[r] = "api"
  <2>1. StepsLeft(r) = api
    BY <1>9 DEF StepsLeft, api
  <2> QED
    BY <1>5, <1>6, <1>9, <2>1 DEF Ended
<1>10. CASE pc[r] = "serving"
  BY <1>5, <1>6, <1>10 DEF StepsLeft, Ended
<1>11. CASE pc[r] \in Ended
  BY <1>5, <1>6, <1>11 DEF StepsLeft, Ended
<1> QED
  BY <1>4, <1>7, <1>8, <1>9, <1>10, <1>11 DEF Pcs

\* An end leaves no steps, ...
LEMMA EndCountsDown ==
  ASSUME IInv, NEW r \in Requests, NEW p \in Ended, NEW answer, End(r, p, answer),
         pc[r] \notin Ended \cup {"new"}
  PROVE  StepsLeft(r)' < StepsLeft(r)
<1>1. pc'[r] = p
  BY DEF End, Goto, IInv, TypeOK
<1>2. StepsLeft(r)' = 0
  BY <1>1 DEF StepsLeft, Ended
<1>3. StepsLeft(r) \in Nat \ {0}
  BY StepsAreBounded DEF StepsBounded
<1> QED
  BY <1>2, <1>3

\* ... leaving a candidate takes its six, ...
LEMMA LeavingCountsDown ==
  ASSUME IInv, NEW r \in Requests, LeaveAccount(r), pc[r] \in {"sent", "answered"}
  PROVE  StepsLeft(r)' < StepsLeft(r)
<1>1. pc'[r] = "loop" /\ queue'[r] = Tail(queue[r])
  BY DEF LeaveAccount, Goto, IInv, TypeOK
<1>2. Len(queue[r]) \in Nat \ {0} /\ Len(queue'[r]) = Len(queue[r]) - 1
  BY <1>1, RestIsShorter DEF IInv, Placed
<1> DEFINE base == MaxApis * Span + Span + 1
<1>3. base \in Nat
  BY ApiBase
<1>4. Walk(r) = base + 6 * Len(queue[r]) /\ Walk(r)' = base + 6 * Len(queue'[r])
  BY DEF Walk
<1> HIDE DEF base
<1> QED
  BY <1>1, <1>2, <1>3, <1>4 DEF StepsLeft, base

\* ... and so does every other step.
LEMMA AdvanceCountsDown ==
  ASSUME IInv, AgainAtUpstream, NEW r \in Requests, Advance(r)
  PROVE  StepsLeft(r)' < StepsLeft(r)
<1> DEFINE base == MaxApis * Span + Span + 1
           Goal == StepsLeft(r)' < StepsLeft(r)
<1>1. /\ base \in Nat /\ Len(queue[r]) \in Nat
      /\ Walk(r) = base + 6 * Len(queue[r]) /\ Walk(r)' = base + 6 * Len(queue'[r])
  BY ApiBase, LengthBounded DEF Walk
<1>2. /\ Span \in Nat \ {0} /\ apis[r] * Span \in Nat
      /\ apis[r] * Span + (Span - tries[r]) + 1 \in 2 .. base
      /\ apis[r] > 0 => (apis[r] - 1) * Span + Span = apis[r] * Span
      /\ tries[r] \in 0 .. Retries /\ Span - tries[r] > 0
      /\ apis[r] \in Nat
  <2>1. apis[r] \in 0 .. MaxApis /\ tries[r] \in 0 .. Retries
    BY DEF IInv, TypeOK
  <2>2. Span - tries[r] > 0 /\ apis[r] \in Nat
    BY <2>1, GatewayAssumption DEF Span
  <2> QED
    BY <2>1, <2>2, ApiSteps
<1> HIDE DEF base
<1>3. ASSUME EnterGate(r) \/ Choose(r) PROVE Goal
  <2>1. /\ queue' = queue
        /\ \/ pc[r] = "gate" /\ pc'[r] = "loop"
           \/ pc[r] = "loop" /\ pc'[r] = "chosen"
    BY <1>3 DEF EnterGate, Choose, Looping, Goto, local, IInv, TypeOK
  <2> QED
    BY <1>1, <2>1 DEF StepsLeft
<1>4. ASSUME Skip(r) PROVE Goal
  <2>1. pc[r] = "loop" /\ pc'[r] = "loop" /\ queue'[r] = Tail(queue[r]) /\ queue[r] # <<>>
    BY <1>4 DEF Skip, Looping, IInv, TypeOK
  <2>2. Len(queue'[r]) = Len(queue[r]) - 1
    BY <2>1, RestIsShorter
  <2> QED
    BY <1>1, <2>1, <2>2 DEF StepsLeft
<1>5. ASSUME Admit(r) PROVE Goal
  <2>1. CASE pc'[r] = "sent" /\ again' = again
    <3>1. pc[r] = "chosen" /\ queue' = queue /\ ~again[r]
      BY <1>5 DEF Admit, AgainAtUpstream
    <3> QED
      BY <1>1, <2>1, <3>1 DEF StepsLeft
  <2>2. CASE End(r, "failed", reply[r])
    BY <1>5, <2>2, EndCountsDown DEF Admit, Ended
  <2> QED
    BY <1>5, <2>1, <2>2 DEF Admit, Goto, stack, IInv, TypeOK
<1>6. ASSUME TimeOut(r) \/ Terminal(r) \/ BodyLost(r) \/ Deliver(r) \/ ApiEnd(r) \/ ApiServed(r)
      PROVE  Goal
  <2>1. pc[r] \notin Ended \cup {"new"}
    BY <1>6 DEF TimeOut, Looping, Terminal, BodyLost, Deliver, ApiEnd, ApiServed, Ended
  <2>2. \E p \in Ended, answer \in Replies : End(r, p, answer)
    BY <1>6 DEF TimeOut, Terminal, BodyLost, Deliver, ApiEnd, ApiServed, Ended, IInv, TypeOK,
                Replies
  <2> QED
    BY <2>1, <2>2, EndCountsDown
<1>7. ASSUME Failover(r) \/ DeliverAndFailover(r) \/ Suppress(r) PROVE Goal
  BY <1>7, LeavingCountsDown DEF Failover, DeliverAndFailover, Suppress
<1>8. ASSUME RespondUpstream(r) PROVE Goal
  <2>1. pc[r] = "sent" /\ pc'[r] = "answered" /\ queue' = queue /\ again' = again
    BY <1>8 DEF RespondUpstream, Goto, IInv, TypeOK
  <2> QED
    BY <1>1, <2>1 DEF StepsLeft
<1>9. ASSUME RetryWithoutAffinity(r) PROVE Goal
  <2>1. /\ pc[r] = "answered" /\ pc'[r] = "sent" /\ queue' = queue
        /\ ~again[r] /\ again'[r]
    BY <1>9 DEF RetryWithoutAffinity, Goto, IInv, TypeOK
  <2> QED
    BY <1>1, <2>1 DEF StepsLeft
<1>10. ASSUME Exhausted(r) PROVE Goal
  <2>1. pc[r] = "loop" /\ queue[r] = <<>>
    BY <1>10 DEF Exhausted
  <2>2. CASE \E p \in Ended, answer \in Replies : End(r, p, answer)
    BY <2>1, <2>2, EndCountsDown DEF Ended
  <2>3. CASE pc'[r] = "api" /\ apis'[r] \in 1..MaxApis /\ tries' = tries
    <3>1. apis'[r] * Span + (Span - tries'[r]) + 1 \in 2 .. base
      <4>1. apis'[r] \in 0..MaxApis /\ tries'[r] \in 0..Retries
        BY <2>3, GatewayAssumption DEF IInv, TypeOK
      <4> QED
        BY <4>1, ApiSteps DEF base
    <3>2. StepsLeft(r) = base + 1
      BY <1>1, <2>1 DEF StepsLeft
    <3>3. StepsLeft(r)' = apis'[r] * Span + (Span - tries'[r]) + 1
      BY <2>3 DEF StepsLeft
    <3> QED
      BY <1>1, <3>1, <3>2, <3>3
  <2> QED
    BY <1>10, <2>2, <2>3 DEF Exhausted, ToAggregates, Goto, Ended, IInv, TypeOK, Replies
<1>11. ASSUME NextApi(r) PROVE Goal
  <2>1. /\ pc[r] = "api" /\ pc'[r] = "api" /\ apis[r] > 0
        /\ apis'[r] = apis[r] - 1 /\ tries'[r] = 0
    BY <1>11 DEF NextApi, IInv, TypeOK
  <2>2. StepsLeft(r) = apis[r] * Span + (Span - tries[r]) + 1
    BY <2>1 DEF StepsLeft
  <2>3. StepsLeft(r)' = (apis[r] - 1) * Span + (Span - 0) + 1
    BY <2>1 DEF StepsLeft
  <2> DEFINE rest == (apis[r] - 1) * Span
             all == apis[r] * Span
  <2>4. all \in Nat /\ rest + Span = all /\ rest \in Int
    BY <1>2, <2>1
  <2> HIDE DEF rest, all
  <2> QED
    BY <1>2, <2>2, <2>3, <2>4 DEF rest, all
<1>12. ASSUME RetryApi(r) PROVE Goal
  <2>1. /\ pc[r] = "api" /\ pc'[r] = "api"
        /\ apis' = apis /\ tries'[r] = tries[r] + 1
    BY <1>12 DEF RetryApi, IInv, TypeOK
  <2> DEFINE all == apis[r] * Span
  <2>2. StepsLeft(r) = all + (Span - tries[r]) + 1
    BY <2>1 DEF StepsLeft
  <2>3. StepsLeft(r)' = all + (Span - (tries[r] + 1)) + 1
    BY <2>1 DEF StepsLeft
  <2>4. all \in Nat
    BY <1>2
  <2> HIDE DEF all
  <2> QED
    BY <1>2, <2>2, <2>3, <2>4
<1>13. ASSUME ServeApi(r) PROVE Goal
  <2>1. pc[r] = "api" /\ pc'[r] = "serving"
    BY <1>13 DEF ServeApi, Goto, IInv, TypeOK
  <2> QED
    BY <1>1, <1>2, <2>1 DEF StepsLeft
<1> HIDE DEF Goal
<1>14. Goal
  BY <1>3, <1>4, <1>5, <1>6, <1>7, <1>8, <1>9, <1>10, <1>11, <1>12, <1>13 DEF Advance
<1> QED
  BY <1>14 DEF Goal

\* The safety half of Terminates: a request that has arrived ends after MaxSteps steps of
\* its own at the latest, whatever the other requests do in between.
THEOREM RequestsCountDown == Spec => []StepsBounded /\ CountsDown
<1>1. Init => AgainAtUpstream
  BY DEF Init, AgainAtUpstream
<1>2. ASSUME IInv, AgainAtUpstream, [Next]_vars, NEW r \in Requests, pc[r] # "new"
      PROVE  /\ Advance(r) => StepsLeft(r)' < StepsLeft(r)
             /\ ~Advance(r) => StepsLeft(r)' = StepsLeft(r)
  <2>1. ASSUME ~Advance(r) PROVE Same(r)
    <3>1. ASSUME NEW q \in Requests,
                 Reject(q) \/ ArriveAggregate(q) \/ ArriveEmpty(q) \/ Arrive(q) \/ Advance(q)
          PROVE  Same(r)
      <4>1. q # r
        BY <1>2, <2>1, <3>1 DEF Reject, ArriveAggregate, ArriveEmpty, Arrive, Turn
      <4> QED
        BY <1>2, <3>1, <4>1, StepsAlone
    <3>2. CASE UNCHANGED vars \/ \E a \in Accounts : Thaw(a)
      BY <3>2 DEF Same, Thaw, vars, local, stack
    <3> QED
      BY <1>2, <3>1, <3>2 DEF Next
  <2>2. ASSUME Same(r) PROVE StepsLeft(r)' = StepsLeft(r)
    BY <2>2 DEF Same, StepsLeft, Walk
  <2> QED
    BY <1>2, <2>1, <2>2, AdvanceCountsDown
<1>3. IInv /\ AgainAtUpstream /\ [Next]_vars =>
        [\A r \in Requests : pc[r] # "new" =>
           /\ Advance(r) => StepsLeft(r)' < StepsLeft(r)
           /\ ~Advance(r) => StepsLeft(r)' = StepsLeft(r)]_vars
  BY <1>2
<1>4. IInv /\ AgainAtUpstream /\ [Next]_vars => AgainAtUpstream'
  BY AgainStays
<1> QED
  BY Invariance, StepsAreBounded, <1>1, <1>3, <1>4, PTL DEF Spec, CountsDown
=============================================================================
