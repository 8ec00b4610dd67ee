------------------------------ MODULE Gateway ------------------------------
(***************************************************************************)
(* The gateway's proxy pipeline: concurrent requests of one platform key,  *)
(* model and conversation, each on a worker of its own.  A request resolves *)
(* its candidates, waits at the gate of its key, tries the candidates one  *)
(* after the other and fails over between them, and a hybrid one goes on   *)
(* to the aggregate APIs.  Cooldowns, in-flight counters, the gate and the *)
(* conversation's binding are what the requests share.  What an upstream   *)
(* answers, and which candidates there are, is free.                       *)
(***************************************************************************)
EXTENDS Integers, FiniteSets, Sequences, Functions

CONSTANTS
  Requests, Accounts,
  Plans,        \* [route, anthropic, conv]: what a key and a path make of a request
  Bases,        \* the upstreams configured: "chatgpt", "custom", "openai"
  MaxInflight,  \* account_max_inflight, 0 for no limit
  MaxApis,      \* bound: aggregate APIs that match a request
  Retries,      \* AGGREGATE_API_RETRY_ATTEMPTS_PER_CHANNEL
  Key,          \* the platform key, which counts as an account while an aggregate API serves
  None

ASSUME GatewayAssumption ==
  /\ Plans \subseteq [route : {"account", "aggregate", "hybrid"}, anthropic : BOOLEAN,
                      conv : {"none", "native", "cache", "cacheOnly"}]
  /\ Bases \subseteq {"chatgpt", "custom", "openai"}
  /\ MaxInflight \in Nat /\ MaxApis \in Nat /\ Retries \in Nat
  /\ Key \notin Accounts /\ None \notin Accounts \cup {Key} \cup Requests
  /\ IsFiniteSet(Accounts) /\ IsFiniteSet(Requests)

VARIABLES
  pc,        \* where each request is
  plan,      \* its plan
  queue,     \* the candidates it has left; the first is the one at hand
  reply,     \* what its client was given; "none" while the request is in hand
  got,       \* the class of the answer being delivered
  again,     \* the answer is that of the retry without session affinity
  bound,     \* the binding as local validation read it
  apis,      \* aggregate APIs left
  tries,     \* attempts made at the first of them
  guard,     \* the account whose in-flight guard it holds
  cooling,   \* accounts in cooldown
  inflight,  \* the in-flight counters
  gate,      \* the request that holds the gate
  binding    \* the conversation's binding: an account and an epoch

stack == <<again, bound, apis, tries>>
local == <<plan, queue, got, stack>>
shared == <<cooling, inflight, gate, binding>>
vars == <<pc, reply, guard, local, shared>>

Ended == {"done", "failed"}

-----------------------------------------------------------------------------
\* What becomes of one attempt at an account.  A situation is the last answer,
\* how the attempt ended ("go" while it has not) and what it does to the cooldown.

Answers == {"ok", "bad", "unauthorized", "challenge", "forbidden", "missing",
            "limited", "server", "unavailable", "other"}

Fresh == [got |-> "none", exit |-> "go", cool |-> "keep"]

Exit(s, e) == [s EXCEPT !.exit = e]

Marked(s) == [s EXCEPT !.cool = "mark"]

Answered(s) == {[s EXCEPT !.got = g] : g \in Answers}

\* follow_up_action: with another candidate left the request fails over.
FollowUp(s, e, more) == Exit(s, IF more THEN "failover" ELSE e)

\* A stage of an attempt, applied to the situations the earlier ones left.
Through(S, Stage(_)) == UNION {IF s.exit = "go" THEN Stage(s) ELSE {s} : s \in S}

\* run_primary_upstream_attempt, run_primary_upstream_flow: the deadline, a missing access token,
\* a transport error, or an answer.
Primary(more) ==
  {Exit(Fresh, "terminal"), FollowUp(Marked(Fresh), "terminal", more)} \cup Answered(Fresh)

\* should_failover_immediately_for_cloudflare
Cloudflare(s, more) ==
  IF more /\ s.got = "challenge" THEN {Exit(Marked(s), "failover")} ELSE {s}

\* A 401 refreshes the token and asks again; without a refresh token, or when the
\* refresh or the second request fails, the 401 stands.
Unauthorized(s) == IF s.got = "unauthorized" THEN {s} \cup Answered(s) ELSE {s}

\* retry_with_alternate_path, where the path has an alternative
AltPath(s, more) ==
  IF s.got \in {"bad", "missing"}
  THEN {s, Exit(s, "terminal"), FollowUp(Marked(s), "terminal", more)} \cup Answered(s)
  ELSE {s}

\* retry_upstream_server_error_once; the wait may outlast the deadline.
ServerError(s) ==
  IF s.got = "server" THEN {s, Exit(s, "terminal")} \cup Answered(s) ELSE {s}

\* retry_chatgpt_challenge_without_compression keeps the new answer only if it is a success.
Uncompressed(s, base) ==
  IF s.got = "challenge" /\ base = "chatgpt" THEN {s, [s EXCEPT !.got = "ok"]} ELSE {s}

\* retry_stateless_then_optional_alt
Stateless(s, base) ==
  IF base = "chatgpt" \/ s.got = "challenge" THEN {s}
  ELSE {s, Exit(s, "terminal")}
         \cup (IF s.got \in {"forbidden", "missing", "limited"} THEN Answered(s) ELSE {})

\* decide_upstream_outcome: which failures belong to the account.
Outcome(s, base, more) ==
  LET respond == Exit(s, "respond")
      blame == FollowUp(Marked(s), "respond", more)
  IN CASE s.got = "ok" -> {[respond EXCEPT !.cool = "clear"]}
       [] s.got \in {"challenge", "limited"} -> {blame}
       [] base # "custom" /\ s.got = "unauthorized" -> {respond}
       [] base = "custom" /\ s.got \in {"server", "unavailable"} -> {blame}
       [] base = "custom" /\ s.got = "missing" /\ more -> {blame}
       [] OTHER -> {respond, blame}

\* process_upstream_post_retry_flow; the fallback to an OpenAI base is never taken.
PostRetry(S, base, more, anthropic) ==
  LET a == Through(S, LAMBDA s : Cloudflare(s, more))
      b == Through(a, Unauthorized)
      c == Through(b, LAMBDA s : AltPath(s, more))
      d == Through(c, ServerError)
      e == Through(d, LAMBDA s : Uncompressed(s, base))
      f == Through(e, LAMBDA s : Stateless(s, base))
      g == Through(f, LAMBDA s : {IF anthropic /\ s.got = "challenge" THEN Marked(s) ELSE s})
  IN Through(g, LAMBDA s : Outcome(s, base, more))

\* handle_openai_base_attempt; when its error tells of the account the request fails over.
OpenAiBase(more) ==
  {Exit(Marked(Fresh), "terminal"), FollowUp(Marked(Fresh), "terminal", more)}
    \cup Through(Answered(Fresh), LAMBDA s : Outcome(s, "openai", more))

\* run_candidate_attempt, execute: how an attempt can end, the answer reduced to
\* what the rest of the pipeline tells apart.
Attempts ==
  [more \in BOOLEAN |-> [anthropic \in BOOLEAN |->
    {[exit |-> s.exit, cool |-> s.cool, got |-> IF s.got \in {"ok", "bad"} THEN s.got ELSE "error"] :
       s \in UNION {IF base = "openai" THEN OpenAiBase(more)
                    ELSE PostRetry(Primary(more), base, more, anthropic) : base \in Bases}}]]

-----------------------------------------------------------------------------
Lists == UNION {{q \in [1..n -> Accounts] : IsInjective(q)} : n \in 1..Cardinality(Accounts)}

Init ==
  /\ pc = [r \in Requests |-> "new"]
  /\ plan \in [Requests -> Plans]
  /\ queue = [r \in Requests |-> <<>>]
  /\ reply = [r \in Requests |-> "none"]
  /\ got = [r \in Requests |-> "none"]
  /\ again = [r \in Requests |-> FALSE]
  /\ bound = [r \in Requests |-> None]
  /\ apis = [r \in Requests |-> 0]
  /\ tries = [r \in Requests |-> 0]
  /\ guard = [r \in Requests |-> None]
  /\ cooling = {}
  /\ inflight = [a \in Accounts \cup {Key} |-> 0]
  /\ gate = None
  /\ binding = None

Goto(r, p) == pc' = [pc EXCEPT ![r] = p]

\* The request ends: whatever its stack still holds is dropped.
End(r, p, answer) ==
  /\ Goto(r, p)
  /\ again' = [again EXCEPT ![r] = FALSE]
  /\ bound' = [bound EXCEPT ![r] = None]
  /\ apis' = [apis EXCEPT ![r] = 0]
  /\ tries' = [tries EXCEPT ![r] = 0]
  /\ reply' = [reply EXCEPT ![r] = answer]
  /\ guard' = [guard EXCEPT ![r] = None]
  /\ inflight' = IF guard[r] = None THEN inflight ELSE [inflight EXCEPT ![guard[r]] = @ - 1]
  /\ gate' = IF gate = r THEN None ELSE gate

\* mark_account_cooldown, clear_account_cooldown
Cool(a, how) ==
  cooling' = CASE how = "mark" -> cooling \cup {a}
               [] how = "clear" -> cooling \ {a}
               [] OTHER -> cooling

Serving(r) == Head(queue[r])

More(r) == Len(queue[r]) > 1

\* proxy_with_aggregate_candidates, or the error that there is none
ToAggregates(r) ==
  \/ /\ \E n \in 1..MaxApis : apis' = [apis EXCEPT ![r] = n]
     /\ Goto(r, "api")
     /\ UNCHANGED <<reply, guard, inflight, gate, again, bound, tries>>
  \/ End(r, "done", "local")

-----------------------------------------------------------------------------
\* proxy_validated_request up to the gate.  The binding was read by local
\* validation; the candidates are ordered with the preferred account first, else
\* the bound one, else by the route strategy.
Turn(r) == pc[r] = "new" /\ UNCHANGED <<cooling, binding>>

\* A model no source serves, or candidates that cannot be read
Reject(r) ==
  /\ Turn(r)
  /\ End(r, "done", "local")
  /\ UNCHANGED <<plan, queue, got>>

ArriveAggregate(r) ==
  /\ Turn(r)
  /\ plan[r].route = "aggregate"
  /\ ToAggregates(r)
  /\ UNCHANGED <<plan, queue, got>>

\* prepare_candidates_for_proxy finds no account
ArriveEmpty(r) ==
  /\ Turn(r)
  /\ \/ plan[r].route = "hybrid" /\ ToAggregates(r)
     \/ plan[r].route = "account" /\ End(r, "done", "noAccount")
  /\ UNCHANGED <<plan, queue, got>>

\* prepare_conversation_routing_with_source, apply_candidate_rotation
Leads(q, preferred, b) ==
  IF preferred \in Range(q) THEN Head(q) = preferred
  ELSE b # None /\ b.selectable => Head(q) = b.account

\* existing_binding and bound_account_selectable, as the request saw them
Bound(r, q) ==
  IF plan[r].conv = "none" \/ binding = None THEN None
  ELSE [account |-> binding.account, epoch |-> binding.epoch,
        selectable |-> binding.account \in Range(q)]

Arrive(r) ==
  /\ Turn(r)
  /\ plan[r].route # "aggregate"
  /\ Goto(r, "gate")
  /\ \E preferred \in Accounts \cup {None}, q \in Lists :
       /\ Leads(q, preferred, Bound(r, q))
       /\ queue' = [queue EXCEPT ![r] = q]
       /\ bound' = [bound EXCEPT ![r] = Bound(r, q)]
  /\ UNCHANGED <<plan, reply, got, again, apis, tries, guard, inflight, gate>>

\* acquire_request_gate: the gate, or none when the wait times out
EnterGate(r) ==
  /\ pc[r] = "gate"
  /\ Goto(r, "loop")
  /\ gate' = IF gate = None THEN r ELSE gate
  /\ UNCHANGED <<reply, guard, local, cooling, inflight, binding>>

-----------------------------------------------------------------------------
\* execute_candidate_sequence, the loop over the candidates

Looping(r) == pc[r] = "loop" /\ queue[r] # <<>>

\* The deadline may have passed whenever it is checked, and is checked first: the
\* request is answered, or there is none left to answer.
TimeOut(r) ==
  /\ Looping(r)
  /\ IF reply[r] = "none" THEN End(r, "done", "local") ELSE End(r, "failed", reply[r])
  /\ UNCHANGED <<plan, queue, got, cooling, binding>>

\* Mutant of SkipReason: the last candidate is skipped as well.
SkipReasonOfLast(r) ==
  \/ Serving(r) \in cooling
  \/ MaxInflight > 0 /\ inflight[Serving(r)] >= MaxInflight

\* candidate_skip_reason_for_proxy
SkipReason(r) ==
  \/ Serving(r) \in cooling /\ (More(r) \/ plan[r].anthropic)
  \/ MaxInflight > 0 /\ inflight[Serving(r)] >= MaxInflight /\ More(r)

Skip(r) ==
  /\ Looping(r)
  /\ SkipReason(r)
  /\ queue' = [queue EXCEPT ![r] = Tail(@)]
  /\ UNCHANGED <<pc, reply, guard, plan, got, again, bound, apis, tries, shared>>

Choose(r) ==
  /\ Looping(r)
  /\ ~SkipReason(r)
  /\ Goto(r, "chosen")
  /\ UNCHANGED <<reply, guard, local, shared>>

\* Mutant of Admit: the request is sent whether it is in hand or not.
AdmitUnchecked(r) ==
  /\ pc[r] = "chosen"
  /\ Goto(r, "sent")
  /\ guard' = [guard EXCEPT ![r] = Serving(r)]
  /\ inflight' = [inflight EXCEPT ![Serving(r)] = @ + 1]
  /\ UNCHANGED <<reply, gate, local, cooling, binding>>

\* The request must still be in hand; acquire_account_inflight
Admit(r) ==
  /\ pc[r] = "chosen"
  /\ \/ /\ reply[r] = "none"
        /\ Goto(r, "sent")
        /\ guard' = [guard EXCEPT ![r] = Serving(r)]
        /\ inflight' = [inflight EXCEPT ![Serving(r)] = @ + 1]
        /\ UNCHANGED <<reply, gate, stack>>
     \/ reply[r] # "none" /\ End(r, "failed", reply[r])
  /\ UNCHANGED <<plan, queue, got, cooling, binding>>

\* Mutant of LeaveAccount: the guard outlives the attempt.
LeaveAccountHolding(r) ==
  /\ Goto(r, "loop")
  /\ queue' = [queue EXCEPT ![r] = Tail(@)]
  /\ got' = [got EXCEPT ![r] = "none"]
  /\ again' = [again EXCEPT ![r] = FALSE]
  /\ UNCHANGED <<guard, inflight, plan, bound, apis, tries, gate>>

\* The attempt at an account is given up and its guard dropped.
LeaveAccount(r) ==
  /\ Goto(r, "loop")
  /\ queue' = [queue EXCEPT ![r] = Tail(@)]
  /\ guard' = [guard EXCEPT ![r] = None]
  /\ inflight' = [inflight EXCEPT ![guard[r]] = @ - 1]
  /\ got' = [got EXCEPT ![r] = "none"]
  /\ again' = [again EXCEPT ![r] = FALSE]
  /\ UNCHANGED <<plan, bound, apis, tries, gate>>

\* The end of an attempt
Ending(r, e) == {s \in Attempts[More(r)][plan[r].anthropic] : s.exit = e}

Failover(r) ==
  /\ pc[r] = "sent"
  /\ \E s \in Ending(r, "failover") : Cool(Serving(r), s.cool)
  /\ LeaveAccount(r)
  /\ UNCHANGED <<reply, binding>>

\* respond_terminal_attempt
Terminal(r) ==
  /\ pc[r] = "sent"
  /\ \E s \in Ending(r, "terminal") : Cool(Serving(r), s.cool)
  /\ End(r, "done", "local")
  /\ UNCHANGED <<plan, queue, got, binding>>

RespondUpstream(r) ==
  /\ pc[r] = "sent"
  /\ \E s \in Ending(r, "respond") :
       /\ Cool(Serving(r), s.cool)
       /\ got' = [got EXCEPT ![r] = s.got]
  /\ Goto(r, "answered")
  /\ UNCHANGED <<reply, guard, plan, queue, again, bound, apis, tries, inflight, gate, binding>>

\* A 400 is asked again, once, without the session affinity.
RetryWithoutAffinity(r) ==
  /\ pc[r] = "answered"
  /\ got[r] = "bad"
  /\ ~again[r]
  /\ again' = [again EXCEPT ![r] = TRUE]
  /\ got' = [got EXCEPT ![r] = "none"]
  /\ Goto(r, "sent")
  /\ UNCHANGED <<reply, guard, plan, queue, bound, apis, tries, shared>>

-----------------------------------------------------------------------------
\* finalize_upstream_response, which consumes the request

\* The body of the answer cannot be read: the request is dropped.
BodyLost(r) ==
  /\ pc[r] = "answered"
  /\ End(r, "failed", "dropped")
  /\ UNCHANGED <<plan, queue, got, cooling, binding>>

\* The error of the answer tells of the account, and there are candidates left: a
\* deactivation is held back from the client, everything else has reached it.
DeliverAndFailover(r) ==
  /\ pc[r] = "answered"
  /\ More(r)
  /\ reply' = [reply EXCEPT ![r] = "upstream"]
  /\ \E how \in {"keep", "mark"} : Cool(Serving(r), how)
  /\ LeaveAccount(r)
  /\ UNCHANGED binding

Suppress(r) ==
  /\ pc[r] = "answered"
  /\ got[r] # "ok"
  /\ More(r)
  /\ reply' = [reply EXCEPT ![r] = "suppressed"]
  /\ LeaveAccount(r)
  /\ UNCHANGED <<cooling, binding>>

\* Mutant of Recorded: whatever the account answered binds the conversation to it.
RecordedAnyway(r, a) ==
  IF plan[r].conv = "native" THEN [account |-> a, epoch |-> 1] ELSE binding

\* record_conversation_binding_terminal_response: a request that another account
\* served binds the conversation to it, and counts from the epoch it read.  The
\* binding a prompt cache key has stays while its account can be selected.
Recorded(r, a) ==
  LET b == bound[r]
      conv == plan[r].conv
      creates == b = None /\ conv \in {"native", "cache"}
      moves == b # None /\ b.account # a /\ ~(conv \in {"cache", "cacheOnly"} /\ b.selectable)
  IN IF got[r] = "ok" /\ (creates \/ moves)
     THEN [account |-> a, epoch |-> IF b = None THEN 1 ELSE b.epoch + 1]
     ELSE binding

Deliver(r) ==
  /\ pc[r] = "answered"
  /\ \E how \in {"keep", "mark"} : Cool(Serving(r), how)
  /\ binding' = Recorded(r, Serving(r))
  /\ End(r, "done", "upstream")
  /\ UNCHANGED <<plan, queue, got>>

-----------------------------------------------------------------------------
\* No candidate is left: the request is answered, goes to the aggregate APIs, or is gone.
Exhausted(r) ==
  /\ pc[r] = "loop"
  /\ queue[r] = <<>>
  /\ \/ reply[r] # "none" /\ End(r, "failed", reply[r])
     \/ reply[r] = "none" /\ plan[r].route = "hybrid" /\ ToAggregates(r)
     \/ reply[r] = "none" /\ plan[r].route = "account" /\ End(r, "done", "noAccount")
  /\ UNCHANGED <<plan, queue, got, cooling, binding>>

\* proxy_aggregate_request.  Its deadline, its error exits and its answer end the request ...
ApiEnd(r) ==
  /\ pc[r] = "api"
  /\ \/ End(r, "done", "local")
     \/ apis[r] > 0 /\ End(r, "failed", "dropped")
  /\ UNCHANGED <<plan, queue, got, cooling, binding>>

\* Mutant of NextApi: the channel left is tried again.
NextApiSame(r) ==
  /\ pc[r] = "api"
  /\ apis[r] > 0
  /\ tries' = [tries EXCEPT ![r] = 0]
  /\ UNCHANGED <<pc, reply, guard, plan, queue, got, again, bound, apis, shared>>

\* Mutant of RetryApi: one attempt too many.
RetryApiOnceMore(r) ==
  /\ pc[r] = "api"
  /\ apis[r] > 0
  /\ tries[r] <= Retries
  /\ tries' = [tries EXCEPT ![r] = @ + 1]
  /\ UNCHANGED <<pc, reply, guard, plan, queue, got, again, bound, apis, shared>>

\* ... a channel without a secret, with a broken configuration or with its attempts used up is left ...
NextApi(r) ==
  /\ pc[r] = "api"
  /\ apis[r] > 0
  /\ apis' = [apis EXCEPT ![r] = @ - 1]
  /\ tries' = [tries EXCEPT ![r] = 0]
  /\ UNCHANGED <<pc, reply, guard, plan, queue, got, again, bound, shared>>

RetryApi(r) ==
  /\ pc[r] = "api"
  /\ apis[r] > 0
  /\ tries[r] < Retries
  /\ tries' = [tries EXCEPT ![r] = @ + 1]
  /\ UNCHANGED <<pc, reply, guard, plan, queue, got, again, bound, apis, shared>>

\* ... and a success is delivered under the key's own in-flight guard.
ServeApi(r) ==
  /\ pc[r] = "api"
  /\ apis[r] > 0
  /\ Goto(r, "serving")
  /\ guard' = [guard EXCEPT ![r] = Key]
  /\ inflight' = [inflight EXCEPT ![Key] = @ + 1]
  /\ UNCHANGED <<reply, local, cooling, gate, binding>>

ApiServed(r) ==
  /\ pc[r] = "serving"
  /\ End(r, "done", "upstream") \/ End(r, "failed", "dropped")
  /\ UNCHANGED <<plan, queue, got, cooling, binding>>

-----------------------------------------------------------------------------
\* A cooldown runs out.
Thaw(a) ==
  /\ a \in cooling
  /\ cooling' = cooling \ {a}
  /\ UNCHANGED <<pc, reply, guard, local, inflight, gate, binding>>

Advance(r) ==
  \/ EnterGate(r) \/ TimeOut(r) \/ Skip(r) \/ Choose(r) \/ Admit(r)
  \/ Failover(r) \/ Terminal(r) \/ RespondUpstream(r) \/ RetryWithoutAffinity(r)
  \/ BodyLost(r) \/ DeliverAndFailover(r) \/ Suppress(r) \/ Deliver(r)
  \/ Exhausted(r) \/ ApiEnd(r) \/ NextApi(r) \/ RetryApi(r) \/ ServeApi(r) \/ ApiServed(r)

Next ==
  \/ \E r \in Requests :
       Reject(r) \/ ArriveAggregate(r) \/ ArriveEmpty(r) \/ Arrive(r) \/ Advance(r)
  \/ \E a \in Accounts : Thaw(a)

\* A worker that runs a request keeps running.
Fairness == \A r \in Requests : WF_vars(Advance(r))

Spec == Init /\ [][Next]_vars /\ Fairness

-----------------------------------------------------------------------------
TypeOK ==
  /\ pc \in [Requests -> {"new", "gate", "loop", "chosen", "sent", "answered", "api", "serving"}
                         \cup Ended]
  /\ plan \in [Requests -> Plans]
  /\ queue \in [Requests -> Lists \cup {<<>>}]
  /\ reply \in [Requests -> {"none", "local", "noAccount", "upstream", "suppressed", "dropped"}]
  /\ got \in [Requests -> {"none", "ok", "bad", "error"}]
  /\ again \in [Requests -> BOOLEAN]
  /\ bound \in [Requests -> {None} \cup
                   [account : Accounts, epoch : Nat, selectable : BOOLEAN]]
  /\ apis \in [Requests -> 0..MaxApis] /\ tries \in [Requests -> 0..Retries]
  /\ guard \in [Requests -> Accounts \cup {Key, None}]
  /\ cooling \subseteq Accounts
  /\ inflight \in [Accounts \cup {Key} -> Nat]
  /\ gate \in Requests \cup {None}
  /\ binding \in {None} \cup [account : Accounts, epoch : Nat]

\* Whatever way a request ends -- an answer, a timeout, a failover, an error or a
\* panic -- it leaves neither a guard nor the gate behind: each in-flight counter is
\* the number of running requests at its account, and the gate's holder is running.
NothingLeaked ==
  /\ \A a \in Accounts \cup {Key} : inflight[a] = Cardinality({r \in Requests : guard[r] = a})
  /\ \A r \in Requests : guard[r] # None => pc[r] \in {"sent", "answered", "serving"}
  /\ gate # None => pc[gate] \notin Ended \cup {"new", "gate"}

\* The last candidate is tried whatever the others' cooldowns and counters say
\* (candidates.rs:177): a request of an account-rotation key that has candidates is
\* refused for want of an account only if it is Anthropic's and the last one cools down.
LastCandidateTried ==
  \A r \in Requests :
    pc[r] = "loop" /\ queue[r] = <<>> /\ reply[r] = "none" /\ plan[r].route = "account" =>
      plan[r].anthropic

\* The UI text (apps/src/lib/i18n/messages/en.ts:658): "hybrid rotation tries accounts
\* first and falls back to aggregate APIs when accounts are exhausted".  When the last
\* account's failure puts it into cooldown too, the request does not end with that failure.
HybridFallsBack ==
  [][\A r \in Requests :
       /\ plan[r].route = "hybrid" /\ pc[r] = "sent" /\ ~More(r)
       /\ Serving(r) \in cooling' \ cooling
       => pc'[r] \notin {"answered", "done"}]_vars

\* The binding names an account whose success was delivered for a request of the
\* conversation: no failure, no retry and no race of two requests binds another.
BindingWasServed ==
  binding # None =>
    \E r \in Requests : /\ pc[r] = "done" /\ reply[r] = "upstream" /\ got[r] = "ok"
                         /\ queue[r] # <<>> /\ Serving(r) = binding.account

\* Once its client has been given something a request asks no upstream again and
\* is given nothing more, however many candidates it still walks over.
AnsweredOnce ==
  [][\A r \in Requests :
       reply[r] # "none" => reply'[r] = reply[r] /\ pc'[r] \notin {"sent", "serving"}]_vars

\* Every request ends: failovers, retries, the gate and the deadlines never keep one for ever.
Terminates == \A r \in Requests : pc[r] # "new" ~> pc[r] \in Ended

\* candidate_executor.rs:215 and :513 expect the request to be in hand whenever the
\* loop goes on ("request should still exist when no candidate handled the response").
RequestInHand == \A r \in Requests : pc[r] \in {"loop", "chosen"} => reply[r] = "none"
=============================================================================
