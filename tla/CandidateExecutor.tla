-------------------------- MODULE CandidateExecutor --------------------------
(***************************************************************************)
(* The loop over the candidate accounts of a request                       *)
(* (upstream/proxy_pipeline/candidate_executor.rs, response_finalize.rs,   *)
(* support/candidates.rs), run by many worker threads at once.  They share *)
(* the set of accounts on cooldown (AccountCooldown, seen through its      *)
(* lookups only) and the count of requests in flight on each account       *)
(* (observability/metrics.rs).  Each takes its locks one by one, so that   *)
(* what a request checked may have changed when it acts on it.             *)
(***************************************************************************)
EXTENDS Integers, Sequences, FiniteSets, CandidateAttempt

CONSTANTS
    Requests,       \* the worker threads that forward requests
    Accounts,
    NoAccount,      \* "no guard"
    Orders,         \* the candidate lists a request may be given
    MaxInflight     \* account_max_inflight, 0 for no limit

ASSUME RequestsAssumption == IsFiniteSet(Requests)
ASSUME NoAccountAssumption == NoAccount \notin Accounts
ASSUME OrdersAssumption == Orders \subseteq (Seq(Accounts) \ {<<>>})
ASSUME MaxInflightAssumption == MaxInflight \in Nat

VARIABLES
    cooling,    \* accounts on cooldown
    inflight,   \* account -> requests counted in flight
    pc,         \* where each request is in the loop
    order,      \* its candidates
    idx,        \* the candidate it is at
    request,    \* what became of the client's request
    guard,      \* the account whose in-flight guard it holds
    late,       \* its deadline has passed
    result      \* how execute_candidate_sequence ended

sharedVars == <<cooling, inflight>>
vars == <<cooling, inflight, pc, order, idx, request, guard, late, result>>

Stages  == {"idle", "check", "cooldown", "inflight", "acquire", "attempt", "retry",
            "finalize", "follow_up", "next", "leave", "done"}
Results == {"none", "handled", "exhausted", "consumed_error", "delivery_error", "panic"}

Init == /\ cooling = {}
        /\ inflight = [a \in Accounts |-> 0]
        /\ pc = [r \in Requests |-> "idle"]
        /\ order = [r \in Requests |-> <<>>]
        /\ idx = [r \in Requests |-> 1]
        /\ request = [r \in Requests |-> "held"]
        /\ guard = [r \in Requests |-> NoAccount]
        /\ late = [r \in Requests |-> FALSE]
        /\ result = [r \in Requests |-> "none"]

-----------------------------------------------------------------------------
(* Helpers                                                                  *)

Candidate(r) == order[r][idx[r]]
HasMoreCandidates(r) == idx[r] < Len(order[r])

Go(r, stage)      == pc' = [pc EXCEPT ![r] = stage]
Finish(r, how)    == Go(r, "leave") /\ result' = [result EXCEPT ![r] = how]
Consume(r, how)   == request' = [request EXCEPT ![r] = how]
Cooled(a, effect) == CASE effect = "marked"  -> cooling \cup {a}
                       [] effect = "cleared" -> cooling \ {a}
                       [] OTHER              -> cooling

\* Dropping a guard: the count of its account goes down, and the entry away at 1.
DropGuard(r) ==
    /\ inflight' = IF guard[r] = NoAccount THEN inflight
                   ELSE [inflight EXCEPT ![guard[r]] = IF @ > 1 THEN @ - 1 ELSE 0]
    /\ guard' = [guard EXCEPT ![r] = NoAccount]

\* analyze_gateway_error: an error that names a deactivated or an exhausted account is a
\* reason to go on with the next one; the exhausted account cools down meanwhile.
ErrorKinds == {"Deactivation", "UsageLimit", "Other"}
\* A plausible slip: a deactivated account is left to the client to deal with.
ShouldFailoverOnLimit(kind, has_more) == has_more /\ kind = "UsageLimit"
ShouldFailover(kind, has_more) == has_more /\ kind # "Other"
MarksDefault(kind, has_more) == kind = "UsageLimit" /\ ShouldFailover(kind, has_more)

\* candidate_skip_reason_for_proxy.  A plausible slip: the last candidate is skipped too.
SkipAnyCooling(r) == Candidate(r) \in cooling
SkipForCooldown(r) == Candidate(r) \in cooling /\ HasMoreCandidates(r)
SkipForInflight(r) == /\ MaxInflight > 0
                      /\ inflight[Candidate(r)] >= MaxInflight
                      /\ HasMoreCandidates(r)

-----------------------------------------------------------------------------
(* Before the attempt                                                       *)

Start(r, candidates) ==
    /\ pc[r] = "idle"
    /\ order' = [order EXCEPT ![r] = candidates]
    /\ Go(r, "check")
    /\ UNCHANGED <<sharedVars, idx, request, guard, late, result>>

DeadlinePasses(r) ==
    /\ pc[r] \notin {"idle", "done"} /\ ~late[r]
    /\ late' = [late EXCEPT ![r] = TRUE]
    /\ UNCHANGED <<sharedVars, pc, order, idx, request, guard, result>>

\* The top of the loop: with candidates left, the deadline is looked at ...
WithinDeadline(r) ==
    /\ pc[r] = "check" /\ idx[r] <= Len(order[r]) /\ ~late[r]
    /\ Go(r, "cooldown")
    /\ UNCHANGED <<sharedVars, order, idx, request, guard, late, result>>

\* ... and answered with a 504 when it has passed; with none left the loop ends and the
\* caller would answer with a 503.  Both expect the request to be there still.
LoopEnds(r) ==
    LET no_candidate_left == idx[r] > Len(order[r])
    IN  /\ pc[r] = "check" /\ (no_candidate_left \/ late[r])
        /\ IF request[r] = "held" /\ ~no_candidate_left
           THEN Consume(r, "answered") /\ Finish(r, "handled")
           ELSE /\ Finish(r, IF request[r] = "held" THEN "exhausted" ELSE "panic")
                /\ UNCHANGED request
        /\ UNCHANGED <<sharedVars, order, idx, guard, late>>

\* The two lookups of the skip check, each under its own lock.
LooksAtCooldown(r) ==
    /\ pc[r] = "cooldown"
    /\ Go(r, IF SkipForCooldown(r) THEN "next" ELSE "inflight")
    /\ UNCHANGED <<sharedVars, order, idx, request, guard, late, result>>

LooksAtInflight(r) ==
    /\ pc[r] = "inflight"
    /\ Go(r, IF SkipForInflight(r) THEN "next" ELSE "acquire")
    /\ UNCHANGED <<sharedVars, order, idx, request, guard, late, result>>

\* acquire_account_inflight counts the request in, whatever the count was when it looked.
\* A plausible slip: nobody looks whether the request is still there.
AcquiresAnyway(r) ==
    /\ pc[r] = "acquire"
    /\ inflight' = [inflight EXCEPT ![Candidate(r)] = @ + 1]
    /\ guard' = [guard EXCEPT ![r] = Candidate(r)]
    /\ Go(r, "attempt")
    /\ UNCHANGED <<cooling, order, idx, request, late, result>>
AcquiresInflight(r) ==
    /\ pc[r] = "acquire" /\ request[r] = "held"
    /\ inflight' = [inflight EXCEPT ![Candidate(r)] = @ + 1]
    /\ guard' = [guard EXCEPT ![r] = Candidate(r)]
    /\ Go(r, "attempt")
    /\ UNCHANGED <<cooling, order, idx, request, late, result>>

\* "request already consumed"
AlreadyConsumed(r) ==
    /\ pc[r] = "acquire" /\ request[r] # "held"
    /\ Finish(r, "consumed_error")
    /\ UNCHANGED <<sharedVars, order, idx, request, guard, late>>

-----------------------------------------------------------------------------
(* The attempt and what follows it                                          *)

AttemptFailsOver(r, outcome) ==
    /\ pc[r] \in {"attempt", "retry"} /\ outcome.decision = "Failover"
    /\ cooling' = Cooled(Candidate(r), outcome.effect)
    /\ Go(r, "next")
    /\ UNCHANGED <<inflight, order, idx, request, guard, late, result>>

\* A terminal error of the first attempt goes on with the next candidate if its message says
\* that the account is spent; any other, and any of the retry, is the client's answer.
AttemptIsTerminal(r, outcome, kind) ==
    /\ pc[r] \in {"attempt", "retry"} /\ outcome.decision = "Terminal"
    /\ IF pc[r] = "attempt" /\ ShouldFailover(kind, HasMoreCandidates(r))
       THEN /\ cooling' = Cooled(Candidate(r), IF MarksDefault(kind, HasMoreCandidates(r))
                                               THEN "marked" ELSE outcome.effect)
            /\ Go(r, "next")
            /\ UNCHANGED <<request, result>>
       ELSE /\ cooling' = Cooled(Candidate(r), outcome.effect)
            /\ Consume(r, "answered")
            /\ Finish(r, "handled")
    /\ UNCHANGED <<inflight, order, idx, guard, late>>

\* An answer of the upstream; a 400 may be retried once without session affinity.
AttemptResponds(r, outcome, again) ==
    /\ pc[r] \in {"attempt", "retry"} /\ outcome.decision = "RespondUpstream"
    /\ again => pc[r] = "attempt" /\ outcome.effect # "cleared"
    /\ cooling' = Cooled(Candidate(r), outcome.effect)
    /\ Go(r, IF again THEN "retry" ELSE "finalize")
    /\ UNCHANGED <<inflight, order, idx, request, guard, late, result>>

\* respond_with_upstream takes the request and the guard.  The client gets the answer; or
\* the body says that the account is deactivated and another candidate is left, and nothing
\* is sent; or reading the body fails.  A request that is dropped unanswered is gone.
Delivers(r) ==
    /\ pc[r] = "finalize"
    /\ DropGuard(r) /\ Consume(r, "answered") /\ Go(r, "follow_up")
    /\ UNCHANGED <<cooling, order, idx, late, result>>

SuppressesDelivery(r) ==
    /\ pc[r] = "finalize" /\ HasMoreCandidates(r)
    /\ DropGuard(r) /\ Consume(r, "dropped") /\ Go(r, "follow_up")
    /\ UNCHANGED <<cooling, order, idx, late, result>>

DeliveryFails(r) ==
    /\ pc[r] = "finalize"
    /\ DropGuard(r) /\ Consume(r, "dropped") /\ Finish(r, "delivery_error")
    /\ UNCHANGED <<cooling, order, idx, late>>

\* The rest of finalize_upstream_response: the error of the answer is analysed, a stream
\* that broke off marks the account, and the loop goes on or ends.
FollowsUp(r, kind, upstream_stream_failed) ==
    /\ pc[r] = "follow_up"
    /\ request[r] = "dropped" => kind = "Deactivation"
    /\ cooling' = Cooled(Candidate(r),
           IF upstream_stream_failed \/ MarksDefault(kind, HasMoreCandidates(r))
           THEN "marked" ELSE "none")
    /\ IF ShouldFailover(kind, HasMoreCandidates(r))
       THEN Go(r, "next") /\ UNCHANGED result
       ELSE Finish(r, "handled")
    /\ UNCHANGED <<inflight, order, idx, request, guard, late>>

\* A plausible slip: the guard of an abandoned candidate is kept.
KeepsGuard(r) == guard' = [guard EXCEPT ![r] = NoAccount] /\ UNCHANGED inflight
EndsIteration(r) == DropGuard(r)
\* A plausible slip: the same candidate is tried for ever.
SameIdx(r) == idx[r]
NextIdx(r) == idx[r] + 1

\* continue
NextCandidate(r) ==
    /\ pc[r] = "next"
    /\ EndsIteration(r)
    /\ idx' = [idx EXCEPT ![r] = NextIdx(r)]
    /\ Go(r, "check")
    /\ UNCHANGED <<cooling, order, request, late, result>>

\* return, or unwinding: what the request still holds is dropped.
Leave(r) ==
    /\ pc[r] = "leave"
    /\ DropGuard(r)
    /\ Go(r, "done")
    /\ UNCHANGED <<cooling, order, idx, request, late, result>>

\* The thread takes its next request.
Again(r) ==
    /\ pc[r] = "done"
    /\ Go(r, "idle")
    /\ order' = [order EXCEPT ![r] = <<>>]
    /\ idx' = [idx EXCEPT ![r] = 1]
    /\ request' = [request EXCEPT ![r] = "held"]
    /\ late' = [late EXCEPT ![r] = FALSE]
    /\ result' = [result EXCEPT ![r] = "none"]
    /\ UNCHANGED <<sharedVars, guard>>

\* The cooldown of an account ends, or a request outside the loop marks it.
CooldownChanges(a, effect) ==
    /\ cooling' = Cooled(a, effect)
    /\ UNCHANGED <<inflight, pc, order, idx, request, guard, late, result>>

Attempt(r) ==
    \E outcome \in AttemptOutcomes(HasMoreCandidates(r)) :
        \/ AttemptFailsOver(r, outcome)
        \/ \E kind \in ErrorKinds : AttemptIsTerminal(r, outcome, kind)
        \/ \E again \in BOOLEAN : AttemptResponds(r, outcome, again)

Step(r) ==
    \/ WithinDeadline(r) \/ LoopEnds(r)
    \/ LooksAtCooldown(r) \/ LooksAtInflight(r)
    \/ AcquiresInflight(r) \/ AlreadyConsumed(r)
    \/ Attempt(r)
    \/ Delivers(r) \/ SuppressesDelivery(r) \/ DeliveryFails(r)
    \/ \E kind \in ErrorKinds, failed \in BOOLEAN : FollowsUp(r, kind, failed)
    \/ NextCandidate(r) \/ Leave(r)

Next == \/ \E r \in Requests :
             \/ \E candidates \in Orders : Start(r, candidates)
             \/ DeadlinePasses(r)
             \/ Step(r)
             \/ Again(r)
        \/ \E a \in Accounts, effect \in {"marked", "cleared"} : CooldownChanges(a, effect)

Spec == Init /\ [][Next]_vars

\* A worker thread runs, and an attempt ends: its sends have timeouts of their own.
FairSpec == Spec /\ \A r \in Requests : WF_vars(Step(r))

-----------------------------------------------------------------------------
(* Properties                                                               *)

\* A request in the loop is at one of its candidates; past the last one only at its top.
TypeOK ==
    /\ cooling \subseteq Accounts
    /\ inflight \in [Accounts -> Nat]
    /\ pc \in [Requests -> Stages]
    /\ order \in [Requests -> Orders \cup {<<>>}]
    /\ idx \in [Requests -> Nat \ {0}]
    /\ request \in [Requests -> {"held", "answered", "dropped"}]
    /\ guard \in [Requests -> Accounts \cup {NoAccount}]
    /\ late \in [Requests -> BOOLEAN]
    /\ result \in [Requests -> Results]

\* The count of an account is the number of guards that are out for it, on every path that
\* ends an attempt: no leak that would keep the account at its limit, no release twice.
Holders(a) == {r \in Requests : guard[r] = a}
InflightMatchesGuards == \A a \in Accounts : inflight[a] = Cardinality(Holders(a))

\* The loop never runs out of candidates: the last one is neither skipped nor given up, by
\* any of the decisions that look for a next one.
NeverExhausted == \A r \in Requests : result[r] # "exhausted"

\* A request that counts as handled was answered.  An answer that is held back for a
\* deactivated account must then fail over: two functions that have to agree.
HandledIsAnswered ==
    \A r \in Requests : result[r] = "handled" => request[r] = "answered"

\* Every request ends, whatever its candidates do.
EveryRequestEnds == \A r \in Requests : pc[r] = "check" ~> pc[r] = "done"

\* "request should be available before timeout response": as long as there is a candidate to
\* go on with, the request is still there to be answered.
RequestAvailable ==
    \A r \in Requests : (pc[r] = "check" /\ idx[r] <= Len(order[r])) => request[r] = "held"
=============================================================================
