------------------------ MODULE ForwardedRequest_proof ------------------------
(***************************************************************************)
(* Proofs about CandidateExecutor, for any number of requests, any         *)
(* accounts and candidate lists and any in-flight limit; about the attempt *)
(* of AttemptFlow inside it; and that the loop with its attempts carried   *)
(* out step by step (ForwardedRequest) implements the loop without them.   *)
(***************************************************************************)
EXTENDS ForwardedRequest, FiniteSetTheorems, TLAPS

\* Past its start a request is at one of its candidates, with one more ahead when it moves on.
AtCandidate == \A r \in Requests :
    /\ pc[r] # "idle" => order[r] \in Orders
    /\ pc[r] \notin {"idle", "leave", "done"} => idx[r] <= Len(order[r])
    /\ pc[r] = "next" => idx[r] < Len(order[r])
    /\ pc[r] = "idle" => idx[r] = 1

\* An answer held back for a deactivated account is owed to a further candidate.
HeldBack == \A r \in Requests :
    /\ (pc[r] = "follow_up" /\ request[r] = "dropped") => idx[r] < Len(order[r])
    /\ pc[r] = "follow_up" => request[r] # "held"

\* Guards are out only where the loop holds one.
GuardHeld == \A r \in Requests :
    guard[r] # NoAccount => pc[r] \in {"attempt", "retry", "finalize", "next", "leave"}

\* The request is still there while an attempt on its behalf runs.
RequestHeld == \A r \in Requests :
    /\ pc[r] \in {"attempt", "retry", "finalize"} => request[r] = "held"
    /\ result[r] # "none" => pc[r] \in {"leave", "done"}

LoopInv == /\ TypeOK /\ AtCandidate /\ HeldBack /\ GuardHeld /\ RequestHeld
       /\ NeverExhausted /\ HandledIsAnswered

LEMMA OrderFacts ==
    ASSUME NEW o \in Orders
    PROVE  Len(o) \in Nat /\ Len(o) >= 1 /\ \A i \in 1..Len(o) : o[i] \in Accounts
  BY OrdersAssumption

LEMMA CandidateType ==
    ASSUME LoopInv, NEW r \in Requests, pc[r] \notin {"idle", "leave", "done"}
    PROVE  /\ Candidate(r) \in Accounts /\ Len(order[r]) \in Nat
           /\ idx[r] \in 1..Len(order[r]) /\ ~(idx[r] > Len(order[r]))
  BY OrderFacts DEF LoopInv, TypeOK, AtCandidate, Candidate

LEMMA CooledType ==
    ASSUME TypeOK, NEW a \in Accounts, NEW what
    PROVE  Cooled(a, what) \subseteq Accounts
  BY DEF TypeOK, Cooled

-----------------------------------------------------------------------------
(* The in-flight count.                                                      *)

\* One guard more or one less moves the count of its account by one and of no other.
LEMMA GuardTaken ==
    ASSUME TypeOK, InflightMatchesGuards, NEW r \in Requests, NEW a \in Accounts,
           guard[r] = NoAccount,
           inflight' = [inflight EXCEPT ![a] = @ + 1], guard' = [guard EXCEPT ![r] = a]
    PROVE  InflightMatchesGuards'
<1> SUFFICES ASSUME NEW b \in Accounts PROVE inflight'[b] = Cardinality(Holders(b)')
  BY DEF InflightMatchesGuards
<1>1. IsFiniteSet(Holders(b))
  BY RequestsAssumption, FS_Subset DEF Holders
<1>2. CASE b = a
  <2>1. Holders(b)' = Holders(b) \cup {r} /\ r \notin Holders(b)
    BY <1>2, NoAccountAssumption DEF Holders, TypeOK
  <2>2. Cardinality(Holders(b)') = Cardinality(Holders(b)) + 1
    BY <1>1, <2>1, FS_AddElement
  <2> QED BY <1>2, <2>2 DEF InflightMatchesGuards, TypeOK
<1>3. CASE b # a
  <2>1. Holders(b)' = Holders(b)
    BY <1>3, NoAccountAssumption DEF Holders, TypeOK
  <2> QED BY <1>3, <2>1 DEF InflightMatchesGuards, TypeOK
<1> QED BY <1>2, <1>3

LEMMA GuardDropped ==
    ASSUME TypeOK, InflightMatchesGuards, NEW r \in Requests, DropGuard(r)
    PROVE  /\ InflightMatchesGuards'
           /\ inflight' \in [Accounts -> Nat]
           /\ guard' \in [Requests -> Accounts \cup {NoAccount}]
           /\ guard'[r] = NoAccount
           /\ \A s \in Requests : s # r => guard'[s] = guard[s]
<1>1. /\ guard' = [guard EXCEPT ![r] = NoAccount]
      /\ guard' \in [Requests -> Accounts \cup {NoAccount}]
      /\ guard'[r] = NoAccount
      /\ \A s \in Requests : s # r => guard'[s] = guard[s]
  BY DEF DropGuard, TypeOK
<1>2. CASE guard[r] = NoAccount
  <2>1. inflight' = inflight /\ guard' = guard
    BY <1>2 DEF DropGuard, TypeOK
  <2>2. InflightMatchesGuards'
    BY <2>1 DEF InflightMatchesGuards, Holders
  <2> QED BY <1>1, <2>1, <2>2 DEF TypeOK
<1>3. CASE guard[r] # NoAccount
  <2> DEFINE a == guard[r]
  <2>0. a \in Accounts /\ inflight[a] >= 1
    <3>1. a \in Accounts /\ IsFiniteSet(Holders(a)) /\ r \in Holders(a)
      BY <1>3, RequestsAssumption, FS_Subset DEF TypeOK, Holders
    <3>2. Cardinality(Holders(a)) # 0 /\ Cardinality(Holders(a)) \in Nat
      BY <3>1, FS_EmptySet, FS_CardinalityType
    <3> QED BY <3>1, <3>2 DEF InflightMatchesGuards
  <2>1. a \in Accounts /\ inflight' = [inflight EXCEPT ![a] = @ - 1]
    <3>1. (IF inflight[a] > 1 THEN inflight[a] - 1 ELSE 0) = inflight[a] - 1
      BY <2>0 DEF TypeOK
    <3>2. inflight' = [inflight EXCEPT ![a] = IF inflight[a] > 1 THEN inflight[a] - 1 ELSE 0]
      BY <1>3 DEF DropGuard
    <3> QED BY <2>0, <3>1, <3>2
  <2>2. ASSUME NEW b \in Accounts
        PROVE  inflight'[b] = Cardinality(Holders(b)') /\ inflight'[b] \in Nat
    <3>1. IsFiniteSet(Holders(b))
      BY RequestsAssumption, FS_Subset DEF Holders
    <3>2. CASE b = a
      <4>1. Holders(b)' = Holders(b) \ {r} /\ r \in Holders(b)
        BY <1>1, <2>1, <3>2, NoAccountAssumption DEF Holders, TypeOK
      <4>2. /\ IsFiniteSet(Holders(b)')
            /\ Cardinality(Holders(b)') = Cardinality(Holders(b)) - 1
        BY <3>1, <4>1, FS_RemoveElement
      <4>3. Cardinality(Holders(b)') \in Nat
        BY <4>2, FS_CardinalityType
      <4> QED BY <2>1, <3>2, <4>2, <4>3 DEF InflightMatchesGuards, TypeOK
    <3>3. CASE b # a
      <4>1. Holders(b)' = Holders(b)
        BY <1>1, <2>1, <3>3, NoAccountAssumption DEF Holders, TypeOK
      <4> QED BY <2>1, <3>3, <4>1 DEF InflightMatchesGuards, TypeOK
    <3> QED BY <3>2, <3>3
  <2>3. InflightMatchesGuards'
    BY <2>2 DEF InflightMatchesGuards
  <2>4. inflight' \in [Accounts -> Nat]
    BY <2>1, <2>2 DEF TypeOK
  <2> QED BY <1>1, <2>3, <2>4
<1> QED BY <1>2, <1>3

LEMMA CountUntouched ==
    ASSUME InflightMatchesGuards, UNCHANGED <<inflight, guard>>
    PROVE  InflightMatchesGuards'
  BY DEF InflightMatchesGuards, Holders

-----------------------------------------------------------------------------
(* The loop.                                                                 *)

\* Every step keeps the loop invariant and the count.
THEOREM LoopInvInductive ==
    LoopInv /\ InflightMatchesGuards /\ [Next]_vars => (LoopInv /\ InflightMatchesGuards)'
<1> SUFFICES ASSUME LoopInv, InflightMatchesGuards, [Next]_vars
             PROVE  LoopInv' /\ InflightMatchesGuards'
  OBVIOUS
<1>0. TypeOK
  BY DEF LoopInv
<1>a. ASSUME NEW r \in Requests, pc[r] \notin {"idle", "leave", "done"}
      PROVE  /\ Candidate(r) \in Accounts /\ Len(order[r]) \in Nat
             /\ idx[r] \in 1..Len(order[r]) /\ ~(idx[r] > Len(order[r]))
  BY <1>a, CandidateType
<1> USE DEF LoopInv, TypeOK, AtCandidate, HeldBack, GuardHeld, RequestHeld, NeverExhausted,
            HandledIsAnswered, Stages, Results, Go, Finish, Consume
<1>1. ASSUME NEW r \in Requests, NEW candidates \in Orders, Start(r, candidates)
      PROVE  LoopInv' /\ InflightMatchesGuards'
  <2>1. Len(candidates) \in Nat /\ Len(candidates) >= 1
    BY OrderFacts
  <2>2. InflightMatchesGuards'
    BY <1>1, CountUntouched DEF Start, sharedVars
  <2> QED BY <1>1, <2>1, <2>2 DEF Start, sharedVars
<1>2. ASSUME NEW r \in Requests, DeadlinePasses(r)
      PROVE  LoopInv' /\ InflightMatchesGuards'
  <2>1. InflightMatchesGuards'
    BY <1>2, CountUntouched DEF DeadlinePasses, sharedVars
  <2> QED BY <1>2, <2>1 DEF DeadlinePasses, sharedVars
<1>3. ASSUME NEW r \in Requests, WithinDeadline(r)
      PROVE  LoopInv' /\ InflightMatchesGuards'
  <2>1. InflightMatchesGuards'
    BY <1>3, CountUntouched DEF WithinDeadline, sharedVars
  <2> QED BY <1>3, <2>1 DEF WithinDeadline, sharedVars
<1>4. ASSUME NEW r \in Requests, LoopEnds(r)
      PROVE  LoopInv' /\ InflightMatchesGuards'
  <2>1. InflightMatchesGuards'
    BY <1>4, CountUntouched DEF LoopEnds, sharedVars
  <2>2. pc[r] = "check" /\ pc' = [pc EXCEPT ![r] = "leave"]
    BY <1>4 DEF LoopEnds
  <2>3. ~(idx[r] > Len(order[r]))
    BY <1>a, <2>2
  <2>4. UNCHANGED <<cooling, inflight, order, idx, guard, late>>
    BY <1>4 DEF LoopEnds, sharedVars
  <2>5. CASE request[r] = "held"
    <3>1. /\ request' = [request EXCEPT ![r] = "answered"]
          /\ result' = [result EXCEPT ![r] = "handled"]
      BY <1>4, <2>3, <2>5 DEF LoopEnds
    <3> QED BY <2>1, <2>2, <2>4, <3>1
  <2>6. CASE request[r] # "held"
    <3>1. request' = request /\ result' = [result EXCEPT ![r] = "panic"]
      BY <1>4, <2>6 DEF LoopEnds
    <3> QED BY <2>1, <2>2, <2>4, <3>1
  <2> QED BY <2>5, <2>6
<1>5. ASSUME NEW r \in Requests, LooksAtCooldown(r)
      PROVE  LoopInv' /\ InflightMatchesGuards'
  <2>1. InflightMatchesGuards'
    BY <1>5, CountUntouched DEF LooksAtCooldown, sharedVars
  <2> QED BY <1>5, <2>1
          DEF LooksAtCooldown, SkipForCooldown, HasMoreCandidates, sharedVars
<1>6. ASSUME NEW r \in Requests, LooksAtInflight(r)
      PROVE  LoopInv' /\ InflightMatchesGuards'
  <2>1. InflightMatchesGuards'
    BY <1>6, CountUntouched DEF LooksAtInflight, sharedVars
  <2> QED BY <1>6, <2>1
          DEF LooksAtInflight, SkipForInflight, HasMoreCandidates, sharedVars
<1>7. ASSUME NEW r \in Requests, AcquiresInflight(r)
      PROVE  LoopInv' /\ InflightMatchesGuards'
  <2>1. Candidate(r) \in Accounts
    BY <1>7, CandidateType DEF AcquiresInflight
  <2>2. guard[r] = NoAccount
    BY <1>7 DEF AcquiresInflight
  <2>3. InflightMatchesGuards'
    BY <1>0, <1>7, <2>1, <2>2, GuardTaken DEF AcquiresInflight
  <2>4. TypeOK'
    BY <1>7, <2>1 DEF AcquiresInflight
  <2> QED BY <1>7, <2>3, <2>4 DEF AcquiresInflight
<1>8. ASSUME NEW r \in Requests, AlreadyConsumed(r)
      PROVE  LoopInv' /\ InflightMatchesGuards'
  <2>1. InflightMatchesGuards'
    BY <1>8, CountUntouched DEF AlreadyConsumed, sharedVars
  <2> QED BY <1>8, <2>1 DEF AlreadyConsumed, sharedVars
<1>9. ASSUME NEW r \in Requests, Attempt(r)
      PROVE  LoopInv' /\ InflightMatchesGuards'
  <2>1. PICK outcome \in AttemptOutcomes(HasMoreCandidates(r)) :
            \/ AttemptFailsOver(r, outcome)
            \/ \E kind \in ErrorKinds : AttemptIsTerminal(r, outcome, kind)
            \/ \E again \in BOOLEAN : AttemptResponds(r, outcome, again)
    BY <1>9 DEF Attempt
  <2>2. pc[r] \in {"attempt", "retry"}
    BY <2>1 DEF AttemptFailsOver, AttemptIsTerminal, AttemptResponds
  <2>3. /\ Candidate(r) \in Accounts
        /\ \A what : Cooled(Candidate(r), what) \subseteq Accounts
    BY <1>0, <2>2, CandidateType, CooledType
  <2>4. UNCHANGED <<inflight, guard, order, idx, late>>
    BY <2>1 DEF AttemptFailsOver, AttemptIsTerminal, AttemptResponds
  <2>5. InflightMatchesGuards'
    BY <2>4, CountUntouched
  <2>6. CASE AttemptFailsOver(r, outcome)
    <3>1. HasMoreCandidates(r)
      BY <2>6 DEF AttemptFailsOver, AttemptOutcomes, Outcome
    <3>2. cooling' \subseteq Accounts
      BY <2>3, <2>6 DEF AttemptFailsOver
    <3> QED BY <2>2, <2>4, <2>5, <2>6, <3>1, <3>2 DEF AttemptFailsOver, HasMoreCandidates
  <2>7. ASSUME NEW kind \in ErrorKinds, AttemptIsTerminal(r, outcome, kind)
        PROVE  LoopInv'
    <3>1. cooling' \subseteq Accounts
      BY <2>3, <2>7 DEF AttemptIsTerminal
    <3>2. CASE pc[r] = "attempt" /\ ShouldFailover(kind, HasMoreCandidates(r))
      <4>1. /\ pc' = [pc EXCEPT ![r] = "next"]
            /\ UNCHANGED <<request, result>>
        BY <2>7, <3>2 DEF AttemptIsTerminal
      <4>2. idx[r] < Len(order[r])
        BY <3>2 DEF ShouldFailover, HasMoreCandidates
      <4> QED BY <2>2, <2>4, <3>1, <4>1, <4>2
    <3>3. CASE ~(pc[r] = "attempt" /\ ShouldFailover(kind, HasMoreCandidates(r)))
      <4>1. /\ pc' = [pc EXCEPT ![r] = "leave"]
            /\ request' = [request EXCEPT ![r] = "answered"]
            /\ result' = [result EXCEPT ![r] = "handled"]
        BY <2>7, <3>3 DEF AttemptIsTerminal
      <4> QED BY <2>2, <2>4, <3>1, <4>1
    <3> QED BY <3>2, <3>3
  <2>8. ASSUME NEW again \in BOOLEAN, AttemptResponds(r, outcome, again)
        PROVE  LoopInv'
    <3>1. cooling' \subseteq Accounts
      BY <2>3, <2>8 DEF AttemptResponds
    <3> QED BY <2>2, <2>4, <2>8, <3>1 DEF AttemptResponds
  <2> QED BY <2>1, <2>5, <2>6, <2>7, <2>8
<1>10. ASSUME NEW r \in Requests, Delivers(r) \/ SuppressesDelivery(r) \/ DeliveryFails(r)
       PROVE  LoopInv' /\ InflightMatchesGuards'
  <2>1. pc[r] = "finalize" /\ DropGuard(r) /\ UNCHANGED <<cooling, order, idx, late>>
    BY <1>10 DEF Delivers, SuppressesDelivery, DeliveryFails
  <2>2. /\ InflightMatchesGuards'
        /\ inflight' \in [Accounts -> Nat]
        /\ guard' \in [Requests -> Accounts \cup {NoAccount}]
        /\ guard'[r] = NoAccount
        /\ \A s \in Requests : s # r => guard'[s] = guard[s]
    BY <1>0, <2>1, GuardDropped
  <2>3. CASE Delivers(r)
    BY <2>1, <2>2, <2>3 DEF Delivers
  <2>4. CASE SuppressesDelivery(r)
    BY <2>1, <2>2, <2>4 DEF SuppressesDelivery, HasMoreCandidates
  <2>5. CASE DeliveryFails(r)
    BY <2>1, <2>2, <2>5 DEF DeliveryFails
  <2> QED BY <1>10, <2>3, <2>4, <2>5
<1>11. ASSUME NEW r \in Requests, NEW kind \in ErrorKinds, NEW failed \in BOOLEAN,
              FollowsUp(r, kind, failed)
       PROVE  LoopInv' /\ InflightMatchesGuards'
  <2>1. InflightMatchesGuards'
    BY <1>11, CountUntouched DEF FollowsUp
  <2>2. cooling' \subseteq Accounts
    <3>1. pc[r] = "follow_up"
      BY <1>11 DEF FollowsUp
    <3>2. Candidate(r) \in Accounts
      BY <1>a, <3>1
    <3>3. \A what : Cooled(Candidate(r), what) \subseteq Accounts
      BY <1>0, <3>2, CooledType
    <3> QED BY <1>11, <3>3 DEF FollowsUp
  <2>3. CASE ShouldFailover(kind, HasMoreCandidates(r))
    BY <1>11, <2>1, <2>2, <2>3 DEF FollowsUp, ShouldFailover, HasMoreCandidates
  <2>4. CASE ~ShouldFailover(kind, HasMoreCandidates(r))
    <3>1. request[r] = "answered"
      BY <1>11, <2>4 DEF FollowsUp, ShouldFailover, HasMoreCandidates
    <3>2. /\ pc[r] = "follow_up" /\ pc' = [pc EXCEPT ![r] = "leave"]
          /\ result' = [result EXCEPT ![r] = "handled"]
          /\ UNCHANGED <<inflight, order, idx, request, guard, late>>
      BY <1>11, <2>4 DEF FollowsUp
    <3> QED BY <2>1, <2>2, <3>1, <3>2
  <2> QED BY <2>3, <2>4
<1>12. ASSUME NEW r \in Requests, NextCandidate(r)
       PROVE  LoopInv' /\ InflightMatchesGuards'
  <2>1. /\ InflightMatchesGuards'
        /\ inflight' \in [Accounts -> Nat]
        /\ guard' \in [Requests -> Accounts \cup {NoAccount}]
        /\ guard'[r] = NoAccount
        /\ \A s \in Requests : s # r => guard'[s] = guard[s]
    BY <1>0, <1>12, GuardDropped DEF NextCandidate, EndsIteration
  <2>2. Len(order[r]) \in Nat
    <3>1. pc[r] = "next"
      BY <1>12 DEF NextCandidate
    <3> QED BY <1>a, <3>1
  <2>3. /\ pc[r] = "next" /\ pc' = [pc EXCEPT ![r] = "check"]
        /\ idx' = [idx EXCEPT ![r] = @ + 1]
        /\ UNCHANGED <<cooling, order, request, late, result>>
    BY <1>12 DEF NextCandidate, NextIdx
  <2>4. idx[r] < Len(order[r]) /\ idx[r] + 1 \in Nat \ {0} /\ idx[r] + 1 <= Len(order[r])
    BY <2>2, <2>3
  <2>5. TypeOK' /\ AtCandidate'
    BY <2>1, <2>3, <2>4
  <2>6. HeldBack' /\ GuardHeld' /\ RequestHeld' /\ NeverExhausted' /\ HandledIsAnswered'
    BY <2>1, <2>3
  <2> QED BY <2>1, <2>5, <2>6
<1>13. ASSUME NEW r \in Requests, Leave(r)
       PROVE  LoopInv' /\ InflightMatchesGuards'
  <2>1. /\ InflightMatchesGuards'
        /\ inflight' \in [Accounts -> Nat]
        /\ guard' \in [Requests -> Accounts \cup {NoAccount}]
        /\ guard'[r] = NoAccount
        /\ \A s \in Requests : s # r => guard'[s] = guard[s]
    BY <1>0, <1>13, GuardDropped DEF Leave
  <2> QED BY <1>13, <2>1 DEF Leave
<1>14. ASSUME NEW r \in Requests, Again(r)
       PROVE  LoopInv' /\ InflightMatchesGuards'
  <2>1. InflightMatchesGuards'
    BY <1>14, CountUntouched DEF Again, sharedVars
  <2> QED BY <1>14, <2>1 DEF Again, sharedVars
<1>15. ASSUME NEW a \in Accounts, NEW what \in {"marked", "cleared"},
              CooldownChanges(a, what)
       PROVE  LoopInv' /\ InflightMatchesGuards'
  <2>1. InflightMatchesGuards'
    BY <1>15, CountUntouched DEF CooldownChanges
  <2>2. cooling' \subseteq Accounts
    BY <1>0, <1>15, CooledType DEF CooldownChanges
  <2> QED BY <1>15, <2>1, <2>2 DEF CooldownChanges
<1>16. CASE UNCHANGED vars
  <2>1. InflightMatchesGuards'
    BY <1>16, CountUntouched DEF vars
  <2> QED BY <1>16, <2>1 DEF vars
<1> QED BY <1>1, <1>2, <1>3, <1>4, <1>5, <1>6, <1>7, <1>8, <1>9, <1>10, <1>11, <1>12, <1>13,
           <1>14, <1>15, <1>16 DEF Next, Step

LEMMA LoopInitInv == Init => LoopInv /\ InflightMatchesGuards
<1> SUFFICES ASSUME Init PROVE LoopInv /\ InflightMatchesGuards
  OBVIOUS
<1>1. LoopInv
  BY DEF Init, LoopInv, TypeOK, AtCandidate, HeldBack, GuardHeld, RequestHeld, NeverExhausted,
         HandledIsAnswered, Stages, Results
<1>2. ASSUME NEW a \in Accounts PROVE inflight[a] = Cardinality(Holders(a))
  <2>1. Holders(a) = {}
    BY NoAccountAssumption DEF Init, Holders
  <2> QED BY <2>1, FS_EmptySet DEF Init
<1> QED BY <1>1, <1>2 DEF InflightMatchesGuards

\* Type correctness; the loop never runs out of candidates; a handled request was answered.
THEOREM ExecutorInvariant == Spec => [](TypeOK /\ NeverExhausted /\ HandledIsAnswered)
<1>1. LoopInv => TypeOK /\ NeverExhausted /\ HandledIsAnswered
  BY DEF LoopInv
<1> QED BY <1>1, LoopInitInv, LoopInvInductive, PTL DEF Spec

\* The in-flight count of every account is the number of guards that are out for it.
THEOREM InflightExact == Spec => []InflightMatchesGuards
<1> QED BY LoopInitInv, LoopInvInductive, PTL DEF Spec

\* The executor's variables keep their types (candidate_executor.rs).
THEOREM TypeCorrect == Spec => []TypeOK
  BY ExecutorInvariant, PTL

\* A request that counts as handled was answered, by the delivery or by the
\* failover's final answer (response_finalize.rs, execute_candidate_sequence).
THEOREM HandledMeansAnswered == Spec => []HandledIsAnswered
  BY ExecutorInvariant, PTL

\* How far a request has come: through its list, and with the candidate it is at.
Position(r) == CASE pc[r] = "check" -> 1
                 [] pc[r] = "cooldown" -> 2
                 [] pc[r] = "inflight" -> 3
                 [] pc[r] = "acquire" -> 4
                 [] pc[r] = "attempt" -> 5
                 [] pc[r] = "retry" -> 6
                 [] pc[r] = "finalize" -> 7
                 [] pc[r] = "follow_up" -> 8
                 [] pc[r] = "next" -> 9
                 [] pc[r] = "leave" -> 10
                 [] pc[r] = "done" -> 11
                 [] OTHER -> 0
Distance(r) == 10 * idx[r] + Position(r)

\* A step of a request moves no other.
LEMMA StepMovesOne ==
    ASSUME TypeOK, NEW r \in Requests, NEW s \in Requests, Step(s), s # r
    PROVE  UNCHANGED <<pc[r], idx[r]>>
<1> USE DEF TypeOK, Go, Finish, sharedVars
<1>1. CASE WithinDeadline(s) \/ LoopEnds(s) \/ LooksAtCooldown(s) \/ LooksAtInflight(s)
  BY <1>1 DEF WithinDeadline, LoopEnds, LooksAtCooldown, LooksAtInflight
<1>2. CASE AcquiresInflight(s) \/ AlreadyConsumed(s)
  BY <1>2 DEF AcquiresInflight, AlreadyConsumed
<1>3. CASE Attempt(s)
  BY <1>3 DEF Attempt, AttemptFailsOver, AttemptIsTerminal, AttemptResponds
<1>4. CASE Delivers(s) \/ SuppressesDelivery(s) \/ DeliveryFails(s)
  BY <1>4 DEF Delivers, SuppressesDelivery, DeliveryFails
<1>5. ASSUME NEW kind \in ErrorKinds, NEW failed \in BOOLEAN, FollowsUp(s, kind, failed)
      PROVE  UNCHANGED <<pc[r], idx[r]>>
  BY <1>5 DEF FollowsUp
<1>6. CASE NextCandidate(s) \/ Leave(s)
  BY <1>6 DEF NextCandidate, Leave
<1> QED BY <1>1, <1>2, <1>3, <1>4, <1>5, <1>6 DEF Step

\* And brings that one further.
LEMMA StepAdvances ==
    ASSUME LoopInv, NEW r \in Requests, Step(r)
    PROVE  Distance(r)' \in Int /\ Distance(r)' > Distance(r)
<1> USE DEF LoopInv, TypeOK, Go, Finish, sharedVars, Distance, Position
<1>1. CASE WithinDeadline(r) \/ LoopEnds(r) \/ LooksAtCooldown(r) \/ LooksAtInflight(r)
  BY <1>1 DEF WithinDeadline, LoopEnds, LooksAtCooldown, LooksAtInflight
<1>2. CASE AcquiresInflight(r) \/ AlreadyConsumed(r)
  BY <1>2 DEF AcquiresInflight, AlreadyConsumed
<1>3. CASE Attempt(r)
  BY <1>3 DEF Attempt, AttemptFailsOver, AttemptIsTerminal, AttemptResponds
<1>4. CASE Delivers(r) \/ SuppressesDelivery(r) \/ DeliveryFails(r)
  BY <1>4 DEF Delivers, SuppressesDelivery, DeliveryFails
<1>5. ASSUME NEW kind \in ErrorKinds, NEW failed \in BOOLEAN, FollowsUp(r, kind, failed)
      PROVE  Distance(r)' \in Int /\ Distance(r)' > Distance(r)
  BY <1>5 DEF FollowsUp
<1>6. CASE NextCandidate(r) \/ Leave(r)
  BY <1>6 DEF NextCandidate, NextIdx, Leave
<1> QED BY <1>1, <1>2, <1>3, <1>4, <1>5, <1>6 DEF Step

LoopAdvances ==
    [][\A r \in Requests :
           /\ Step(r) => Distance(r)' > Distance(r)
           /\ pc[r] \notin {"idle", "done"} => Distance(r)' >= Distance(r)]_vars

\* Every step of a request brings it further, and no step of anybody, nor a change of the
\* cooldowns or the counts it looks at, sets it back; as it is always at one of its candidates
\* it leaves the loop after a number of steps that its list bounds
\* (execute_candidate_sequence, candidate_executor.rs).
THEOREM LoopOnlyAdvances == Spec => LoopAdvances
<1>1. LoopInv /\ [Next]_vars =>
          [\A r \in Requests :
               /\ Step(r) => Distance(r)' > Distance(r)
               /\ pc[r] \notin {"idle", "done"} => Distance(r)' >= Distance(r)]_vars
  <2> SUFFICES ASSUME LoopInv, Next, NEW r \in Requests
               PROVE  /\ Step(r) => Distance(r)' > Distance(r)
                      /\ pc[r] \notin {"idle", "done"} => Distance(r)' >= Distance(r)
    BY DEF vars
  <2>1. \A s \in Requests : Step(s) => s = r \/ UNCHANGED <<pc[r], idx[r]>>
    BY StepMovesOne DEF LoopInv
  <2>2. Step(r) => Distance(r)' > Distance(r)
    BY StepAdvances
  <2>3. ASSUME NEW s \in Requests, NEW candidates \in Orders, Start(s, candidates)
        PROVE  pc[r] # "idle" => UNCHANGED <<pc[r], idx[r]>>
    BY <2>3 DEF Start, Go, LoopInv, TypeOK
  <2>4. ASSUME NEW s \in Requests, DeadlinePasses(s)
        PROVE  UNCHANGED <<pc[r], idx[r]>>
    BY <2>4 DEF DeadlinePasses
  <2>5. ASSUME NEW s \in Requests, Again(s)
        PROVE  pc[r] # "done" => UNCHANGED <<pc[r], idx[r]>>
    BY <2>5 DEF Again, Go, LoopInv, TypeOK
  <2>6. ASSUME NEW a \in Accounts, NEW what \in {"marked", "cleared"}, CooldownChanges(a, what)
        PROVE  UNCHANGED <<pc[r], idx[r]>>
    BY <2>6 DEF CooldownChanges
  <2>7. pc[r] \notin {"idle", "done"} => Step(r) \/ UNCHANGED <<pc[r], idx[r]>>
    BY <2>1, <2>3, <2>4, <2>5, <2>6 DEF Next
  <2>8. Distance(r) \in Nat
    BY DEF Distance, Position, LoopInv, TypeOK
  <2>9. UNCHANGED <<pc[r], idx[r]>> => Distance(r)' = Distance(r)
    BY DEF Distance, Position
  <2>10. Step(r) => Distance(r)' \in Int
    BY <2>2, <2>8, StepAdvances
  <2> QED BY <2>2, <2>7, <2>8, <2>9, <2>10
<1>2. Init => LoopInv /\ InflightMatchesGuards
  BY LoopInitInv
<1> QED BY <1>1, <1>2, LoopInvInductive, PTL DEF Spec, LoopAdvances

-----------------------------------------------------------------------------
(* The attempt.                                                              *)

Early == {"idle", "start", "openai", "bearer", "primary", "primary_send"}

\* The copies are those of the response at hand, which is there after the first send.
SeenIsUpstream ==
    /\ seen = upstream
    /\ stage \in Early => seen = NoResponse
    /\ stage \notin Early \cup {"done"} => seen \in Responses

\* Nothing is decided, and the cooldown is not touched, before the attempt is done.
Open == stage # "done" => marks = 0 /\ effect = "none" /\ decision = "none"

\* What an attempt has come to when it is done.
Closed == stage = "done" =>
    /\ marks <= 1
    /\ Outcome(decision, effect) \in AttemptOutcomes(call.has_more_candidates)
    /\ EffectFitsAnswer

\* A resend is about to happen only after an answer that asks for it.
Pending ==
    /\ stage \in {"refresh", "resend"} => seen.status = "401"
    /\ stage \in {"alt_send", "stateless_alt", "stateless_alt_send"} => seen.status \in {"400", "404"}
    /\ stage = "server_error_send" => seen.status = "500"
    /\ stage = "stateless_send" => seen.status \in {"403", "404", "429"}

\* How many sends may lie behind each stage.
SendBounds ==
    /\ stage \in Early => sends = 0
    /\ stage \in {"edge", "refresh", "resend"} => sends <= 1
    /\ stage \in {"alt_path", "alt_send"} => sends <= 2
    /\ stage \in {"server_error", "server_error_send"} => sends <= 3
    /\ stage \in {"challenge", "stateless_send"} => sends <= 4
    /\ stage = "stateless" /\ call.base # "chatgpt" => sends <= 4
    /\ stage \in {"stateless", "stateless_alt", "stateless_alt_send"} => sends <= 5

\* And how many of them late: none where the deadline has just been looked at.
LateBounds ==
    /\ late[Traced] = FALSE => late_sends = 0
    /\ stage \in Early \cup {"alt_send", "server_error_send", "stateless_send", "stateless_alt_send"}
           => late_sends = 0
    /\ stage \in {"edge", "refresh", "resend", "stateless_alt"} => late_sends <= 1
    /\ stage \in {"alt_path", "server_error", "challenge"} => late_sends <= 2
    /\ stage = "stateless" /\ call.base # "chatgpt" => late_sends <= 2
    /\ late_sends <= 3

AttemptInv == AttemptTypeOK /\ SeenIsUpstream /\ Open /\ Closed /\ Pending /\ SendBounds /\ LateBounds

USE DEF GoTo, Receive, Keep, CountSend, NoSend, Cooldown, NoCooldown, Decide, Undecided, Rest,
        Continue, TimesOut, Expired

LEMMA AttemptInitInv == Init /\ AttemptInit => AttemptInv
<1> SUFFICES ASSUME Init, AttemptInit PROVE AttemptInv
  OBVIOUS
<1>1. AttemptTypeOK
  <2>1. call \in Calls \cup {NoCall} /\ stage \in AttemptStages /\ late[Traced] \in BOOLEAN
    BY TracedAssumption DEF Init, AttemptInit, AttemptStages
  <2>2. upstream \in Responses \cup {NoResponse} /\ seen \in Responses \cup {NoResponse}
    BY DEF AttemptInit
  <2>3. sends \in 0..6 /\ late_sends \in 0..sends /\ marks \in Nat
    BY DEF AttemptInit
  <2>4. /\ effect \in CooldownEffects /\ decision \in Decisions \cup {"none"}
        /\ unavailable \in BOOLEAN /\ enqueued \in BOOLEAN
    BY DEF AttemptInit, CooldownEffects
  <2> QED BY <2>1, <2>2, <2>3, <2>4 DEF AttemptTypeOK
<1>2. SeenIsUpstream /\ Open /\ Closed /\ Pending
  BY DEF AttemptInit, SeenIsUpstream, Open, Closed, Pending, Early
<1>3. SendBounds /\ LateBounds
  BY DEF AttemptInit, SendBounds, LateBounds, Early
<1> QED BY <1>1, <1>2, <1>3 DEF AttemptInv

-----------------------------------------------------------------------------
(* The steps.                                                                *)

\* Every step of the attempt keeps the invariant.
LEMMA AttemptStepKeeps == AttemptInv /\ AttemptStep => AttemptInv'
<1> SUFFICES ASSUME AttemptInv, AttemptStep PROVE AttemptInv'
  OBVIOUS
<1> USE DEF AttemptInv, AttemptTypeOK, SeenIsUpstream, Open, Closed, Pending, SendBounds, LateBounds, Early,
            AttemptStages, Decisions, CooldownEffects, EffectFitsAnswer, AttemptOutcomes, Outcome
<1>1. CASE Starts
  BY <1>1 DEF Starts
<1>2. ASSUME NEW response \in Responses, OpenAiAnswers(response) PROVE AttemptInv'
  BY <1>2 DEF OpenAiAnswers, Answered
<1>3. ASSUME NEW response \in Responses, PrimaryAnswers(response) PROVE AttemptInv'
  BY <1>3 DEF PrimaryAnswers, Answered
<1>4. ASSUME NEW sent \in BOOLEAN, NEW marks_unavailable \in BOOLEAN,
             OpenAiFails(sent, marks_unavailable)
      PROVE  AttemptInv'
  BY <1>4 DEF OpenAiFails
<1>5. CASE MissingBearer
  BY <1>5 DEF MissingBearer
<1>6. CASE HasBearer
  BY <1>6 DEF HasBearer
<1>7. CASE Primary
  BY <1>7 DEF Primary
<1>8. CASE PrimaryFails
  BY <1>8 DEF PrimaryFails, Official, FailoverOr, More
<1>9. CASE Edge
  BY <1>9 DEF Edge, ChallengeForRetry, More
<1>10. CASE Refreshes \/ CannotRefresh
  BY <1>10 DEF Refreshes, CannotRefresh
<1>11. ASSUME NEW marks_unavailable \in BOOLEAN, RefreshFails(marks_unavailable) PROVE AttemptInv'
  BY <1>11 DEF RefreshFails
<1>12. ASSUME NEW response \in Responses, Answered("resend", "alt_path", response) PROVE AttemptInv'
  BY <1>12 DEF Answered
<1>13. CASE FailsQuietly("resend", "alt_path")
  BY <1>13 DEF FailsQuietly
<1>14. CASE AltPath
  BY <1>14 DEF AltPath
<1>15. CASE AltFails
  BY <1>15 DEF AltFails, FailoverOr, More
<1>16. CASE ServerError
  BY <1>16 DEF ServerError, IsServerError
<1>17. CASE NoChallengeRetry
  BY <1>17 DEF NoChallengeRetry, RetriesChallenge, ChallengeForRetry
<1>18. CASE ChallengeFails
  BY <1>18 DEF ChallengeFails, RetriesChallenge, FailsQuietly
<1>19. ASSUME NEW response \in Responses, Answered("alt_send", "server_error", response) PROVE AttemptInv'
  BY <1>19 DEF Answered
<1>20. ASSUME NEW response \in Responses, Answered("server_error_send", AfterServerError, response)
       PROVE  AttemptInv'
  BY <1>20 DEF Answered, AfterServerError
<1>21. ASSUME NEW response \in Responses, ChallengeSucceeds(response) PROVE AttemptInv'
  BY <1>21 DEF ChallengeSucceeds, RetriesChallenge, Answered
<1>22. CASE FailsQuietly("server_error_send", AfterServerError)
  BY <1>22 DEF FailsQuietly, AfterServerError
<1>23. CASE Stateless
  BY <1>23 DEF Stateless, StatelessStatuses, ChallengeForRetry
<1>24. CASE StatelessAlt
  BY <1>24 DEF StatelessAlt
<1>25. ASSUME NEW response \in Responses, StatelessAnswers(response) PROVE AttemptInv'
  BY <1>25 DEF StatelessAnswers, Answered
<1>26. ASSUME NEW response \in Responses, Answered("stateless_alt_send", "outcome", response)
       PROVE  AttemptInv'
  BY <1>26 DEF Answered
<1>27. CASE FailsQuietly("stateless_send", "outcome")
  BY <1>27 DEF FailsQuietly
<1>28. CASE FailsQuietly("stateless_alt_send", "outcome")
  BY <1>28 DEF FailsQuietly
<1>29. CASE OutcomeSuccess
  BY <1>29 DEF OutcomeSuccess
<1>30. ASSUME NEW snapshot_unavailable \in BOOLEAN, OutcomeFailure(snapshot_unavailable) PROVE AttemptInv'
  BY <1>30 DEF OutcomeFailure, AccountFailure, AsksSnapshot, AsksRefresh, FailoverOr, More,
          Official
<1> QED
  BY <1>1, <1>2, <1>3, <1>4, <1>5, <1>6, <1>7, <1>8, <1>9, <1>10, <1>11, <1>12, <1>13,
     <1>14, <1>15, <1>16, <1>17, <1>18, <1>19, <1>20, <1>21, <1>22, <1>23, <1>24, <1>25,
     <1>26, <1>27, <1>28, <1>29, <1>30
  DEF AttemptStep, FirstSend, Refresh, Resends, StatelessResends, Outcomes

\* An attempt begins, or is left behind, with nothing sent, decided or marked.
LEMMA FreshAttempt ==
    ASSUME NEW c \in Calls \cup {NoCall}, NEW s \in {"idle", "start"}, Afresh(c, s),
           late'[Traced] \in BOOLEAN
    PROVE  AttemptInv'
<1>1. AttemptTypeOK'
  <2>1. /\ call' \in Calls \cup {NoCall} /\ stage' \in AttemptStages
        /\ upstream' \in Responses \cup {NoResponse} /\ seen' \in Responses \cup {NoResponse}
    BY DEF Afresh, AttemptStages
  <2>2. sends' \in 0..6 /\ late_sends' \in 0..sends' /\ marks' \in Nat
    BY DEF Afresh
  <2>3. /\ effect' \in CooldownEffects /\ decision' \in Decisions \cup {"none"}
        /\ unavailable' \in BOOLEAN /\ enqueued' \in BOOLEAN
    BY DEF Afresh, CooldownEffects
  <2> QED BY <2>1, <2>2, <2>3 DEF AttemptTypeOK
<1>2. SeenIsUpstream' /\ Open' /\ Closed' /\ Pending'
  BY DEF Afresh, SeenIsUpstream, Open, Closed, Pending, Early
<1>3. SendBounds' /\ LateBounds'
  BY DEF Afresh, SendBounds, LateBounds, Early
<1> QED BY <1>1, <1>2, <1>3 DEF AttemptInv

\* While an attempt stands still its deadline may pass.
LEMMA AttemptStands ==
    ASSUME AttemptInv, UNCHANGED attemptVars, late'[Traced] \in BOOLEAN,
           late[Traced] => late'[Traced]
    PROVE  AttemptInv'
<1> USE DEF attemptVars
<1>1. AttemptTypeOK' /\ SeenIsUpstream' /\ Open' /\ Closed' /\ Pending' /\ SendBounds'
  BY DEF AttemptInv, AttemptTypeOK, SeenIsUpstream, Open, Closed, Pending, SendBounds,
         EffectFitsAnswer
<1>2. LateBounds'
  BY DEF AttemptInv, LateBounds, AttemptTypeOK
<1> QED BY <1>1, <1>2 DEF AttemptInv

\* A step of the attempt is taken in the middle of one, and leaves its call and its
\* deadline alone.
LEMMA AttemptStepFacts ==
    ASSUME AttemptInv, AttemptStep
    PROVE  /\ stage \notin {"idle", "done"} /\ stage' # "idle"
           /\ call' = call /\ late'[Traced] = late[Traced]
           /\ late_sends' \in Nat /\ late_sends <= late_sends'
<1> USE DEF AttemptInv, AttemptTypeOK, AttemptStages
<1>1. CASE FirstSend
  BY <1>1 DEF FirstSend, Starts, OpenAiAnswers, PrimaryAnswers, OpenAiFails, MissingBearer,
         HasBearer, Primary, PrimaryFails, Answered
<1>2. CASE Refresh
  BY <1>2 DEF Refresh, Edge, Refreshes, CannotRefresh, RefreshFails, Answered, FailsQuietly
<1>3. CASE Resends
  BY <1>3 DEF Resends, AltPath, AltFails, ServerError, NoChallengeRetry, ChallengeFails,
         ChallengeSucceeds, AfterServerError, Answered, FailsQuietly
<1>4. CASE StatelessResends
  BY <1>4 DEF StatelessResends, Stateless, StatelessAlt, StatelessAnswers, Answered,
         FailsQuietly
<1>5. CASE Outcomes
  BY <1>5 DEF Outcomes, OutcomeSuccess, OutcomeFailure
<1> QED BY <1>1, <1>2, <1>3, <1>4, <1>5 DEF AttemptStep

\* Work is resent only after an answer that asks for it, which a success does not.
LEMMA SendsFollowFailure ==
    ASSUME AttemptInv, AttemptStep, sends' > sends
    PROVE  upstream.status # "success"
<1> USE DEF AttemptInv, AttemptTypeOK, SeenIsUpstream, Pending, Early, AttemptStages, NoResponse
<1>1. CASE FirstSend
  BY <1>1 DEF FirstSend, Starts, OpenAiAnswers, PrimaryAnswers, OpenAiFails, MissingBearer,
         HasBearer, Primary, PrimaryFails, Answered
<1>2. CASE Refresh
  BY <1>2 DEF Refresh, Edge, Refreshes, CannotRefresh, RefreshFails, Answered, FailsQuietly
<1>3. CASE Resends
  BY <1>3 DEF Resends, AltPath, AltFails, ServerError, NoChallengeRetry, ChallengeFails,
         ChallengeSucceeds, RetriesChallenge, ChallengeForRetry, Answered, FailsQuietly
<1>4. CASE StatelessResends
  BY <1>4 DEF StatelessResends, Stateless, StatelessAlt, StatelessAnswers, Answered,
         FailsQuietly
<1>5. CASE Outcomes
  BY <1>5 DEF Outcomes, OutcomeSuccess, OutcomeFailure
<1> QED BY <1>1, <1>2, <1>3, <1>4, <1>5 DEF AttemptStep

-----------------------------------------------------------------------------
(* The loop with its attempts.                                               *)

\* The attempt that runs is the one the loop waits for, called with what is left of the list,
\* and its account has its guard out.
AttemptOfTraced ==
    /\ stage \notin {"idle", "done"} =>
           InAttempt /\ call.has_more_candidates = HasMoreCandidates(Traced)
    /\ InAttempt => guard[Traced] = Candidate(Traced)

\* Once a send has begun late, no later attempt of the request gets past its start.
LateWork ==
    /\ late_work \in Nat /\ late_work <= 3
    /\ late[Traced] = FALSE => late_work = 0
    /\ late_work > 0 => stage \in {"idle", "start", "done"} /\ late_sends = 0

ForwardedInv ==
    LoopInv /\ InflightMatchesGuards /\ AttemptInv /\ AttemptOfTraced /\ LateWork

\* What the rest of the loop leaves alone while the traced request stays where it is.
LEMMA TracedStands ==
    ASSUME TypeOK, Next, pc'[Traced] = pc[Traced]
    PROVE  /\ order'[Traced] = order[Traced] /\ idx'[Traced] = idx[Traced]
           /\ late[Traced] => late'[Traced]
           /\ InAttempt => guard'[Traced] = guard[Traced]
<1> USE TracedAssumption DEF TypeOK, Stages, Go, Finish, Consume, sharedVars
<1>1. ASSUME NEW r \in Requests, NEW candidates \in Orders, Start(r, candidates)
      PROVE  UNCHANGED <<order[Traced], idx[Traced], late[Traced], guard[Traced]>>
  BY <1>1 DEF Start
<1>2. ASSUME NEW r \in Requests, DeadlinePasses(r)
      PROVE  /\ UNCHANGED <<order[Traced], idx[Traced], guard[Traced]>>
             /\ late[Traced] => late'[Traced]
  BY <1>2 DEF DeadlinePasses
<1>3. ASSUME NEW r \in Requests,
             \/ WithinDeadline(r) \/ LoopEnds(r)
             \/ LooksAtCooldown(r) \/ LooksAtInflight(r)
             \/ AlreadyConsumed(r)
      PROVE  UNCHANGED <<order[Traced], idx[Traced], late[Traced], guard[Traced]>>
  BY <1>3 DEF WithinDeadline, LoopEnds, LooksAtCooldown, LooksAtInflight, AlreadyConsumed
<1>4. ASSUME NEW r \in Requests, AcquiresInflight(r)
      PROVE  UNCHANGED <<order[Traced], idx[Traced], late[Traced], guard[Traced]>>
  BY <1>4 DEF AcquiresInflight
<1>5. ASSUME NEW r \in Requests, Attempt(r)
      PROVE  UNCHANGED <<order[Traced], idx[Traced], late[Traced], guard[Traced]>>
  BY <1>5 DEF Attempt, AttemptFailsOver, AttemptIsTerminal, AttemptResponds
<1>6. ASSUME NEW r \in Requests, Delivers(r) \/ SuppressesDelivery(r) \/ DeliveryFails(r)
      PROVE  UNCHANGED <<order[Traced], idx[Traced], late[Traced], guard[Traced]>>
  BY <1>6 DEF Delivers, SuppressesDelivery, DeliveryFails, DropGuard
<1>7. ASSUME NEW r \in Requests, NEW kind \in ErrorKinds, NEW failed \in BOOLEAN,
             FollowsUp(r, kind, failed)
      PROVE  UNCHANGED <<order[Traced], idx[Traced], late[Traced], guard[Traced]>>
  BY <1>7 DEF FollowsUp
<1>8. ASSUME NEW r \in Requests, NextCandidate(r)
      PROVE  UNCHANGED <<order[Traced], idx[Traced], late[Traced], guard[Traced]>>
  BY <1>8 DEF NextCandidate, EndsIteration, DropGuard
<1>9. ASSUME NEW r \in Requests, Leave(r)
      PROVE  /\ UNCHANGED <<order[Traced], idx[Traced], late[Traced]>>
             /\ InAttempt => guard'[Traced] = guard[Traced]
  BY <1>9 DEF Leave, DropGuard, InAttempt
<1>10. ASSUME NEW r \in Requests, Again(r)
       PROVE  UNCHANGED <<order[Traced], idx[Traced], late[Traced], guard[Traced]>>
  BY <1>10 DEF Again
<1>11. ASSUME NEW a \in Accounts, NEW what \in {"marked", "cleared"},
              CooldownChanges(a, what)
       PROVE  UNCHANGED <<order[Traced], idx[Traced], late[Traced], guard[Traced]>>
  BY <1>11 DEF CooldownChanges
<1> QED BY <1>1, <1>2, <1>3, <1>4, <1>5, <1>6, <1>7, <1>8, <1>9, <1>10, <1>11 DEF Next, Step

\* On its way a request comes to an attempt by way of the guard, and a deadline that has
\* passed stays so until the next request.
LEMMA TracedMoves ==
    ASSUME TypeOK, Next, ~InAttempt, pc'[Traced] \notin {pc[Traced], "idle"}
    PROVE  /\ late[Traced] => late'[Traced]
           /\ InAttempt' => guard'[Traced] = Candidate(Traced)'
<1> USE TracedAssumption DEF TypeOK, Stages, Go, Finish, Consume, sharedVars, InAttempt, Candidate
<1>1. ASSUME NEW r \in Requests, NEW candidates \in Orders, Start(r, candidates)
      PROVE  late' = late /\ ~InAttempt'
  BY <1>1 DEF Start
<1>2. ASSUME NEW r \in Requests, DeadlinePasses(r)
      PROVE  FALSE
  BY <1>2 DEF DeadlinePasses
<1>3. ASSUME NEW r \in Requests,
             \/ WithinDeadline(r) \/ LoopEnds(r)
             \/ LooksAtCooldown(r) \/ LooksAtInflight(r)
             \/ AlreadyConsumed(r)
      PROVE  late' = late /\ ~InAttempt'
  BY <1>3 DEF WithinDeadline, LoopEnds, LooksAtCooldown, LooksAtInflight, AlreadyConsumed
<1>4. ASSUME NEW r \in Requests, AcquiresInflight(r)
      PROVE  late' = late /\ guard'[Traced] = Candidate(Traced)'
  BY <1>4 DEF AcquiresInflight
<1>5. ASSUME NEW r \in Requests, Attempt(r)
      PROVE  FALSE
  BY <1>5 DEF Attempt, AttemptFailsOver, AttemptIsTerminal, AttemptResponds
<1>6. ASSUME NEW r \in Requests, Delivers(r) \/ SuppressesDelivery(r) \/ DeliveryFails(r)
      PROVE  late' = late /\ ~InAttempt'
  BY <1>6 DEF Delivers, SuppressesDelivery, DeliveryFails
<1>7. ASSUME NEW r \in Requests, NEW kind \in ErrorKinds, NEW failed \in BOOLEAN,
             FollowsUp(r, kind, failed)
      PROVE  late' = late /\ ~InAttempt'
  BY <1>7 DEF FollowsUp
<1>8. ASSUME NEW r \in Requests, NextCandidate(r) \/ Leave(r)
      PROVE  late' = late /\ ~InAttempt'
  BY <1>8 DEF NextCandidate, Leave
<1>9. ASSUME NEW r \in Requests, Again(r)
      PROVE  FALSE
  BY <1>9 DEF Again
<1>10. ASSUME NEW a \in Accounts, NEW what \in {"marked", "cleared"},
              CooldownChanges(a, what)
       PROVE  FALSE
  BY <1>10 DEF CooldownChanges
<1> QED BY <1>1, <1>2, <1>3, <1>4, <1>5, <1>6, <1>7, <1>8, <1>9, <1>10 DEF Next, Step

\* The attempt ends as the loop takes an attempt to end.
LEMMA EndIsAttempt ==
    ASSUME AttemptInv, AttemptOfTraced, AttemptEnds
    PROVE  Attempt(Traced)
<1> DEFINE outcome == Outcome(decision', effect')
<1>1. stage \notin {"idle", "done"} /\ call' = call
  BY AttemptStepFacts DEF AttemptEnds
<1>2. outcome \in AttemptOutcomes(HasMoreCandidates(Traced))
  <2>1. Closed' /\ stage' = "done"
    BY AttemptStepKeeps DEF AttemptInv, AttemptEnds
  <2>2. outcome \in AttemptOutcomes(call'.has_more_candidates)
    BY <2>1 DEF Closed
  <2> QED BY <1>1, <2>2 DEF AttemptOfTraced
<1> QED BY <1>2 DEF AttemptEnds, Attempt

\* A late attempt ends where it starts, without a send.
LEMMA LateStops ==
    ASSUME AttemptInv, AttemptStep, late[Traced], stage = "start"
    PROVE  stage' = "done" /\ late_sends' = late_sends
<1> USE DEF AttemptInv, AttemptTypeOK, AttemptStages
<1>1. CASE FirstSend
  BY <1>1 DEF FirstSend, Starts, OpenAiAnswers, PrimaryAnswers, OpenAiFails, MissingBearer,
         HasBearer, Primary, PrimaryFails, Answered
<1>2. CASE Refresh
  BY <1>2 DEF Refresh, Edge, Refreshes, CannotRefresh, RefreshFails, Answered, FailsQuietly
<1>3. CASE Resends
  BY <1>3 DEF Resends, AltPath, AltFails, ServerError, NoChallengeRetry, ChallengeFails,
         ChallengeSucceeds, AfterServerError, Answered, FailsQuietly
<1>4. CASE StatelessResends
  BY <1>4 DEF StatelessResends, Stateless, StatelessAlt, StatelessAnswers, Answered,
         FailsQuietly
<1>5. CASE Outcomes
  BY <1>5 DEF Outcomes, OutcomeSuccess, OutcomeFailure
<1> QED BY <1>1, <1>2, <1>3, <1>4, <1>5 DEF AttemptStep

\* While it ends, the loop holds the guard of its account, for a retry too.
LEMMA EndStays ==
    ASSUME AttemptInv, AttemptOfTraced, AttemptEnds
    PROVE  /\ InAttempt' => guard'[Traced] = Candidate(Traced)'
           /\ stage' = "done"
<1>1. stage \notin {"idle", "done"}
  BY AttemptStepFacts DEF AttemptEnds
<1>2. InAttempt /\ guard[Traced] = Candidate(Traced)
  BY <1>1 DEF AttemptOfTraced
<1> QED BY <1>2 DEF AttemptEnds, AttemptFailsOver, AttemptIsTerminal, AttemptResponds, Candidate

\* Every step is one of the loop, or one that the loop does not see.
LEMMA StepOfLoop ==
    ASSUME AttemptInv, AttemptOfTraced, [ForwardedNext]_forwardedVars
    PROVE  [Next]_vars
<1>1. CASE AroundAttempt
  BY <1>1 DEF AroundAttempt
<1>2. CASE BeginsAttempt \/ AttemptGoesOn \/ UNCHANGED forwardedVars
  BY <1>2 DEF BeginsAttempt, AttemptGoesOn, forwardedVars
<1>3. CASE AttemptEnds
  BY <1>3, EndIsAttempt, TracedAssumption DEF Next, Step
<1> QED BY <1>1, <1>2, <1>3 DEF ForwardedNext

\* Only a step of the attempt sends.
LEMMA SendsAreSteps ==
    ASSUME AttemptInv, [ForwardedNext]_forwardedVars, sends' > sends
    PROVE  AttemptStep
<1>1. sends \in Nat
  BY DEF AttemptInv, AttemptTypeOK
<1> QED BY <1>1 DEF ForwardedNext, AroundAttempt, BeginsAttempt, AttemptGoesOn, AttemptEnds,
        AttemptBegins, AttemptReturns, Afresh, attemptVars, forwardedVars

\* Every step of the loop with its attempts keeps the invariant.
THEOREM ForwardedInvInductive == ForwardedInv /\ [ForwardedNext]_forwardedVars => ForwardedInv'
<1> SUFFICES ASSUME ForwardedInv, [ForwardedNext]_forwardedVars PROVE ForwardedInv'
  OBVIOUS
<1>1. /\ LoopInv /\ InflightMatchesGuards /\ AttemptInv /\ AttemptOfTraced /\ LateWork
      /\ late[Traced] \in BOOLEAN /\ call \in Calls \cup {NoCall}
      /\ late_sends \in Nat /\ late_sends <= 3 /\ (late[Traced] = FALSE => late_sends = 0)
  BY DEF ForwardedInv, AttemptInv, AttemptTypeOK, LateBounds
<1>2. LoopInv' /\ InflightMatchesGuards' /\ late'[Traced] \in BOOLEAN
  <2>1. [Next]_vars
    BY <1>1, StepOfLoop
  <2>2. LoopInv' /\ InflightMatchesGuards'
    BY <1>1, <2>1, LoopInvInductive
  <2> QED BY <2>2, TracedAssumption DEF LoopInv, TypeOK
<1>3. CASE AroundAttempt /\ pc'[Traced] = pc[Traced]
  <2>1. UNCHANGED <<attemptVars, late_work>> /\ Next
    BY <1>3 DEF AroundAttempt
  <2>2. /\ order'[Traced] = order[Traced] /\ idx'[Traced] = idx[Traced]
        /\ late[Traced] => late'[Traced]
        /\ InAttempt => guard'[Traced] = guard[Traced]
    BY <1>1, <1>3, <2>1, TracedStands DEF LoopInv
  <2>3. AttemptInv'
    BY <1>1, <1>2, <2>1, <2>2, AttemptStands
  <2>4. AttemptOfTraced'
    BY <1>1, <1>3, <2>1, <2>2
       DEF AttemptOfTraced, InAttempt, HasMoreCandidates, Candidate, attemptVars
  <2>5. LateWork'
    BY <1>1, <1>2, <2>1, <2>2 DEF LateWork, attemptVars
  <2> QED BY <1>2, <2>3, <2>4, <2>5 DEF ForwardedInv
<1>4. CASE AroundAttempt /\ pc'[Traced] \notin {pc[Traced], "idle"}
  <2>1. Next /\ ~InAttempt /\ Afresh(call, "idle") /\ late_work' = late_work + late_sends
    BY <1>4 DEF AroundAttempt, AttemptReturns
  <2>2. /\ late[Traced] => late'[Traced]
        /\ InAttempt' => guard'[Traced] = Candidate(Traced)'
    BY <1>1, <1>4, <2>1, TracedMoves DEF LoopInv
  <2>3. AttemptInv'
    BY <1>1, <1>2, <2>1, FreshAttempt
  <2>4. AttemptOfTraced'
    BY <2>1, <2>2 DEF AttemptOfTraced, Afresh
  <2>5. LateWork'
    BY <1>1, <1>2, <2>1, <2>2 DEF LateWork, Afresh
  <2> QED BY <1>2, <2>3, <2>4, <2>5 DEF ForwardedInv
<1>5. CASE AroundAttempt /\ pc'[Traced] # pc[Traced] /\ pc'[Traced] = "idle"
  <2>1. Afresh(NoCall, "idle") /\ late_work' = 0
    BY <1>5 DEF AroundAttempt, AttemptReturns
  <2>2. AttemptInv'
    BY <1>2, <2>1, FreshAttempt
  <2>3. AttemptOfTraced' /\ LateWork'
    BY <1>5, <2>1 DEF AttemptOfTraced, LateWork, Afresh, InAttempt
  <2> QED BY <1>2, <2>2, <2>3 DEF ForwardedInv
<1>6. CASE BeginsAttempt
  <2>1. PICK c \in Calls : Suits(c) /\ AttemptBegins(c)
    BY <1>6 DEF BeginsAttempt
  <2>2. /\ InAttempt /\ Afresh(c, "start") /\ c.has_more_candidates = HasMoreCandidates(Traced)
        /\ late_work' = late_work + late_sends /\ UNCHANGED vars
    BY <1>6, <2>1 DEF BeginsAttempt, AttemptBegins, Suits
  <2>3. AttemptInv'
    BY <1>2, <2>2, FreshAttempt
  <2>4. AttemptOfTraced'
    BY <1>1, <2>2
       DEF AttemptOfTraced, InAttempt, HasMoreCandidates, Candidate, Afresh, vars
  <2>5. LateWork'
    BY <1>1, <2>2 DEF LateWork, Afresh, vars
  <2> QED BY <1>2, <2>3, <2>4, <2>5 DEF ForwardedInv
<1>7. CASE AttemptGoesOn
  <2>1. /\ AttemptStep /\ stage' # "done" /\ UNCHANGED <<vars, late_work>>
        /\ stage \notin {"idle", "done"} /\ call' = call
    BY <1>1, <1>7, AttemptStepFacts DEF AttemptGoesOn
  <2>2. AttemptInv'
    BY <1>1, <2>1, AttemptStepKeeps
  <2>3. AttemptOfTraced'
    BY <1>1, <2>1 DEF AttemptOfTraced, InAttempt, HasMoreCandidates, Candidate, vars
  <2>4. LateWork'
    <3>1. late_work = 0
      BY <1>1, <2>1, LateStops DEF LateWork
    <3> QED BY <1>1, <2>1, <3>1 DEF LateWork, vars
  <2> QED BY <1>2, <2>2, <2>3, <2>4 DEF ForwardedInv
<1>8. CASE AttemptEnds
  <2>1. /\ AttemptStep /\ stage' = "done" /\ UNCHANGED <<late, late_work>>
        /\ stage \notin {"idle", "done"} /\ call' = call
    BY <1>1, <1>8, AttemptStepFacts DEF AttemptEnds
  <2>2. AttemptInv'
    BY <1>1, <2>1, AttemptStepKeeps
  <2>3. AttemptOfTraced'
    BY <1>1, <1>8, <2>1, EndStays DEF AttemptOfTraced
  <2>4. LateWork'
    BY <1>1, <2>1, LateStops DEF LateWork
  <2> QED BY <1>2, <2>2, <2>3, <2>4 DEF ForwardedInv
<1>9. CASE UNCHANGED forwardedVars
  <2>1. UNCHANGED <<vars, attemptVars, late_work>>
    BY <1>9 DEF forwardedVars
  <2>2. AttemptInv'
    BY <1>1, <1>2, <2>1, AttemptStands DEF vars
  <2>3. AttemptOfTraced'
    BY <1>1, <2>1
       DEF AttemptOfTraced, InAttempt, HasMoreCandidates, Candidate, vars, attemptVars
  <2>4. LateWork'
    BY <1>1, <2>1 DEF LateWork, vars, attemptVars
  <2> QED BY <1>2, <2>2, <2>3, <2>4 DEF ForwardedInv
<1> QED
  BY <1>3, <1>4, <1>5, <1>6, <1>7, <1>8, <1>9 DEF ForwardedNext, AroundAttempt

THEOREM ForwardedInvariant == ForwardedSpec => []ForwardedInv
<1>1. ForwardedInit => ForwardedInv
  <2> SUFFICES ASSUME ForwardedInit PROVE ForwardedInv
    OBVIOUS
  <2>1. Init /\ AttemptInit /\ late_work = 0
    BY DEF ForwardedInit
  <2>2. LoopInv /\ InflightMatchesGuards /\ AttemptInv
    BY <2>1, LoopInitInv, AttemptInitInv
  <2>3. AttemptOfTraced /\ LateWork
    BY <2>1, TracedAssumption DEF Init, AttemptInit, AttemptOfTraced, LateWork, InAttempt
  <2> QED BY <2>2, <2>3 DEF ForwardedInv
<1> QED BY <1>1, ForwardedInvInductive, PTL DEF ForwardedSpec

\* The refinement: with its attempts carried out step by step, resends, refusals and deadline
\* included, the loop does nothing that the loop of CandidateExecutor does not do, and what is
\* proved of that one holds here (candidate_executor.rs, candidate_attempt.rs).
THEOREM ImplementsLoop == ForwardedSpec => LoopSpec
<1>1. ForwardedInit => Init
  BY DEF ForwardedInit
<1>2. ForwardedInv /\ [ForwardedNext]_forwardedVars => [Next]_vars
  BY StepOfLoop DEF ForwardedInv
<1> QED BY <1>1, <1>2, ForwardedInvariant, PTL DEF ForwardedSpec, LoopSpec, Spec

\* What the loop promises, it promises with its attempts in it: the list never runs dry,
\* handled means answered, the counts are those of the guards, and a request only goes forward
\* (candidate_executor.rs).
THEOREM PromisesKept ==
    ForwardedSpec => /\ [](NeverExhausted /\ HandledIsAnswered /\ InflightMatchesGuards)
                     /\ LoopAdvances
<1>1. Spec => [](TypeOK /\ NeverExhausted /\ HandledIsAnswered)
  BY ExecutorInvariant
<1> QED BY <1>1, ImplementsLoop, InflightExact, LoopOnlyAdvances, PTL DEF LoopSpec

\* Every attempt sends at most six times, whatever the upstream answers, and its state keeps
\* its types (attempt_flow/*.rs).
THEOREM AttemptTypeCorrect == ForwardedSpec => []AttemptTypeOK
<1>1. ForwardedInv => AttemptTypeOK
  BY DEF ForwardedInv, AttemptInv
<1> QED BY <1>1, ForwardedInvariant, PTL

\* An attempt that is done has come to one of the outcomes that the loop reckons with
\* (attempt_flow/finalize.rs, outcome.rs, postprocess.rs).
THEOREM OutcomesKept == ForwardedSpec => []OutcomesAsPromised
<1>1. ForwardedInv => OutcomesAsPromised
  BY DEF ForwardedInv, AttemptInv, Closed, OutcomesAsPromised
<1> QED BY <1>1, ForwardedInvariant, PTL

\* However long the chain of failures, an attempt touches the cooldown of its account at most
\* once (support/outcome.rs, attempt_flow/*.rs).
THEOREM OneRungAtMost == ForwardedSpec => []OneCooldownChange
<1>1. ForwardedInv => OneCooldownChange
  <2>1. AttemptInv /\ stage = "done" => marks <= 1
    BY DEF AttemptInv, Closed
  <2>2. AttemptInv /\ stage # "done" => marks = 0
    BY DEF AttemptInv, Open
  <2> QED BY <2>1, <2>2 DEF ForwardedInv, OneCooldownChange
<1> QED BY <1>1, ForwardedInvariant, PTL

\* What is done to the cooldown fits the answer that the client gets (outcome.rs).
THEOREM EffectsFit == ForwardedSpec => []EffectFitsAnswer
<1>1. ForwardedInv => EffectFitsAnswer
  BY DEF ForwardedInv, AttemptInv, Closed, Open, EffectFitsAnswer
<1> QED BY <1>1, ForwardedInvariant, PTL

\* At most three sends of one request begin after its deadline, over all its candidates and
\* retries and however long the candidate list (deadline.rs, postprocess.rs).
THEOREM LateWorkIsBounded == ForwardedSpec => []LateWorkBounded
<1>1. ForwardedInv => LateWorkBounded
  <2> SUFFICES ASSUME ForwardedInv PROVE late_work + late_sends <= 3
    BY DEF LateWorkBounded
  <2>1. LateWork /\ late_sends \in Nat /\ late_sends <= 3
    BY DEF ForwardedInv, AttemptInv, AttemptTypeOK, LateBounds
  <2> QED BY <2>1 DEF LateWork
<1> QED BY <1>1, ForwardedInvariant, PTL

\* No resend of any attempt follows a success (attempt_flow/*.rs).
THEOREM WorkDoneOnce == ForwardedSpec => NoSendAfterSuccess
<1>1. ForwardedInv /\ [ForwardedNext]_forwardedVars
          => [sends' > sends => upstream.status # "success"]_sends
  <2> SUFFICES ASSUME ForwardedInv, [ForwardedNext]_forwardedVars, sends' > sends
               PROVE  upstream.status # "success"
    OBVIOUS
  <2>1. AttemptInv
    BY DEF ForwardedInv
  <2>2. AttemptStep
    BY <2>1, SendsAreSteps
  <2> QED BY <2>1, <2>2, SendsFollowFailure
<1> QED BY <1>1, ForwardedInvariant, PTL DEF ForwardedSpec, NoSendAfterSuccess

\* Whatever is sent, the request is there to be answered and its account counts it as in
\* flight, retries and further candidates included (candidate_executor.rs, metrics.rs).
THEOREM SendsAccounted == ForwardedSpec => SendsAreAccountedFor
<1>1. ForwardedInv /\ [ForwardedNext]_forwardedVars
          => [sends' > sends => request[Traced] = "held"
                                    /\ guard[Traced] = Candidate(Traced)]_forwardedVars
  <2> SUFFICES ASSUME ForwardedInv, [ForwardedNext]_forwardedVars, sends' > sends
               PROVE  request[Traced] = "held" /\ guard[Traced] = Candidate(Traced)
    OBVIOUS
  <2>1. AttemptInv /\ AttemptOfTraced /\ RequestHeld
    BY DEF ForwardedInv, LoopInv
  <2>2. stage \notin {"idle", "done"}
    BY <2>1, SendsAreSteps, AttemptStepFacts
  <2>3. InAttempt /\ guard[Traced] = Candidate(Traced)
    BY <2>1, <2>2 DEF AttemptOfTraced
  <2> QED BY <2>1, <2>3, TracedAssumption DEF RequestHeld, InAttempt
<1> QED BY <1>1, ForwardedInvariant, PTL DEF ForwardedSpec, SendsAreAccountedFor

-----------------------------------------------------------------------------
(* An attempt ends.                                                          *)

\* How far an attempt has come.
Progress == CASE stage = "start" -> 1
              [] stage \in {"openai", "bearer"} -> 2
              [] stage = "primary" -> 3
              [] stage = "primary_send" -> 4
              [] stage = "edge" -> 5
              [] stage = "refresh" -> 6
              [] stage = "resend" -> 7
              [] stage = "alt_path" -> 8
              [] stage = "alt_send" -> 9
              [] stage = "server_error" -> 10
              [] stage = "server_error_send" -> 11
              [] stage = "challenge" -> 12
              [] stage = "stateless" -> 13
              [] stage = "stateless_send" -> 14
              [] stage = "stateless_alt" -> 15
              [] stage = "stateless_alt_send" -> 16
              [] stage = "outcome" -> 17
              [] stage = "done" -> 18
              [] OTHER -> 0

AttemptAdvances == [][AttemptStep => Progress' > Progress]_forwardedVars

\* The chain of resends has no cycle, so that an attempt is done after at most 17 steps of its
\* own: what the fairness of CandidateExecutor takes an attempt to do
\* (attempt_flow/postprocess.rs, which has no loop).
THEOREM AttemptsEnd == ForwardedSpec => AttemptAdvances
<1>1. ForwardedInv /\ AttemptStep => Progress' > Progress
  <2> SUFFICES ASSUME AttemptInv, AttemptStep PROVE Progress' > Progress
    BY DEF ForwardedInv
  <2> USE DEF Progress
  <2>1. CASE FirstSend
    BY <2>1 DEF FirstSend, Starts, OpenAiAnswers, PrimaryAnswers, OpenAiFails, MissingBearer,
           HasBearer, Primary, PrimaryFails, Answered
  <2>2. CASE Refresh
    BY <2>2 DEF Refresh, Edge, Refreshes, CannotRefresh, RefreshFails, Answered, FailsQuietly
  <2>3. CASE Resends
    BY <2>3 DEF Resends, AltPath, AltFails, ServerError, NoChallengeRetry, ChallengeFails,
           ChallengeSucceeds, AfterServerError, Answered, FailsQuietly
  <2>4. CASE StatelessResends
    BY <2>4 DEF StatelessResends, Stateless, StatelessAlt, StatelessAnswers, Answered,
           FailsQuietly
  <2>5. CASE Outcomes
    BY <2>5 DEF Outcomes, OutcomeSuccess, OutcomeFailure
  <2> QED BY <2>1, <2>2, <2>3, <2>4, <2>5 DEF AttemptStep
<1>2. ForwardedInv => [AttemptStep => Progress' > Progress]_forwardedVars
  BY <1>1
<1> QED BY <1>2, ForwardedInvariant, PTL DEF AttemptAdvances
=============================================================================
