------------------------- MODULE AccountStatus_proof -------------------------
(***************************************************************************)
(* Proofs about AccountStatus, for any number of threads and accounts and  *)
(* any number of decisions of the users.                                   *)
(***************************************************************************)
EXTENDS AccountStatus, TLAPS

\* Nobody is about to mark an account that it saw disabled.
Heeds == \A t \in Threads : pc[t] = "write" => seen[t] # "disabled"

Pending(a) == \E t \in Threads : pc[t] = "invalidate" /\ target[t] = a

\* What CacheFollowsStatus says of the cache, said of any list of candidates.
Explained(candidates, old) ==
    \A a \in candidates : status[a] # "active" => Pending(a) \/ old \/ silent[a]

\* It holds of the cache, and of every list on its way there.
Lists == /\ Explained(cache, stale)
         /\ \A t \in Threads : pc[t] = "fill" => Explained(list[t], outdated[t])

Inv == TypeOK /\ Heeds /\ DecisionStandsUnlessOvertaken /\ Lists

-----------------------------------------------------------------------------
(* The invariant                                                            *)

LEMMA InitInv == Init => Inv
<1> SUFFICES ASSUME Init PROVE Inv
  OBVIOUS
<1> USE DEF Init
<1>1. TypeOK
  <2>1. decisions \in 0 .. MaxDecisions
    BY MaxDecisionsAssumption
  <2>2. pc \in [Threads -> Stages] /\ status \in [Accounts -> Statuses \cup {"absent"}]
    BY DEF Stages, Statuses
  <2> QED BY <2>1, <2>2 DEF TypeOK, Statuses
<1>2. Heeds /\ DecisionStandsUnlessOvertaken
  BY DEF Heeds, DecisionStandsUnlessOvertaken
<1>3. Lists
  BY DEF Lists, Explained
<1> QED BY <1>1, <1>2, <1>3 DEF Inv

\* A write that leaves the cache as it is, and the lists on their way there, explains itself.
LEMMA SilentWriteLists ==
    ASSUME Inv, NEW a \in Accounts, NEW s,
           status' = [status EXCEPT ![a] = s],
           silent' = [silent EXCEPT ![a] = (s # status[a] \/ @)],
           cache' = cache, stale' = stale,
           \A t \in Threads :
             /\ pc'[t] = "fill" => pc[t] = "fill" /\ list'[t] = list[t] /\ outdated'[t] = outdated[t]
             /\ pc[t] = "invalidate" => pc'[t] = "invalidate" /\ target'[t] = target[t]
    PROVE  Lists'
<1>1. ASSUME NEW b \in Accounts, status'[b] # "active"
      PROVE  (status[b] # "active" /\ (silent[b] => silent'[b])) \/ silent'[b]
  BY <1>1 DEF Inv, TypeOK
<1>2. ASSUME NEW b \in Accounts, Pending(b) PROVE Pending(b)'
  BY <1>2 DEF Pending
<1>3. Explained(cache, stale)'
  BY <1>1, <1>2 DEF Inv, TypeOK, Lists, Explained
<1>4. ASSUME NEW t \in Threads, pc'[t] = "fill" PROVE Explained(list[t], outdated[t])'
  BY <1>1, <1>2, <1>4 DEF Inv, TypeOK, Lists, Explained
<1> QED BY <1>3, <1>4 DEF Lists

\* Whoever is going to mark an account did not see it disabled.
LEMMA MarksInv ==
    ASSUME Inv, NEW t \in Threads, NEW a \in Accounts, NEW mark \in Verdicts, Marks(t, a, mark)
    PROVE  Inv'
<1> USE DEF Inv, Marks, Found, ShouldPreserve, Begin, cacheVars, historyVars
<1>1. TypeOK'
  BY VerdictsAssumption DEF TypeOK, Stages, Statuses
<1>2. Heeds'
  BY DEF Heeds, TypeOK, Stages
<1>3. DecisionStandsUnlessOvertaken'
  BY DEF DecisionStandsUnlessOvertaken, TypeOK
<1>4. Lists'
  BY DEF Lists, Explained, Pending, TypeOK, Stages
<1> QED BY <1>1, <1>2, <1>3, <1>4

LEMMA AppliesSnapshotInv ==
    ASSUME Inv, NEW t \in Threads, NEW a \in Accounts, NEW outcome \in {"active", "limited"},
           AppliesSnapshot(t, a, outcome)
    PROVE  Inv'
<1> USE DEF Inv, AppliesSnapshot, Found, UpdatesBlocked, Begin, cacheVars, historyVars
<1>1. TypeOK'
  BY DEF TypeOK, Stages, Statuses
<1>2. Heeds'
  BY DEF Heeds, TypeOK, Stages
<1>3. DecisionStandsUnlessOvertaken'
  BY DEF DecisionStandsUnlessOvertaken, TypeOK
<1>4. Lists'
  BY DEF Lists, Explained, Pending, TypeOK, Stages
<1> QED BY <1>1, <1>2, <1>3, <1>4

\* A mark is written for good only over the row that was read; otherwise it is overtaken.
LEMMA WritesStatusInv ==
    ASSUME Inv, NEW t \in Threads, WritesStatus(t)
    PROVE  Inv'
<1> DEFINE a == target[t]
<1> USE DEF Inv, WritesStatus
<1>1. a \in Accounts /\ goal[t] \in Statuses /\ seen[t] # "disabled" /\ pc[t] = "write"
  BY DEF TypeOK, Heeds
<1>2. CASE Changes(a, goal[t])
  <2>1. /\ status' = [status EXCEPT ![a] = goal[t]]
        /\ overtaken' = [overtaken EXCEPT ![a] = (status[a] # seen[t] \/ @)]
        /\ silent' = [silent EXCEPT ![a] = FALSE]
        /\ pc' = [pc EXCEPT ![t] = "invalidate"]
        /\ target' = [target EXCEPT ![t] = a]
    BY <1>2 DEF AfterWrite, Written
  <2>2. status[a] # "absent"
    BY <1>2 DEF Changes, Exists
  <2>3. TypeOK'
    BY <1>1, <2>1 DEF TypeOK, Stages, Written, cacheVars
  <2>4. Heeds'
    BY <2>1 DEF Heeds, TypeOK, Written
  <2>5. DecisionStandsUnlessOvertaken'
    <3> SUFFICES ASSUME NEW b \in Accounts, ~overtaken'[b]
                 PROVE  /\ decision[b] = "disabled" => status'[b] = "disabled"
                        /\ decision[b] = "deleted" => status'[b] = "absent"
      BY DEF DecisionStandsUnlessOvertaken
    <3>1. CASE b = a
      <4>1. status[a] = seen[t] /\ ~overtaken[a]
        BY <1>1, <2>1, <3>1 DEF TypeOK
      <4> QED BY <1>1, <2>2, <3>1, <4>1 DEF DecisionStandsUnlessOvertaken
    <3>2. CASE b # a
      BY <2>1, <3>2 DEF DecisionStandsUnlessOvertaken, TypeOK
    <3> QED BY <3>1, <3>2
  <2>6. Lists'
    BY <1>1, <2>1 DEF Lists, Explained, Pending, TypeOK, Stages, Written, cacheVars
  <2> QED BY <2>3, <2>4, <2>5, <2>6
<1>3. CASE ~Changes(a, goal[t])
  <2>1. /\ UNCHANGED <<status, overtaken, silent>>
        /\ pc' = [pc EXCEPT ![t] = "idle"]
        /\ target' = [target EXCEPT ![t] = NoAccount]
    BY <1>3 DEF AfterWrite, Written
  <2>2. TypeOK'
    BY <1>1, <2>1 DEF TypeOK, Stages, Written, cacheVars
  <2>3. Heeds' /\ DecisionStandsUnlessOvertaken'
    BY <2>1 DEF Heeds, DecisionStandsUnlessOvertaken, TypeOK, Written
  <2>4. Lists'
    BY <1>1, <2>1 DEF Lists, Explained, Pending, TypeOK, Stages, Written, cacheVars
  <2> QED BY <2>2, <2>3, <2>4
<1> QED BY <1>2, <1>3

LEMMA InvalidatesInv ==
    ASSUME Inv, NEW t \in Threads, Invalidates(t)
    PROVE  Inv'
<1> USE DEF Inv, Invalidates, Done
<1>1. TypeOK'
  BY DEF TypeOK, Stages, Statuses
<1>2. Heeds'
  BY DEF Heeds, TypeOK, Stages
<1>3. DecisionStandsUnlessOvertaken'
  BY DEF DecisionStandsUnlessOvertaken, TypeOK
<1>4. Lists'
  BY DEF Lists, Explained, Pending, TypeOK, Stages
<1> QED BY <1>1, <1>2, <1>3, <1>4

LEMMA ReadsRowInv ==
    ASSUME Inv, NEW t \in Threads, NEW a \in Accounts, ReadsRow(t, a)
    PROVE  Inv'
<1> USE DEF Inv, ReadsRow, Exists, Begin, cacheVars, historyVars
<1>1. TypeOK'
  BY DEF TypeOK, Stages, Statuses
<1>2. Heeds'
  BY DEF Heeds, TypeOK, Stages
<1>3. DecisionStandsUnlessOvertaken'
  BY DEF DecisionStandsUnlessOvertaken, TypeOK
<1>4. Lists'
  BY DEF Lists, Explained, Pending, TypeOK, Stages
<1> QED BY <1>1, <1>2, <1>3, <1>4

LEMMA PatchesRowInv ==
    ASSUME Inv, NEW t \in Threads, PatchesRow(t)
    PROVE  Inv'
<1> USE DEF Inv, PatchesRow, PutRow, Done, cacheVars
<1>1. TypeOK'
  BY DEF TypeOK, Stages, Statuses
<1>2. Heeds'
  BY DEF Heeds, TypeOK, Stages
<1>3. DecisionStandsUnlessOvertaken'
  BY DEF DecisionStandsUnlessOvertaken, TypeOK
<1>4. Lists'
  <2>1. target[t] \in Accounts
    BY DEF TypeOK
  <2> QED BY <2>1, SilentWriteLists DEF TypeOK, Stages
<1> QED BY <1>1, <1>2, <1>3, <1>4

LEMMA ListsCandidatesInv ==
    ASSUME Inv, NEW t \in Threads, ListsCandidates(t)
    PROVE  Inv'
<1> USE DEF Inv, ListsCandidates, ActiveAvailable, cacheVars
<1>1. TypeOK'
  BY DEF TypeOK, Stages, Statuses
<1>2. Heeds'
  BY DEF Heeds, TypeOK, Stages
<1>3. DecisionStandsUnlessOvertaken'
  BY DEF DecisionStandsUnlessOvertaken, TypeOK
<1>4. Lists'
  BY DEF Lists, Explained, Pending, TypeOK, Stages
<1> QED BY <1>1, <1>2, <1>3, <1>4

LEMMA PatchesCandidateInv ==
    ASSUME Inv, NEW t \in Threads, NEW a \in Accounts, PatchesCandidate(t, a)
    PROVE  Inv'
<1> USE DEF Inv, PatchesCandidate, PutRow, cacheVars
<1>1. TypeOK'
  BY DEF TypeOK, Stages, Statuses
<1>2. Heeds'
  BY DEF Heeds, TypeOK, Stages
<1>3. DecisionStandsUnlessOvertaken'
  BY DEF DecisionStandsUnlessOvertaken, TypeOK
<1>4. Lists'
  BY DEF Lists, Explained, Pending, TypeOK, Stages
<1> QED BY <1>1, <1>2, <1>3, <1>4

LEMMA FillsCacheInv ==
    ASSUME Inv, NEW t \in Threads, FillsCache(t)
    PROVE  Inv'
<1> USE DEF Inv, FillsCache, Done
<1>1. TypeOK'
  BY DEF TypeOK, Stages, Statuses
<1>2. Heeds'
  BY DEF Heeds, TypeOK, Stages
<1>3. DecisionStandsUnlessOvertaken'
  BY DEF DecisionStandsUnlessOvertaken, TypeOK
<1>4. Lists'
  BY DEF Lists, Explained, Pending, TypeOK, Stages
<1> QED BY <1>1, <1>2, <1>3, <1>4

LEMMA GivesUpInv ==
    ASSUME Inv, NEW t \in Threads, GivesUp(t)
    PROVE  Inv'
<1> USE DEF Inv, GivesUp, Done, cacheVars, historyVars
<1>1. TypeOK'
  BY DEF TypeOK, Stages, Statuses
<1>2. Heeds'
  BY DEF Heeds, TypeOK, Stages
<1>3. DecisionStandsUnlessOvertaken'
  BY DEF DecisionStandsUnlessOvertaken, TypeOK
<1>4. Lists'
  BY DEF Lists, Explained, Pending, TypeOK, Stages
<1> QED BY <1>1, <1>2, <1>3, <1>4

LEMMA CacheExpiresInv ==
    ASSUME Inv, CacheExpires
    PROVE  Inv'
<1> USE DEF Inv, CacheExpires, localVars
<1>1. TypeOK'
  BY DEF TypeOK, Stages, Statuses
<1>2. Heeds'
  BY DEF Heeds, TypeOK, Stages
<1>3. DecisionStandsUnlessOvertaken'
  BY DEF DecisionStandsUnlessOvertaken, TypeOK
<1>4. Lists'
  BY DEF Lists, Explained, Pending, TypeOK, Stages
<1> QED BY <1>1, <1>2, <1>3, <1>4

LEMMA UserSetsInv ==
    ASSUME Inv, NEW t \in Threads, NEW a \in Accounts, NEW s \in {"active", "disabled"},
           UserSets(t, a, s)
    PROVE  Inv'
<1> USE DEF Inv
<1>1. /\ decisions' \in 0 .. MaxDecisions
      /\ decision' \in [Accounts -> {"none", "disabled", "deleted"}]
      /\ overtaken' = [overtaken EXCEPT ![a] = FALSE]
      /\ status' = [status EXCEPT ![a] = s]
      /\ seen' = [seen EXCEPT ![t] = "absent"]
      /\ goal' = [goal EXCEPT ![t] = "absent"]
      /\ UNCHANGED <<list, unpatched, cached, cache, outdated, stale>>
  <2>1. decisions' \in 0 .. MaxDecisions
    BY MaxDecisionsAssumption DEF TypeOK, UserSets, Decide
  <2>2. decision' \in [Accounts -> {"none", "disabled", "deleted"}]
    BY DEF TypeOK, UserSets, Decide
  <2>3. overtaken' = [overtaken EXCEPT ![a] = FALSE]
    BY DEF UserSets, Decide
  <2> QED BY <2>1, <2>2, <2>3 DEF UserSets, Written, cacheVars
<1>2. pc[t] = "idle" /\ status[a] # "absent"
  BY DEF UserSets, Exists
<1>3. DecisionStandsUnlessOvertaken'
  BY DEF DecisionStandsUnlessOvertaken, TypeOK, UserSets, Decide
<1>4. CASE Changes(a, s)
  <2>1. /\ pc' = [pc EXCEPT ![t] = "invalidate"]
        /\ target' = [target EXCEPT ![t] = a]
        /\ silent' = [silent EXCEPT ![a] = FALSE]
    BY <1>4 DEF UserSets, AfterWrite, Written
  <2>2. TypeOK'
    BY <1>1, <1>2, <2>1 DEF TypeOK, Stages, Statuses
  <2>3. Heeds' /\ Lists'
    BY <1>1, <1>2, <2>1 DEF Heeds, Lists, Explained, Pending, TypeOK, Stages
  <2> QED BY <1>3, <2>2, <2>3
<1>5. CASE ~Changes(a, s)
  <2>1. /\ pc' = [pc EXCEPT ![t] = "idle"]
        /\ target' = [target EXCEPT ![t] = NoAccount]
        /\ silent' = [silent EXCEPT ![a] = silent[a]]
    BY <1>5 DEF UserSets, AfterWrite, Written
  <2>2. pc' = pc /\ silent' = silent
    BY <1>2, <2>1 DEF TypeOK
  <2>3. status' = status
    BY <1>1, <1>2, <1>5 DEF TypeOK, Changes, Exists
  <2>4. TypeOK'
    BY <1>1, <1>2, <2>1, <2>2, <2>3 DEF TypeOK, Stages, Statuses
  <2>5. Heeds' /\ Lists'
    BY <1>1, <1>2, <2>1, <2>2, <2>3 DEF Heeds, Lists, Explained, Pending, TypeOK
  <2> QED BY <1>3, <2>4, <2>5
<1> QED BY <1>4, <1>5

LEMMA UserWritesInv ==
    ASSUME Inv, NEW a \in Accounts, NEW s \in Statuses \cup {"absent"},
           NEW what \in {"none", "deleted"}, what = "deleted" => s = "absent",
           UserWrites(a, s, what)
    PROVE  Inv'
<1> USE DEF Inv, UserWrites, Decide, cacheVars, localVars
<1>1. TypeOK'
  BY MaxDecisionsAssumption DEF TypeOK, Stages, Statuses
<1>2. Heeds'
  BY DEF Heeds, TypeOK, Stages
<1>3. DecisionStandsUnlessOvertaken'
  BY DEF DecisionStandsUnlessOvertaken, TypeOK
<1>4. Lists'
  <2>1. silent' = [silent EXCEPT ![a] = (s # status[a] \/ @)]
    OBVIOUS
  <2> QED BY <2>1, SilentWriteLists
<1> QED BY <1>1, <1>2, <1>3, <1>4

LEMMA NextInv == Inv /\ [Next]_vars => Inv'
<1> SUFFICES ASSUME Inv, [Next]_vars PROVE Inv'
  OBVIOUS
<1>1. ASSUME NEW t \in Threads, ThreadStep(t) PROVE Inv'
  BY <1>1, MarksInv, AppliesSnapshotInv, ReadsRowInv, PatchesCandidateInv, WritesStatusInv,
     InvalidatesInv, PatchesRowInv, ListsCandidatesInv, FillsCacheInv, GivesUpInv
     DEF ThreadStep
<1>2. ASSUME UserStep PROVE Inv'
  <2>1. CASE \E a \in Accounts, t \in Threads, s \in {"active", "disabled"} : UserSets(t, a, s)
    BY <2>1, UserSetsInv
  <2>2. CASE \E a \in Accounts : UserDeletes(a) \/ UserLogsOut(a) \/ UserLogsIn(a)
    BY <2>2, UserWritesInv DEF UserDeletes, UserLogsOut, UserLogsIn, Statuses
  <2> QED BY <1>2, <2>1, <2>2 DEF UserStep
<1>3. CASE CacheExpires
  BY <1>3, CacheExpiresInv
<1>4. CASE UNCHANGED vars
  BY <1>4 DEF Inv, TypeOK, Heeds, DecisionStandsUnlessOvertaken, Lists, Explained, Pending, vars
<1> QED BY <1>1, <1>2, <1>3, <1>4 DEF Next

\* The invariant holds in every state, whoever writes and reads when.
THEOREM StatusInvariant == Spec => []Inv
  BY InitInv, NextInv, PTL DEF Spec

\* Every variable has its type; a thread that is not filling the cache keeps no list.
THEOREM TypeCorrect == Spec => []TypeOK
<1>1. Inv => TypeOK
  BY DEF Inv
<1> QED BY <1>1, StatusInvariant, PTL

\* An account disabled by hand stays disabled, and a deleted one deleted, unless a write
\* lands on a row other than the one its thread read.
THEOREM DecisionStands == Spec => []DecisionStandsUnlessOvertaken
<1>1. Inv => DecisionStandsUnlessOvertaken
  BY DEF Inv
<1> QED BY <1>1, StatusInvariant, PTL

\* The cache offers an account that is not active only for one of the reasons listed in
\* CacheFollowsStatus.
THEOREM CacheFollows == Spec => []CacheFollowsStatus
<1>1. Inv => CacheFollowsStatus
  BY DEF Inv, Lists, Explained, Pending, CacheFollowsStatus
<1> QED BY <1>1, StatusInvariant, PTL
=============================================================================
