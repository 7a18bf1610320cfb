-------------------------- MODULE RequestGate_proof --------------------------
(***************************************************************************)
(* Proofs about RequestGate, for any number of requests, keys and locks,   *)
(* any times and any number of reloads: type correctness, the mutual       *)
(* exclusion of the guards of a key, and that no wakeup is lost.           *)
(***************************************************************************)
EXTENDS RequestGate, TLAPS

\* A lock looked up since the last reload is still the table's lock for its key: no sweep
\* removes a lock somebody refers to.
StillInTable == \A r \in Requests :
    (ref[r] # NoLock /\ epoch[r] = reloads) => entries[key[r]] = ref[r]

\* Requests of one key and one side of a reload share one lock.
SharedLock == \A r, s \in Requests :
    (ref[r] # NoLock /\ ref[s] # NoLock /\ key[r] = key[s] /\ epoch[r] = epoch[s])
        => ref[r] = ref[s]

\* The flag of a lock is up while somebody holds its guard, and only one request does.
OneHolder == \A r, s \in Requests :
    pc[r] = "holding" => /\ held[ref[r]]
                         /\ (pc[s] = "holding" /\ ref[r] = ref[s]) => r = s

EpochPast == \A r \in Requests : epoch[r] <= reloads

Inv == TypeOK /\ EpochPast /\ StillInTable /\ SharedLock /\ OneHolder /\ NoLostWakeup

\* What a lookup finds is the lock of everybody who looked the same key up since the last
\* reload, or a lock that nobody refers to.
LEMMA LookupFinds ==
    ASSUME Inv, NEW r \in Requests, NEW k \in Keys, Lookup(r, k)
    PROVE  /\ ref'[r] \in Locks
           /\ ref' = [ref EXCEPT ![r] = ref'[r]]
           /\ entries' \in [Keys -> Locks \cup {NoLock}]
           /\ entries'[k] = ref'[r]
           /\ \A s \in Requests : (ref[s] # NoLock /\ key[s] = k /\ epoch[s] = reloads)
                                    => ref[s] = ref'[r]
           /\ \A s \in Requests : (ref[s] # NoLock /\ key[s] # k /\ epoch[s] = reloads)
                                    => entries'[key[s]] = entries[key[s]]
           /\ held' \in [Locks -> BOOLEAN]
           /\ \A s \in Requests : ref[s] # NoLock => held'[ref[s]] = held[ref[s]]
           /\ \A l \in Locks : (held'[l] # held[l]) => \A s \in Requests : ref[s] # l
  <1> DEFINE kept  == [j \in Keys |-> IF Swept(j) THEN NoLock ELSE entries[j]]
             found == IF kept[k] = NoLock THEN FreshLock ELSE kept[k]
  <1>1. /\ kept[k] = NoLock => \E l \in Locks : ~Allocated(l)
        /\ entries' = [kept EXCEPT ![k] = found]
        /\ held' = IF kept[k] = NoLock THEN [held EXCEPT ![found] = FALSE] ELSE held
        /\ ref' = [ref EXCEPT ![r] = found]
    BY DEF Lookup
  <1>2. kept \in [Keys -> Locks \cup {NoLock}]
    BY DEF Inv, TypeOK
  <1>3. kept[k] = NoLock => FreshLock \in Locks /\ ~Allocated(FreshLock)
    BY <1>1 DEF FreshLock
  <1>4. found \in Locks
    BY <1>2, <1>3
  <1>5. ref'[r] = found /\ ref' = [ref EXCEPT ![r] = ref'[r]]
    BY <1>1 DEF Inv, TypeOK
  <1>6. entries' \in [Keys -> Locks \cup {NoLock}] /\ entries'[k] = found
    <2> HIDE DEF kept, found
    <2> QED BY <1>1, <1>2, <1>4
  <1>7. ASSUME NEW s \in Requests, ref[s] # NoLock, epoch[s] = reloads
        PROVE  key[s] \in Keys /\ kept[key[s]] = ref[s]
    <2>1. key[s] \in Keys /\ entries[key[s]] = ref[s]
      BY <1>7 DEF Inv, TypeOK, StillInTable
    <2>2. ~Swept(key[s])
      BY <2>1 DEF Swept, InUse
    <2> QED BY <2>1, <2>2
  <1>8. ASSUME NEW s \in Requests, ref[s] # NoLock, key[s] = k, epoch[s] = reloads
        PROVE  ref[s] = found
    BY <1>7, <1>8
  <1>9. ASSUME NEW s \in Requests, ref[s] # NoLock, key[s] # k, epoch[s] = reloads
        PROVE  entries'[key[s]] = entries[key[s]]
    <2>1. key[s] \in Keys /\ kept[key[s]] = ref[s] /\ entries[key[s]] = ref[s]
      BY <1>7, <1>9 DEF Inv, StillInTable
    <2> HIDE DEF kept, found
    <2> QED BY <1>1, <1>2, <1>9, <2>1
  <1>10. held' \in [Locks -> BOOLEAN]
    <2> HIDE DEF kept, found
    <2> QED BY <1>1 DEF Inv, TypeOK
  <1>11. ASSUME NEW l \in Locks, held'[l] # held[l]
         PROVE  \A s \in Requests : ref[s] # l
    <2>1. kept[k] = NoLock /\ l = FreshLock
      BY <1>1, <1>11 DEF Inv, TypeOK
    <2> QED BY <1>3, <2>1 DEF Allocated, InUse
  <1>12. ASSUME NEW s \in Requests, ref[s] # NoLock
         PROVE  held'[ref[s]] = held[ref[s]]
    BY <1>11, <1>12 DEF Inv, TypeOK
  <1> HIDE DEF kept, found
  <1> QED BY <1>4, <1>5, <1>6, <1>8, <1>9, <1>10, <1>11, <1>12

LEMMA LookupStep ==
    ASSUME Inv, NEW r \in Requests, NEW k \in Keys, Lookup(r, k)
    PROVE  Inv'
  <1> DEFINE l == ref'[r]
  <1>1. /\ l \in Locks
        /\ ref' = [ref EXCEPT ![r] = l]
        /\ entries' \in [Keys -> Locks \cup {NoLock}]
        /\ entries'[k] = l
        /\ held' \in [Locks -> BOOLEAN]
    BY LookupFinds
  <1>2. \A s \in Requests : (ref[s] # NoLock /\ key[s] = k /\ epoch[s] = reloads)
                                    => ref[s] = l
    BY LookupFinds
  <1>3. \A s \in Requests : (ref[s] # NoLock /\ key[s] # k /\ epoch[s] = reloads)
                                    => entries'[key[s]] = entries[key[s]]
    BY LookupFinds
  <1>4. /\ \A s \in Requests : ref[s] # NoLock => held'[ref[s]] = held[ref[s]]
        /\ \A m \in Locks : (held'[m] # held[m]) => \A s \in Requests : ref[s] # m
    BY LookupFinds
  <1>5. /\ pc[r] = "idle" /\ pc' = [pc EXCEPT ![r] = "looked"]
        /\ key' = [key EXCEPT ![r] = k] /\ epoch' = [epoch EXCEPT ![r] = reloads]
        /\ UNCHANGED <<now, reloads, bounded, expired>>
        /\ last_cleanup_at' \in {now, last_cleanup_at}
        /\ last_seen_at' = [j \in Keys |->
               IF j = k THEN now ELSE IF Swept(j) THEN 0 ELSE last_seen_at[j]]
    BY DEF Lookup
  <1> HIDE DEF l
  <1>6. TypeOK'
    BY <1>1, <1>5, NoLockAssumption, NoKeyAssumption DEF Inv, TypeOK, Stages
  <1>7. EpochPast'
    BY <1>5 DEF Inv, TypeOK, EpochPast
  <1>8. StillInTable'
    BY <1>1, <1>2, <1>3, <1>5 DEF Inv, TypeOK, StillInTable
  <1>9. SharedLock'
    BY <1>1, <1>2, <1>5 DEF Inv, TypeOK, SharedLock
  <1>10. OneHolder'
    BY <1>1, <1>4, <1>5 DEF Inv, TypeOK, OneHolder
  <1>11. NoLostWakeup'
    <2> SUFFICES ASSUME NEW m \in Locks, ~held'[m], NEW s \in Sleepers(m)'
                 PROVE  \E t \in Requests : ref'[t] = m /\ pc'[t] = "woken"
      BY DEF NoLostWakeup
    <2>1. s \in Requests /\ s # r /\ s \in Sleepers(m) /\ ref[s] = m
      BY <1>1, <1>5 DEF Sleepers, Inv, TypeOK
    <2>2. ~held[m]
      BY <1>4, <2>1
    <2>3. PICK t \in Requests : ref[t] = m /\ pc[t] = "woken"
      BY <2>1, <2>2 DEF Inv, NoLostWakeup
    <2> QED BY <1>1, <1>5, <2>3 DEF Inv, TypeOK
  <1> QED BY <1>6, <1>7, <1>8, <1>9, <1>10, <1>11 DEF Inv

\* Steps that take the lock, by try_acquire or after a wait.
LEMMA TakeStep ==
    ASSUME Inv, NEW r \in Requests, pc[r] \in {"looked", "busy", "woken"}, Take(r),
           UNCHANGED <<now, tableVars, reloads, key, ref, bounded, expired, epoch>>
    PROVE  Inv'
  <1>0. ref[r] \in Locks
    BY DEF Inv, TypeOK
  <1>1. TypeOK'
    BY DEF Inv, TypeOK, Take, Stages, tableVars
  <1>2. EpochPast' /\ StillInTable' /\ SharedLock'
    BY DEF Inv, EpochPast, StillInTable, SharedLock, tableVars
  <1>3. OneHolder'
    BY <1>0 DEF Inv, TypeOK, OneHolder, Take
  <1>4. NoLostWakeup'
    BY <1>0 DEF Inv, TypeOK, NoLostWakeup, Take, Sleepers
  <1> QED BY <1>1, <1>2, <1>3, <1>4 DEF Inv

\* Steps that only move a request between the stages in which it holds nothing: going to
\* sleep, or giving up after a wake-up, needs the lock to be held by another.
LEMMA MoveStep ==
    ASSUME Inv, NEW r \in Requests, NEW stage \in Stages \ {"idle", "holding"},
           pc[r] \notin {"idle", "holding"},
           pc' = [pc EXCEPT ![r] = stage],
           stage = "woken" \/ held[ref[r]],
           bounded' \in [Requests -> BOOLEAN], expired' \in [Requests -> BOOLEAN],
           UNCHANGED <<now, tableVars, held, reloads, key, ref, epoch>>
    PROVE  Inv'
  <1>1. TypeOK'
    BY DEF Inv, TypeOK, tableVars
  <1>2. EpochPast' /\ StillInTable' /\ SharedLock'
    BY DEF Inv, EpochPast, StillInTable, SharedLock, tableVars
  <1>3. OneHolder'
    BY DEF Inv, TypeOK, OneHolder
  <1>4. NoLostWakeup'
    BY DEF Inv, TypeOK, NoLostWakeup, Sleepers
  <1> QED BY <1>1, <1>2, <1>3, <1>4 DEF Inv

LEMMA ReleaseStep ==
    ASSUME Inv, NEW r \in Requests, Release(r)
    PROVE  Inv'
  <1>1. PICK woken \in Requests : Notified(r, woken)
    BY DEF Release
  <1>2. /\ pc[r] = "holding" /\ ref[r] \in Locks
        /\ held' = [held EXCEPT ![ref[r]] = FALSE]
        /\ pc' = [s \in Requests |-> IF s = r THEN "leaving"
                                     ELSE IF s = woken THEN "woken" ELSE pc[s]]
        /\ IF Sleepers(ref[r]) = {} THEN woken = r ELSE woken \in Sleepers(ref[r])
        /\ UNCHANGED <<now, tableVars, reloads, key, ref, bounded, expired, epoch>>
    BY <1>1 DEF Release, Notified, Inv, TypeOK
  <1>3. woken = r \/ (pc[woken] = "asleep" /\ ref[woken] = ref[r] /\ woken # r)
    BY <1>2 DEF Sleepers
  <1>4. TypeOK'
    BY <1>2, <1>3 DEF Inv, TypeOK, Stages, tableVars
  <1>5. EpochPast' /\ StillInTable' /\ SharedLock'
    BY <1>2 DEF Inv, EpochPast, StillInTable, SharedLock, tableVars
  <1>6. OneHolder'
    BY <1>2, <1>3 DEF Inv, TypeOK, OneHolder
  <1>7. NoLostWakeup'
    <2> SUFFICES ASSUME NEW m \in Locks, ~held'[m], NEW s \in Sleepers(m)'
                 PROVE  \E t \in Requests : ref'[t] = m /\ pc'[t] = "woken"
      BY DEF NoLostWakeup
    <2>1. s \in Requests /\ pc[s] = "asleep" /\ ref[s] = m
      BY <1>2 DEF Sleepers
    <2>2. CASE m = ref[r]
      <3>1. woken \in Sleepers(ref[r])
        BY <1>2, <2>1, <2>2 DEF Sleepers
      <3>2. woken # r /\ ref'[woken] = m /\ pc'[woken] = "woken"
        BY <1>2, <2>2, <3>1 DEF Sleepers
      <3> QED BY <3>2
    <2>3. CASE m # ref[r]
      <3>1. ~held[m] /\ s \in Sleepers(m)
        BY <1>2, <2>1, <2>3 DEF Inv, TypeOK, Sleepers
      <3>2. PICK t \in Requests : ref[t] = m /\ pc[t] = "woken"
        BY <3>1 DEF Inv, NoLostWakeup
      <3> QED BY <1>2, <3>2
    <2> QED BY <2>2, <2>3
  <1> QED BY <1>4, <1>5, <1>6, <1>7 DEF Inv

LEMMA LeaveStep ==
    ASSUME Inv, NEW r \in Requests, Leave(r)
    PROVE  Inv'
  <1>0. /\ pc[r] = "leaving"
        /\ ref' = [ref EXCEPT ![r] = NoLock] /\ pc' = [pc EXCEPT ![r] = "idle"]
        /\ key' = [key EXCEPT ![r] = NoKey] /\ epoch' = [epoch EXCEPT ![r] = 0]
        /\ bounded' = [bounded EXCEPT ![r] = FALSE]
        /\ expired' = [expired EXCEPT ![r] = FALSE]
        /\ UNCHANGED <<now, tableVars, held, reloads>>
    BY DEF Leave, DropsReference
  <1>1. TypeOK'
    BY <1>0 DEF Inv, TypeOK, Stages, tableVars
  <1>2. EpochPast'
    BY <1>0 DEF Inv, TypeOK, EpochPast
  <1>3. StillInTable'
    BY <1>0 DEF Inv, TypeOK, StillInTable, tableVars
  <1>4. SharedLock'
    BY <1>0 DEF Inv, TypeOK, SharedLock
  <1>5. OneHolder'
    BY <1>0 DEF Inv, TypeOK, OneHolder
  <1>6. NoLostWakeup'
    BY <1>0, NoLockAssumption DEF Inv, TypeOK, NoLostWakeup, Sleepers
  <1> QED BY <1>1, <1>2, <1>3, <1>4, <1>5, <1>6 DEF Inv

LEMMA ClearStep ==
    ASSUME Inv, ClearRuntimeState
    PROVE  Inv'
  <1> USE DEF ClearRuntimeState, requestVars
  <1>1. TypeOK'
    BY DEF Inv, TypeOK
  <1>2. EpochPast' /\ StillInTable'
    BY DEF Inv, TypeOK, EpochPast, StillInTable
  <1>3. SharedLock' /\ OneHolder' /\ NoLostWakeup'
    BY DEF Inv, SharedLock, OneHolder, NoLostWakeup, Sleepers
  <1> QED BY <1>1, <1>2, <1>3 DEF Inv

\* Steps that leave the gate alone: the clock, and stuttering.
LEMMA IdleStep ==
    ASSUME Inv, Tick \/ UNCHANGED vars
    PROVE  Inv'
  <1> USE DEF Tick, vars, tableVars, requestVars
  <1>1. TypeOK'
    BY DEF Inv, TypeOK
  <1>2. EpochPast' /\ StillInTable' /\ SharedLock' /\ OneHolder' /\ NoLostWakeup'
    BY DEF Inv, EpochPast, StillInTable, SharedLock, OneHolder, NoLostWakeup, Sleepers
  <1> QED BY <1>1, <1>2 DEF Inv

\* The invariant is inductive.
THEOREM InvInductive == Inv /\ [Next]_vars => Inv'
<1> SUFFICES ASSUME Inv, [Next]_vars PROVE Inv'
  OBVIOUS
<1>1. ASSUME NEW r \in Requests, NEW k \in Keys, Lookup(r, k) PROVE Inv'
  BY <1>1, LookupStep
<1>2. ASSUME NEW r \in Requests, TryAcquire(r) PROVE Inv'
  BY <1>2, TakeStep DEF TryAcquire
<1>3. ASSUME NEW r \in Requests, NEW hasTimeout \in BOOLEAN, TryFails(r, hasTimeout) PROVE Inv'
  <2>1. bounded' \in [Requests -> BOOLEAN] /\ expired' \in [Requests -> BOOLEAN]
    BY <1>3 DEF TryFails, Inv, TypeOK
  <2> QED BY <1>3, <2>1, MoveStep DEF TryFails, Stages
<1>4. ASSUME NEW r \in Requests, NoTimeToWait(r) PROVE Inv'
  <2>1. bounded' \in [Requests -> BOOLEAN] /\ expired' \in [Requests -> BOOLEAN]
    BY <1>4 DEF NoTimeToWait, Inv, TypeOK
  <2> QED BY <1>4, <2>1, MoveStep DEF NoTimeToWait, Stages
<1>5. ASSUME NEW r \in Requests, WaitTakes(r) PROVE Inv'
  BY <1>5, TakeStep DEF WaitTakes
<1>6. ASSUME NEW r \in Requests, WaitSleeps(r) PROVE Inv'
  <2>1. bounded' \in [Requests -> BOOLEAN] /\ expired' \in [Requests -> BOOLEAN]
    BY <1>6 DEF WaitSleeps, Inv, TypeOK
  <2> QED BY <1>6, <2>1, MoveStep DEF WaitSleeps, Stages
<1>7. ASSUME NEW r \in Requests, WaitGivesUp(r) PROVE Inv'
  <2>1. bounded' \in [Requests -> BOOLEAN] /\ expired' \in [Requests -> BOOLEAN]
    BY <1>7 DEF WaitGivesUp, Inv, TypeOK
  <2> QED BY <1>7, <2>1, MoveStep DEF WaitGivesUp, GivesUp, Stages
<1>8. ASSUME NEW r \in Requests, TimerFires(r) PROVE Inv'
  <2>1. bounded' \in [Requests -> BOOLEAN] /\ expired' \in [Requests -> BOOLEAN]
    BY <1>8 DEF TimerFires, Inv, TypeOK
  <2> QED BY <1>8, <2>1, MoveStep DEF TimerFires, Stages
<1>9. ASSUME NEW r \in Requests, SpuriousWakeup(r) PROVE Inv'
  <2>1. bounded' \in [Requests -> BOOLEAN] /\ expired' \in [Requests -> BOOLEAN]
    BY <1>9 DEF SpuriousWakeup, Inv, TypeOK
  <2> QED BY <1>9, <2>1, MoveStep DEF SpuriousWakeup, Stages
<1>10. ASSUME NEW r \in Requests, Release(r) PROVE Inv'
  BY <1>10, ReleaseStep
<1>11. ASSUME NEW r \in Requests, Leave(r) PROVE Inv'
  BY <1>11, LeaveStep
<1>12. CASE ClearRuntimeState
  BY <1>12, ClearStep
<1>13. CASE Tick \/ UNCHANGED vars
  BY <1>13, IdleStep
<1> QED BY <1>1, <1>2, <1>3, <1>4, <1>5, <1>6, <1>7, <1>8, <1>9, <1>10, <1>11, <1>12, <1>13
        DEF Next

\* Two guards of one key are never out at once, except across a configuration reload.
THEOREM GateExclusive == Spec => [](TypeOK /\ KeyExclusion)
<1>1. Init => Inv
  BY NoLockAssumption, NoKeyAssumption
  DEF Init, Inv, TypeOK, Stages, EpochPast, StillInTable, SharedLock, OneHolder, NoLostWakeup,
      Sleepers
<1>2. Inv => TypeOK /\ KeyExclusion
  BY DEF Inv, TypeOK, SharedLock, OneHolder, KeyExclusion
<1> QED BY <1>1, <1>2, InvInductive, PTL DEF Spec

\* No wakeup is lost, whatever times out, wakes for no reason or barges in.
THEOREM GateWakes == Spec => []NoLostWakeup
<1>1. Init => Inv
  BY NoLockAssumption, NoKeyAssumption
  DEF Init, Inv, TypeOK, Stages, EpochPast, StillInTable, SharedLock, OneHolder, NoLostWakeup,
      Sleepers
<1>2. Inv => NoLostWakeup
  BY DEF Inv
<1> QED BY <1>1, <1>2, InvInductive, PTL DEF Spec

\* The gate's variables keep their types, and a request refers to a lock exactly
\* while it deals with one (request_gate.rs).
THEOREM TypeCorrect == Spec => []TypeOK
  BY GateExclusive, PTL
=============================================================================
