----------------------- MODULE AccountCooldown_proof -----------------------
(***************************************************************************)
(* Proofs about AccountCooldown, for any set of accounts, any durations    *)
(* and any bounds: its type invariant, the pairing of the two offense      *)
(* maps, and that it implements CooldownLadder.                            *)
(***************************************************************************)
EXTENDS AccountCooldown, TLAPS

\* The conjunction that is inductive: the pairing needs the clock to be positive.
Inv == TypeOK /\ OffensePaired

\* A mark of any reason costs a natural number of seconds.
LEMMA SecsForMarkType ==
    ASSUME TypeOK, NEW a \in Accounts, NEW reason \in Reasons
    PROVE  SecsForMark(a, reason) \in Nat \ {0} /\ NextCount(a) \in Nat \ {0}
  BY ReasonSecsAssumption, RungsAssumption
  DEF TypeOK, SecsForMark, RateLimitSecs, NextCount

\* The maps keep their types and the offense maps their pairing over every step.
THEOREM InvInductive == Inv /\ [Next]_vars => Inv'
<1> SUFFICES ASSUME Inv, [Next]_vars PROVE Inv'
  OBVIOUS
<1> USE DEF Inv, TypeOK, OffensePaired
<1>1. ASSUME NEW a \in Accounts, NEW reason \in Reasons, MarkAccountCooldown(a, reason)
      PROVE  Inv'
  <2>1. SecsForMark(a, reason) \in Nat \ {0} /\ NextCount(a) \in Nat \ {0}
    BY SecsForMarkType
  <2>2. /\ SweptEntry(a) \in Nat
        /\ KeepLater(SweptEntry(a), now + SecsForMark(a, reason)) \in Nat
    BY <2>1 DEF SweptEntry, KeepLater
  <2>3. entries' \in [Accounts -> Nat]
    BY <1>1, <2>2 DEF MarkAccountCooldown, SweptEntry
  <2>4. offense_counts' \in [Accounts -> Nat]
    BY <1>1, <2>1 DEF MarkAccountCooldown, SweptCount
  <2>5. now' = now /\ offense_last_at' \in [Accounts -> 0..now]
    BY <1>1 DEF MarkAccountCooldown, SweptLastAt
  <2>6. last_cleanup_at' \in 0..now
    BY <1>1 DEF MarkAccountCooldown
  <2>7. OffensePaired'
    <3> SUFFICES ASSUME NEW b \in Accounts
                 PROVE  offense_counts'[b] = 0 <=> offense_last_at'[b] = 0
      OBVIOUS
    <3>1. CASE b = a /\ reason = "RateLimited"
      BY <1>1, <2>1, <3>1 DEF MarkAccountCooldown
    <3>2. CASE ~(b = a /\ reason = "RateLimited")
      BY <1>1, <3>2 DEF MarkAccountCooldown, SweptCount, SweptLastAt
    <3> QED BY <3>1, <3>2
  <2> QED BY <2>3, <2>4, <2>5, <2>6, <2>7
<1>2. ASSUME NEW a \in Accounts, IsAccountInCooldown(a)
      PROVE  Inv'
  BY <1>2 DEF IsAccountInCooldown
<1>3. ASSUME NEW a \in Accounts, ClearAccountCooldown(a)
      PROVE  Inv'
  BY <1>3 DEF ClearAccountCooldown, Decayed
<1>4. CASE ClearRuntimeState
  BY <1>4 DEF ClearRuntimeState
<1>5. CASE Tick
  BY <1>5 DEF Tick, table
<1>6. CASE UNCHANGED vars
  BY <1>6 DEF vars
<1> QED BY <1>1, <1>2, <1>3, <1>4, <1>5, <1>6 DEF Next

\* Type correctness, and offense_counts and offense_last_at always hold the same accounts.
THEOREM CooldownInvariant == Spec => [](TypeOK /\ OffensePaired)
<1>1. Init => Inv
  BY DEF Init, Inv, TypeOK, OffensePaired
<1>2. Inv => TypeOK /\ OffensePaired
  BY DEF Inv
<1> QED BY <1>1, <1>2, InvInductive, PTL DEF Spec

-----------------------------------------------------------------------------
(* The table implements CooldownLadder.  Each operation is one step of it or *)
(* none; the lemmas give that step, account by account.                      *)

\* The sweep of a mark is invisible: what it removes counted for nothing.
LEMMA SweepInvisible ==
    ASSUME Inv, NEW a \in Accounts, NEW reason \in Reasons, MarkAccountCooldown(a, reason),
           NEW b \in Accounts, b # a
    PROVE  /\ remainingBar'[b] = remainingBar[b]
           /\ levelBar'[b] = levelBar[b]
           /\ quietBar'[b] = quietBar[b]
<1>1. /\ now' = now /\ entries'[b] = SweptEntry(b)
      /\ offense_counts'[b] = SweptCount(b) /\ offense_last_at'[b] = SweptLastAt(b)
  BY DEF MarkAccountCooldown
<1>2. remainingBar'[b] = remainingBar[b]
  BY <1>1 DEF remainingBar, SweptEntry, Inv, TypeOK
<1>3. Remembered(b)' = Remembered(b)
  BY <1>1, ForgetAfterAssumption
  DEF Remembered, SweptCount, SweptLastAt, StaleOffense, Inv, TypeOK, OffensePaired
<1>4. Remembered(b) => /\ offense_counts'[b] = offense_counts[b]
                       /\ offense_last_at'[b] = offense_last_at[b]
  BY <1>1, ForgetAfterAssumption
  DEF Remembered, SweptCount, SweptLastAt, StaleOffense, Inv, TypeOK
<1> QED BY <1>1, <1>2, <1>3, <1>4 DEF levelBar, quietBar

\* The marked account's countdown is never shortened, swept entry or not.
LEMMA MarkLengthens ==
    ASSUME Inv, NEW a \in Accounts, NEW reason \in Reasons, MarkAccountCooldown(a, reason)
    PROVE  remainingBar'[a] = Ladder!Longer(remainingBar[a], SecsForMark(a, reason))
<1>1. SecsForMark(a, reason) \in Nat \ {0}
  BY SecsForMarkType DEF Inv
<1>2. /\ now' = now
      /\ entries'[a] = KeepLater(SweptEntry(a), now + SecsForMark(a, reason))
  BY DEF MarkAccountCooldown
<1> QED BY <1>1, <1>2 DEF remainingBar, KeepLater, SweptEntry, Ladder!Longer, Inv, TypeOK

LEMMA MarkFails ==
    ASSUME Inv, NEW a \in Accounts, NEW reason \in Reasons, MarkAccountCooldown(a, reason),
           reason # "RateLimited"
    PROVE  Ladder!Fail(a, reason)
<1>1. SecsForMark(a, reason) = ReasonSecs[reason]
  BY DEF SecsForMark
<1>2. /\ now' = now
      /\ offense_counts'[a] = SweptCount(a) /\ offense_last_at'[a] = SweptLastAt(a)
  BY DEF MarkAccountCooldown
<1>3. Remembered(a)' = Remembered(a)
  BY <1>2, ForgetAfterAssumption
  DEF Remembered, SweptCount, SweptLastAt, StaleOffense, Inv, TypeOK, OffensePaired
<1>4. Remembered(a) => /\ offense_counts'[a] = offense_counts[a]
                       /\ offense_last_at'[a] = offense_last_at[a]
  BY <1>2, ForgetAfterAssumption
  DEF Remembered, SweptCount, SweptLastAt, StaleOffense, Inv, TypeOK
<1>5. levelBar'[a] = levelBar[a] /\ quietBar'[a] = quietBar[a]
  BY <1>2, <1>3, <1>4 DEF levelBar, quietBar
<1>6. levelBar' = levelBar /\ quietBar' = quietBar
  BY <1>5, SweepInvisible DEF levelBar, quietBar
<1>7. remainingBar' = [remainingBar EXCEPT ![a] =
                           Ladder!Longer(remainingBar[a], ReasonSecs[reason])]
  <2>1. remainingBar'[a] = Ladder!Longer(remainingBar[a], ReasonSecs[reason])
    BY <1>1, MarkLengthens
  <2>2. \A b \in Accounts : b # a => remainingBar'[b] = remainingBar[b]
    BY SweepInvisible
  <2> QED BY <2>1, <2>2 DEF remainingBar
<1> QED BY <1>6, <1>7 DEF Ladder!Fail

LEMMA MarkRateLimits ==
    ASSUME Inv, NEW a \in Accounts, MarkAccountCooldown(a, "RateLimited")
    PROVE  Ladder!RateLimit(a)
<1>0. "RateLimited" \in Reasons
  BY DEF Reasons
<1>1. NextCount(a) = levelBar[a] + 1 /\ NextCount(a) \in Nat \ {0}
  BY <1>0, SecsForMarkType, ForgetAfterAssumption
  DEF NextCount, levelBar, Remembered, StaleOffense, Inv, TypeOK, OffensePaired
<1>2. SecsForMark(a, "RateLimited") = Ladder!Rung(levelBar[a] + 1)
  BY <1>1 DEF SecsForMark, RateLimitSecs, Ladder!Rung
<1>3. now' = now /\ offense_counts'[a] = NextCount(a) /\ offense_last_at'[a] = now
  BY DEF MarkAccountCooldown
<1>4. levelBar'[a] = levelBar[a] + 1 /\ quietBar'[a] = 0
  BY <1>1, <1>3, ForgetAfterAssumption DEF levelBar, quietBar, Remembered, Inv, TypeOK
<1>5. /\ levelBar' = [levelBar EXCEPT ![a] = levelBar[a] + 1]
      /\ quietBar' = [quietBar EXCEPT ![a] = 0]
  BY <1>0, <1>4, SweepInvisible DEF levelBar, quietBar
<1>6. remainingBar' = [remainingBar EXCEPT ![a] =
                           Ladder!Longer(remainingBar[a], Ladder!Rung(levelBar[a] + 1))]
  BY <1>0, <1>2, MarkLengthens, SweepInvisible DEF remainingBar
<1> QED BY <1>5, <1>6 DEF Ladder!RateLimit

LEMMA ClearSucceeds ==
    ASSUME Inv, NEW a \in Accounts, ClearAccountCooldown(a)
    PROVE  Ladder!Succeed(a)
<1>1. now' = now /\ \A b \in Accounts \ {a} :
          /\ entries'[b] = entries[b]
          /\ offense_counts'[b] = offense_counts[b]
          /\ offense_last_at'[b] = offense_last_at[b]
  BY DEF ClearAccountCooldown, Decayed, Inv, TypeOK
<1>2. /\ entries'[a] = 0
      /\ offense_counts'[a] = IF offense_counts[a] <= 1 THEN 0 ELSE offense_counts[a] - 1
      /\ offense_last_at'[a] = IF offense_counts[a] = 1 THEN 0 ELSE offense_last_at[a]
  BY DEF ClearAccountCooldown, Decayed, Inv, TypeOK
<1>3. \A b \in Accounts \ {a} : /\ remainingBar'[b] = remainingBar[b]
                                /\ levelBar'[b] = levelBar[b]
                                /\ quietBar'[b] = quietBar[b]
  BY <1>1 DEF remainingBar, levelBar, quietBar, Remembered
<1>4. remainingBar'[a] = 0
  BY <1>1, <1>2 DEF remainingBar, Inv, TypeOK
<1>5. levelBar'[a] = IF levelBar[a] <= 1 THEN 0 ELSE levelBar[a] - 1
  BY <1>1, <1>2 DEF levelBar, Remembered, Inv, TypeOK
<1>6. quietBar'[a] = IF levelBar[a] <= 1 THEN 0 ELSE quietBar[a]
  BY <1>1, <1>2 DEF levelBar, quietBar, Remembered, Inv, TypeOK
<1>7. /\ remainingBar' = [remainingBar EXCEPT ![a] = 0]
      /\ levelBar' = [levelBar EXCEPT ![a] = IF levelBar[a] <= 1 THEN 0 ELSE levelBar[a] - 1]
      /\ quietBar' = [quietBar EXCEPT ![a] = IF levelBar[a] <= 1 THEN 0 ELSE quietBar[a]]
  BY <1>3, <1>4, <1>5, <1>6 DEF remainingBar, levelBar, quietBar
<1> QED BY <1>7 DEF Ladder!Succeed

LEMMA TickTicks ==
    ASSUME Inv, Tick
    PROVE  Ladder!Tick
<1>1. now' = now + 1 /\ UNCHANGED <<entries, offense_counts, offense_last_at>>
  BY DEF Tick, table
<1>2. ASSUME NEW a \in Accounts
      PROVE  /\ remainingBar'[a] = IF remainingBar[a] > 0 THEN remainingBar[a] - 1 ELSE 0
             /\ levelBar'[a] = IF Ladder!Forgotten(a) THEN 0 ELSE levelBar[a]
             /\ quietBar'[a] = IF Ladder!Forgotten(a) THEN 0 ELSE quietBar[a] + 1
  <2>1. remainingBar'[a] = IF remainingBar[a] > 0 THEN remainingBar[a] - 1 ELSE 0
    BY <1>1, <1>2 DEF remainingBar, Inv, TypeOK
  <2>2. Remembered(a)' <=> ~Ladder!Forgotten(a)
    BY <1>1, <1>2, ForgetAfterAssumption
    DEF Remembered, Ladder!Forgotten, levelBar, quietBar, Inv, TypeOK
  <2>3. Remembered(a)' => Remembered(a)
    BY <1>1, <1>2, ForgetAfterAssumption DEF Remembered, Inv, TypeOK
  <2>4. levelBar'[a] = IF Ladder!Forgotten(a) THEN 0 ELSE levelBar[a]
    BY <1>1, <1>2, <2>2, <2>3 DEF levelBar
  <2>5. quietBar'[a] = IF Ladder!Forgotten(a) THEN 0 ELSE quietBar[a] + 1
    <3>1. Remembered(a)' => quietBar'[a] = (now + 1) - offense_last_at[a]
      BY <1>1, <1>2 DEF quietBar
    <3>2. ~Remembered(a)' => quietBar'[a] = 0
      BY <1>2 DEF quietBar
    <3>3. Remembered(a) => quietBar[a] = now - offense_last_at[a]
      BY <1>2 DEF quietBar
    <3> QED BY <2>2, <2>3, <3>1, <3>2, <3>3 DEF Inv, TypeOK
  <2> QED BY <2>1, <2>4, <2>5
<1>3. /\ remainingBar' = [a \in Accounts |->
              IF remainingBar[a] > 0 THEN remainingBar[a] - 1 ELSE 0]
      /\ levelBar' = [a \in Accounts |-> IF Ladder!Forgotten(a) THEN 0 ELSE levelBar[a]]
      /\ quietBar' = [a \in Accounts |-> IF Ladder!Forgotten(a) THEN 0 ELSE quietBar[a] + 1]
  BY <1>2 DEF remainingBar, levelBar, quietBar
<1> QED BY <1>3 DEF Ladder!Tick

\* The table implements the countdown: the n-th rate limit in a row costs exactly the n-th
\* rung and no failure shortens a cooldown, whenever the entries are swept.
THEOREM ImplementsLadder == Spec => LadderSpec
<1>1. Init => Ladder!Init
  BY DEF Init, Ladder!Init, remainingBar, levelBar, quietBar, Remembered
<1>2. Inv /\ [Next]_vars => [Ladder!Next]_(Ladder!vars)
  <2> SUFFICES ASSUME Inv, [Next]_vars PROVE [Ladder!Next]_(Ladder!vars)
    OBVIOUS
  <2>1. ASSUME NEW a \in Accounts, NEW reason \in Reasons, MarkAccountCooldown(a, reason)
        PROVE  Ladder!Next
    BY <2>1, MarkFails, MarkRateLimits DEF Ladder!Next
  <2>2. ASSUME NEW a \in Accounts, IsAccountInCooldown(a)
        PROVE  UNCHANGED Ladder!vars
    <3>1. \A b \in Accounts : remainingBar'[b] = remainingBar[b]
      BY <2>2 DEF IsAccountInCooldown, remainingBar, Inv, TypeOK
    <3>2. remainingBar' = remainingBar
      BY <3>1 DEF remainingBar
    <3>3. levelBar' = levelBar /\ quietBar' = quietBar
      BY <2>2 DEF IsAccountInCooldown, levelBar, quietBar, Remembered
    <3> QED BY <3>2, <3>3 DEF Ladder!vars
  <2>3. ASSUME NEW a \in Accounts, ClearAccountCooldown(a)
        PROVE  Ladder!Next
    BY <2>3, ClearSucceeds DEF Ladder!Next
  <2>4. CASE ClearRuntimeState
    <3>1. Ladder!Reload
      BY <2>4 DEF ClearRuntimeState, Ladder!Reload, remainingBar, levelBar, quietBar,
                  Remembered, Inv, TypeOK
    <3> QED BY <3>1 DEF Ladder!Next
  <2>5. CASE Tick
    BY <2>5, TickTicks DEF Ladder!Next
  <2>6. CASE UNCHANGED vars
    BY <2>6 DEF vars, Ladder!vars, remainingBar, levelBar, quietBar, Remembered
  <2> QED BY <2>1, <2>2, <2>3, <2>4, <2>5, <2>6 DEF Next
<1>3. Spec => []Inv
  <2>1. Init => Inv
    BY DEF Init, Inv, TypeOK, OffensePaired
  <2> QED BY <2>1, InvInductive, PTL DEF Spec
<1> QED BY <1>1, <1>2, <1>3, PTL DEF Spec, LadderSpec, Ladder!Spec

\* No failure ends a running cooldown early.
THEOREM CooldownNeverShortened == Spec => NeverShortened
<1>1. Inv /\ [Next]_vars =>
        [\A a \in Accounts : EndsEarlier(a) => ClearAccountCooldown(a) \/ ClearRuntimeState]_vars
  <2> SUFFICES ASSUME Inv, [Next]_vars, NEW a \in Accounts, EndsEarlier(a), vars' # vars
               PROVE  ClearAccountCooldown(a) \/ ClearRuntimeState
    OBVIOUS
  <2>1. ASSUME NEW b \in Accounts, NEW reason \in Reasons, MarkAccountCooldown(b, reason)
        PROVE  FALSE
    <3>1. SecsForMark(b, reason) \in Nat \ {0}
      BY <2>1, SecsForMarkType DEF Inv
    <3> QED BY <2>1, <3>1
            DEF EndsEarlier, MarkAccountCooldown, SweptEntry, KeepLater, Inv, TypeOK
  <2>2. ASSUME NEW b \in Accounts, IsAccountInCooldown(b)
        PROVE  FALSE
    BY <2>2 DEF EndsEarlier, IsAccountInCooldown, Inv, TypeOK
  <2>3. ASSUME NEW b \in Accounts, ClearAccountCooldown(b)
        PROVE  ClearAccountCooldown(a)
    <3>1. a = b
      BY <2>3 DEF EndsEarlier, ClearAccountCooldown, Inv, TypeOK
    <3> QED BY <2>3, <3>1
  <2>4. CASE Tick
    BY <2>4 DEF EndsEarlier, Tick, table, Inv, TypeOK
  <2> QED BY <2>1, <2>2, <2>3, <2>4 DEF Next
<1>2. Spec => []Inv
  <2>1. Init => Inv
    BY DEF Init, Inv, TypeOK, OffensePaired
  <2> QED BY <2>1, InvInductive, PTL DEF Spec
<1> QED BY <1>1, <1>2, PTL DEF Spec, NeverShortened

\* The table of cooldowns keeps its types: successes take no offense count below zero,
\* and no recorded time lies in the future (cooldown.rs, decay_offense_count_for_success).
THEOREM TypeCorrect == Spec => []TypeOK
  BY CooldownInvariant, PTL
=============================================================================
