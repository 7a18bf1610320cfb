------------------------- MODULE TokenExchange_proof -------------------------
(***************************************************************************)
(* Proofs about TokenExchange, for any number of threads, accounts and     *)
(* locks, any times, with and without foreign keys: type correctness, the  *)
(* exclusion of the exchanges of an account, the reuse of a stored key,    *)
(* and what keeps the refresh token of a row good.                         *)
(***************************************************************************)
EXTENDS TokenExchange, TLAPS

\* No sweep removes a lock that a thread refers to.
StillInTable == \A t \in Threads : ref[t] # NoLock => entries[target[t]] = ref[t]

LockInv == TypeOK /\ StillInTable /\ OneExchangeAtATime

\* A refresh token is known to somebody after the server has issued it.
Generations ==
    /\ \A a \in Accounts : row[a].refresh <= issued[a] /\ \A g \in live[a] : g <= issued[a]
    /\ \A t \in Threads : target[t] # NoAccount =>
           copy[t].refresh <= issued[target[t]] /\ base[t] <= issued[target[t]]

\* A copy differs in its refresh token from the row it was made of only after a refresh, which
\* has used the old one up.
CopyFits ==
    \A t \in Threads :
        /\ pc[t] \notin {"persist", "second"} => copy[t].refresh = base[t]
        /\ pc[t] \in {"refresh", "persist", "second", "refused"} =>
               base[t] # 0 /\ copy[t].refresh # 0
        /\ (target[t] # NoAccount /\ copy[t].refresh # base[t]) => base[t] \notin live[target[t]]
        /\ pc[t] = "refused" => copy[t].refresh \notin live[target[t]]

TokenInv == Generations /\ CopyFits /\ TokenKept /\ RefusalHasCause

Inv == LockInv /\ KeyReused /\ TokenInv

-----------------------------------------------------------------------------
(* Types                                                                    *)

LEMMA LockFound ==
    ASSUME TypeOK, StillInTable, NEW t \in Threads, LooksUpLock(t)
    PROVE  /\ ref'[t] \in Locks
           /\ ref' = [ref EXCEPT ![t] = ref'[t]]
           /\ entries' \in [Accounts -> Locks \cup {NoLock}]
           /\ entries'[target[t]] = ref'[t]
           /\ \A u \in Threads : ref[u] # NoLock => entries'[target[u]] = ref[u]
  <1> DEFINE a     == target[t]
             kept  == [b \in Accounts |-> IF Swept(b) THEN NoLock ELSE entries[b]]
             found == IF kept[a] = NoLock THEN FreshLock ELSE kept[a]
  <1>1. /\ pc[t] = "copied"
        /\ kept[a] = NoLock => \E l \in Locks : ~Allocated(l)
        /\ entries' = [kept EXCEPT ![a] = found]
        /\ ref' = [ref EXCEPT ![t] = found]
    BY DEF LooksUpLock
  <1>2. kept \in [Accounts -> Locks \cup {NoLock}] /\ a \in Accounts
    BY <1>1 DEF TypeOK
  <1>3. kept[a] = NoLock => FreshLock \in Locks /\ ~Allocated(FreshLock)
    BY <1>1 DEF FreshLock
  <1>4. found \in Locks
    BY <1>2, <1>3
  <1>5. ref'[t] = found /\ ref' = [ref EXCEPT ![t] = ref'[t]]
    BY <1>1 DEF TypeOK
  <1>6. entries' \in [Accounts -> Locks \cup {NoLock}] /\ entries'[a] = found
    <2> HIDE DEF kept, found, a
    <2> QED BY <1>1, <1>2, <1>4
  <1>7. ASSUME NEW u \in Threads, ref[u] # NoLock
        PROVE  entries'[target[u]] = ref[u]
    <2>1. target[u] \in Accounts /\ entries[target[u]] = ref[u]
      BY <1>7 DEF TypeOK, StillInTable
    <2>2. ~Swept(target[u])
      BY <2>1 DEF Swept, InUse
    <2>3. kept[target[u]] = ref[u]
      BY <2>1, <2>2
    <2> HIDE DEF kept, a
    <2> QED BY <1>1, <1>2, <1>7, <2>1, <2>3
  <1> HIDE DEF kept, found
  <1> QED BY <1>4, <1>5, <1>6, <1>7

LEMMA KeyTypes ==
    ASSUME NEW token \in Token, NEW key \in BOOLEAN
    PROVE  /\ [token EXCEPT !.key = key] \in Token
           /\ [token EXCEPT !.key = @ \/ key] \in Token
           /\ [token EXCEPT !.key = key].refresh = token.refresh
           /\ [token EXCEPT !.key = @ \/ key].refresh = token.refresh
  BY DEF Token

\* What a write of a thread does to the rows, whether it works or fails.
LEMMA WriteTypes ==
    ASSUME TypeOK, NEW t \in Threads, target[t] \in Accounts, NEW token \in Token,
           Stores(t, token) \/ StoreFails(t, token)
    PROVE  /\ exists' \in [Accounts -> BOOLEAN] /\ stored' \in [Accounts -> BOOLEAN]
           /\ row' \in [Accounts -> Token]
           /\ lost' \in [Accounts -> BOOLEAN] /\ overtaken' \in [Accounts -> BOOLEAN]
  BY DEF TypeOK, Stores, StoreFails, RowMoved

\* A call that returns leaves the variables of its thread in their types.
LEMMA LeaveTypes ==
    ASSUME TypeOK, NEW t \in Threads, Leaves(t), checked' \in [Threads -> BOOLEAN],
           UNCHANGED <<now, entries, last_seen_at, last_cleanup_at>>,
           exists' \in [Accounts -> BOOLEAN], stored' \in [Accounts -> BOOLEAN],
           row' \in [Accounts -> Token],
           live' \in [Accounts -> SUBSET (Nat \ {0})], issued' \in [Accounts -> Nat \ {0}],
           lost' \in [Accounts -> BOOLEAN], overtaken' \in [Accounts -> BOOLEAN]
    PROVE  TypeOK'
  BY NoAccountAssumption DEF TypeOK, Leaves, Goes, Keeps, Stages, Token, Empty

\* The server rotates the refresh token of an account.
LEMMA RotateTypes ==
    ASSUME TypeOK, NEW a \in Accounts, NEW g, Rotates(a, g)
    PROVE  /\ live' \in [Accounts -> SUBSET (Nat \ {0})] /\ issued' \in [Accounts -> Nat \ {0}]
           /\ issued'[a] = issued[a] + 1 /\ issued'[a] \in Nat
  BY DEF TypeOK, Rotates

LEMMA TypeStep ==
    ASSUME TypeOK, StillInTable, [Next]_vars
    PROVE  TypeOK'
  <1> USE NoLockAssumption, NoAccountAssumption
      DEF TypeOK, Stages, Token, Empty, tableVars, serverVars, rowVars, threadVars, historyVars,
          Goes, Keeps, Leaves, Returns
  <1>1. ASSUME NEW t \in Threads, NEW a \in Accounts, Copies(t, a) PROVE TypeOK'
    BY <1>1 DEF Copies
  <1>2. ASSUME NEW t \in Threads, Discards(t) PROVE TypeOK'
    BY <1>2 DEF Discards
  <1>3. ASSUME NEW t \in Threads, LooksUpLock(t) PROVE TypeOK'
    <2>1. /\ ref'[t] \in Locks /\ ref' = [ref EXCEPT ![t] = ref'[t]]
          /\ entries' \in [Accounts -> Locks \cup {NoLock}]
      BY <1>3, LockFound
    <2>2. /\ pc[t] = "copied" /\ pc' = [pc EXCEPT ![t] = "waiting"]
          /\ last_cleanup_at' \in {now, last_cleanup_at}
          /\ last_seen_at' \in [Accounts -> Nat]
          /\ UNCHANGED <<now, rowVars, serverVars, historyVars, target, copy, base, checked>>
      BY <1>3 DEF LooksUpLock
    <2> QED BY <2>1, <2>2
  <1>4. ASSUME NEW t \in Threads, TakesLock(t) PROVE TypeOK'
    BY <1>4 DEF TakesLock
  <1>5. ASSUME NEW t \in Threads, ReusesStoredKey(t) PROVE TypeOK'
    BY <1>5 DEF ReusesStoredKey
  <1>6. ASSUME NEW t \in Threads, StartsExchange(t) PROVE TypeOK'
    BY <1>6 DEF StartsExchange
  <1>7. ASSUME NEW t \in Threads, Exchanges(t) PROVE TypeOK'
    <2>1. target[t] \in Accounts /\ [copy[t] EXCEPT !.key = TRUE] \in Token
      <3>1. pc[t] \in {"exchange", "second"} /\ copy[t] \in Token
        BY <1>7 DEF Exchanges
      <3>2. target[t] \in Accounts
        BY <3>1
      <3> HIDE DEF Token
      <3>3. [copy[t] EXCEPT !.key = TRUE] \in Token
        BY <3>1, KeyTypes
      <3> QED BY <3>2, <3>3
    <2>2. checked' \in [Threads -> BOOLEAN] /\ Leaves(t)
      BY <1>7 DEF Exchanges
    <2>3. Stores(t, [copy[t] EXCEPT !.key = TRUE]) \/ StoreFails(t, [copy[t] EXCEPT !.key = TRUE])
      BY <1>7 DEF Exchanges
    <2>4. /\ exists' \in [Accounts -> BOOLEAN] /\ stored' \in [Accounts -> BOOLEAN]
          /\ row' \in [Accounts -> Token]
          /\ lost' \in [Accounts -> BOOLEAN] /\ overtaken' \in [Accounts -> BOOLEAN]
      BY <2>1, <2>3, WriteTypes
    <2> QED BY <1>7, <2>2, <2>4, LeaveTypes DEF Exchanges
  <1>8. ASSUME NEW t \in Threads, ExchangeFails(t) PROVE TypeOK'
    <2>1. CASE Returns(t)
      BY <1>8, <2>1, LeaveTypes DEF ExchangeFails
    <2>2. CASE ~Returns(t)
      BY <1>8, <2>2 DEF ExchangeFails
    <2> QED BY <2>1, <2>2
  <1>9. ASSUME NEW t \in Threads, StartsRefresh(t) PROVE TypeOK'
    BY <1>9 DEF StartsRefresh
  <1>10. ASSUME NEW t \in Threads, RefreshGranted(t) PROVE TypeOK'
    <2>1. target[t] \in Accounts
      BY <1>10 DEF RefreshGranted
    <2>2. CASE Rotates(target[t], copy[t].refresh) /\ Keeps(t, Refreshed(t))
      BY <1>10, <2>1, <2>2, RotateTypes DEF RefreshGranted, Refreshed
    <2>3. CASE UNCHANGED <<serverVars, copy>>
      BY <1>10, <2>3 DEF RefreshGranted
    <2> QED BY <1>10, <2>2, <2>3 DEF RefreshGranted
  <1>11. ASSUME NEW t \in Threads, RefreshLost(t) PROVE TypeOK'
    <2>1. /\ target[t] \in Accounts /\ Rotates(target[t], copy[t].refresh)
          /\ lost' \in [Accounts -> BOOLEAN]
      BY <1>11 DEF RefreshLost
    <2>2. live' \in [Accounts -> SUBSET (Nat \ {0})] /\ issued' \in [Accounts -> Nat \ {0}]
      BY <2>1, RotateTypes
    <2>3. CASE Returns(t)
      BY <1>11, <2>1, <2>2, <2>3, LeaveTypes DEF RefreshLost
    <2>4. CASE ~Returns(t)
      BY <1>11, <2>1, <2>2, <2>4 DEF RefreshLost
    <2> QED BY <2>3, <2>4
  <1>12. ASSUME NEW t \in Threads,
                RefreshRefused(t) \/ RefreshUnreachable(t) \/ Refused(t)
         PROVE  TypeOK'
    <2>1. CASE Returns(t)
      BY <1>12, <2>1, LeaveTypes DEF RefreshRefused, RefreshUnreachable, Refused
    <2>2. CASE ~Returns(t)
      BY <1>12, <2>2 DEF RefreshRefused, RefreshUnreachable, Refused
    <2> QED BY <2>1, <2>2
  <1>13. ASSUME NEW t \in Threads, PersistsUnderLock(t) PROVE TypeOK'
    <2>1. target[t] \in Accounts /\ copy[t] \in Token /\ ref[t] \in Locks
      BY <1>13 DEF PersistsUnderLock, Inside
    <2>2. Stores(t, copy[t]) \/ StoreFails(t, copy[t])
      BY <1>13 DEF PersistsUnderLock
    <2>3. /\ exists' \in [Accounts -> BOOLEAN] /\ stored' \in [Accounts -> BOOLEAN]
          /\ row' \in [Accounts -> Token]
          /\ lost' \in [Accounts -> BOOLEAN] /\ overtaken' \in [Accounts -> BOOLEAN]
      BY <2>1, <2>2, WriteTypes
    <2>4. base' \in [Threads -> Nat]
      BY <1>13 DEF PersistsUnderLock
    <2> QED BY <1>13, <2>1, <2>3, <2>4 DEF PersistsUnderLock
  <1>14. ASSUME NEW t \in Threads, PersistsWithoutLock(t) PROVE TypeOK'
    <2>1. /\ target[t] \in Accounts /\ checked' \in [Threads -> BOOLEAN] /\ Leaves(t)
          /\ UNCHANGED <<now, tableVars, serverVars>>
      BY <1>14 DEF PersistsWithoutLock, Disturbed
    <2>2. PICK token \in Token : Stores(t, token) \/ StoreFails(t, token)
      <3>1. CASE StoreFails(t, copy[t])
        BY <3>1
      <3>2. CASE \E renewed \in BOOLEAN : Stores(t, [copy[t] EXCEPT !.key = @ \/ renewed])
        <4>1. PICK renewed \in BOOLEAN : Stores(t, [copy[t] EXCEPT !.key = @ \/ renewed])
          BY <3>2
        <4>2. copy[t] \in Token
          OBVIOUS
        <4> HIDE DEF Token
        <4>3. [copy[t] EXCEPT !.key = @ \/ renewed] \in Token
          BY <4>2, KeyTypes
        <4> QED BY <4>1, <4>3
      <3> QED BY <1>14, <3>1, <3>2 DEF PersistsWithoutLock
    <2>3. /\ exists' \in [Accounts -> BOOLEAN] /\ stored' \in [Accounts -> BOOLEAN]
          /\ row' \in [Accounts -> Token]
          /\ lost' \in [Accounts -> BOOLEAN] /\ overtaken' \in [Accounts -> BOOLEAN]
      BY <2>1, <2>2, WriteTypes
    <2> QED BY <2>1, <2>3, LeaveTypes
  <1>15. ASSUME NEW a \in Accounts, SavesAccount(a) PROVE TypeOK'
    <2>1. stored' \in [Accounts -> BOOLEAN] /\ row' \in [Accounts -> Token]
      <3>1. LosesToken(a) \/ UNCHANGED <<stored, row>>
        BY <1>15 DEF SavesAccount
      <3>2. Empty \in Token
        OBVIOUS
      <3> HIDE DEF Empty, Token
      <3>3. CASE LosesToken(a)
        BY <3>2, <3>3 DEF LosesToken
      <3>4. CASE UNCHANGED <<stored, row>>
        BY <3>4
      <3> QED BY <3>1, <3>3, <3>4
    <2>2. checked' \in [Threads -> BOOLEAN] /\ exists' \in [Accounts -> BOOLEAN]
      BY <1>15 DEF SavesAccount, Disturbed
    <2> QED BY <1>15, <2>1, <2>2 DEF SavesAccount
  <1>16. ASSUME NEW a \in Accounts, LogsIn(a) PROVE TypeOK'
    BY <1>16 DEF LogsIn, Disturbed
  <1>17. ASSUME NEW a \in Accounts, Imports(a) PROVE TypeOK'
    BY <1>17 DEF Imports, Disturbed
  <1>18. ASSUME NEW a \in Accounts, DeletesAccount(a) PROVE TypeOK'
    BY <1>18 DEF DeletesAccount, Disturbed, LosesToken
  <1>19. ASSUME NEW a \in Accounts, Revokes(a) PROVE TypeOK'
    BY <1>19 DEF Revokes
  <1>20. CASE Tick \/ UNCHANGED vars
    BY <1>20 DEF Tick, vars
  <1> QED BY <1>1, <1>2, <1>3, <1>4, <1>5, <1>6, <1>7, <1>8, <1>9, <1>10, <1>11, <1>12, <1>13,
             <1>14, <1>15, <1>16, <1>17, <1>18, <1>19, <1>20 DEF Next

-----------------------------------------------------------------------------
(* The exchange lock                                                        *)

\* Steps of a thread that keep its lock and its account, or drop them.
LEMMA LockKept ==
    ASSUME LockInv, TypeOK', entries' = entries, NEW t \in Threads,
           \/ UNCHANGED <<target, ref>>
           \/ target' = [target EXCEPT ![t] = NoAccount] /\ ref' = [ref EXCEPT ![t] = NoLock]
           \/ ref[t] = NoLock /\ UNCHANGED ref
              /\ \E a \in Accounts : target' = [target EXCEPT ![t] = a],
           \A u \in Threads : Inside(u)' => Inside(u)
    PROVE  StillInTable' /\ OneExchangeAtATime'
  <1>1. \A u \in Threads :
            ref'[u] # NoLock => ref'[u] = ref[u] /\ target'[u] = target[u]
    BY NoLockAssumption DEF LockInv, TypeOK
  <1>2. StillInTable'
    BY <1>1 DEF LockInv, StillInTable
  <1>3. \A u \in Threads : Inside(u)' => Inside(u) /\ target'[u] = target[u]
    BY <1>1 DEF Inside
  <1>4. OneExchangeAtATime'
    BY <1>3 DEF LockInv, OneExchangeAtATime
  <1> QED BY <1>2, <1>4

LEMMA TakesLockStep ==
    ASSUME LockInv, NEW t \in Threads, TakesLock(t)
    PROVE  StillInTable' /\ OneExchangeAtATime'
  <1>1. /\ pc[t] = "waiting" /\ ref[t] # NoLock
        /\ \A u \in Threads : Inside(u) => ref[u] # ref[t]
        /\ UNCHANGED <<entries, target, ref>>
        /\ \A u \in Threads : u # t => (Inside(u)' <=> Inside(u))
    BY DEF TakesLock, Goes, Inside, LockInv, TypeOK, tableVars
  <1>2. StillInTable'
    BY <1>1 DEF LockInv, StillInTable
  <1>3. \A u \in Threads : Inside(u) => target[u] # target[t]
    BY <1>1 DEF LockInv, StillInTable, Inside
  <1>4. OneExchangeAtATime'
    BY <1>1, <1>3 DEF LockInv, OneExchangeAtATime
  <1> QED BY <1>2, <1>4

LEMMA LookupStep ==
    ASSUME LockInv, NEW t \in Threads, LooksUpLock(t)
    PROVE  StillInTable' /\ OneExchangeAtATime'
  <1>1. /\ ref' = [ref EXCEPT ![t] = ref'[t]] /\ ref'[t] \in Locks
        /\ entries'[target[t]] = ref'[t]
        /\ \A u \in Threads : ref[u] # NoLock => entries'[target[u]] = ref[u]
    BY LockFound DEF LockInv
  <1>2. pc[t] = "copied" /\ pc' = [pc EXCEPT ![t] = "waiting"] /\ UNCHANGED target
    BY DEF LooksUpLock, Goes
  <1>3. StillInTable'
    BY <1>1, <1>2 DEF LockInv, TypeOK, StillInTable
  <1>4. \A u \in Threads : Inside(u)' => Inside(u) /\ target'[u] = target[u]
    BY <1>1, <1>2 DEF Inside, LockInv, TypeOK
  <1>5. OneExchangeAtATime'
    BY <1>4 DEF LockInv, OneExchangeAtATime
  <1> QED BY <1>3, <1>5

LEMMA LockStep ==
    ASSUME LockInv, [Next]_vars
    PROVE  LockInv'
  <1>1. TypeOK'
    BY TypeStep DEF LockInv
  <1> USE NoLockAssumption
      DEF Goes, Keeps, Leaves, Returns, tableVars, rowVars, serverVars, threadVars, historyVars
  <1> DEFINE Proved == StillInTable' /\ OneExchangeAtATime'
  <1> SUFFICES Proved
    BY <1>1 DEF LockInv
  <1>2. ASSUME NEW t \in Threads, NEW a \in Accounts, Copies(t, a) PROVE Proved
    <2>1. \A u \in Threads : Inside(u)' => Inside(u)
      BY <1>2 DEF Copies, Inside, LockInv, TypeOK
    <2>2. entries' = entries /\ ref[t] = NoLock /\ ref' = ref
          /\ target' = [target EXCEPT ![t] = a]
      BY <1>2 DEF Copies, LockInv, TypeOK
    <2> QED BY <1>1, <2>1, <2>2, LockKept
  <1>3. ASSUME NEW t \in Threads,
               \/ Discards(t) \/ ReusesStoredKey(t) \/ StartsExchange(t) \/ Exchanges(t)
               \/ ExchangeFails(t) \/ StartsRefresh(t) \/ RefreshGranted(t) \/ RefreshLost(t)
               \/ RefreshRefused(t) \/ RefreshUnreachable(t) \/ Refused(t)
               \/ PersistsUnderLock(t) \/ PersistsWithoutLock(t)
        PROVE  Proved
    <2>1. /\ entries' = entries /\ pc[t] # "waiting"
          /\ \/ UNCHANGED <<target, ref>>
             \/ /\ target' = [target EXCEPT ![t] = NoAccount]
                /\ ref' = [ref EXCEPT ![t] = NoLock]
          /\ \E stage \in Stages : pc' = [pc EXCEPT ![t] = stage]
      BY <1>3 DEF Discards, ReusesStoredKey, StartsExchange, Exchanges, ExchangeFails,
           StartsRefresh, RefreshGranted, RefreshLost, RefreshRefused, RefreshUnreachable,
           Refused, PersistsUnderLock, PersistsWithoutLock, Stages
    <2>2. \A u \in Threads : Inside(u)' => Inside(u)
      BY <2>1 DEF Inside, LockInv, TypeOK
    <2> QED BY <1>1, <2>1, <2>2, LockKept
  <1>4. ASSUME NEW t \in Threads, LooksUpLock(t) PROVE Proved
    BY <1>4, LookupStep
  <1>5. ASSUME NEW t \in Threads, TakesLock(t) PROVE Proved
    BY <1>5, TakesLockStep
  <1>6. CASE \/ \E a \in Accounts :
                   SavesAccount(a) \/ LogsIn(a) \/ Imports(a) \/ DeletesAccount(a) \/ Revokes(a)
             \/ Tick \/ UNCHANGED vars
    <2>1. UNCHANGED <<entries, target, ref, pc>>
      BY <1>6 DEF SavesAccount, LogsIn, Imports, DeletesAccount, Revokes, Tick, vars
    <2>2. StillInTable'
      BY <2>1 DEF LockInv, StillInTable
    <2>3. \A t \in Threads : Inside(t)' <=> Inside(t)
      BY <2>1 DEF Inside
    <2>4. OneExchangeAtATime'
      BY <2>1, <2>3 DEF LockInv, OneExchangeAtATime
    <2> QED BY <2>2, <2>4
  <1> HIDE DEF Proved
  <1> QED BY <1>2, <1>3, <1>4, <1>5, <1>6 DEF Next

\* Nobody but the one thread in the exchange of an account, and those who write its row without
\* the lock, can store a key behind the back of a thread that found none.
LEMMA KeyStep ==
    ASSUME LockInv, KeyReused, [Next]_vars
    PROVE  KeyReused'
  <1> USE DEF Goes, Keeps, Leaves, Returns, tableVars, rowVars, serverVars, threadVars,
              historyVars, LockInv, TypeOK
  <1>1. ASSUME NEW t \in Threads, StartsExchange(t) PROVE KeyReused'
    BY <1>1 DEF StartsExchange, KeyReused, KeyInRow
  <1>2. ASSUME NEW t \in Threads, Exchanges(t) PROVE KeyReused'
    <2>1. Inside(t)
      BY <1>2 DEF Exchanges, Inside
    <2>2. \A u \in Threads : (u # t /\ pc[u] = "exchange") => target[u] # target[t]
      BY <2>1 DEF OneExchangeAtATime, Inside
    <2>3. \A a \in Accounts : a # target[t] => stored'[a] = stored[a] /\ row'[a] = row[a]
      BY <1>2 DEF Exchanges, Stores, StoreFails
    <2>4. \A u \in Threads : u # t => pc'[u] = pc[u] /\ target'[u] = target[u]
                                      /\ checked'[u] = checked[u]
      BY <1>2 DEF Exchanges
    <2>5. pc'[t] = "idle"
      BY <1>2 DEF Exchanges
    <2> QED BY <2>2, <2>3, <2>4, <2>5 DEF KeyReused
  <1>3. ASSUME NEW t \in Threads, PersistsUnderLock(t) PROVE KeyReused'
    <2>1. Inside(t)
      BY <1>3 DEF PersistsUnderLock
    <2>2. \A u \in Threads : (u # t /\ pc[u] = "exchange") => target[u] # target[t]
      BY <2>1 DEF OneExchangeAtATime, Inside
    <2>3. \A a \in Accounts : a # target[t] => stored'[a] = stored[a] /\ row'[a] = row[a]
      BY <1>3 DEF PersistsUnderLock, Stores, StoreFails
    <2>4. pc' = [pc EXCEPT ![t] = "second"] /\ UNCHANGED <<target, checked>>
      BY <1>3 DEF PersistsUnderLock
    <2> QED BY <2>2, <2>3, <2>4 DEF KeyReused
  <1>4. ASSUME NEW t \in Threads, PersistsWithoutLock(t) PROVE KeyReused'
    <2>1. \A a \in Accounts : a # target[t] => stored'[a] = stored[a] /\ row'[a] = row[a]
      BY <1>4 DEF PersistsWithoutLock, Stores, StoreFails
    <2>2. /\ pc' = [pc EXCEPT ![t] = "idle"] /\ checked' = Disturbed(target[t])
          /\ target' = [target EXCEPT ![t] = NoAccount]
      BY <1>4 DEF PersistsWithoutLock
    <2> QED BY <2>1, <2>2 DEF KeyReused, Disturbed
  <1>5. ASSUME NEW a \in Accounts,
               SavesAccount(a) \/ LogsIn(a) \/ Imports(a) \/ DeletesAccount(a)
        PROVE  KeyReused'
    <2>1. /\ UNCHANGED <<pc, target>> /\ checked' = Disturbed(a)
          /\ \A b \in Accounts : b # a => stored'[b] = stored[b] /\ row'[b] = row[b]
      BY <1>5 DEF SavesAccount, LogsIn, Imports, DeletesAccount, LosesToken
    <2> QED BY <2>1 DEF KeyReused, Disturbed
  <1>6. ASSUME NEW t \in Threads,
               \/ \E a \in Accounts : Copies(t, a)
               \/ Discards(t) \/ ReusesStoredKey(t) \/ ExchangeFails(t) \/ StartsRefresh(t)
               \/ LooksUpLock(t) \/ TakesLock(t)
               \/ RefreshGranted(t) \/ RefreshLost(t)
               \/ RefreshRefused(t) \/ RefreshUnreachable(t) \/ Refused(t)
        PROVE  KeyReused'
    <2>1. /\ UNCHANGED <<stored, row>>
          /\ \A u \in Threads : u # t => pc'[u] = pc[u] /\ target'[u] = target[u]
                                         /\ checked'[u] = checked[u]
          /\ pc'[t] # "exchange"
      BY <1>6 DEF Copies, Discards, ReusesStoredKey, ExchangeFails, LooksUpLock, TakesLock,
           StartsRefresh, RefreshGranted, RefreshLost, RefreshRefused, RefreshUnreachable,
           Refused
    <2> QED BY <2>1 DEF KeyReused
  <1>7. CASE (\E a \in Accounts : Revokes(a)) \/ Tick \/ UNCHANGED vars
    BY <1>7 DEF Revokes, Tick, vars, KeyReused
  <1> QED BY <1>1, <1>2, <1>3, <1>4, <1>5, <1>6, <1>7 DEF Next

-----------------------------------------------------------------------------
(* The refresh tokens                                                       *)

\* A thread without a granted refresh moves on, to a stage that claims nothing of its copy.
LEMMA MoveStep ==
    ASSUME TypeOK, TypeOK', TokenInv, NEW t \in Threads,
           pc[t] # "persist", pc'[t] \in {"copied", "waiting", "checking", "exchange", "refresh"},
           pc[t] \in {"refresh", "persist", "second", "refused"} \/ copy[t].refresh = base[t],
           pc'[t] = "refresh" => copy[t].refresh # 0,
           pc[t] # "second",
           \A u \in Threads : u # t => pc'[u] = pc[u],
           UNCHANGED <<stored, row, live, issued, target, copy, base, lost, overtaken>>
    PROVE  TokenInv'
  <1> USE DEF TypeOK, TokenInv
  <1>1. Generations'
    BY DEF Generations
  <1>2. CopyFits'
    BY DEF CopyFits
  <1>3. \A a \in Accounts : Carried(a) => Carried(a)'
    BY DEF Carried
  <1>4. TokenKept'
    BY <1>3 DEF TokenKept, Undisturbed
  <1>5. RefusalHasCause'
    BY <1>3 DEF RefusalHasCause, Undisturbed, RowMoved
  <1> QED BY <1>1, <1>2, <1>4, <1>5

\* A thread without a granted refresh returns, and nothing else changes.
LEMMA ReturnStep ==
    ASSUME TypeOK, TypeOK', TokenInv, NEW t \in Threads, pc[t] # "persist", Returns(t),
           UNCHANGED <<stored, row, live, issued, lost, overtaken>>
    PROVE  TokenInv'
  <1> USE DEF TypeOK, TokenInv
  <1>1. /\ \A u \in Threads : u # t => /\ pc'[u] = pc[u] /\ target'[u] = target[u]
                                       /\ copy'[u] = copy[u] /\ base'[u] = base[u]
        /\ pc'[t] = "idle" /\ target'[t] = NoAccount
        /\ copy'[t].refresh = 0 /\ base'[t] = 0
    BY DEF Returns, Leaves, Goes, Keeps, Empty
  <1>2. Generations'
    BY <1>1 DEF Generations
  <1>3. CopyFits'
    BY <1>1 DEF CopyFits
  <1>4. \A a \in Accounts : Carried(a) => Carried(a)'
    BY <1>1 DEF Carried
  <1>5. TokenKept'
    BY <1>4 DEF TokenKept, Undisturbed
  <1>6. RefusalHasCause'
    BY <1>1, <1>4 DEF RefusalHasCause, Undisturbed, RowMoved
  <1> QED BY <1>2, <1>3, <1>5, <1>6

LEMMA CopyStep ==
    ASSUME TypeOK, TypeOK', TokenInv, NEW t \in Threads, NEW a \in Accounts, Copies(t, a)
    PROVE  TokenInv'
  <1> USE DEF TypeOK, TokenInv
  <1>1. /\ \A u \in Threads : u # t => /\ pc'[u] = pc[u] /\ target'[u] = target[u]
                                       /\ copy'[u] = copy[u] /\ base'[u] = base[u]
        /\ pc[t] = "idle" /\ pc'[t] = "copied" /\ target'[t] = a
        /\ copy'[t] = row[a] /\ base'[t] = row[a].refresh
        /\ UNCHANGED <<stored, row, live, issued, lost, overtaken>>
    BY DEF Copies, Goes, Keeps, rowVars, serverVars, historyVars
  <1>2. Generations'
    BY <1>1 DEF Generations
  <1>3. CopyFits'
    BY <1>1 DEF CopyFits
  <1>4. \A b \in Accounts : Carried(b) => Carried(b)'
    BY <1>1 DEF Carried
  <1>5. TokenKept'
    BY <1>1, <1>4 DEF TokenKept, Undisturbed
  <1>6. RefusalHasCause'
    BY <1>1, <1>4 DEF RefusalHasCause, Undisturbed, RowMoved
  <1> QED BY <1>2, <1>3, <1>5, <1>6

\* The thread that is given the next refresh token carries it from then on.
LEMMA GrantStep ==
    ASSUME TypeOK, TypeOK', TokenInv, NEW t \in Threads, RefreshGranted(t)
    PROVE  TokenInv'
  <1> USE DEF TypeOK, TokenInv
  <1> DEFINE a == target[t]
  <1>1. /\ a \in Accounts /\ pc[t] = "refresh" /\ pc' = [pc EXCEPT ![t] = "persist"]
        /\ copy[t].refresh = base[t] /\ base[t] # 0 /\ copy[t].refresh \in live[a]
        /\ UNCHANGED <<stored, row, lost, overtaken, target, base>>
    BY DEF RefreshGranted, Goes, rowVars, historyVars, CopyFits
  <1>2. CASE UNCHANGED <<live, issued, copy>>
    <2>1. Generations' /\ CopyFits'
      BY <1>1, <1>2 DEF Generations, CopyFits
    <2>2. \A b \in Accounts : Carried(b) => Carried(b)'
      BY <1>1, <1>2 DEF Carried
    <2>3. TokenKept' /\ RefusalHasCause'
      BY <1>1, <1>2, <2>2 DEF TokenKept, RefusalHasCause, Undisturbed, RowMoved
    <2> QED BY <2>1, <2>3
  <1>3. CASE Rotates(a, copy[t].refresh) /\ Keeps(t, Refreshed(t))
    <2>1. /\ issued' = [issued EXCEPT ![a] = @ + 1]
          /\ live' = [live EXCEPT ![a] = (@ \ {copy[t].refresh}) \cup {issued[a] + 1}]
          /\ copy'[t].refresh = issued[a] + 1
          /\ \A u \in Threads : u # t => copy'[u] = copy[u]
      BY <1>1, <1>3, RotateTypes DEF Rotates, Keeps, Refreshed, Token
    <2>2. Generations'
      <3>1. \A b \in Accounts : issued[b] <= issued'[b]
        BY <2>1
      <3>2. \A b \in Accounts : \A g \in live'[b] : g <= issued'[b]
        BY <2>1 DEF Generations
      <3>3. \A b \in Accounts : row'[b].refresh <= issued'[b]
        BY <1>1, <3>1 DEF Generations, Token
      <3>4. \A u \in Threads : target'[u] # NoAccount =>
                copy'[u].refresh <= issued'[target'[u]] /\ base'[u] <= issued'[target'[u]]
        <4> SUFFICES ASSUME NEW u \in Threads, target[u] # NoAccount
                     PROVE  /\ copy'[u].refresh <= issued'[target[u]]
                            /\ base[u] <= issued'[target[u]]
          BY <1>1
        <4>1. /\ target[u] \in Accounts /\ issued[target[u]] \in Nat /\ issued'[target[u]] \in Nat
              /\ copy[u].refresh \in Nat /\ base[u] \in Nat
              /\ issued[target[u]] <= issued'[target[u]]
          BY <3>1 DEF Token
        <4>2. copy[u].refresh <= issued[target[u]] /\ base[u] <= issued[target[u]]
          BY DEF Generations
        <4>3. u = t => copy'[u].refresh = issued'[target[u]]
          BY <1>1, <2>1
        <4>4. u # t => copy'[u] = copy[u]
          BY <2>1
        <4> QED BY <4>1, <4>2, <4>3, <4>4
      <3> QED BY <3>2, <3>3, <3>4 DEF Generations
    <2>3. CopyFits'
      <3>1. \A u \in Threads : (target[u] # NoAccount /\ base[u] \notin live[target[u]])
                                 => base[u] \notin live'[target[u]]
        BY <1>1, <2>1 DEF Generations
      <3>2. \A u \in Threads : (pc[u] = "refused" /\ copy[u].refresh \notin live[target[u]])
                                 => copy[u].refresh \notin live'[target[u]]
        BY <1>1, <2>1 DEF Generations
      <3>3. base[t] \notin live'[a]
        BY <1>1, <2>1 DEF Generations
      <3> QED BY <1>1, <2>1, <3>1, <3>2, <3>3 DEF CopyFits
    <2>4. Carried(a)'
      BY <1>1, <2>1 DEF Carried, Generations
    <2>5. \A b \in Accounts : b # a => (Carried(b) => Carried(b)')
      BY <1>1, <2>1 DEF Carried
    <2>6. TokenKept'
      BY <1>1, <2>1, <2>4, <2>5 DEF TokenKept, Undisturbed
    <2>7. RefusalHasCause'
      BY <1>1, <2>1, <2>4, <2>5 DEF RefusalHasCause, Undisturbed, RowMoved
    <2> QED BY <2>2, <2>3, <2>6, <2>7
  <1> QED BY <1>2, <1>3 DEF RefreshGranted, serverVars

LEMMA LostStep ==
    ASSUME TypeOK, TypeOK', TokenInv, NEW t \in Threads, RefreshLost(t)
    PROVE  TokenInv'
  <1> USE DEF TypeOK, TokenInv
  <1> DEFINE a == target[t]
  <1>1. /\ a \in Accounts /\ pc[t] = "refresh" /\ lost' = [lost EXCEPT ![a] = TRUE]
        /\ copy[t].refresh = base[t] /\ base[t] # 0 /\ copy[t].refresh \in live[a]
        /\ issued' = [issued EXCEPT ![a] = @ + 1]
        /\ live' = [live EXCEPT ![a] = (@ \ {copy[t].refresh}) \cup {issued[a] + 1}]
        /\ UNCHANGED <<stored, row, overtaken>>
    BY DEF RefreshLost, Rotates, rowVars, CopyFits
  <1>2. /\ \A u \in Threads : u # t => /\ pc'[u] = pc[u] /\ target'[u] = target[u]
                                       /\ copy'[u] = copy[u] /\ base'[u] = base[u]
        /\ \/ /\ pc'[t] = "refused" /\ target'[t] = a
              /\ copy'[t] = copy[t] /\ base'[t] = base[t]
           \/ /\ pc'[t] = "idle" /\ target'[t] = NoAccount
              /\ copy'[t].refresh = 0 /\ base'[t] = 0
    BY DEF RefreshLost, Returns, Leaves, Goes, Keeps, Empty
  <1>3. Generations'
    <2>1. \A b \in Accounts : issued[b] <= issued'[b]
      BY <1>1
    <2>2. \A b \in Accounts : \A g \in live'[b] : g <= issued'[b]
      BY <1>1 DEF Generations
    <2>3. \A b \in Accounts : row'[b].refresh <= issued'[b]
      BY <1>1, <2>1 DEF Generations, Token
    <2>4. \A u \in Threads : target'[u] # NoAccount =>
              copy'[u].refresh <= issued'[target'[u]] /\ base'[u] <= issued'[target'[u]]
      <3> SUFFICES ASSUME NEW u \in Threads, target'[u] # NoAccount
                   PROVE  /\ copy'[u].refresh <= issued'[target'[u]]
                          /\ base'[u] <= issued'[target'[u]]
        OBVIOUS
      <3>1. target'[u] = target[u] /\ copy'[u] = copy[u] /\ base'[u] = base[u]
        BY <1>2
      <3>2. /\ target[u] \in Accounts /\ issued[target[u]] \in Nat /\ issued'[target[u]] \in Nat
            /\ copy[u].refresh \in Nat /\ base[u] \in Nat
            /\ issued[target[u]] <= issued'[target[u]]
        BY <2>1, <3>1 DEF Token
      <3>3. copy[u].refresh <= issued[target[u]] /\ base[u] <= issued[target[u]]
        BY <3>1 DEF Generations
      <3> QED BY <3>1, <3>2, <3>3
    <2> QED BY <2>2, <2>3, <2>4 DEF Generations
  <1>4. CopyFits'
    <2>1. \A u \in Threads : (target[u] # NoAccount /\ base[u] \notin live[target[u]])
                               => base[u] \notin live'[target[u]]
      BY <1>1 DEF Generations
    <2>2. \A u \in Threads : (pc[u] = "refused" /\ copy[u].refresh \notin live[target[u]])
                               => copy[u].refresh \notin live'[target[u]]
      BY <1>1 DEF Generations
    <2>3. base[t] \notin live'[a]
      BY <1>1 DEF Generations
    <2> QED BY <1>1, <1>2, <2>1, <2>2, <2>3 DEF CopyFits
  <1>5. \A b \in Accounts : b # a => (Carried(b) => Carried(b)')
    BY <1>1, <1>2 DEF Carried
  <1>6. TokenKept'
    BY <1>1, <1>5 DEF TokenKept, Undisturbed
  <1>7. RefusalHasCause'
    BY <1>1, <1>2, <1>5 DEF RefusalHasCause, Undisturbed, RowMoved
  <1> QED BY <1>3, <1>4, <1>6, <1>7

\* Whoever is refused has a token the server does not accept; if the row still has it, TokenKept
\* says who has the next one.
LEMMA RefuseStep ==
    ASSUME TypeOK, TypeOK', TokenInv, NEW t \in Threads, RefreshRefused(t)
    PROVE  TokenInv'
  <1> USE DEF TypeOK, TokenInv
  <1>1. /\ target[t] \in Accounts /\ pc[t] = "refresh" /\ pc' = [pc EXCEPT ![t] = "refused"]
        /\ copy[t].refresh = base[t] /\ base[t] # 0 /\ copy[t].refresh \notin live[target[t]]
        /\ UNCHANGED <<stored, row, live, issued, lost, overtaken, target, copy, base>>
    BY DEF RefreshRefused, Goes, rowVars, serverVars, historyVars, CopyFits
  <1>2. Generations' /\ CopyFits'
    BY <1>1 DEF Generations, CopyFits
  <1>3. \A a \in Accounts : Carried(a) => Carried(a)'
    BY <1>1 DEF Carried
  <1>4. TokenKept'
    BY <1>1, <1>3 DEF TokenKept, Undisturbed
  <1>5. (~RowMoved(t) /\ Undisturbed(target[t])) => Carried(target[t])
    BY <1>1 DEF TokenKept, RowMoved
  <1>6. RefusalHasCause'
    BY <1>1, <1>3, <1>5 DEF RefusalHasCause, Undisturbed, RowMoved
  <1> QED BY <1>2, <1>4, <1>6

\* A thread writes a token with the refresh token of its copy, and goes on or returns.
LEMMA WriteStep ==
    ASSUME TypeOK, TypeOK', TokenInv, NEW t \in Threads,
           pc[t] \in {"exchange", "second", "persist"},
           NEW token \in Token, token.refresh = copy[t].refresh, Stores(t, token),
           UNCHANGED <<live, issued>>,
           \A u \in Threads : u # t => /\ pc'[u] = pc[u] /\ target'[u] = target[u]
                                       /\ copy'[u] = copy[u] /\ base'[u] = base[u],
           \/ Leaves(t)
           \/ /\ pc'[t] = "second" /\ target'[t] = target[t]
              /\ copy'[t] = copy[t] /\ base'[t] = copy[t].refresh /\ pc[t] = "persist"
    PROVE  TokenInv'
  <1> USE DEF TypeOK, TokenInv
  <1>0. PICK a \in Accounts : a = target[t]
    OBVIOUS
  <1>1. /\ a = target[t]
        /\ stored' = [stored EXCEPT ![a] = TRUE] /\ row' = [row EXCEPT ![a] = token]
        /\ overtaken' = [overtaken EXCEPT ![a] = @ \/ RowMoved(t)]
        /\ lost' = lost
    BY <1>0 DEF Stores
  <1>2. \/ pc'[t] = "idle" /\ target'[t] = NoAccount /\ copy'[t].refresh = 0 /\ base'[t] = 0
        \/ /\ pc'[t] = "second" /\ target'[t] = a /\ pc[t] = "persist"
           /\ copy'[t] = copy[t] /\ base'[t] = copy[t].refresh
    BY <1>1 DEF Leaves, Goes, Keeps, Empty
  <1>3. Generations'
    <2>1. \A b \in Accounts : row'[b].refresh <= issued'[b]
      BY <1>1 DEF Generations
    <2>2. \A b \in Accounts : \A g \in live'[b] : g <= issued'[b]
      BY DEF Generations
    <2>3. \A u \in Threads : target'[u] # NoAccount =>
                copy'[u].refresh <= issued'[target'[u]] /\ base'[u] <= issued'[target'[u]]
      BY <1>1, <1>2 DEF Generations
    <2> QED BY <2>1, <2>2, <2>3 DEF Generations
  <1>4. pc'[t] = "second" => base'[t] # 0
    BY <1>2 DEF CopyFits
  <1>5. CopyFits'
    BY <1>1, <1>2, <1>4 DEF CopyFits
  <1>6. \A b \in Accounts : b # a => (Carried(b) => Carried(b)')
    BY <1>1 DEF Carried
  <1>7. ASSUME Undisturbed(a)', copy[t].refresh \notin live[a], copy[t].refresh # 0
        PROVE  Carried(a)' /\ row[a].refresh = base[t] /\ stored[a] /\ Undisturbed(a)
    <2>1. ~RowMoved(t) /\ Undisturbed(a)
      <3>1. overtaken'[a] = (overtaken[a] \/ RowMoved(t)) /\ lost'[a] = lost[a]
        BY <1>1
      <3>2. ~overtaken'[a] /\ ~lost'[a]
        BY <1>7 DEF Undisturbed
      <3> QED BY <3>1, <3>2 DEF Undisturbed
    <2>2. stored[a] /\ row[a].refresh = base[t]
      BY <1>1, <2>1 DEF RowMoved
    <2>3. base[t] # 0 /\ base[t] \notin live[a]
      BY <1>1, <1>7 DEF CopyFits
    <2>4. Carried(a)
      BY <1>1, <2>1, <2>2, <2>3 DEF TokenKept
    <2>5. PICK u \in Threads : /\ pc[u] = "persist" /\ target[u] = a
                               /\ copy[u].refresh # base[u] /\ copy[u].refresh \in live[a]
      BY <2>4 DEF Carried
    <2>6. u # t
      BY <1>7, <2>5
    <2>7. Carried(a)'
      BY <2>5, <2>6 DEF Carried
    <2> QED BY <2>1, <2>2, <2>7
  <1>8. TokenKept'
    <2> SUFFICES ASSUME NEW b \in Accounts, stored'[b], row'[b].refresh # 0, Undisturbed(b)'
                 PROVE  row'[b].refresh \in live[b] \/ Carried(b)'
      BY DEF TokenKept
    <2>1. CASE b = a
      BY <1>1, <1>7, <2>1
    <2>2. CASE b # a
      <3>1. stored[b] /\ row'[b] = row[b] /\ Undisturbed(b)
        BY <1>1, <2>2 DEF Undisturbed
      <3> QED BY <1>6, <2>2, <3>1 DEF TokenKept
    <2> QED BY <2>1, <2>2
  <1>9. RefusalHasCause'
    <2> SUFFICES ASSUME NEW u \in Threads, pc'[u] = "refused", ~RowMoved(u)',
                        Undisturbed(target[u])'
                 PROVE  Carried(target[u])'
      BY DEF RefusalHasCause
    <2>0. PICK b \in Accounts : b = target'[u]
      OBVIOUS
    <2> SUFFICES Carried(b)'
      BY <2>0 DEF Carried
    <2>5. Undisturbed(b)'
      BY <2>0 DEF Undisturbed
    <2>1. u # t /\ pc[u] = "refused" /\ target[u] = b /\ base'[u] = base[u]
      BY <1>2, <2>0
    <2>2. stored'[b] /\ row'[b].refresh = base[u]
      BY <2>0, <2>1 DEF RowMoved
    <2>3. CASE b # a
      <3>1. ~RowMoved(u) /\ Undisturbed(b)
        BY <1>1, <2>1, <2>2, <2>3, <2>5 DEF RowMoved, Undisturbed
      <3>2. Carried(b)
        BY <2>1, <3>1 DEF RefusalHasCause
      <3> QED BY <1>6, <2>3, <3>2
    <2>4. CASE b = a
      <3>1. copy[t].refresh = base[u]
        BY <1>1, <2>2, <2>4
      <3>2. base[u] # 0 /\ base[u] = copy[u].refresh /\ copy[u].refresh \notin live[a]
        BY <2>1, <2>4 DEF CopyFits
      <3> QED BY <1>7, <2>4, <2>5, <3>1, <3>2
    <2> QED BY <2>3, <2>4
  <1> QED BY <1>3, <1>5, <1>8, <1>9

\* The write fails: a refresh token that nobody else has is lost with it.
LEMMA WriteFailsStep ==
    ASSUME TypeOK, TypeOK', TokenInv, NEW t \in Threads,
           pc[t] \in {"exchange", "second", "persist"},
           NEW token \in Token, token.refresh = copy[t].refresh, StoreFails(t, token),
           UNCHANGED <<live, issued>>,
           \A u \in Threads : u # t => /\ pc'[u] = pc[u] /\ target'[u] = target[u]
                                       /\ copy'[u] = copy[u] /\ base'[u] = base[u],
           \/ Leaves(t)
           \/ /\ pc'[t] = "second" /\ target'[t] = target[t]
              /\ copy'[t] = copy[t] /\ base'[t] = base[t] /\ pc[t] = "persist"
    PROVE  TokenInv'
  <1> USE DEF TypeOK, TokenInv
  <1> DEFINE a == target[t]
  <1>1. /\ a \in Accounts
        /\ lost' = [lost EXCEPT ![a] = @ \/ copy[t].refresh # base[t]]
        /\ UNCHANGED <<stored, row, overtaken>>
    BY DEF StoreFails
  <1>2. \/ pc'[t] = "idle" /\ target'[t] = NoAccount /\ copy'[t].refresh = 0 /\ base'[t] = 0
        \/ /\ pc'[t] = "second" /\ target'[t] = a /\ pc[t] = "persist"
           /\ copy'[t] = copy[t] /\ base'[t] = base[t]
    BY DEF Leaves, Goes, Keeps, Empty
  <1>3. Generations'
    BY <1>1, <1>2 DEF Generations
  <1>7. CopyFits'
    BY <1>1, <1>2 DEF CopyFits
  <1>4. \A b \in Accounts : (Carried(b) /\ Undisturbed(b)') => Carried(b)'
    BY <1>1 DEF Carried, Undisturbed
  <1>5. TokenKept'
    BY <1>1, <1>4 DEF TokenKept, Undisturbed
  <1>6. RefusalHasCause'
    BY <1>1, <1>2, <1>4 DEF RefusalHasCause, Undisturbed, RowMoved
  <1> QED BY <1>3, <1>5, <1>6, <1>7

\* The row or the server's tokens of an account change under everybody's feet.
LEMMA OutsideStep ==
    ASSUME TypeOK, TypeOK', TokenInv, NEW a \in Accounts,
           SavesAccount(a) \/ LogsIn(a) \/ Imports(a) \/ DeletesAccount(a) \/ Revokes(a)
    PROVE  TokenInv'
  <1> USE DEF TypeOK, TokenInv
  <1>0. \A b \in Accounts : issued[b] \in Nat /\ issued'[b] \in Nat
                              /\ row[b].refresh \in Nat /\ row'[b].refresh \in Nat
                              /\ \A g \in live[b] \cup live'[b] : g \in Nat
    BY DEF Token
  <1>1. UNCHANGED <<pc, target, copy, base>>
    BY DEF SavesAccount, LogsIn, Imports, DeletesAccount, Revokes, threadVars
  <1>2. \A b \in Accounts : b # a =>
            /\ stored'[b] = stored[b] /\ row'[b] = row[b] /\ live'[b] = live[b]
            /\ issued'[b] = issued[b] /\ lost'[b] = lost[b] /\ overtaken'[b] = overtaken[b]
    BY DEF SavesAccount, LogsIn, Imports, DeletesAccount, Revokes, LosesToken, rowVars, serverVars,
           historyVars
  <1>3. /\ issued[a] <= issued'[a]
        /\ \A g \in live'[a] : g \in live[a] \/ (g > issued[a] /\ g <= issued'[a])
        /\ row'[a].refresh <= issued'[a]
    <2>1. CASE LogsIn(a)
      BY <2>1 DEF LogsIn, Generations, Token
    <2>2. CASE SavesAccount(a) \/ DeletesAccount(a)
      <3>1. row'[a] = row[a] \/ row'[a].refresh = 0
        BY <2>2 DEF SavesAccount, DeletesAccount, LosesToken, Empty
      <3> QED BY <2>2, <3>1 DEF SavesAccount, DeletesAccount, Generations, Token, serverVars
    <2>3. CASE Revokes(a)
      BY <2>3 DEF Revokes, Generations, Token, rowVars
    <2>4. CASE Imports(a)
      BY <2>4 DEF Imports, Generations, Token, serverVars
    <2> QED BY <2>1, <2>2, <2>3, <2>4
  <1>4. Generations'
    <2>1. \A b \in Accounts : row'[b].refresh <= issued'[b] /\ \A g \in live'[b] : g <= issued'[b]
      <3> SUFFICES ASSUME NEW b \in Accounts
                   PROVE  row'[b].refresh <= issued'[b] /\ \A g \in live'[b] : g <= issued'[b]
        OBVIOUS
      <3>1. CASE b = a
        <4>1. \A g \in live[a] : g <= issued[a]
          BY DEF Generations
        <4> QED BY <1>0, <1>3, <3>1, <4>1
      <3>2. CASE b # a
        BY <1>0, <1>2, <3>2 DEF Generations
      <3> QED BY <3>1, <3>2
    <2>2. \A b \in Accounts : issued[b] <= issued'[b]
      <3>1. \A b \in Accounts : b # a => issued[b] <= issued'[b]
        BY <1>0, <1>2
      <3> QED BY <1>3, <3>1
    <2>3. \A u \in Threads : target[u] # NoAccount =>
              copy[u].refresh <= issued'[target[u]] /\ base[u] <= issued'[target[u]]
      BY <2>2 DEF Generations, Token
    <2> QED BY <1>1, <2>1, <2>3 DEF Generations
  <1>5. \A b \in Accounts : \A g \in Nat : (g <= issued[b] /\ g \notin live[b]) => g \notin live'[b]
    BY <1>0, <1>2, <1>3
  <1>6. CopyFits'
    BY <1>1, <1>5 DEF CopyFits, Generations, Token
  <1>7. \A b \in Accounts : b # a => (Carried(b) => Carried(b)')
    BY <1>1, <1>2 DEF Carried
  <1> DEFINE RowKept == /\ stored'[a] = stored[a] /\ row'[a].refresh = row[a].refresh
                        /\ live'[a] = live[a]
                        /\ lost'[a] = lost[a] /\ overtaken'[a] = overtaken[a]
  <1>8. \/ lost'[a]
        \/ ~stored'[a]
        \/ overtaken'[a]
        \/ RowKept
        \/ row'[a].refresh = 0
        \/ row'[a].refresh \in live'[a] /\ row'[a].refresh > issued[a]
    BY DEF SavesAccount, LogsIn, Imports, DeletesAccount, Revokes, LosesToken, rowVars, serverVars,
           historyVars
  <1>9. RowKept => (Carried(a) => Carried(a)')
    BY <1>1 DEF Carried
  <1>10. TokenKept'
    BY <1>2, <1>7, <1>8, <1>9 DEF TokenKept, Undisturbed
  <1>11. RefusalHasCause'
    <2> SUFFICES ASSUME NEW u \in Threads, pc[u] = "refused", NEW b \in Accounts, b = target[u],
                        stored'[b], row'[b].refresh = base[u], Undisturbed(b)'
                 PROVE  Carried(b)'
      BY <1>1 DEF RefusalHasCause, RowMoved
    <2>1. CASE b # a
      <3>1. ~RowMoved(u) /\ Undisturbed(b)
        BY <1>2, <2>1 DEF RowMoved, Undisturbed
      <3> QED BY <1>7, <2>1, <3>1 DEF RefusalHasCause
    <2>2. CASE b = a
      <3>1. base[u] # 0 /\ base[u] <= issued[a]
        <4>1. base[u] # 0
          BY DEF CopyFits
        <4>2. target[u] # NoAccount
          OBVIOUS
        <4> QED BY <2>2, <4>1, <4>2 DEF Generations
      <3>2. RowKept
        <4>1. ~lost'[a] /\ ~overtaken'[a] /\ stored'[a]
          BY <2>2 DEF Undisturbed
        <4>2. row'[a].refresh # 0 /\ ~(row'[a].refresh > issued[a])
          BY <1>0, <2>2, <3>1
        <4> QED BY <1>8, <4>1, <4>2
      <3>3. ~RowMoved(u) /\ Undisturbed(b)
        <4>1. stored[b] /\ row[b].refresh = base[u] /\ ~lost[b] /\ ~overtaken[b]
          BY <2>2, <3>2 DEF Undisturbed
        <4> QED BY <4>1 DEF RowMoved, Undisturbed
      <3>4. Carried(b)
        BY <3>3 DEF RefusalHasCause
      <3> QED BY <1>9, <2>2, <3>2, <3>4
    <2> QED BY <2>1, <2>2
  <1> QED BY <1>4, <1>6, <1>10, <1>11

LEMMA TokenStep ==
    ASSUME TypeOK, StillInTable, TokenInv, [Next]_vars
    PROVE  TokenInv'
  <1>1. TypeOK'
    BY TypeStep
  <1> USE <1>1
  <1>2. ASSUME NEW t \in Threads, NEW a \in Accounts, Copies(t, a) PROVE TokenInv'
    BY <1>2, CopyStep
  <1>3. ASSUME NEW t \in Threads,
               Discards(t) \/ ReusesStoredKey(t) \/ RefreshUnreachable(t) \/ Refused(t)
        PROVE  TokenInv'
    <2>1. /\ pc[t] # "persist" /\ Returns(t)
          /\ UNCHANGED <<stored, row, live, issued, lost, overtaken>>
      BY <1>3 DEF Discards, ReusesStoredKey, RefreshUnreachable, Refused, rowVars, serverVars,
           historyVars
    <2> QED BY <2>1, ReturnStep
  <1>4. ASSUME NEW t \in Threads,
               LooksUpLock(t) \/ TakesLock(t) \/ StartsExchange(t) \/ StartsRefresh(t)
        PROVE  TokenInv'
    <2>1. /\ pc[t] \in {"copied", "waiting", "checking"}
          /\ pc'[t] \in {"waiting", "checking", "exchange", "refresh"}
          /\ pc'[t] = "refresh" => copy[t].refresh # 0
          /\ \A u \in Threads : u # t => pc'[u] = pc[u]
          /\ UNCHANGED <<stored, row, live, issued, target, copy, base, lost, overtaken>>
      BY <1>4 DEF LooksUpLock, TakesLock, StartsExchange, StartsRefresh, Goes, rowVars,
           serverVars, historyVars, TypeOK
    <2>2. copy[t].refresh = base[t]
      BY <2>1 DEF TokenInv, CopyFits
    <2> QED BY <2>1, <2>2, MoveStep
  <1>5. ASSUME NEW t \in Threads, ExchangeFails(t) PROVE TokenInv'
    <2>1. CASE Returns(t)
      BY <1>5, <2>1, ReturnStep DEF ExchangeFails, rowVars, serverVars, historyVars
    <2>2. CASE ~Returns(t)
      <3>1. /\ pc[t] = "exchange" /\ copy[t].refresh # 0
            /\ pc' = [pc EXCEPT ![t] = "refresh"]
            /\ UNCHANGED <<stored, row, live, issued, target, copy, base, lost, overtaken>>
        BY <1>5, <2>2 DEF ExchangeFails, Goes, rowVars, serverVars, historyVars
      <3>2. copy[t].refresh = base[t]
        BY <3>1 DEF TokenInv, CopyFits
      <3>3. pc'[t] = "refresh" /\ \A u \in Threads : u # t => pc'[u] = pc[u]
        BY <3>1 DEF TypeOK
      <3> QED BY <3>1, <3>2, <3>3, MoveStep
    <2> QED BY <2>1, <2>2
  <1>6. ASSUME NEW t \in Threads, Exchanges(t) PROVE TokenInv'
    <2>1. /\ pc[t] \in {"exchange", "second"} /\ Leaves(t)
          /\ UNCHANGED <<live, issued>> /\ copy[t] \in Token
      BY <1>6 DEF Exchanges, Returns, serverVars, TypeOK
    <2>2. PICK token \in Token : /\ token.refresh = copy[t].refresh
                                 /\ Stores(t, token) \/ StoreFails(t, token)
      BY <1>6, <2>1, KeyTypes DEF Exchanges
    <2>3. \A u \in Threads : u # t => /\ pc'[u] = pc[u] /\ target'[u] = target[u]
                                      /\ copy'[u] = copy[u] /\ base'[u] = base[u]
      BY <2>1 DEF Leaves, Goes, Keeps, TypeOK
    <2> QED BY <2>1, <2>2, <2>3, WriteStep, WriteFailsStep
  <1>7. ASSUME NEW t \in Threads, PersistsWithoutLock(t) PROVE TokenInv'
    <2>1. /\ pc[t] = "persist" /\ Leaves(t)
          /\ UNCHANGED <<live, issued>> /\ copy[t] \in Token
      BY <1>7 DEF PersistsWithoutLock, serverVars, TypeOK
    <2>2. PICK token \in Token : /\ token.refresh = copy[t].refresh
                                 /\ Stores(t, token) \/ StoreFails(t, token)
      BY <1>7, <2>1, KeyTypes DEF PersistsWithoutLock
    <2>3. \A u \in Threads : u # t => /\ pc'[u] = pc[u] /\ target'[u] = target[u]
                                      /\ copy'[u] = copy[u] /\ base'[u] = base[u]
      BY <2>1 DEF Leaves, Goes, Keeps, TypeOK
    <2> QED BY <2>1, <2>2, <2>3, WriteStep, WriteFailsStep
  <1>8. ASSUME NEW t \in Threads, PersistsUnderLock(t) PROVE TokenInv'
    <2>1. /\ pc[t] = "persist" /\ copy[t] \in Token
          /\ UNCHANGED <<live, issued, target, copy>>
          /\ pc'[t] = "second" /\ \A u \in Threads : u # t => pc'[u] = pc[u]
      BY <1>8 DEF PersistsUnderLock, Goes, serverVars, TypeOK
    <2>2. CASE Stores(t, copy[t]) /\ base' = [base EXCEPT ![t] = copy[t].refresh]
      <3>1. base'[t] = copy[t].refresh /\ \A u \in Threads : u # t => base'[u] = base[u]
        BY <2>2 DEF TypeOK
      <3> QED BY <2>1, <2>2, <3>1, WriteStep
    <2>3. CASE StoreFails(t, copy[t]) /\ UNCHANGED base
      BY <2>1, <2>3, WriteFailsStep
    <2> QED BY <1>8, <2>2, <2>3 DEF PersistsUnderLock
  <1>9. ASSUME NEW t \in Threads, RefreshGranted(t) PROVE TokenInv'
    BY <1>9, GrantStep
  <1>10. ASSUME NEW t \in Threads, RefreshLost(t) PROVE TokenInv'
    BY <1>10, LostStep
  <1>11. ASSUME NEW t \in Threads, RefreshRefused(t) PROVE TokenInv'
    BY <1>11, RefuseStep
  <1>12. ASSUME NEW a \in Accounts,
                SavesAccount(a) \/ LogsIn(a) \/ Imports(a) \/ DeletesAccount(a) \/ Revokes(a)
         PROVE  TokenInv'
    BY <1>12, OutsideStep
  <1>13. CASE Tick \/ UNCHANGED vars
    <2>1. UNCHANGED <<stored, row, live, issued, pc, target, copy, base, lost, overtaken>>
      BY <1>13 DEF Tick, vars, rowVars, serverVars, threadVars, historyVars
    <2>2. (\A a \in Accounts : Carried(a)' <=> Carried(a)) /\ Generations' /\ CopyFits'
      BY <2>1 DEF TokenInv, Carried, Generations, CopyFits
    <2>3. TokenKept' /\ RefusalHasCause'
      BY <2>1 DEF TokenInv, TokenKept, RefusalHasCause, Undisturbed, RowMoved, Carried
    <2> QED BY <2>2, <2>3 DEF TokenInv
  <1> QED BY <1>2, <1>3, <1>4, <1>5, <1>6, <1>7, <1>8, <1>9, <1>10, <1>11, <1>12, <1>13
          DEF Next

-----------------------------------------------------------------------------
(* The theorems                                                             *)

THEOREM InvInitially == Init => Inv
<1> SUFFICES ASSUME Init PROVE Inv
  OBVIOUS
<1> USE NoLockAssumption, NoAccountAssumption DEF Init, Empty
<1>1. TypeOK
  BY DEF TypeOK, Stages, Token
<1>2. StillInTable /\ OneExchangeAtATime /\ KeyReused
  BY DEF StillInTable, OneExchangeAtATime, KeyReused, Inside
<1>3. Generations /\ CopyFits
  BY DEF Generations, CopyFits
<1>4. TokenKept /\ RefusalHasCause
  BY DEF TokenKept, RefusalHasCause
<1> QED BY <1>1, <1>2, <1>3, <1>4 DEF Inv, LockInv, TokenInv

THEOREM InvInductive == Inv /\ [Next]_vars => Inv'
  BY LockStep, KeyStep, TokenStep DEF Inv, LockInv

\* However the locks are swept and the threads interleave, one thread at a time is in the
\* exchange of an account, and those behind it use the key it stored.
THEOREM ExchangeExclusive == Spec => [](TypeOK /\ OneExchangeAtATime /\ KeyReused)
<1>1. Inv => TypeOK /\ OneExchangeAtATime /\ KeyReused
  BY DEF Inv, LockInv
<1> QED BY <1>1, InvInitially, InvInductive, PTL DEF Spec

\* The threads that waited for the exchange find the key in the row and do not ask for another.
THEOREM StoredKeyReused == Spec => []KeyReused
<1> QED BY ExchangeExclusive, PTL

\* Without a lock around the refreshes, the stored refresh token still stays good, or is about
\* to be replaced by a good one, until something is lost or overwritten.
THEOREM RefreshKeepsToken == Spec => []TokenKept
<1>1. Inv => TokenKept
  BY DEF Inv, TokenInv
<1> QED BY <1>1, InvInitially, InvInductive, PTL DEF Spec

\* A refusal that finds the row as it was read has one of the named causes.
THEOREM RefusalExplained == Spec => []RefusalHasCause
<1>1. Inv => RefusalHasCause
  BY DEF Inv, TokenInv
<1> QED BY <1>1, InvInitially, InvInductive, PTL DEF Spec
=============================================================================
