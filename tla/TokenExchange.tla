--------------------------- MODULE TokenExchange ---------------------------
(***************************************************************************)
(* The tokens of the accounts (gateway/auth/token_exchange.rs,             *)
(* usage/usage_token_refresh.rs and the rows of storage/tokens.rs).        *)
(* Threads work on copies of a token row that they read earlier, in a      *)
(* candidate list, in the batch of a poll or by a query of their own.  The *)
(* gateway's bearer path exchanges the token for an API key under a lock   *)
(* per account, and refreshes it when the exchange fails; the polls, the   *)
(* recovery of a 401 and the RPC calls refresh without any lock.  Both     *)
(* write their copy back whole.                                            *)
(*                                                                         *)
(* A refresh token is the number under which the authorisation server      *)
(* issued it, 0 for none; the server may rotate it when it is used.  Of    *)
(* access and identity token only the effects are kept (free choices), and *)
(* of the API key whether there is one.  What a refused refresh does to    *)
(* the account's status is in AccountStatus.                               *)
(***************************************************************************)
EXTENDS Integers

CONSTANTS
    Threads,          \* request, polling and RPC threads
    Accounts,         \* account identifiers
    NoAccount,        \* "no account"
    Locks,            \* bound of the model: lock objects that can be allocated
    NoLock,           \* "no lock"
    ForeignKeys,      \* whether the build of SQLite enforces them
    Ttl,              \* ACCOUNT_TOKEN_EXCHANGE_LOCK_TTL_SECS
    CleanupInterval,  \* ACCOUNT_TOKEN_EXCHANGE_LOCK_CLEANUP_INTERVAL_SECS
    MaxNow,           \* bound of the model: last value of the clock
    MaxIssued         \* bound of the model: refresh tokens issued per account

ASSUME NoAccountAssumption == NoAccount \notin Accounts
ASSUME NoLockAssumption == NoLock \notin Locks
ASSUME ForeignKeysAssumption == ForeignKeys \in BOOLEAN
ASSUME TimesAssumption == Ttl \in Nat /\ CleanupInterval \in Nat
ASSUME BoundsAssumption == MaxNow \in Nat /\ MaxIssued \in Nat \ {0}

VARIABLES
    now,              \* the clock, in seconds
    entries,          \* account -> exchange lock of the table, or NoLock
    last_seen_at,     \* account -> time of its last lookup (0: never)
    last_cleanup_at,  \* time of the last sweep (0: never)
    exists,           \* account -> it has a row in accounts
    stored,           \* account -> it has a row in tokens ...
    row,              \* ... which says this
    live,             \* account -> refresh tokens the server accepts
    issued,           \* account -> last refresh token it issued
    pc,               \* where each thread is
    target,           \* the account it deals with
    ref,              \* the exchange lock it refers to
    copy,             \* its copy of the token
    base,             \* history: refresh token of the row it read, or wrote last
    checked,          \* history: it found no key, and only lock holders wrote since
    lost,             \* history: account -> a token the server issued reached no row
    overtaken         \* history: account -> a copy, or a file, overwrote another refresh token

tableVars   == <<entries, last_seen_at, last_cleanup_at>>
serverVars  == <<live, issued>>
rowVars     == <<exists, stored, row>>
threadVars  == <<pc, target, ref, copy, base, checked>>
historyVars == <<lost, overtaken>>
vars == <<now, entries, last_seen_at, last_cleanup_at, exists, stored, row, live, issued,
          pc, target, ref, copy, base, checked, lost, overtaken>>

Token == [refresh : Nat, key : BOOLEAN]
Empty == [refresh |-> 0, key |-> FALSE]

\* "copied" has a copy of the row; "waiting" for the exchange lock; "checking" has it, about to
\* look for a stored key; "exchange", "refresh" and "second" wait for the server; "persist"
\* has a refreshed copy to write; "refused" was told its refresh token is not good.
Stages == {"idle", "copied", "waiting", "checking", "exchange", "refresh", "persist",
           "second", "refused"}

Init == /\ now = 1
        /\ entries = [a \in Accounts |-> NoLock]
        /\ last_seen_at = [a \in Accounts |-> 0]
        /\ last_cleanup_at = 0
        /\ exists = [a \in Accounts |-> TRUE]
        /\ stored = [a \in Accounts |-> TRUE]
        /\ row = [a \in Accounts |-> [refresh |-> 1, key |-> FALSE]]
        /\ live = [a \in Accounts |-> {1}]
        /\ issued = [a \in Accounts |-> 1]
        /\ pc = [t \in Threads |-> "idle"]
        /\ target = [t \in Threads |-> NoAccount]
        /\ ref = [t \in Threads |-> NoLock]
        /\ copy = [t \in Threads |-> Empty]
        /\ base = [t \in Threads |-> 0]
        /\ checked = [t \in Threads |-> FALSE]
        /\ lost = [a \in Accounts |-> FALSE]
        /\ overtaken = [a \in Accounts |-> FALSE]

-----------------------------------------------------------------------------
(* The lock table                                                           *)

\* Arc::strong_count above the table's own reference.
InUse(l) == \E t \in Threads : ref[t] = l

Allocated(l) == InUse(l) \/ \E a \in Accounts : entries[a] = l

FreshLock == CHOOSE l \in Locks : ~Allocated(l)

CleanupDue == last_cleanup_at = 0 \/ now - last_cleanup_at >= CleanupInterval

Stale(a) == now - last_seen_at[a] > Ttl

\* A plausible slip: age alone decides.
SweptByAge(a) == CleanupDue /\ Stale(a)
\* maybe_cleanup_exchange_locks: what is old and referred to by the table only goes.
Swept(a) == CleanupDue /\ Stale(a) /\ ~InUse(entries[a])

Inside(t) == ref[t] # NoLock /\ pc[t] # "waiting"

-----------------------------------------------------------------------------
(* Copies and rows                                                          *)

Goes(t, stage) == pc' = [pc EXCEPT ![t] = stage]

Keeps(t, token) == copy' = [copy EXCEPT ![t] = token]

\* The call returns; the guard and the reference to the lock are dropped with it.
Leaves(t) ==
    /\ Goes(t, "idle") /\ Keeps(t, Empty)
    /\ target' = [target EXCEPT ![t] = NoAccount]
    /\ ref' = [ref EXCEPT ![t] = NoLock]
    /\ base' = [base EXCEPT ![t] = 0]

Returns(t) == Leaves(t) /\ checked' = [checked EXCEPT ![t] = FALSE]

\* The row of the thread's account is not the one its copy was made of, or it is gone.
RowMoved(t) == ~stored[target[t]] \/ row[target[t]].refresh # base[t]

CanStore(a) == exists[a] \/ ~ForeignKeys

\* insert_token: the copy replaces the row whole, whatever the row says by now.
Stores(t, token) ==
    LET a == target[t]
    IN  /\ CanStore(a)
        /\ stored' = [stored EXCEPT ![a] = TRUE]
        /\ row' = [row EXCEPT ![a] = token]
        /\ overtaken' = [overtaken EXCEPT ![a] = @ \/ RowMoved(t)]
        /\ UNCHANGED <<exists, lost>>

\* insert_token fails: no such account, or the database does not answer.
StoreFails(t, token) ==
    /\ lost' = [lost EXCEPT ![target[t]] = @ \/ token.refresh # base[t]]
    /\ UNCHANGED <<exists, stored, row, overtaken>>

\* A row of a is written, or goes, outside the exchange lock: what its holders found out is void.
Disturbed(a) == [t \in Threads |-> checked[t] /\ target[t] # a]

\* A thread reads the row of an account.
Copies(t, a) ==
    /\ pc[t] = "idle" /\ stored[a]
    /\ Goes(t, "copied") /\ Keeps(t, row[a])
    /\ target' = [target EXCEPT ![t] = a]
    /\ base' = [base EXCEPT ![t] = row[a].refresh]
    /\ UNCHANGED <<now, tableVars, rowVars, serverVars, historyVars, ref, checked>>

\* It has no use for it, or the copy has an API key already.
Discards(t) ==
    /\ pc[t] = "copied" /\ Returns(t)
    /\ UNCHANGED <<now, tableVars, rowVars, serverVars, historyVars>>

-----------------------------------------------------------------------------
(* resolve_openai_bearer_token                                              *)

\* account_token_exchange_lock: sweep, then find or create the lock of the account.
LooksUpLock(t) ==
    LET a     == target[t]
        kept  == [b \in Accounts |-> IF Swept(b) THEN NoLock ELSE entries[b]]
        found == IF kept[a] = NoLock THEN FreshLock ELSE kept[a]
    IN  /\ pc[t] = "copied" /\ ~copy[t].key
        /\ kept[a] = NoLock => \E l \in Locks : ~Allocated(l)
        /\ last_cleanup_at' = IF CleanupDue THEN now ELSE last_cleanup_at
        /\ entries' = [kept EXCEPT ![a] = found]
        /\ last_seen_at' = [b \in Accounts |->
               IF b = a THEN now ELSE IF Swept(b) THEN 0 ELSE last_seen_at[b]]
        /\ ref' = [ref EXCEPT ![t] = found]
        /\ Goes(t, "waiting")
        /\ UNCHANGED <<now, rowVars, serverVars, historyVars, target, copy, base, checked>>

TakesLock(t) ==
    /\ pc[t] = "waiting"
    /\ \A u \in Threads : Inside(u) => ref[u] # ref[t]
    /\ Goes(t, "checking")
    /\ UNCHANGED <<now, tableVars, rowVars, serverVars, historyVars,
                   target, ref, copy, base, checked>>

\* A plausible slip: the thread trusts its own copy, which had no key before it waited.
KeyInCopy(t) == copy[t].key
\* find_cached_api_key_access_token: what the row says by now.
KeyInRow(t) == stored[target[t]] /\ row[target[t]].key

\* Whoever held the lock before has stored a key.
ReusesStoredKey(t) ==
    /\ pc[t] = "checking" /\ KeyInRow(t) /\ Returns(t)
    /\ UNCHANGED <<now, tableVars, rowVars, serverVars, historyVars>>

\* No key; a query that fails passes for none.
StartsExchange(t) ==
    /\ pc[t] = "checking"
    /\ \E failed \in BOOLEAN :
          /\ ~failed => ~KeyInRow(t)
          /\ checked' = [checked EXCEPT ![t] = ~failed]
    /\ Goes(t, "exchange")
    /\ UNCHANGED <<now, tableVars, rowVars, serverVars, historyVars, target, ref, copy, base>>

\* exchange_and_persist_api_key_access_token, with its copy; a failing write is ignored.
Exchanges(t) ==
    /\ pc[t] \in {"exchange", "second"}
    /\ LET token == [copy[t] EXCEPT !.key = TRUE] IN Stores(t, token) \/ StoreFails(t, token)
    /\ Returns(t)
    /\ UNCHANGED <<now, tableVars, serverVars>>

\* The exchange is refused or not answered: refresh, if there is a token for it, or fall back
\* to the access token (or to an error).
ExchangeFails(t) ==
    /\ IF pc[t] = "exchange" /\ copy[t].refresh # 0
       THEN /\ Goes(t, "refresh")
            /\ checked' = [checked EXCEPT ![t] = FALSE]
            /\ UNCHANGED <<target, ref, copy, base>>
       ELSE pc[t] \in {"exchange", "second"} /\ Returns(t)
    /\ pc[t] \in {"exchange", "second"}
    /\ UNCHANGED <<now, tableVars, rowVars, serverVars, historyVars>>

-----------------------------------------------------------------------------
(* refresh_access_token, and what its callers do with the answer            *)

\* refresh_and_persist_access_token, without a lock: token poll, usage retry, 401 recovery,
\* warm-up and the account RPCs.
StartsRefresh(t) ==
    /\ pc[t] = "copied" /\ copy[t].refresh # 0
    /\ Goes(t, "refresh")
    /\ UNCHANGED <<now, tableVars, rowVars, serverVars, historyVars,
                   target, ref, copy, base, checked>>

\* The server takes the refresh token for a new access token, and may rotate it.
Rotates(a, g) ==
    /\ issued[a] < MaxIssued
    /\ issued' = [issued EXCEPT ![a] = @ + 1]
    /\ live' = [live EXCEPT ![a] = (@ \ {g}) \cup {issued[a] + 1}]

\* A plausible slip: the refresh token of the answer is not taken over.
AccessTokenOnly(t) == copy[t]
Refreshed(t) == [copy[t] EXCEPT !.refresh = issued'[target[t]]]

RefreshGranted(t) ==
    /\ pc[t] = "refresh" /\ copy[t].refresh \in live[target[t]]
    /\ Goes(t, "persist")
    /\ \/ Rotates(target[t], copy[t].refresh) /\ Keeps(t, Refreshed(t))
       \/ UNCHANGED <<serverVars, copy>>
    /\ UNCHANGED <<now, tableVars, rowVars, historyVars, target, ref, base, checked>>

\* The server rotates, but its answer does not arrive or cannot be read.  In the first case the
\* same token is presented once more, and refused.
RefreshLost(t) ==
    /\ pc[t] = "refresh" /\ copy[t].refresh \in live[target[t]]
    /\ Rotates(target[t], copy[t].refresh)
    /\ lost' = [lost EXCEPT ![target[t]] = TRUE]
    /\ \/ Goes(t, "refused") /\ UNCHANGED <<target, ref, copy, base, checked>>
       \/ Returns(t)
    /\ UNCHANGED <<now, tableVars, rowVars, overtaken>>

RefreshRefused(t) ==
    /\ pc[t] = "refresh" /\ copy[t].refresh \notin live[target[t]]
    /\ Goes(t, "refused")
    /\ UNCHANGED <<now, tableVars, rowVars, serverVars, historyVars,
                   target, ref, copy, base, checked>>

\* No answer, or an error that says nothing about the token.
RefreshUnreachable(t) ==
    /\ pc[t] = "refresh" /\ Returns(t)
    /\ UNCHANGED <<now, tableVars, rowVars, serverVars, historyVars>>

\* The account is marked (AccountStatus) unless the bearer path has an access token that is
\* still good to fall back to.
Refused(t) ==
    /\ pc[t] = "refused" /\ Returns(t)
    /\ UNCHANGED <<now, tableVars, rowVars, serverVars, historyVars>>

\* Under the exchange lock the refreshed copy is written, errors are ignored, and a second
\* exchange is tried.
PersistsUnderLock(t) ==
    /\ pc[t] = "persist" /\ Inside(t)
    /\ \/ Stores(t, copy[t]) /\ base' = [base EXCEPT ![t] = copy[t].refresh]
       \/ StoreFails(t, copy[t]) /\ UNCHANGED base
    /\ Goes(t, "second")
    /\ UNCHANGED <<now, tableVars, serverVars, target, ref, copy, checked>>

\* Elsewhere a new identity token is first exchanged for a new API key, if it can be; an error
\* of the write is returned.
PersistsWithoutLock(t) ==
    /\ pc[t] = "persist" /\ ~Inside(t)
    /\ \/ \E renewed \in BOOLEAN :
             Stores(t, [copy[t] EXCEPT !.key = @ \/ renewed])
       \/ StoreFails(t, copy[t])
    /\ Leaves(t)
    /\ checked' = Disturbed(target[t])
    /\ UNCHANGED <<now, tableVars, serverVars>>

-----------------------------------------------------------------------------
(* Everybody else                                                           *)

LosesToken(a) == /\ stored' = [stored EXCEPT ![a] = FALSE]
                 /\ row' = [row EXCEPT ![a] = Empty]

\* insert_account is an INSERT OR REPLACE: where foreign keys are enforced, the token of an
\* account that was there already goes with its old row.
SavesAccount(a) ==
    /\ exists' = [exists EXCEPT ![a] = TRUE]
    /\ IF ForeignKeys /\ exists[a] THEN LosesToken(a) ELSE UNCHANGED <<stored, row>>
    /\ checked' = Disturbed(a)
    /\ UNCHANGED <<now, tableVars, serverVars, historyVars, pc, target, ref, copy, base>>

\* A login, or an import of a file just written, brings a token of its own for the account
\* it has saved.
LogsIn(a) ==
    /\ CanStore(a) /\ issued[a] < MaxIssued
    /\ issued' = [issued EXCEPT ![a] = @ + 1]
    /\ live' = [live EXCEPT ![a] = {issued[a] + 1}]
    /\ stored' = [stored EXCEPT ![a] = TRUE]
    /\ \E hasRefresh, hasKey \in BOOLEAN :
          row' = [row EXCEPT ![a] = [refresh |-> IF hasRefresh THEN issued[a] + 1 ELSE 0,
                                     key |-> hasKey]]
    /\ lost' = [lost EXCEPT ![a] = FALSE]
    /\ overtaken' = [overtaken EXCEPT ![a] = FALSE]
    /\ checked' = Disturbed(a)
    /\ UNCHANGED <<now, tableVars, exists, pc, target, ref, copy, base>>

\* import_single_item: any other file brings a refresh token that was issued before, which may
\* have been used up since, or none.  Nothing is asked of the server.
Imports(a) ==
    /\ CanStore(a)
    /\ \E refresh \in 0 .. issued[a] :
          /\ row' = [row EXCEPT ![a] = [refresh |-> refresh, key |-> FALSE]]
          /\ overtaken' = [overtaken EXCEPT ![a] =
                              @ \/ ~stored[a] \/ row[a].refresh # refresh]
    /\ stored' = [stored EXCEPT ![a] = TRUE]
    /\ checked' = Disturbed(a)
    /\ UNCHANGED <<now, tableVars, serverVars, exists, lost, pc, target, ref, copy, base>>

DeletesAccount(a) ==
    /\ exists' = [exists EXCEPT ![a] = FALSE]
    /\ LosesToken(a)
    /\ checked' = Disturbed(a)
    /\ UNCHANGED <<now, tableVars, serverVars, historyVars, pc, target, ref, copy, base>>

\* The server forgets the refresh tokens of an account.
Revokes(a) ==
    /\ live[a] # {}
    /\ live' = [live EXCEPT ![a] = {}]
    /\ lost' = [lost EXCEPT ![a] = TRUE]
    /\ UNCHANGED <<now, tableVars, rowVars, issued, overtaken, threadVars>>

Tick == /\ now < MaxNow /\ now' = now + 1
        /\ UNCHANGED <<tableVars, rowVars, serverVars, threadVars, historyVars>>

Next == \/ \E t \in Threads :
             \/ \E a \in Accounts : Copies(t, a)
             \/ Discards(t)
             \/ LooksUpLock(t)
             \/ TakesLock(t)
             \/ ReusesStoredKey(t)
             \/ StartsExchange(t)
             \/ Exchanges(t)
             \/ ExchangeFails(t)
             \/ StartsRefresh(t)
             \/ RefreshGranted(t)
             \/ RefreshLost(t)
             \/ RefreshRefused(t)
             \/ RefreshUnreachable(t)
             \/ Refused(t)
             \/ PersistsUnderLock(t)
             \/ PersistsWithoutLock(t)
        \/ \E a \in Accounts :
             \/ SavesAccount(a) \/ LogsIn(a) \/ Imports(a)
             \/ DeletesAccount(a) \/ Revokes(a)
        \/ Tick

Spec == Init /\ [][Next]_vars

-----------------------------------------------------------------------------
(* Properties                                                               *)

\* A thread deals with an account exactly while it is busy, and refers to a lock only then.
TypeOK ==
    /\ now \in Nat \ {0}
    /\ entries \in [Accounts -> Locks \cup {NoLock}]
    /\ last_seen_at \in [Accounts -> Nat]
    /\ last_cleanup_at \in Nat
    /\ exists \in [Accounts -> BOOLEAN]
    /\ stored \in [Accounts -> BOOLEAN]
    /\ row \in [Accounts -> Token]
    /\ live \in [Accounts -> SUBSET (Nat \ {0})]
    /\ issued \in [Accounts -> Nat \ {0}]
    /\ pc \in [Threads -> Stages]
    /\ target \in [Threads -> Accounts \cup {NoAccount}]
    /\ ref \in [Threads -> Locks \cup {NoLock}]
    /\ copy \in [Threads -> Token]
    /\ base \in [Threads -> Nat]
    /\ checked \in [Threads -> BOOLEAN]
    /\ lost \in [Accounts -> BOOLEAN]
    /\ overtaken \in [Accounts -> BOOLEAN]
    /\ \A t \in Threads : /\ pc[t] = "idle" <=> target[t] = NoAccount
                          /\ pc[t] \in {"idle", "copied"} => ref[t] = NoLock
                          /\ pc[t] \in {"waiting", "checking", "exchange", "second"}
                                => ref[t] # NoLock

\* However the table of locks is swept, one thread at a time asks the server for an API key
\* of an account, or refreshes its token on the way to one.
OneExchangeAtATime ==
    \A t, u \in Threads :
        (Inside(t) /\ Inside(u) /\ target[t] = target[u]) => t = u

\* A thread that is about to ask for a key, because it found none in the row, still finds none
\* there, unless somebody without the lock has written the row or the query failed: the
\* threads that wait for the lock use the key the first one got.
KeyReused ==
    \A t \in Threads :
        (pc[t] = "exchange" /\ checked[t]) => ~(stored[target[t]] /\ row[target[t]].key)

\* Some thread has been given the next refresh token of a and has not written it yet.
Carried(a) ==
    \E t \in Threads : /\ pc[t] = "persist" /\ target[t] = a
                       /\ copy[t].refresh # base[t] /\ copy[t].refresh \in live[a]

Undisturbed(a) == ~lost[a] /\ ~overtaken[a]

\* The refresh token of a row is one the server accepts, or the thread that used it up is
\* about to write its successor, however many threads refresh the account at once.  It is
\* useless only after one of these: the server revoked it, an answer or a write was lost, a
\* thread wrote its copy over a refresh token that was not the one it had read, or an import
\* wrote one issued before.
TokenKept ==
    \A a \in Accounts :
        (stored[a] /\ row[a].refresh # 0 /\ Undisturbed(a))
            => row[a].refresh \in live[a] \/ Carried(a)

\* A thread is told that its refresh token is not good, for which the account may be marked
\* unavailable, while the row still has that token, only if another thread has used it and is
\* about to write the next one, or for a reason TokenKept names.
RefusalHasCause ==
    \A t \in Threads :
        (pc[t] = "refused" /\ ~RowMoved(t) /\ Undisturbed(target[t])) => Carried(target[t])
=============================================================================
