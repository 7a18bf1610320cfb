---------------------------- MODULE AccountStatus ----------------------------
(***************************************************************************)
(* The status of the accounts and the snapshot of gateway candidates that  *)
(* is cached in front of it (account/account_status.rs, account_update.rs, *)
(* account_delete.rs, usage/usage_snapshot_store.rs, usage_account_meta.rs *)
(* and gateway/routing/selection.rs).  Users enable, disable, delete and   *)
(* log in accounts; gateway, usage and token threads mark them by what the *)
(* upstream says.  Each SQL statement is atomic, and so is each access to  *)
(* the cache; nothing else is, so that a thread writes what it decided     *)
(* upon a row that may have changed.                                       *)
(*                                                                         *)
(* Left out: the event log, and the tokens and usage snapshots, which make *)
(* the confirmation of a usage limit and a part of the candidate query     *)
(* free choices.                                                           *)
(***************************************************************************)
EXTENDS Integers

CONSTANTS
    Threads,       \* request, polling and RPC threads
    Accounts,      \* account identifiers
    NoAccount,     \* "no account"
    Verdicts,      \* statuses that errors of the upstream give an account
    MaxDecisions   \* bound of the model: decisions of the users

ASSUME NoAccountAssumption == NoAccount \notin Accounts
ASSUME VerdictsAssumption == Verdicts \subseteq {"unavailable", "limited", "banned"}
ASSUME MaxDecisionsAssumption == MaxDecisions \in Nat

VARIABLES
    status,     \* account -> status of its row, or "absent"
    cached,     \* there is a snapshot of the candidates
    cache,      \* the accounts in it
    pc,         \* where each thread is
    target,     \* the account it deals with
    seen,       \* the status it read
    goal,       \* the status it is going to write
    list,       \* the candidates it read
    unpatched,  \* those of them whose meta data it has not looked at
    decisions,  \* bound of the model: decisions so far
    decision,   \* history: account -> what its user decided last
    overtaken,  \* history: account -> a write landed on a row that is not the one read
    silent,     \* history: account -> its row changed last without a look at the cache
    outdated,   \* history: thread -> the cache was invalidated since it read its list
    stale       \* history: the cache was filled by such a thread

cacheVars   == <<cached, cache>>
localVars   == <<pc, target, seen, goal, list, unpatched>>
historyVars == <<decisions, decision, overtaken, silent, outdated, stale>>
vars == <<status, cached, cache, pc, target, seen, goal, list, unpatched,
          decisions, decision, overtaken, silent, outdated, stale>>

Statuses == {"active", "limited", "unavailable", "banned", "disabled", "inactive"}
Stages   == {"idle", "write", "invalidate", "patch", "fill"}

Init == /\ status = [a \in Accounts |-> "active"]
        /\ cached = FALSE
        /\ cache = {}
        /\ pc = [t \in Threads |-> "idle"]
        /\ target = [t \in Threads |-> NoAccount]
        /\ seen = [t \in Threads |-> "absent"]
        /\ goal = [t \in Threads |-> "absent"]
        /\ list = [t \in Threads |-> {}]
        /\ unpatched = [t \in Threads |-> {}]
        /\ decisions = 0
        /\ decision = [a \in Accounts |-> "none"]
        /\ overtaken = [a \in Accounts |-> FALSE]
        /\ silent = [a \in Accounts |-> FALSE]
        /\ outdated = [t \in Threads |-> FALSE]
        /\ stale = FALSE

-----------------------------------------------------------------------------
(* Helpers                                                                  *)

Exists(a) == status[a] # "absent"

\* update_account_status_if_changed: the WHERE clause.
Changes(a, s) == Exists(a) /\ status[a] # s

\* A plausible slip: the candidates are dropped for an account disabled by hand only.
InvalidatesDisabled(a, s) == IF Changes(a, s) /\ s = "disabled" THEN "invalidate" ELSE "idle"
\* set_account_status goes on to the cache if the row changed.
AfterWrite(a, s) == IF Changes(a, s) THEN "invalidate" ELSE "idle"

Begin(t, stage, a, read, wanted) ==
    /\ pc[t] = "idle"
    /\ pc' = [pc EXCEPT ![t] = stage]
    /\ target' = [target EXCEPT ![t] = a]
    /\ seen' = [seen EXCEPT ![t] = read]
    /\ goal' = [goal EXCEPT ![t] = wanted]
    /\ UNCHANGED <<list, unpatched>>

\* The thread has written to the account, and turns to the cache or is done.
Written(t, stage, a) ==
    /\ pc' = [pc EXCEPT ![t] = stage]
    /\ target' = [target EXCEPT ![t] = IF stage = "invalidate" THEN a ELSE NoAccount]
    /\ seen' = [seen EXCEPT ![t] = "absent"]
    /\ goal' = [goal EXCEPT ![t] = "absent"]
    /\ UNCHANGED <<list, unpatched>>

\* A plausible slip: the list of a query is kept for the next one.
DoneKeepingList(t) == Written(t, "idle", NoAccount)
\* The thread's operation is over.
Done(t) ==
    /\ pc' = [pc EXCEPT ![t] = "idle"]
    /\ target' = [target EXCEPT ![t] = NoAccount]
    /\ seen' = [seen EXCEPT ![t] = "absent"]
    /\ goal' = [goal EXCEPT ![t] = "absent"]
    /\ list' = [list EXCEPT ![t] = {}]
    /\ unpatched' = [unpatched EXCEPT ![t] = {}]

\* insert_account: a row is written whole, as it was read, without a look at the cache.
PutRow(a, s, read) ==
    /\ status' = [status EXCEPT ![a] = s]
    /\ silent' = [silent EXCEPT ![a] = (s # status[a] \/ @)]
    /\ overtaken' = [overtaken EXCEPT ![a] = (status[a] # read \/ @)]

\* A decision of the user starts the account's history anew.
Decide(a, what) ==
    /\ decisions < MaxDecisions
    /\ decisions' = decisions + 1
    /\ decision' = [decision EXCEPT ![a] = what]
    /\ overtaken' = [overtaken EXCEPT ![a] = FALSE]

-----------------------------------------------------------------------------
(* Marks of the threads                                                     *)

\* find_account_by_id: the row, or none, for a query that fails as well.
Found(a) == {status[a], "absent"}

\* A plausible slip: only an account that is logged out is left alone.
PreservesLoggedOut(s) == s = "inactive"
\* should_preserve_manual_account_status, of what the look at the row found.
ShouldPreserve(s) == s \in {"disabled", "inactive"}

\* set_account_{unavailable, limited, banned}_with_reason: the look at the row ...
Marks(t, a, mark) ==
    \E read \in Found(a) :
        /\ ~ShouldPreserve(read)
        /\ Begin(t, "write", a, read, mark)
        /\ UNCHANGED <<status, cacheVars, historyVars>>

\* usage_status_updates_blocked: the usage of a logged out account brings it back.
UpdatesBlocked(s) == s = "disabled"

\* apply_status_from_snapshot: the look at the row, when there is something to be written.
AppliesSnapshot(t, a, outcome) ==
    \E read \in Found(a) :
        /\ ~UpdatesBlocked(read)
        /\ Begin(t, "write", a, read, outcome)
        /\ UNCHANGED <<status, cacheVars, historyVars>>

\* ... and the UPDATE of set_account_status.
WritesStatus(t) ==
    LET a == target[t]
    IN  /\ pc[t] = "write"
        /\ IF Changes(a, goal[t])
           THEN /\ status' = [status EXCEPT ![a] = goal[t]]
                /\ overtaken' = [overtaken EXCEPT ![a] = (status[a] # seen[t] \/ @)]
                /\ silent' = [silent EXCEPT ![a] = FALSE]
           ELSE UNCHANGED <<status, overtaken, silent>>
        /\ Written(t, AfterWrite(a, goal[t]), a)
        /\ UNCHANGED <<cacheVars, decisions, decision, outdated, stale>>

\* invalidate_candidate_cache: no list read before is newer than what comes next.
Invalidates(t) ==
    /\ pc[t] = "invalidate"
    /\ cached' = FALSE
    /\ cache' = {}
    /\ stale' = FALSE
    /\ outdated' = [u \in Threads |-> pc[u] = "fill"]
    /\ silent' = [a \in Accounts |-> FALSE]
    /\ Done(t)
    /\ UNCHANGED <<status, decisions, decision, overtaken>>

-----------------------------------------------------------------------------
(* Rows written back                                                        *)

\* patch_account_meta: the row is read, in a usage refresh long before it is needed, ...
ReadsRow(t, a) ==
    /\ Exists(a)
    /\ Begin(t, "patch", a, status[a], "absent")
    /\ UNCHANGED <<status, cacheVars, historyVars>>

\* ... and if its meta data differ from the token's, it is replaced.
PatchesRow(t) ==
    /\ pc[t] = "patch"
    /\ PutRow(target[t], seen[t], seen[t])
    /\ Done(t)
    /\ UNCHANGED <<cacheVars, decisions, decision, outdated, stale>>

-----------------------------------------------------------------------------
(* The candidate cache                                                      *)

\* list_gateway_candidates: only active accounts, without those that have no token or
\* whose latest usage snapshot says that they are spent.
ActiveAvailable(a) == status[a] = "active"

\* collect_gateway_candidates finds nothing in the cache, and queries.
ListsCandidates(t) ==
    /\ pc[t] = "idle" /\ ~cached
    /\ \E candidates \in SUBSET {a \in Accounts : ActiveAvailable(a)} :
         /\ list' = [list EXCEPT ![t] = candidates]
         /\ unpatched' = [unpatched EXCEPT ![t] = candidates]
    /\ pc' = [pc EXCEPT ![t] = "fill"]
    /\ outdated' = [outdated EXCEPT ![t] = FALSE]
    /\ UNCHANGED <<status, cacheVars, target, seen, goal,
                   decisions, decision, overtaken, silent, stale>>

\* A candidate whose meta data differ from its token's is written back as it was listed.
PatchesCandidate(t, a) ==
    /\ pc[t] = "fill" /\ a \in unpatched[t]
    /\ unpatched' = [unpatched EXCEPT ![t] = @ \ {a}]
    /\ PutRow(a, "active", "active")
    /\ UNCHANGED <<cacheVars, pc, target, seen, goal, list,
                   decisions, decision, outdated, stale>>

\* write_candidate_cache, whatever happened since the query.
FillsCache(t) ==
    /\ pc[t] = "fill"
    /\ cached' = TRUE
    /\ cache' = list[t]
    /\ stale' = outdated[t]
    /\ Done(t)
    /\ UNCHANGED <<status, decisions, decision, overtaken, silent, outdated>>

\* read_candidate_cache finds that the snapshot has outlived its TTL.
CacheExpires ==
    /\ cached
    /\ cached' = FALSE
    /\ cache' = {}
    /\ stale' = FALSE
    /\ UNCHANGED <<status, localVars, decisions, decision, overtaken, silent, outdated>>

\* A statement fails or there is nothing to patch: the thread goes on to something else.
GivesUp(t) ==
    /\ pc[t] \in {"write", "patch", "fill"}
    /\ Done(t)
    /\ UNCHANGED <<status, cacheVars, historyVars>>

-----------------------------------------------------------------------------
(* The users                                                                *)

\* update_account: enabled or disabled by hand, in set_account_status.
UserSets(t, a, s) ==
    /\ pc[t] = "idle" /\ Exists(a)
    /\ Decide(a, IF s = "disabled" THEN "disabled" ELSE "none")
    /\ status' = [status EXCEPT ![a] = s]
    /\ silent' = [silent EXCEPT ![a] = IF Changes(a, s) THEN FALSE ELSE @]
    /\ Written(t, AfterWrite(a, s), a)
    /\ UNCHANGED <<cacheVars, outdated, stale>>

\* A user's write that leaves the cache as it is.
UserWrites(a, s, what) ==
    /\ Decide(a, what)
    /\ status' = [status EXCEPT ![a] = s]
    /\ silent' = [silent EXCEPT ![a] = (status[a] # s \/ @)]
    /\ UNCHANGED <<cacheVars, localVars, outdated, stale>>

UserDeletes(a) == Exists(a) /\ UserWrites(a, "absent", "deleted")

\* logout_current_account.
UserLogsOut(a) == Exists(a) /\ UserWrites(a, "inactive", "none")

\* A login or an import, of a new account or of one that is there.
UserLogsIn(a) == UserWrites(a, "active", "none")

-----------------------------------------------------------------------------

ThreadStep(t) ==
    \/ \E a \in Accounts :
         \/ \E mark \in Verdicts : Marks(t, a, mark)
         \/ \E outcome \in {"active", "limited"} : AppliesSnapshot(t, a, outcome)
         \/ ReadsRow(t, a)
         \/ PatchesCandidate(t, a)
    \/ WritesStatus(t)
    \/ Invalidates(t)
    \/ PatchesRow(t)
    \/ ListsCandidates(t)
    \/ FillsCache(t)
    \/ GivesUp(t)

UserStep == \E a \in Accounts :
    \/ \E t \in Threads, s \in {"active", "disabled"} : UserSets(t, a, s)
    \/ UserDeletes(a)
    \/ UserLogsOut(a)
    \/ UserLogsIn(a)

Next == (\E t \in Threads : ThreadStep(t)) \/ UserStep \/ CacheExpires

Spec == Init /\ [][Next]_vars

-----------------------------------------------------------------------------
(* Properties                                                               *)

\* Every variable has its type; a thread that writes to an account knows which one, and a
\* thread that is not filling the cache keeps no list.
TypeOK ==
    /\ status \in [Accounts -> Statuses \cup {"absent"}]
    /\ cached \in BOOLEAN
    /\ cache \in SUBSET Accounts
    /\ pc \in [Threads -> Stages]
    /\ target \in [Threads -> Accounts \cup {NoAccount}]
    /\ seen \in [Threads -> Statuses \cup {"absent"}]
    /\ goal \in [Threads -> Statuses \cup {"absent"}]
    /\ list \in [Threads -> SUBSET Accounts]
    /\ unpatched \in [Threads -> SUBSET Accounts]
    /\ decisions \in 0 .. MaxDecisions
    /\ decision \in [Accounts -> {"none", "disabled", "deleted"}]
    /\ overtaken \in [Accounts -> BOOLEAN]
    /\ silent \in [Accounts -> BOOLEAN]
    /\ outdated \in [Threads -> BOOLEAN]
    /\ stale \in BOOLEAN
    /\ \A t \in Threads :
         /\ pc[t] \in {"write", "invalidate", "patch"} => target[t] \in Accounts
         /\ pc[t] = "write" => goal[t] \in Statuses
         /\ pc[t] = "patch" => seen[t] \in Statuses
         /\ pc[t] # "fill" => list[t] = {} /\ unpatched[t] = {}

\* The tests of the status functions say of an account disabled by hand that it stays disabled,
\* whatever the upstream says of it.  The code keeps to that, and to a deletion, but for a
\* write that lands on a row other than the one its thread read (should_preserve_manual_account_
\* status and the write are two statements): whoever read the decision keeps it.
DecisionStandsUnlessOvertaken ==
    \A a \in Accounts : ~overtaken[a] =>
        /\ decision[a] = "disabled" => status[a] = "disabled"
        /\ decision[a] = "deleted" => status[a] = "absent"

\* The cache offers an account that is not active only while a thread that changed its
\* status has yet to invalidate it, or if it was filled from a query older than the last
\* invalidation, or if the row was changed since by somebody who does not invalidate: a
\* logout, a deletion, a row written back.
CacheFollowsStatus ==
    \A a \in cache : status[a] # "active" =>
        \/ \E t \in Threads : pc[t] = "invalidate" /\ target[t] = a
        \/ stale
        \/ silent[a]
=============================================================================
