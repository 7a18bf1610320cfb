-------------------------- MODULE AccountRotation --------------------------
(***************************************************************************)
(* The two cursors that walk the accounts, and the accounts that come and  *)
(* go under them: the gateway starts the requests of a key at one usable   *)
(* account after the other (RouteRotation) and asks for a refresh of those *)
(* that have reached a limit; the polling (UsagePolling) finds out which   *)
(* have quota again.  An account is usable when its status and its last    *)
(* snapshot let list_gateway_candidates return it.  Answers and errors of  *)
(* the upstream change both; that the status is looked at and written in   *)
(* two statements is the subject of AccountStatus and one step here.       *)
(* Accounts are numbered in the order of their sort, which is also that of *)
(* their token rows.                                                       *)
(***************************************************************************)
EXTENDS RouteRotation, UsagePolling

CONSTANTS
    Watched,        \* the key whose requests are recorded: the keys are alike
    NumAccounts,
    Metered,        \* bound: the accounts whose quota changes
    Managed,        \* bound: the accounts that their user looks after
    Faulty,         \* bound: the accounts that the upstream refuses
    MaxChanges,     \* bound: changes of a quota and acts of the user
    MaxFailures     \* bound: requests, refreshes and workers that fail

ASSUME AccountsAssumption ==
    /\ Watched \in Keys
    /\ NumAccounts \in Nat
    /\ Metered \subseteq 1 .. NumAccounts
    /\ Managed \subseteq 1 .. NumAccounts
    /\ Faulty \subseteq 1 .. NumAccounts
    /\ MaxChanges \in Nat
    /\ MaxFailures \in Nat

Accounts == 1 .. NumAccounts
Positions == {0} \cup 0 .. NumAccounts - 1
Nobody == 0

VARIABLES
    quota,      \* accounts that have quota left at the upstream
    usable,     \* accounts that the database holds to have quota left
    disabled,   \* accounts that their user has disabled
    banned,     \* accounts whose last status was given for a deactivation
    listed,     \* candidates in the cache of selection.rs
    asked,      \* accounts whose refresh the gateway or their user has asked for
    turn,       \* the last request of Watched since the candidates changed,
                \* and the keys that have started one after it
    changes,
    failures

accountVars == <<quota, usable, disabled, banned>>
vars == <<mode, starts, clearing, cursor, batch, quota, usable, disabled,
          banned, listed, asked, turn, changes, failures>>

NoTurn == [head |-> Nobody, since |-> {}]

Init ==
    /\ RotationInit
    /\ PollingInit
    /\ quota = Accounts \ Metered    \* spent since the database learnt of it
    /\ usable = Accounts
    /\ disabled = {}
    /\ banned = {}
    /\ listed = Accounts
    /\ asked = {}
    /\ turn = NoTurn
    /\ changes = 0
    /\ failures = 0

\* The sequence of accounts in ascending order: the i-th one is the one that i of
\* them do not exceed.
InOrder(accounts) ==
    [i \in 1 .. Cardinality(accounts) |->
        CHOOSE a \in accounts : Cardinality({b \in accounts : b <= a}) = i]

-----------------------------------------------------------------------------
(* What the upstream's answers make of an account.                         *)

\* A refresh that found quota makes the account active, whatever was held
\* against it, and one that found it spent makes it limited; what is not known
\* to be either leaves the status, and with it a ban.  Of a disabled account
\* the snapshot is kept, and that is all.
Learns(a, found) ==
    /\ usable' = IF found THEN usable \cup {a} ELSE usable \ {a}
    /\ banned' \in {banned \ {a}} \cup IF found THEN {} ELSE {banned}

\* An error makes the account "unavailable" where its token was refused, and
\* "banned" where it is deactivated.  A disabled account keeps its status.
Marked(a) ==
    /\ a \in Faulty \ disabled
    /\ usable' = usable \ {a}
    /\ banned' \in {banned \ {a}, banned \cup {a}}

\* mark_usage_unreachable_if_needed: most errors leave the status as it is.
MarkedIfNeeded(a) == Marked(a) \/ UNCHANGED <<usable, banned>>

-----------------------------------------------------------------------------
(* The gateway.                                                            *)

\* The cache has expired or was dropped, and a request reads the accounts.
Collects ==
    /\ listed # usable \ disabled
    /\ listed' = usable \ disabled
    /\ turn' = NoTurn
    /\ UNCHANGED <<rotationVars, pollingVars, accountVars, asked, changes, failures>>

Routes(k) ==
    \E head \in listed :
        /\ StartsAt(k, InOrder(listed), head)
        /\ turn' = IF k = Watched
                   THEN [head |-> head, since |-> {}]
                   ELSE [turn EXCEPT !.since = IF turn = NoTurn THEN {} ELSE @ \cup {k}]
        /\ UNCHANGED <<pollingVars, accountVars, listed, asked, changes, failures>>

\* A request meets the limit of a and asks for a refresh of its usage.  The
\* answer itself changes the status only where the last snapshot says the same.
MeetsLimit(a) ==
    /\ a \in listed \ quota
    /\ a \notin asked
    /\ asked' = asked \cup {a}
    /\ UNCHANGED <<rotationVars, pollingVars, accountVars, listed, turn,
                   changes, failures>>

\* A request fails on a because the token cannot be refreshed or the account is
\* deactivated.
MeetsError(a) ==
    /\ failures < MaxFailures
    /\ a \in listed
    /\ Marked(a)
    /\ failures' = failures + 1
    /\ UNCHANGED <<rotationVars, pollingVars, quota, disabled, listed, asked, turn,
                   changes>>

\* The refresh has read the usage at some moment since it was asked for.  It is
\* made for banned accounts as for others.
RefreshAnswers(a) ==
    /\ a \in asked
    /\ asked' = asked \ {a}
    /\ \E found \in {FALSE, (a \in quota)} : Learns(a, found)
    /\ UNCHANGED <<rotationVars, pollingVars, quota, disabled, listed, turn,
                   changes, failures>>

RefreshErrs(a) ==
    /\ failures < MaxFailures
    /\ a \in asked
    /\ asked' = asked \ {a}
    /\ MarkedIfNeeded(a)
    /\ failures' = failures + 1
    /\ UNCHANGED <<rotationVars, pollingVars, quota, disabled, listed, turn, changes>>

ChoosesStrategy(m) ==
    /\ changes < MaxChanges
    /\ StoresStrategy(m)
    /\ changes' = changes + 1
    /\ UNCHANGED <<pollingVars, accountVars, listed, asked, turn, failures>>

ForgetsTurns ==
    /\ ClearsStarts
    /\ turn' = NoTurn
    /\ UNCHANGED <<pollingVars, accountVars, listed, asked, changes, failures>>

-----------------------------------------------------------------------------
(* The polling.                                                            *)

\* is_account_refresh_skipped and load_banned_account_ids: by the status, or by the
\* reason it was given for last.
Skipped == disabled \cup banned

\* build_usage_refresh_tasks: the accounts with a token that are not skipped.
PollBegins ==
    /\ Begins(InOrder(Accounts \ Skipped))
    /\ UNCHANGED <<rotationVars, accountVars, listed, asked, turn, changes, failures>>

PollAnswers(a) ==
    /\ Polled(a)
    /\ Learns(a, a \in quota)
    /\ UNCHANGED <<rotationVars, quota, disabled, listed, asked, turn,
                   changes, failures>>

\* The poll of one account fails, which may mark the account and fails no worker.
PollErrs(a) ==
    /\ failures < MaxFailures
    /\ Polled(a)
    /\ MarkedIfNeeded(a)
    /\ failures' = failures + 1
    /\ UNCHANGED <<rotationVars, quota, disabled, listed, asked, turn, changes>>

PollWorkerFails ==
    /\ failures < MaxFailures
    /\ WorkerFails
    /\ failures' = failures + 1
    /\ UNCHANGED <<rotationVars, accountVars, listed, asked, turn, changes>>

PollEnds ==
    /\ Ends
    /\ UNCHANGED <<rotationVars, accountVars, listed, asked, turn, changes, failures>>

-----------------------------------------------------------------------------
(* The upstream and the user.                                              *)

QuotaChanges(a) ==
    /\ changes < MaxChanges
    /\ quota' = IF a \in quota THEN quota \ {a} ELSE quota \cup {a}
    /\ changes' = changes + 1
    /\ UNCHANGED <<rotationVars, pollingVars, usable, disabled, banned, listed, asked,
                   turn, failures>>

\* A decision of the user is the reason of the status from then on.
Disables(a) ==
    /\ changes < MaxChanges
    /\ a \notin disabled
    /\ disabled' = disabled \cup {a}
    /\ banned' = banned \ {a}
    /\ changes' = changes + 1
    /\ UNCHANGED <<rotationVars, pollingVars, quota, usable, listed, asked,
                   turn, failures>>

\* The account is active again, and usable if its last snapshot says so.
Enables(a) ==
    /\ changes < MaxChanges
    /\ a \in disabled \cup banned
    /\ disabled' = disabled \ {a}
    /\ banned' = banned \ {a}
    /\ usable' \in {usable, usable \cup {a}}
    /\ changes' = changes + 1
    /\ UNCHANGED <<rotationVars, pollingVars, quota, listed, asked, turn, failures>>

\* The user asks for the usage of the account.  Bound: of a banned one, since the
\* polling asks for the others.
AsksUsage(a) ==
    /\ changes < MaxChanges
    /\ a \in banned \ asked
    /\ asked' = asked \cup {a}
    /\ changes' = changes + 1
    /\ UNCHANGED <<rotationVars, pollingVars, accountVars, listed, turn, failures>>

Next ==
    \/ Collects \/ ForgetsTurns
    \/ \E k \in Keys : Routes(k)
    \/ \E m \in Modes : ChoosesStrategy(m)
    \/ PollBegins \/ PollWorkerFails \/ PollEnds
    \/ \E a \in Accounts :
           \/ MeetsLimit(a) \/ MeetsError(a)
           \/ RefreshAnswers(a) \/ RefreshErrs(a)
           \/ PollAnswers(a) \/ PollErrs(a)
    \/ \E a \in Metered : QuotaChanges(a)
    \/ \E a \in Managed : Disables(a) \/ Enables(a) \/ AsksUsage(a)

Spec == Init /\ [][Next]_vars

\* The polling loop goes on, its workers get to every account of their batch,
\* and those of the queue to every account they were asked for.
Fairness ==
    /\ WF_vars(PollBegins)
    /\ WF_vars(PollEnds)
    /\ WF_vars(Collects)
    /\ \A a \in Accounts : WF_vars(PollAnswers(a)) /\ WF_vars(RefreshAnswers(a))

FairSpec == Spec /\ Fairness

-----------------------------------------------------------------------------

\* Cursors are indices into a list, and the map keeps to its capacity.
TypeOK ==
    /\ mode \in Modes
    /\ starts \in Seq([key : Keys, value : Positions])
    /\ Capacity > 0 => Len(starts) <= Capacity
    /\ clearing \in BOOLEAN
    /\ cursor \in Positions
    /\ batch \in [todo : SUBSET Accounts, workers : 0 .. PollWorkers,
                  failed : BOOLEAN, next : Positions, runs : BOOLEAN]
    /\ {quota, usable, disabled, banned, listed, asked} \subseteq SUBSET Accounts
    /\ turn \in [head : Accounts \cup {Nobody}, since : SUBSET Keys]
    /\ changes \in 0 .. MaxChanges
    /\ failures \in 0 .. MaxFailures

\* The account after a among accounts, the first one after the last.
After(accounts, a) ==
    LET list == InOrder(accounts)
        i == CHOOSE j \in DOMAIN list : list[j] = a
    IN  list[(i % Len(list)) + 1]

\* No more keys have started a request since than the map has room for.
Remembered ==
    /\ mode = "balanced"
    /\ turn # NoTurn
    /\ Capacity > 0 => Cardinality(turn.since) < Capacity

\* Balanced routing is strict: as long as the candidates stay the same and the
\* key is among those the map has room for, the next request of a key starts
\* at the account after the one its last request started at, whatever the
\* requests of other keys have done in between (route_hint.rs, next_start_index).
NextInTurn ==
    Remembered =>
        Heads(Rotated(InOrder(listed), StartOf(Watched, Cardinality(listed))))
            = {After(listed, turn.head)}

\* An account that has quota again, and that neither its user has disabled nor
\* the upstream has had banned, becomes a candidate again and stays one, also
\* after errors that made it unavailable: once the list does not change any
\* more the polling reaches every account on it, wherever the changes and the
\* batches that failed have left its cursor (batch.rs).  A banned account is
\* not on the list: polling alone never brings it back.
SpentAccountsReturn ==
    \A a \in Accounts :
        <>[](a \in quota \ Skipped) => <>[](a \in listed)
=============================================================================
