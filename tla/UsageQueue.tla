----------------------------- MODULE UsageQueue -----------------------------
(***************************************************************************)
(* The queue of usage refreshes (usage/refresh/queue.rs).  Whoever wants   *)
(* the usage of an account refreshed enters it in a set of pending         *)
(* accounts, and sends a task to an unbounded channel only if it was not   *)
(* there yet; a worker runs the task, catching its panic, and takes the    *)
(* account out of the set afterwards.                                      *)
(***************************************************************************)
EXTENDS Sequences

CONSTANTS
    Accounts,      \* account identifiers
    NoAccount,     \* "no account"
    Askers,        \* threads that ask for refreshes
    UsageWorkers   \* usage_refresh_worker_count() threads

VARIABLES
    pending,  \* PENDING_USAGE_REFRESH_TASKS
    marked,   \* asker -> account it has entered and not sent yet
    tasks,    \* the channel
    running,  \* worker -> account it refreshes
    ran       \* worker -> its task is over, the account not yet taken out

vars == <<pending, marked, tasks, running, ran>>

Init == /\ pending = {}
        /\ marked = [k \in Askers |-> NoAccount]
        /\ tasks = <<>>
        /\ running = [u \in UsageWorkers |-> NoAccount]
        /\ ran = [u \in UsageWorkers |-> FALSE]

\* A plausible slip: the set is looked at and changed under separate locks.
SeenFresh(a) == TRUE
IsFresh(a) == a \notin pending

\* enqueue_usage_refresh_with_worker, up to the insert: one of those who ask at the same
\* time finds the account new ...
Marks(k, a) ==
    /\ marked[k] = NoAccount /\ IsFresh(a)
    /\ pending' = pending \cup {a}
    /\ marked' = [marked EXCEPT ![k] = a]
    /\ UNCHANGED <<tasks, running, ran>>

\* ... and the others are told that it is there.
FindsPending(k, a) ==
    /\ marked[k] = NoAccount /\ a \in pending
    /\ UNCHANGED vars

\* The send fails only when no worker could be started; then the mark goes again.
SendsTask(k) ==
    /\ marked[k] # NoAccount
    /\ marked' = [marked EXCEPT ![k] = NoAccount]
    /\ IF UsageWorkers = {} THEN pending' = pending \ {marked[k]} /\ UNCHANGED tasks
                            ELSE tasks' = Append(tasks, marked[k]) /\ UNCHANGED pending
    /\ UNCHANGED <<running, ran>>

TakesTask(u) ==
    /\ running[u] = NoAccount /\ tasks # <<>>
    /\ running' = [running EXCEPT ![u] = Head(tasks)]
    /\ tasks' = Tail(tasks)
    /\ UNCHANGED <<pending, marked, ran>>

\* A plausible slip: the panic of a task goes through to the worker's loop.
LeavesLoop(u) == UNCHANGED ran
StaysInLoop(u) == ran' = [ran EXCEPT ![u] = TRUE]

\* The task returns or panics.
EndsTask(u) ==
    /\ running[u] # NoAccount /\ ~ran[u]
    /\ StaysInLoop(u)
    /\ UNCHANGED <<pending, marked, tasks, running>>

ClearsMark(u) ==
    /\ ran[u]
    /\ pending' = pending \ {running[u]}
    /\ running' = [running EXCEPT ![u] = NoAccount]
    /\ ran' = [ran EXCEPT ![u] = FALSE]
    /\ UNCHANGED <<marked, tasks>>

-----------------------------------------------------------------------------

TypeOK ==
    /\ pending \in SUBSET Accounts
    /\ marked \in [Askers -> Accounts \cup {NoAccount}]
    /\ tasks \in Seq(Accounts)
    /\ running \in [UsageWorkers -> Accounts \cup {NoAccount}]
    /\ ran \in [UsageWorkers -> BOOLEAN]
    /\ \A u \in UsageWorkers : ran[u] => running[u] # NoAccount
=============================================================================
