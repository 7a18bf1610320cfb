---------------------------- MODULE UsagePolling ----------------------------
(***************************************************************************)
(* The polling of the accounts' usage (usage/refresh/batch.rs): a batch of *)
(* at most BatchLimit accounts from the cursor on, shared out among        *)
(* workers that live as long as the batch.  The cursor moves only when no  *)
(* worker has failed.  A worker fails when it cannot open the storage or   *)
(* when a refresh panics; a panic on the polling thread itself restarts    *)
(* its loop, which leaves the cursor where it is as well.                  *)
(***************************************************************************)
EXTENDS Integers, Sequences, FiniteSets

CONSTANTS
    BatchLimit,     \* CODEXMANAGER_USAGE_POLL_BATCH_LIMIT; 0 for all
    PollWorkers     \* usage refresh workers

ASSUME PollingAssumption ==
    /\ BatchLimit \in Nat
    /\ PollWorkers \in Nat \ {0}

VARIABLES
    cursor,     \* USAGE_POLL_CURSOR
    batch       \* NoBatch, or the batch that is running

pollingVars == <<cursor, batch>>

NoBatch == [todo |-> {}, workers |-> 0, failed |-> FALSE, next |-> 0, runs |-> FALSE]

PollingInit ==
    /\ cursor = 0
    /\ batch = NoBatch

-----------------------------------------------------------------------------

AtMost(n, bound) == IF n < bound THEN n ELSE bound

BatchSize(total) == IF BatchLimit = 0 THEN total ELSE AtMost(BatchLimit, total)

\* usage_poll_batch_indices.
Selected(list) ==
    {list[((cursor + offset) % Len(list)) + 1] : offset \in 0 .. BatchSize(Len(list)) - 1}

\* A plausible slip: the cursor moves on by the whole list.
WholeListCursor(total) == ((cursor % total) + total) % total

\* next_usage_poll_cursor.
NextCursor(total) == ((cursor % total) + BatchSize(total)) % total

Begins(list) ==
    /\ ~batch.runs
    /\ list # <<>>
    /\ batch' = [todo |-> Selected(list),
                 workers |-> AtMost(PollWorkers, BatchSize(Len(list))),
                 failed |-> FALSE,
                 next |-> NextCursor(Len(list)),
                 runs |-> TRUE]
    /\ UNCHANGED cursor

\* A worker is done with the account, whatever came of it.
Polled(a) ==
    /\ a \in batch.todo
    /\ batch.workers > 0
    /\ batch' = [batch EXCEPT !.todo = @ \ {a}]
    /\ UNCHANGED cursor

\* A worker ends early, before its first account or with the one it holds.
WorkerFails ==
    /\ batch.workers > 0
    /\ \E lost \in {{}} \cup {{a} : a \in batch.todo} :
           batch' = [batch EXCEPT !.workers = @ - 1,
                                  !.failed = TRUE,
                                  !.todo = @ \ lost]
    /\ UNCHANGED cursor

Ends ==
    /\ batch.runs
    /\ batch.todo = {} \/ batch.workers = 0
    /\ cursor' = IF batch.failed THEN cursor ELSE batch.next
    /\ batch' = NoBatch
=============================================================================
