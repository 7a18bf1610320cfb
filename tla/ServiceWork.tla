----------------------------- MODULE ServiceWork -----------------------------
(***************************************************************************)
(* The work of a running service and how it ends: the front proxy          *)
(* (http/proxy_runtime.rs, http/proxy_bridge.rs) forwards requests to the  *)
(* backend, whose workers ask for usage refreshes while they handle them   *)
(* (gateway/upstream/support/outcome.rs), and a shutdown                   *)
(* (lifecycle/shutdown.rs, http/server.rs) lets the front proxy finish     *)
(* what it has begun before it wakes the backend and the process ends.     *)
(* BackendQueue and UsageQueue are composed; the front proxy's server is   *)
(* axum's, which stops accepting and waits for its open requests.          *)
(***************************************************************************)
EXTENDS Integers, Sequences, FiniteSets

CONSTANTS
    MaxRequests,      \* bound of the model: HTTP requests in a life of the service
    MaxAsks,          \* bound of the model: refreshes asked for in a life of the service
    NoRequest, NormalWorkers, StreamWorkers, NormalCapacity, StreamCapacity,
    Accounts, NoAccount, UsageWorkers

ASSUME BoundsAssumption == MaxRequests \in Nat /\ MaxAsks \in Nat
ASSUME NoneAssumption == NoRequest \notin 1 .. MaxRequests /\ NoAccount \notin Accounts
ASSUME WorkersAssumption == /\ NormalWorkers \cap StreamWorkers = {}
                            /\ IsFiniteSet(NormalWorkers) /\ IsFiniteSet(StreamWorkers)
ASSUME CapacityAssumption == NormalCapacity \in Nat \ {0} /\ StreamCapacity \in Nat \ {0}

VARIABLES
    shutdown, incoming, at, request, queue, queued, depth, stage, job, answer,
    pending, marked, tasks, running, ran,
    arrived,  \* requests the front proxy has accepted so far
    front,    \* "open", "draining" or "closed"
    exited,   \* start_server has returned, and the process ends
    asked     \* refreshes asked for

\* Requests are numbered as they arrive.
Requests == 1 .. MaxRequests

Backend == INSTANCE BackendQueue
Usage   == INSTANCE UsageQueue WITH Askers <- NormalWorkers \cup StreamWorkers

Workers == Backend!Workers
backendVars == <<shutdown, incoming, at, request, queue, queued, depth, stage, job, answer>>
usageVars   == <<pending, marked, tasks, running, ran>>
frontVars   == <<arrived, front, exited, asked>>
vars == <<backendVars, usageVars, frontVars>>

Init == /\ Backend!Init /\ Usage!Init
        /\ arrived = 0 /\ front = "open" /\ exited = FALSE /\ asked = 0

Open == {r \in 1 .. arrived : answer[r] = "none"}

-----------------------------------------------------------------------------
(* The front proxy and the shutdown                                         *)

\* The front proxy accepts a request and forwards it.
Arrives ==
    /\ front = "open" /\ arrived < MaxRequests
    /\ arrived' = arrived + 1
    /\ incoming' = incoming \cup {arrived + 1}
    /\ UNCHANGED <<shutdown, at, request, queue, queued, depth, stage, job, answer,
                   usageVars, front, exited, asked>>

\* It answers a request whose body is too large itself, as it does the RPC calls.
Answered(r) ==
    /\ r \in incoming
    /\ incoming' = incoming \ {r}
    /\ answer' = [answer EXCEPT ![r] = "handled"]
    /\ UNCHANGED <<shutdown, at, request, queue, queued, depth, stage, job,
                   usageVars, arrived, front, exited, asked>>

\* request_shutdown in the process of the service.  Called in another one, by codexmanager-web or
\* codexmanager-start, it is a request for /__shutdown like any other.
RequestShutdown ==
    /\ ~shutdown
    /\ shutdown' = TRUE
    /\ UNCHANGED <<incoming, at, request, queue, queued, depth, stage, job, answer,
                   usageVars, arrived, front, exited, asked>>

\* wait_for_shutdown_signal polls the flag.
FrontDrains ==
    /\ front = "open" /\ shutdown
    /\ front' = "draining"
    /\ UNCHANGED <<backendVars, usageVars, arrived, exited, asked>>

\* axum's graceful shutdown: every connection has its answer.
NothingOpen == Open = {}

FrontCloses ==
    /\ front = "draining" /\ NothingOpen
    /\ front' = "closed"
    /\ UNCHANGED <<backendVars, usageVars, arrived, exited, asked>>

\* start_http wakes the backend, joins its accepting thread and returns; nobody waits for the
\* workers of either queue.
Exits ==
    /\ front = "closed" /\ at = "stopped" /\ ~exited
    /\ exited' = TRUE
    /\ UNCHANGED <<backendVars, usageVars, arrived, front, asked>>

-----------------------------------------------------------------------------
(* The composition                                                          *)

Accepts(r) == /\ \E to \in Backend!Queues \cup {"bypass"} : Backend!Accepts(r, to)
              /\ UNCHANGED <<usageVars, frontVars>>
Bypasses   == Backend!Bypasses   /\ UNCHANGED <<usageVars, frontVars>>
Sends      == Backend!Sends      /\ UNCHANGED <<usageVars, frontVars>>
SpillsOver == Backend!SpillsOver /\ UNCHANGED <<usageVars, frontVars>>
Refuses    == Backend!Refuses    /\ UNCHANGED <<usageVars, frontVars>>
Counts     == Backend!Counts     /\ UNCHANGED <<usageVars, frontVars>>
StopsAt(r) == Backend!StopsAt(r) /\ UNCHANGED <<usageVars, frontVars>>
Drops(r)   == Backend!Drops(r)   /\ UNCHANGED <<usageVars, frontVars>>

\* wake_backend_shutdown, once the front proxy has returned.
Woken == front = "closed" /\ Backend!StopsWhenWoken /\ UNCHANGED <<usageVars, frontVars>>

Receives(w)   == Backend!Receives(w)   /\ UNCHANGED <<usageVars, frontVars>>
CountsDown(w) == Backend!CountsDown(w) /\ UNCHANGED <<usageVars, frontVars>>

\* The handler of a request asks for a refresh of the account that was rate limited or
\* failed ...
AsksForRefresh(w, a) ==
    /\ stage[w] = "handling" /\ asked < MaxAsks
    /\ Usage!Marks(w, a) \/ Usage!FindsPending(w, a)
    /\ asked' = asked + 1
    /\ UNCHANGED <<backendVars, arrived, front, exited>>

SendsTask(w) == Usage!SendsTask(w) /\ UNCHANGED <<backendVars, frontVars>>

\* ... and goes on when the task is in the channel.
Finishes(w) ==
    /\ marked[w] = NoAccount
    /\ Backend!Finishes(w) /\ UNCHANGED <<usageVars, frontVars>>

TakesTask(u)  == Usage!TakesTask(u)  /\ UNCHANGED <<backendVars, frontVars>>
EndsTask(u)   == Usage!EndsTask(u)   /\ UNCHANGED <<backendVars, frontVars>>
ClearsMark(u) == Usage!ClearsMark(u) /\ UNCHANGED <<backendVars, frontVars>>

Acceptor == \/ \E r \in Requests : Accepts(r) \/ StopsAt(r)
            \/ Bypasses \/ Sends \/ SpillsOver \/ Refuses \/ Counts \/ Woken

Worker(w) == Receives(w) \/ CountsDown(w) \/ SendsTask(w) \/ Finishes(w)

UsageWorker(u) == TakesTask(u) \/ EndsTask(u) \/ ClearsMark(u)

Front == FrontDrains \/ FrontCloses \/ Exits

\* The process ends with start_server: its other threads do not outlive it.
Next == /\ ~exited
        /\ \/ Arrives \/ RequestShutdown \/ Front \/ Acceptor
           \/ \E r \in Requests : Answered(r) \/ Drops(r)
           \/ \E w \in Workers : Worker(w) \/ \E a \in Accounts : AsksForRefresh(w, a)
           \/ \E u \in UsageWorkers : UsageWorker(u)

\* Threads are scheduled, handlers and refreshes end (their upstream calls have timeouts), and
\* the signal is polled.  Nobody need send a request or ask for a shutdown, and nothing says
\* when the connection of a dropped request is closed.
Fairness == /\ WF_vars(~exited /\ Acceptor)
            /\ \A w \in Workers : WF_vars(~exited /\ Worker(w))
            /\ \A u \in UsageWorkers : WF_vars(~exited /\ UsageWorker(u))
            /\ WF_vars(~exited /\ Front)

Spec == Init /\ [][Next]_vars
FairSpec == Spec /\ Fairness

-----------------------------------------------------------------------------

TypeOK ==
    /\ Backend!TypeOK /\ Usage!TypeOK
    /\ arrived \in 0 .. MaxRequests
    /\ front \in {"open", "draining", "closed"}
    /\ exited \in BOOLEAN
    /\ asked \in 0 .. MaxAsks
    /\ front = "open" \/ shutdown

\* Where a request can be.
ByAcceptor(r)      == at \in {"bypass", "sending", "spilling"} /\ request = r
InChannel(r, q, i) == i \in 1 .. Len(queued[q]) /\ queued[q][i] = r
ByWorker(r, w)     == job[w] = r
Somewhere(r) == \/ r \in incoming \/ ByAcceptor(r)
                \/ \E q \in Backend!Queues : \E i \in 1 .. Len(queued[q]) : InChannel(r, q, i)
                \/ \E w \in Workers : ByWorker(r, w)

\* The requests without an answer are those that somebody holds ...
EachSomewhere ==
    \A r \in Requests : /\ Somewhere(r) <=> r <= arrived /\ answer[r] = "none"
                        /\ r > arrived => answer[r] = "none"

\* ... and each is in one place only.
AcceptorAlone == \A r \in Requests : ByAcceptor(r) => r \notin incoming
ChannelAlone ==
    \A r \in Requests : \A q \in Backend!Queues : \A i \in 1 .. Len(queued[q]) :
       InChannel(r, q, i) =>
          /\ r \notin incoming /\ ~ByAcceptor(r)
          /\ \A p \in Backend!Queues : \A j \in 1 .. Len(queued[p]) :
                InChannel(r, p, j) => p = q /\ j = i
WorkerAlone ==
    \A r \in Requests : \A w \in Workers :
       ByWorker(r, w) =>
          /\ r \notin incoming /\ ~ByAcceptor(r)
          /\ \A q \in Backend!Queues : \A i \in 1 .. Len(queued[q]) : ~InChannel(r, q, i)
          /\ \A v \in Workers : ByWorker(r, v) => v = w

\* No spill-over, timeout, panic or shutdown loses a request or lets two threads answer it
\* (enqueue_request, handle_backend_request_safely).
InOnePlace == EachSomewhere /\ AcceptorAlone /\ ChannelAlone /\ WorkerAlone

\* What a queue's workers have taken without telling its gauge.
Uncounted(q) == {w \in Workers : Backend!QueueOf(w) = q /\ stage[w] = "received"}

\* A depth gauge is never behind the backlog of its channel by more than the one request that
\* the accepting thread is about to count: a lag never lasts (record_http_queue_enqueue comes
\* after the send, and atomic_dec_saturating forgets what it cannot subtract).
GaugeCoversBacklog ==
    \A q \in Backend!Queues :
       depth[q] + (IF at = "counting" /\ queue = q THEN 1 ELSE 0)
          >= Len(queued[q]) + Cardinality(Uncounted(q))

\* Who holds the task of an account.
Entering(a, k) == marked[k] = a
Waiting(a, i)  == tasks[i] = a
Running(a, u)  == running[u] = a

PendingIsHeld ==
    \A a \in Accounts : a \in pending <=> \/ \E k \in Workers : Entering(a, k)
                                          \/ \E i \in 1 .. Len(tasks) : Waiting(a, i)
                                          \/ \E u \in UsageWorkers : Running(a, u)
EnteringAlone ==
    \A a \in Accounts : \A k \in Workers :
       Entering(a, k) => /\ \A l \in Workers : Entering(a, l) => l = k
                         /\ \A i \in 1 .. Len(tasks) : ~Waiting(a, i)
                         /\ \A u \in UsageWorkers : ~Running(a, u)
WaitingAlone ==
    \A a \in Accounts : \A i \in 1 .. Len(tasks) :
       Waiting(a, i) => /\ \A j \in 1 .. Len(tasks) : Waiting(a, j) => j = i
                        /\ \A u \in UsageWorkers : ~Running(a, u)
RunningAlone ==
    \A a \in Accounts : \A u \in UsageWorkers :
       Running(a, u) => \A v \in UsageWorkers : Running(a, v) => v = u

\* A pending account is held exactly once, by a thread about to send its task, in the channel
\* or at a worker: a refresh is neither run twice at a time nor refused because of a mark that
\* nothing will take back (enqueue_usage_refresh_with_worker, usage_refresh_worker_loop).
OneTaskPerAccount == PendingIsHeld /\ EnteringAlone /\ WaitingAlone /\ RunningAlone

\* Left at the listener of a backend that has stopped.
Stranded(r) == at = "stopped" /\ r \in incoming

\* Every request is answered, though its handler may panic, its channel may be full and the
\* service may be shutting down; only one that comes too late for the accepting thread need
\* not be (run_backend_server, spawn_request_workers).
EveryoneAnswered ==
    \A r \in Requests : r <= arrived ~> answer[r] # "none" \/ Stranded(r)

\* The pending mark of an account goes in the end, though refreshes may panic
\* (usage_refresh_worker_loop): the account can be refreshed again.
RefreshesEnd ==
    \A a \in Accounts : a \in pending ~> a \notin pending \/ exited

\* The front proxy waits for the backend's answers, the accepting thread for the front proxy's
\* end, and start_http for both: a shutdown comes to its end all the same, unless a request is
\* stranded (start_http, wake_backend_shutdown).
ShutdownEnds == shutdown ~> exited \/ \E r \in Requests : Stranded(r)

\* A request for /__shutdown that the backend has answered ends the service, as its senders
\* expect (stop_existing_service_best_effort, shutdown_existing_service).
ShutdownObeyed ==
    \A r \in Requests : answer[r] = "shutdown" ~> exited \/ \E s \in Requests : Stranded(s)
=============================================================================
