---------------------------- MODULE BackendQueue ----------------------------
(***************************************************************************)
(* The HTTP backend (http/backend_runtime.rs): one thread takes requests   *)
(* from the listener and sends each to one of two bounded channels, for    *)
(* event streams and for the rest; a channel that stays full sends the     *)
(* request over to the other one, and if that stays full too the client is *)
(* told that the server is busy.  Each channel has its own workers.  The   *)
(* depth gauges of observability/metrics.rs are counters next to the       *)
(* channels, raised after a send and lowered after a receive.              *)
(*                                                                         *)
(* The listener and its connections are tiny_http's: a request waits there *)
(* until the accepting thread takes it, and a request that is dropped      *)
(* without an answer is answered with an error.                            *)
(***************************************************************************)
EXTENDS Integers, Sequences

CONSTANTS
    Requests,        \* HTTP requests
    NoRequest,       \* "no request"
    NormalWorkers,   \* http_worker_count() threads
    StreamWorkers,   \* http_stream_worker_count() threads
    NormalCapacity,  \* http_queue_size()
    StreamCapacity   \* http_stream_queue_size()

VARIABLES
    shutdown,  \* SHUTDOWN_REQUESTED
    incoming,  \* requests at the listener
    at,        \* where the accepting thread is
    request,   \* the request it deals with
    queue,     \* the channel it tries
    queued,    \* channel -> requests in it
    depth,     \* channel -> its depth gauge
    stage,     \* where each worker is
    job,       \* the request it has taken
    answer     \* what the client of each request was told

acceptorVars == <<at, request, queue>>
workerVars   == <<stage, job>>
vars == <<shutdown, incoming, at, request, queue, queued, depth, stage, job, answer>>

Workers == NormalWorkers \cup StreamWorkers
Queues  == {"normal", "stream"}

\* "sending" to the channel it prefers, "spilling" to the other one; "counting" has sent and
\* not yet raised the gauge; "bypass" handles a request itself; "stopped" left its loop.
Positions == {"accepting", "bypass", "sending", "spilling", "counting", "stopped"}
\* "received" has taken a request and not yet lowered the gauge.
Stages    == {"waiting", "received", "handling"}
\* "handled" by the handler, or dropped by one that panicked.
Answers   == {"none", "handled", "busy", "shutdown", "error"}

Capacity(q) == IF q = "normal" THEN NormalCapacity ELSE StreamCapacity
Other(q)    == IF q = "normal" THEN "stream" ELSE "normal"
QueueOf(w)  == IF w \in NormalWorkers THEN "normal" ELSE "stream"

Init == /\ shutdown = FALSE
        /\ incoming = {}
        /\ at = "accepting" /\ request = NoRequest /\ queue = "normal"
        /\ queued = [q \in Queues |-> <<>>]
        /\ depth = [q \in Queues |-> 0]
        /\ stage = [w \in Workers |-> "waiting"]
        /\ job = [w \in Workers |-> NoRequest]
        /\ answer = [r \in Requests |-> "none"]

Answer(r, what) == answer' = [answer EXCEPT ![r] = what]

-----------------------------------------------------------------------------
(* run_backend_server: the accepting thread                                 *)

NextRequest == at' = "accepting" /\ request' = NoRequest

\* A request is taken from the listener; whether it wants an event stream decides which
\* channel it prefers.  Health and metrics are handled on the spot.
Accepts(r, to) ==
    /\ at = "accepting" /\ r \in incoming /\ ~shutdown
    /\ incoming' = incoming \ {r}
    /\ request' = r
    /\ IF to = "bypass" THEN at' = "bypass" /\ UNCHANGED queue
                        ELSE at' = "sending" /\ queue' = to
    /\ UNCHANGED <<shutdown, queued, depth, workerVars, answer>>

Bypasses ==
    /\ at = "bypass"
    /\ Answer(request, "handled") /\ NextRequest
    /\ UNCHANGED <<shutdown, incoming, queue, queued, depth, workerVars>>

\* send_timeout finds room.
Sends ==
    /\ at \in {"sending", "spilling"} /\ Len(queued[queue]) < Capacity(queue)
    /\ queued' = [queued EXCEPT ![queue] = Append(@, request)]
    /\ at' = "counting"
    /\ UNCHANGED <<shutdown, incoming, request, queue, depth, workerVars, answer>>

\* A plausible slip: the request stays in the channel whose send timed out.
SentTwice == queued' = [queued EXCEPT ![queue] = Append(@, request)]
NotSent   == UNCHANGED queued

\* The channel stays full for the whole timeout: the other one is tried.
SpillsOver ==
    /\ at = "sending" /\ Len(queued[queue]) >= Capacity(queue)
    /\ NotSent
    /\ at' = "spilling" /\ queue' = Other(queue)
    /\ UNCHANGED <<shutdown, incoming, request, depth, workerVars, answer>>

\* Both stayed full: 503.
Refuses ==
    /\ at = "spilling" /\ Len(queued[queue]) >= Capacity(queue)
    /\ Answer(request, "busy") /\ NextRequest
    /\ UNCHANGED <<shutdown, incoming, queue, queued, depth, workerVars>>

\* A plausible slip: the gauge of the preferred channel is raised after a spill-over as well.
OtherCounted == Other(queue)
Counted == queue

\* record_http_queue_enqueue, after the send: a worker may have been faster.
Counts ==
    /\ at = "counting"
    /\ depth' = [depth EXCEPT ![Counted] = @ + 1]
    /\ NextRequest
    /\ UNCHANGED <<shutdown, incoming, queue, queued, workerVars, answer>>

\* A request for /__shutdown ends the loop, whoever sent it, and so does any request once the
\* flag is raised.
StopsAt(r) ==
    /\ at = "accepting" /\ r \in incoming
    /\ incoming' = incoming \ {r}
    /\ Answer(r, "shutdown")
    /\ at' = "stopped"
    /\ UNCHANGED <<shutdown, request, queue, queued, depth, workerVars>>

\* So does the request of wake_backend_shutdown, which follows the flag.
StopsWhenWoken ==
    /\ at = "accepting" /\ shutdown
    /\ at' = "stopped"
    /\ UNCHANGED <<shutdown, incoming, request, queue, queued, depth, workerVars, answer>>

\* With the loop goes the listener: nobody takes what still comes in.  The connection may
\* stay open for long after that.
Drops(r) ==
    /\ at = "stopped" /\ r \in incoming
    /\ incoming' = incoming \ {r}
    /\ Answer(r, "error")
    /\ UNCHANGED <<shutdown, acceptorVars, queued, depth, workerVars>>

-----------------------------------------------------------------------------
(* spawn_request_workers: the workers                                       *)

\* Also after the accepting thread has dropped its end: what is in the channel is drained.
Receives(w) ==
    LET q == QueueOf(w)
    IN  /\ stage[w] = "waiting" /\ queued[q] # <<>>
        /\ job' = [job EXCEPT ![w] = Head(queued[q])]
        /\ queued' = [queued EXCEPT ![q] = Tail(@)]
        /\ stage' = [stage EXCEPT ![w] = "received"]
        /\ UNCHANGED <<shutdown, incoming, acceptorVars, depth, answer>>

\* record_http_queue_dequeue: saturates at 0.
CountsDown(w) ==
    /\ stage[w] = "received"
    /\ depth' = [depth EXCEPT ![QueueOf(w)] = IF @ = 0 THEN 0 ELSE @ - 1]
    /\ stage' = [stage EXCEPT ![w] = "handling"]
    /\ UNCHANGED <<shutdown, incoming, acceptorVars, queued, job, answer>>

\* A plausible slip: a handler that panics takes its thread with it.
DiesWithPanic(w) == stage' \in {stage, [stage EXCEPT ![w] = "waiting"]}
WaitsAgain(w) == stage' = [stage EXCEPT ![w] = "waiting"]

\* handle_backend_request_safely: the worker goes on whether the handler returns or panics.
Finishes(w) ==
    /\ stage[w] = "handling" /\ job[w] # NoRequest
    /\ WaitsAgain(w)
    /\ job' = [job EXCEPT ![w] = NoRequest]
    /\ Answer(job[w], "handled")
    /\ UNCHANGED <<shutdown, incoming, acceptorVars, queued, depth>>

-----------------------------------------------------------------------------

TypeOK ==
    /\ shutdown \in BOOLEAN
    /\ incoming \in SUBSET Requests
    /\ at \in Positions
    /\ request \in Requests \cup {NoRequest}
    /\ queue \in Queues
    /\ queued \in [Queues -> Seq(Requests)]
    /\ depth \in [Queues -> Nat]
    /\ stage \in [Workers -> Stages]
    /\ job \in [Workers -> Requests \cup {NoRequest}]
    /\ answer \in [Requests -> Answers]
    /\ at \in {"accepting", "stopped"} <=> request = NoRequest
    /\ \A w \in Workers : stage[w] = "waiting" <=> job[w] = NoRequest
=============================================================================
