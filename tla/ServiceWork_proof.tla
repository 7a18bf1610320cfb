------------------------- MODULE ServiceWork_proof -------------------------
(***************************************************************************)
(* Proofs for ServiceWork: for any number of requests, workers, accounts   *)
(* and any capacity, a request is in one place until it is answered, an    *)
(* account has at most one task, and no gauge stays behind its channel.    *)
(***************************************************************************)
EXTENDS ServiceWork, FiniteSetTheorems, TLAPS

-----------------------------------------------------------------------------
(* Types                                                                    *)

\* What the steps of the backend change, and what those of the usage queue change.
BackendTypes == Backend!TypeOK
UsageTypes   == Usage!TypeOK
FrontTypes   == /\ arrived \in 0 .. MaxRequests
                /\ front \in {"open", "draining", "closed"}
                /\ exited \in BOOLEAN
                /\ asked \in 0 .. MaxAsks
                /\ front = "open" \/ shutdown

LEMMA HeadAndTail ==
    ASSUME NEW S, NEW s \in Seq(S), s # <<>>
    PROVE  /\ Len(s) \in Nat \ {0} /\ Len(Tail(s)) = Len(s) - 1
           /\ Head(s) \in S /\ Head(s) = s[1]
           /\ Tail(s) \in Seq(S) /\ \A i \in 1 .. Len(Tail(s)) : Tail(s)[i] = s[i + 1]
OBVIOUS

\* The acceptor's steps keep the types of the backend.
LEMMA AcceptorTypes == BackendTypes /\ Acceptor => BackendTypes'
<1> SUFFICES ASSUME BackendTypes, Acceptor PROVE BackendTypes'
  OBVIOUS
<1> USE NoneAssumption, CapacityAssumption
        DEF BackendTypes, Backend!TypeOK, Backend!Workers, Workers, Requests, Backend!Queues,
            Backend!Positions, Backend!Stages, Backend!Answers, Backend!workerVars,
            Backend!acceptorVars, Backend!Answer, Backend!NextRequest
<1>1. CASE \E r \in Requests : Accepts(r)
  BY <1>1 DEF Accepts, Backend!Accepts
<1>2. CASE \E r \in Requests : StopsAt(r)
  BY <1>2 DEF StopsAt, Backend!StopsAt
<1>3. CASE Bypasses
  BY <1>3 DEF Bypasses, Backend!Bypasses
<1>4. CASE Sends
  BY <1>4 DEF Sends, Backend!Sends
<1>5. CASE SpillsOver
  BY <1>5 DEF SpillsOver, Backend!SpillsOver, Backend!NotSent, Backend!Other
<1>6. CASE Refuses
  BY <1>6 DEF Refuses, Backend!Refuses
<1>7. CASE Counts
  BY <1>7 DEF Counts, Backend!Counts, Backend!Counted
<1>8. CASE Woken
  BY <1>8 DEF Woken, Backend!StopsWhenWoken
<1> QED
  BY <1>1, <1>2, <1>3, <1>4, <1>5, <1>6, <1>7, <1>8 DEF Acceptor

\* The workers' steps keep the types of the backend.
LEMMA WorkerTypes ==
    ASSUME BackendTypes, NEW w \in Workers, Receives(w) \/ CountsDown(w) \/ Finishes(w)
    PROVE  BackendTypes'
<1> USE NoneAssumption, CapacityAssumption
        DEF BackendTypes, Backend!TypeOK, Backend!Workers, Workers, Requests, Backend!Queues,
            Backend!Positions, Backend!Stages, Backend!Answers, Backend!workerVars,
            Backend!acceptorVars, Backend!Answer, Backend!QueueOf
<1>1. CASE Receives(w)
  <2> DEFINE q == Backend!QueueOf(w)
  <2>1. queued[q] \in Seq(Requests) /\ queued[q] # <<>> /\ q \in {"normal", "stream"}
    BY <1>1 DEF Receives, Backend!Receives
  <2>2. Head(queued[q]) \in Requests /\ Tail(queued[q]) \in Seq(Requests)
    BY <2>1, HeadAndTail
  <2>3. /\ job' = [job EXCEPT ![w] = Head(queued[q])]
        /\ queued' = [queued EXCEPT ![q] = Tail(@)]
        /\ stage' = [stage EXCEPT ![w] = "received"]
        /\ UNCHANGED <<shutdown, incoming, at, request, queue, depth, answer>>
    BY <1>1 DEF Receives, Backend!Receives
  <2> QED
    BY <2>1, <2>2, <2>3
<1>2. CASE CountsDown(w)
  BY <1>2 DEF CountsDown, Backend!CountsDown
<1>3. CASE Finishes(w)
  BY <1>3 DEF Finishes, Backend!Finishes, Backend!WaitsAgain
<1> QED
  BY <1>1, <1>2, <1>3

\* The usage queue's steps keep its types.
LEMMA UsageQueueTypes ==
    ASSUME UsageTypes,
           \/ \E w \in Workers : SendsTask(w) \/ \E a \in Accounts : AsksForRefresh(w, a)
           \/ \E u \in UsageWorkers : UsageWorker(u)
    PROVE  UsageTypes'
<1> USE NoneAssumption DEF UsageTypes, Usage!TypeOK, Usage!vars, Backend!Workers, Workers
<1>1. CASE \E w \in Workers : SendsTask(w)
  BY <1>1 DEF SendsTask, Usage!SendsTask
<1>2. CASE \E w \in Workers, a \in Accounts : AsksForRefresh(w, a)
  BY <1>2 DEF AsksForRefresh, Usage!Marks, Usage!FindsPending, Usage!IsFresh
<1>3. ASSUME NEW u \in UsageWorkers, TakesTask(u)
      PROVE  UsageTypes'
  <2>1. Head(tasks) \in Accounts /\ Tail(tasks) \in Seq(Accounts)
    BY <1>3 DEF TakesTask, Usage!TakesTask
  <2> QED
    BY <1>3, <2>1 DEF TakesTask, Usage!TakesTask
<1>4. CASE \E u \in UsageWorkers : EndsTask(u)
  BY <1>4 DEF EndsTask, Usage!EndsTask, Usage!StaysInLoop
<1>5. CASE \E u \in UsageWorkers : ClearsMark(u)
  BY <1>5 DEF ClearsMark, Usage!ClearsMark
<1> QED
  BY <1>1, <1>2, <1>3, <1>4, <1>5 DEF UsageWorker

\* Which variables a step leaves alone.
LEMMA BackendStepsLeaveUsage ==
    ASSUME \/ Arrives \/ RequestShutdown \/ Front \/ Acceptor
           \/ \E r \in Requests : Answered(r) \/ Drops(r)
           \/ \E w \in Workers : Receives(w) \/ CountsDown(w) \/ Finishes(w)
    PROVE  UNCHANGED usageVars
BY DEF Arrives, RequestShutdown, Front, FrontDrains, FrontCloses, Exits, Acceptor, Accepts, StopsAt,
       Bypasses, Sends, SpillsOver, Refuses, Counts, Woken, Answered, Drops, Receives, CountsDown,
       Finishes

LEMMA UsageStepsLeaveBackend ==
    ASSUME \/ \E w \in Workers : SendsTask(w) \/ \E a \in Accounts : AsksForRefresh(w, a)
           \/ \E u \in UsageWorkers : UsageWorker(u)
    PROVE  UNCHANGED <<backendVars, arrived, front, exited>>
BY DEF SendsTask, AsksForRefresh, UsageWorker, TakesTask, EndsTask, ClearsMark, frontVars

LEMMA TypeStep == TypeOK /\ [Next]_vars => TypeOK'
<1> SUFFICES ASSUME TypeOK, [Next]_vars PROVE TypeOK'
  OBVIOUS
<1>0. BackendTypes /\ UsageTypes /\ FrontTypes
  BY DEF TypeOK, BackendTypes, UsageTypes, FrontTypes
<1>1. BackendTypes'
  <2> USE DEF BackendTypes, Backend!TypeOK, Requests, backendVars
  <2>1. CASE Arrives
    BY <1>0, <2>1, BoundsAssumption DEF Arrives, FrontTypes
  <2>2. CASE RequestShutdown
    BY <1>0, <2>2 DEF RequestShutdown
  <2>3. CASE Front
    BY <1>0, <2>3 DEF Front, FrontDrains, FrontCloses, Exits
  <2>4. CASE \E r \in Requests : Answered(r)
    BY <1>0, <2>4 DEF Answered, Backend!Answers
  <2>5. CASE \E r \in Requests : Drops(r)
    BY <1>0, <2>5 DEF Drops, Backend!Drops, Backend!Answer, Backend!Answers, Backend!acceptorVars,
                      Backend!workerVars
  <2>6. CASE vars' = vars
    BY <1>0, <2>6 DEF vars
  <2> QED
    BY <1>0, <2>1, <2>2, <2>3, <2>4, <2>5, <2>6, AcceptorTypes, WorkerTypes, UsageStepsLeaveBackend
       DEF Next, Worker
<1>2. UsageTypes'
  BY <1>0, UsageQueueTypes, BackendStepsLeaveUsage
     DEF Next, Worker, vars, usageVars, UsageTypes, Usage!TypeOK
<1>3. FrontTypes'
  <2> USE DEF FrontTypes
  <2>1. CASE Arrives
    BY <1>0, <2>1, BoundsAssumption DEF Arrives
  <2>2. CASE RequestShutdown
    BY <1>0, <2>2 DEF RequestShutdown
  <2>3. CASE Front
    BY <1>0, <2>3 DEF Front, FrontDrains, FrontCloses, Exits, backendVars
  <2>4. CASE \E w \in Workers, a \in Accounts : AsksForRefresh(w, a)
    BY <1>0, <2>4, BoundsAssumption DEF AsksForRefresh, backendVars
  <2>5. CASE \/ Acceptor \/ \E r \in Requests : Answered(r) \/ Drops(r)
             \/ \E w \in Workers : Worker(w)
             \/ \E u \in UsageWorkers : UsageWorker(u)
    <3>1. UNCHANGED frontVars /\ UNCHANGED shutdown
      BY <2>5 DEF Acceptor, Accepts, StopsAt, Bypasses, Sends, SpillsOver, Refuses, Counts, Woken,
           Answered, Drops, Worker, Receives, CountsDown, Finishes, SendsTask, UsageWorker, TakesTask,
           EndsTask, ClearsMark, frontVars, backendVars, Backend!Accepts, Backend!StopsAt,
           Backend!Bypasses, Backend!Sends, Backend!SpillsOver, Backend!Refuses, Backend!Counts,
           Backend!StopsWhenWoken, Backend!Drops, Backend!Receives, Backend!CountsDown,
           Backend!Finishes
    <3> QED
      BY <1>0, <3>1 DEF frontVars
  <2>6. CASE vars' = vars
    BY <1>0, <2>6 DEF vars, frontVars, backendVars
  <2> QED
    BY <2>1, <2>2, <2>3, <2>4, <2>5, <2>6 DEF Next
<1> QED
  BY <1>1, <1>2, <1>3 DEF TypeOK, BackendTypes, UsageTypes, FrontTypes

LEMMA TypeInitially == Init => TypeOK
<1> SUFFICES ASSUME Init PROVE TypeOK
  OBVIOUS
<1>1. Backend!TypeOK
  <2>1. queued \in [Backend!Queues -> Seq(Requests)]
    <3>1. queued = [q \in Backend!Queues |-> <<>>]
      BY DEF Init, Backend!Init
    <3>2. <<>> \in Seq(Requests)
      OBVIOUS
    <3> QED
      BY <3>1, <3>2
  <2> QED
    BY <2>1, NoneAssumption
       DEF Init, Backend!Init, Backend!TypeOK, Backend!Queues, Backend!Positions, Backend!Stages,
           Backend!Answers, Requests
<1>2. Usage!TypeOK
  <2>1. <<>> \in Seq(Accounts)
    OBVIOUS
  <2> QED
    BY <2>1, NoneAssumption DEF Init, Usage!Init, Usage!TypeOK, Backend!Workers, Workers
<1>3. FrontTypes
  <2>1. arrived = 0 /\ asked = 0 /\ front = "open" /\ exited = FALSE
    BY DEF Init
  <2>2. shutdown \in BOOLEAN
    BY <1>1 DEF Backend!TypeOK
  <2>3. 0 \in 0 .. MaxRequests /\ 0 \in 0 .. MaxAsks
    BY BoundsAssumption
  <2> QED
    BY <2>1, <2>2, <2>3 DEF FrontTypes
<1> QED
  BY <1>1, <1>2, <1>3 DEF TypeOK, FrontTypes

\* Every value stays in its type.
THEOREM TypeCorrect == Spec => []TypeOK
BY TypeInitially, TypeStep, PTL DEF Spec

-----------------------------------------------------------------------------
(* The usage queue                                                          *)

LEMMA AppendedTask ==
    ASSUME NEW S, NEW s \in Seq(S), NEW x \in S
    PROVE  /\ Append(s, x) \in Seq(S) /\ Len(Append(s, x)) = Len(s) + 1 /\ Len(s) \in Nat
           /\ \A i \in 1 .. Len(s) : Append(s, x)[i] = s[i]
           /\ Append(s, x)[Len(s) + 1] = x
OBVIOUS

LEMMA TaskStep ==
    ASSUME UsageTypes, OneTaskPerAccount,
           \/ \E w \in Workers : SendsTask(w) \/ \E a \in Accounts : AsksForRefresh(w, a)
           \/ \E u \in UsageWorkers : UsageWorker(u)
    PROVE  OneTaskPerAccount'
<1> USE NoneAssumption
        DEF UsageTypes, Usage!TypeOK, Usage!vars, Backend!Workers, Workers, OneTaskPerAccount,
            PendingIsHeld, EnteringAlone, WaitingAlone, RunningAlone, Entering, Waiting, Running
<1>1. ASSUME NEW k \in Workers, SendsTask(k)
      PROVE  OneTaskPerAccount'
  <2> DEFINE a == marked[k]
  <2>1. /\ a \in Accounts /\ a \in pending
        /\ marked' = [marked EXCEPT ![k] = NoAccount]
        /\ UNCHANGED <<running, ran>>
    BY <1>1 DEF SendsTask, Usage!SendsTask
  <2>2. CASE UsageWorkers = {}
    <3>1. pending' = pending \ {a} /\ tasks' = tasks
      BY <1>1, <2>2 DEF SendsTask, Usage!SendsTask
    <3> QED
      BY <2>1, <2>2, <3>1
  <2>3. CASE UsageWorkers # {}
    <3>1. tasks' = Append(tasks, a) /\ pending' = pending
      BY <1>1, <2>3 DEF SendsTask, Usage!SendsTask
    <3>2. /\ Len(tasks) \in Nat /\ Len(tasks') = Len(tasks) + 1
          /\ \A i \in 1 .. Len(tasks) : tasks'[i] = tasks[i]
          /\ tasks'[Len(tasks) + 1] = a
      BY <2>1, <3>1, AppendedTask
    <3>3. \A i \in 1 .. Len(tasks) : tasks[i] # a
      BY <2>1
    <3>4. PendingIsHeld'
      BY <2>1, <3>1, <3>2
    <3>5. EnteringAlone'
      BY <2>1, <3>1, <3>2
    <3>6. WaitingAlone'
      BY <2>1, <3>1, <3>2, <3>3
    <3>7. RunningAlone'
      BY <2>1
    <3> QED
      BY <3>4, <3>5, <3>6, <3>7
  <2> QED
    BY <2>2, <2>3
<1>2. CASE \E w \in Workers, a \in Accounts : AsksForRefresh(w, a)
  <2> SUFFICES ASSUME NEW w \in Workers, NEW a \in Accounts, Usage!Marks(w, a)
               PROVE  OneTaskPerAccount'
    BY <1>2 DEF AsksForRefresh, Usage!FindsPending
  <2>1. /\ a \notin pending /\ pending' = pending \cup {a}
        /\ marked[w] = NoAccount /\ marked' = [marked EXCEPT ![w] = a]
        /\ UNCHANGED <<tasks, running, ran>>
    BY DEF Usage!Marks, Usage!IsFresh
  <2> QED
    BY <2>1
<1>3. ASSUME NEW u \in UsageWorkers, TakesTask(u)
      PROVE  OneTaskPerAccount'
  <2> DEFINE a == Head(tasks)
  <2>1. /\ tasks # <<>> /\ running[u] = NoAccount
        /\ running' = [running EXCEPT ![u] = a] /\ tasks' = Tail(tasks)
        /\ UNCHANGED <<pending, marked, ran>>
    BY <1>3 DEF TakesTask, Usage!TakesTask
  <2>2. /\ Len(tasks) \in Nat \ {0} /\ Len(tasks') = Len(tasks) - 1
        /\ a \in Accounts /\ a = tasks[1]
        /\ \A i \in 1 .. Len(tasks') : tasks'[i] = tasks[i + 1]
    BY <2>1, HeadAndTail
  <2> HIDE DEF a
  <2>3. PendingIsHeld'
    <3> SUFFICES ASSUME NEW b \in Accounts
                 PROVE  b \in pending <=> \/ \E k \in Workers : marked[k] = b
                                          \/ \E i \in 1 .. Len(tasks') : tasks'[i] = b
                                          \/ \E v \in UsageWorkers : running'[v] = b
      BY <2>1
    <3>1. b \in pending <=> \/ \E k \in Workers : marked[k] = b
                            \/ \E i \in 1 .. Len(tasks) : tasks[i] = b
                            \/ \E v \in UsageWorkers : running[v] = b
      OBVIOUS
    <3>2. (\E i \in 1 .. Len(tasks) : tasks[i] = b) <=> b = a \/ \E i \in 1 .. Len(tasks') : tasks'[i] = b
      <4>1. ASSUME NEW i \in 1 .. Len(tasks), tasks[i] = b, i # 1
            PROVE  \E j \in 1 .. Len(tasks') : tasks'[j] = b
        <5>1. i - 1 \in 1 .. Len(tasks') /\ tasks'[i - 1] = b
          BY <2>2, <4>1
        <5> QED
          BY <5>1
      <4> QED
        BY <2>2, <4>1
    <3>3. (\E v \in UsageWorkers : running'[v] = b) <=> b = a \/ \E v \in UsageWorkers : running[v] = b
      BY <2>1
    <3> QED
      BY <3>1, <3>2, <3>3
  <2>4. EnteringAlone'
    BY <2>1, <2>2
  <2>5. WaitingAlone'
    BY <2>1, <2>2
  <2>6. RunningAlone'
    BY <2>1, <2>2
  <2> QED
    BY <2>3, <2>4, <2>5, <2>6
<1>4. CASE \E u \in UsageWorkers : EndsTask(u)
  BY <1>4 DEF EndsTask, Usage!EndsTask, Usage!StaysInLoop
<1>5. ASSUME NEW u \in UsageWorkers, ClearsMark(u)
      PROVE  OneTaskPerAccount'
  <2>1. /\ running[u] \in Accounts
        /\ pending' = pending \ {running[u]} /\ running' = [running EXCEPT ![u] = NoAccount]
        /\ UNCHANGED <<marked, tasks>>
    BY <1>5 DEF ClearsMark, Usage!ClearsMark
  <2> QED
    BY <2>1
<1> QED
  BY <1>1, <1>2, <1>3, <1>4, <1>5 DEF UsageWorker

\* An account has one task at most, and is pending for as long as it has one.
THEOREM OneTaskAtATime == Spec => [](TypeOK /\ OneTaskPerAccount)
<1>1. Init => OneTaskPerAccount
  BY NoneAssumption DEF Init, Usage!Init, OneTaskPerAccount, PendingIsHeld, EnteringAlone, WaitingAlone,
     RunningAlone, Entering, Waiting, Running, Backend!Workers, Workers
<1>2. TypeOK /\ OneTaskPerAccount /\ [Next]_vars => OneTaskPerAccount'
  <2> SUFFICES ASSUME TypeOK, OneTaskPerAccount, [Next]_vars PROVE OneTaskPerAccount'
    OBVIOUS
  <2>1. CASE UNCHANGED usageVars
    BY <2>1 DEF usageVars, OneTaskPerAccount, PendingIsHeld, EnteringAlone, WaitingAlone,
       RunningAlone, Entering, Waiting, Running
  <2>2. CASE ~UNCHANGED usageVars
    <3>1. UsageTypes
      BY DEF TypeOK, UsageTypes
    <3>2. Next
      BY <2>2 DEF vars
    <3>3. \/ \E w \in Workers : SendsTask(w) \/ \E a \in Accounts : AsksForRefresh(w, a)
          \/ \E u \in UsageWorkers : UsageWorker(u)
      BY <2>2, <3>2, BackendStepsLeaveUsage DEF Next, Worker
    <3> QED
      BY <3>1, <3>3, TaskStep
  <2> QED
    BY <2>1, <2>2
<1>3. Spec => []TypeOK
  BY TypeCorrect
<1> QED
  BY <1>1, <1>2, <1>3, PTL DEF Spec

-----------------------------------------------------------------------------
(* The requests                                                             *)

\* Whoever answers a request lets go of it.
LEMMA OneAnswered ==
    ASSUME TypeOK, EachSomewhere, NEW r \in Requests, Somewhere(r), ~Somewhere(r)',
           NEW what \in Backend!Answers \ {"none"}, answer' = [answer EXCEPT ![r] = what],
           \A s \in Requests : s # r => (Somewhere(s)' <=> Somewhere(s)),
           arrived' = arrived
    PROVE  EachSomewhere'
<1> SUFFICES ASSUME NEW s \in Requests
             PROVE  /\ Somewhere(s)' <=> s <= arrived /\ answer'[s] = "none"
                    /\ s > arrived => answer'[s] = "none"
  BY DEF EachSomewhere
<1>1. answer \in [Requests -> Backend!Answers]
  BY DEF TypeOK, Backend!TypeOK
<1>2. /\ Somewhere(s) <=> s <= arrived /\ answer[s] = "none"
      /\ s > arrived => answer[s] = "none"
  BY DEF EachSomewhere
<1>3. CASE s = r
  <2>1. s <= arrived /\ ~(s > arrived)
    BY <1>2, <1>3, BoundsAssumption DEF TypeOK, Requests
  <2>2. answer'[s] # "none"
    BY <1>1, <1>3
  <2> QED
    BY <1>3, <2>1, <2>2
<1>4. CASE s # r
  <2>1. answer'[s] = answer[s]
    BY <1>1, <1>4
  <2> QED
    BY <1>2, <1>4, <2>1
<1> QED
  BY <1>3, <1>4

\* A request is answered that the accepting thread has not seen, or only to stop.
LEMMA ListenerAnswers ==
    ASSUME TypeOK, InOnePlace, NEW r \in incoming, incoming' = incoming \ {r},
           NEW what \in Backend!Answers \ {"none"}, answer' = [answer EXCEPT ![r] = what],
           \A s \in Requests : ByAcceptor(s)' <=> ByAcceptor(s),
           UNCHANGED <<queued, job, arrived>>
    PROVE  InOnePlace'
<1> USE DEF InOnePlace, InChannel, ByWorker
<1>1. r \in Requests
  BY DEF TypeOK, Backend!TypeOK
<1>2. EachSomewhere'
  <2>1. ~ByAcceptor(r)
    BY <1>1 DEF AcceptorAlone
  <2>2. \A q \in Backend!Queues : \A i \in 1 .. Len(queued[q]) : queued[q][i] # r
    BY <1>1 DEF ChannelAlone
  <2>3. \A w \in Workers : job[w] # r
    BY <1>1 DEF WorkerAlone
  <2>4. Somewhere(r) /\ ~Somewhere(r)'
    BY <1>1, <2>1, <2>2, <2>3 DEF Somewhere
  <2>5. \A s \in Requests : s # r => (Somewhere(s)' <=> Somewhere(s))
    BY DEF Somewhere
  <2> QED
    BY <1>1, <2>4, <2>5, OneAnswered
<1>3. AcceptorAlone' /\ ChannelAlone' /\ WorkerAlone'
  BY DEF AcceptorAlone, ChannelAlone, WorkerAlone
<1> QED
  BY <1>2, <1>3

\* The accepting thread answers the request it holds.
LEMMA AcceptorAnswers ==
    ASSUME TypeOK, InOnePlace, NEW r \in Requests, ByAcceptor(r),
           NEW what \in Backend!Answers \ {"none"},
           answer' = [answer EXCEPT ![r] = what], at' = "accepting",
           UNCHANGED <<incoming, queued, job, arrived>>
    PROVE  InOnePlace'
<1> USE DEF InOnePlace, ByAcceptor, InChannel, ByWorker
<1>1. \A s \in Requests : ~ByAcceptor(s)'
  OBVIOUS
<1>2. EachSomewhere'
  <2>1. r \notin incoming
    BY DEF AcceptorAlone
  <2>2. \A q \in Backend!Queues : \A i \in 1 .. Len(queued[q]) : queued[q][i] # r
    BY DEF ChannelAlone
  <2>3. \A w \in Workers : job[w] # r
    BY DEF WorkerAlone
  <2>4. Somewhere(r) /\ ~Somewhere(r)'
    BY <1>1, <2>1, <2>2, <2>3 DEF Somewhere
  <2>5. \A s \in Requests : s # r => (Somewhere(s)' <=> Somewhere(s))
    BY <1>1 DEF Somewhere
  <2> QED
    BY <2>4, <2>5, OneAnswered
<1>3. AcceptorAlone'
  BY <1>1 DEF AcceptorAlone
<1>4. ChannelAlone'
  BY <1>1 DEF ChannelAlone
<1>5. WorkerAlone'
  BY <1>1 DEF WorkerAlone
<1> QED
  BY <1>2, <1>3, <1>4, <1>5

\* A step of the front proxy or the accepting thread.
LEMMA AcceptorPlace ==
    ASSUME TypeOK, InOnePlace,
           Arrives \/ Acceptor \/ \E r \in Requests : Answered(r) \/ Drops(r)
    PROVE  InOnePlace'
<1> USE NoneAssumption, CapacityAssumption
        DEF TypeOK, Backend!TypeOK, Backend!Workers, Workers, Backend!Queues, Backend!workerVars,
            Backend!acceptorVars, Backend!Answer, Backend!NextRequest, InOnePlace, EachSomewhere,
            AcceptorAlone, ChannelAlone, WorkerAlone, Somewhere, ByAcceptor, InChannel, ByWorker,
            Requests, frontVars
<1>1. CASE Arrives
  <2>1. /\ arrived' = arrived + 1 /\ incoming' = incoming \cup {arrived'} /\ arrived' \in Requests
        /\ UNCHANGED <<at, request, queued, job, answer>>
    BY <1>1, BoundsAssumption DEF Arrives
  <2>2. ~Somewhere(arrived')
    BY <2>1, BoundsAssumption
  <2>3. EachSomewhere'
    <3>1. \A r \in Requests : Somewhere(r)' <=> Somewhere(r) \/ r = arrived'
      BY <2>1
    <3> HIDE DEF Somewhere
    <3> QED
      BY <2>1, <3>1, BoundsAssumption
  <2>4. AcceptorAlone' /\ ChannelAlone' /\ WorkerAlone'
    BY <2>1, <2>2
  <2> QED
    BY <2>3, <2>4
<1>2. CASE \E r \in Requests : Answered(r) \/ Drops(r) \/ StopsAt(r)
  <2>1. PICK r \in Requests : Answered(r) \/ Drops(r) \/ StopsAt(r)
    BY <1>2
  <2>2. /\ r \in incoming /\ incoming' = incoming \ {r}
        /\ \E what \in Backend!Answers \ {"none"} : answer' = [answer EXCEPT ![r] = what]
        /\ UNCHANGED <<request, queued, job, arrived>>
        /\ at' = at \/ (at = "accepting" /\ at' = "stopped")
    <3>1. CASE Answered(r)
      BY <3>1 DEF Answered, Backend!Answers
    <3>2. CASE Drops(r)
      BY <3>2 DEF Drops, Backend!Drops, Backend!Answers
    <3>3. CASE StopsAt(r)
      BY <3>3 DEF StopsAt, Backend!StopsAt, Backend!Answers
    <3> QED
      BY <2>1, <3>1, <3>2, <3>3
  <2>3. \A s \in Requests : ByAcceptor(s)' <=> ByAcceptor(s)
    BY <2>2
  <2> HIDE DEF ByAcceptor, InOnePlace, TypeOK
  <2> QED
    BY <2>2, <2>3, ListenerAnswers
<1>3. ASSUME NEW r \in Requests, Accepts(r)
      PROVE  InOnePlace'
  <2>1. /\ r \in incoming /\ incoming' = incoming \ {r}
        /\ \A s \in Requests : ~ByAcceptor(s)
        /\ \A s \in Requests : ByAcceptor(s)' <=> s = r
        /\ UNCHANGED <<queued, job, answer, arrived>>
    BY <1>3 DEF Accepts, Backend!Accepts
  <2>2. /\ \A q \in Backend!Queues : \A i \in 1 .. Len(queued[q]) : queued[q][i] # r
        /\ \A w \in Workers : job[w] # r
    BY <2>1
  <2> HIDE DEF ByAcceptor
  <2>3. \A s \in Requests : Somewhere(s)' <=> Somewhere(s)
    BY <2>1
  <2>4. EachSomewhere'
    <3> HIDE DEF Somewhere
    <3> QED
      BY <2>1, <2>3
  <2>5. AcceptorAlone'
    BY <2>1
  <2>6. ChannelAlone' /\ WorkerAlone'
    BY <2>1, <2>2
  <2> QED
    BY <2>4, <2>5, <2>6
<1>4. CASE Bypasses
  <2>1. PICK r \in Requests : r = request
    BY <1>4 DEF Bypasses, Backend!Bypasses
  <2>2. /\ ByAcceptor(r)
        /\ "handled" \in Backend!Answers \ {"none"}
        /\ answer' = [answer EXCEPT ![r] = "handled"] /\ at' = "accepting"
        /\ UNCHANGED <<incoming, queued, job, arrived>>
    BY <1>4, <2>1 DEF Bypasses, Backend!Bypasses, Backend!Answers
  <2> HIDE DEF InOnePlace, TypeOK, ByAcceptor
  <2> QED
    BY <2>2, AcceptorAnswers
<1>5. CASE Sends
  <2>1. /\ queued[queue] \in Seq(Requests) /\ request \in Requests
        /\ queued' = [queued EXCEPT ![queue] = Append(@, request)]
        /\ ByAcceptor(request) /\ ~ByAcceptor(request)'
        /\ at' = "counting"
        /\ UNCHANGED <<incoming, request, job, answer, arrived>>
    BY <1>5 DEF Sends, Backend!Sends
  <2>2. /\ Len(queued[queue]) \in Nat /\ Len(queued'[queue]) = Len(queued[queue]) + 1
        /\ \A i \in 1 .. Len(queued[queue]) : queued'[queue][i] = queued[queue][i]
        /\ queued'[queue][Len(queued[queue]) + 1] = request
    BY <2>1, AppendedTask
  <2>3. \A q \in Backend!Queues : q # queue => queued'[q] = queued[q]
    BY <2>1
  <2>4. EachSomewhere'
    <3> SUFFICES ASSUME NEW r \in Requests
                 PROVE  Somewhere(r)' <=> Somewhere(r)
      BY <2>1
    <3>1. (\E i \in 1 .. Len(queued'[queue]) : queued'[queue][i] = r)
            <=> r = request \/ \E i \in 1 .. Len(queued[queue]) : queued[queue][i] = r
      <4>1. ASSUME NEW i \in 1 .. Len(queued[queue]), queued[queue][i] = r
            PROVE  i \in 1 .. Len(queued'[queue]) /\ queued'[queue][i] = r
        BY <2>2, <4>1
      <4>2. ASSUME r = request
            PROVE  Len(queued'[queue]) \in 1 .. Len(queued'[queue]) /\ queued'[queue][Len(queued'[queue])] = r
        BY <2>2, <4>2
      <4>3. ASSUME NEW i \in 1 .. Len(queued'[queue]), queued'[queue][i] = r, r # request
            PROVE  i \in 1 .. Len(queued[queue]) /\ queued[queue][i] = r
        BY <2>2, <4>3
      <4> QED
        BY <4>1, <4>2, <4>3
    <3>2. (\E q \in Backend!Queues : \E i \in 1 .. Len(queued'[q]) : queued'[q][i] = r)
            <=> r = request \/ \E q \in Backend!Queues : \E i \in 1 .. Len(queued[q]) : queued[q][i] = r
      <4> DEFINE Held(q)  == \E i \in 1 .. Len(queued[q]) : queued[q][i] = r
                 HeldThen(q) == \E i \in 1 .. Len(queued'[q]) : queued'[q][i] = r
      <4>1. queue \in Backend!Queues
        OBVIOUS
      <4>2. HeldThen(queue) <=> r = request \/ Held(queue)
        BY <3>1
      <4>3. \A q \in Backend!Queues : q # queue => (HeldThen(q) <=> Held(q))
        BY <2>3
      <4> HIDE DEF Held, HeldThen
      <4>4. (\E q \in Backend!Queues : HeldThen(q)) <=> r = request \/ \E q \in Backend!Queues : Held(q)
        BY ONLY <4>1, <4>2, <4>3
      <4> QED
        BY <4>4 DEF Held, HeldThen
    <3> QED
      BY <2>1, <3>2
  <2>5. AcceptorAlone'
    BY <2>1
  <2>6. ChannelAlone'
    BY <2>1, <2>2, <2>3
  <2>7. WorkerAlone'
    BY <2>1, <2>2, <2>3
  <2> QED
    BY <2>4, <2>5, <2>6, <2>7
<1>6. CASE SpillsOver
  BY <1>6 DEF SpillsOver, Backend!SpillsOver, Backend!NotSent, Backend!Other
<1>7. CASE Refuses
  <2>1. PICK r \in Requests : r = request
    BY <1>7 DEF Refuses, Backend!Refuses
  <2>2. /\ ByAcceptor(r)
        /\ "busy" \in Backend!Answers \ {"none"}
        /\ answer' = [answer EXCEPT ![r] = "busy"] /\ at' = "accepting"
        /\ UNCHANGED <<incoming, queued, job, arrived>>
    BY <1>7, <2>1 DEF Refuses, Backend!Refuses, Backend!Answers
  <2> HIDE DEF InOnePlace, TypeOK, ByAcceptor
  <2> QED
    BY <2>2, AcceptorAnswers
<1>8. CASE Counts
  BY <1>8 DEF Counts, Backend!Counts
<1>9. CASE Woken
  BY <1>9 DEF Woken, Backend!StopsWhenWoken
<1> QED
  BY <1>1, <1>2, <1>3, <1>4, <1>5, <1>6, <1>7, <1>8, <1>9 DEF Acceptor

\* A worker takes the first request of a channel.
LEMMA TakenPlace ==
    ASSUME TypeOK, InOnePlace, NEW w \in Workers, NEW q \in Backend!Queues, NEW x \in Requests,
           queued[q] # <<>>, x = Head(queued[q]), job[w] = NoRequest,
           job' = [job EXCEPT ![w] = Head(queued[q])], queued' = [queued EXCEPT ![q] = Tail(@)],
           UNCHANGED <<incoming, at, request, answer, arrived>>
    PROVE  InOnePlace'
<1>1. /\ queued \in [Backend!Queues -> Seq(Requests)]
      /\ job \in [Workers -> Requests \cup {NoRequest}]
  BY DEF TypeOK, Backend!TypeOK, Workers
<1>2. /\ x = queued[q][1] /\ Len(queued[q]) \in Nat \ {0} /\ Len(queued'[q]) = Len(queued[q]) - 1
      /\ \A i \in 1 .. Len(queued'[q]) : queued'[q][i] = queued[q][i + 1]
  BY <1>1, HeadAndTail
<1>3. \A p \in Backend!Queues : p # q => queued'[p] = queued[p]
  BY <1>1
<1>4. job'[w] = x /\ \A v \in Workers : v # w => job'[v] = job[v]
  BY <1>1
<1>5. \A r \in Requests : r # NoRequest
  BY NoneAssumption DEF Requests
\* Where a request is now in a channel, it was one place further back.
<1>6. \A i \in 1 .. Len(queued'[q]) : i + 1 \in 1 .. Len(queued[q]) /\ i + 1 # 1
  BY <1>2
<1>7. InChannel(x, q, 1) /\ 1 \in 1 .. Len(queued[q])
  BY <1>2 DEF InChannel
<1>8. /\ x \notin incoming /\ ~ByAcceptor(x)
      /\ \A p \in Backend!Queues : \A j \in 1 .. Len(queued[p]) : queued[p][j] = x => p = q /\ j = 1
  BY <1>7 DEF InOnePlace, ChannelAlone, InChannel
<1>9. \A v \in Workers : job[v] # x
  BY <1>7 DEF InOnePlace, WorkerAlone, ByWorker
<1>10. \A p \in Backend!Queues : \A i \in 1 .. Len(queued'[p]) : queued'[p][i] # x
  <2> SUFFICES ASSUME NEW p \in Backend!Queues, NEW i \in 1 .. Len(queued'[p])
               PROVE  queued'[p][i] # x
    OBVIOUS
  <2>1. CASE p = q
    BY <1>2, <1>6, <1>8, <2>1
  <2>2. CASE p # q
    BY <1>3, <1>8, <2>2
  <2> QED
    BY <2>1, <2>2
<1>11. EachSomewhere'
  <2>1. ASSUME NEW r \in Requests
        PROVE  Somewhere(r)' <=> Somewhere(r)
    <3>1. (\E i \in 1 .. Len(queued[q]) : queued[q][i] = r)
            <=> r = x \/ \E i \in 1 .. Len(queued'[q]) : queued'[q][i] = r
      <4>1. ASSUME NEW i \in 1 .. Len(queued'[q]), queued'[q][i] = r
            PROVE  i + 1 \in 1 .. Len(queued[q]) /\ queued[q][i + 1] = r
        BY <1>2, <4>1
      <4>2. 1 \in 1 .. Len(queued[q]) /\ queued[q][1] = x
        BY <1>2
      <4>3. ASSUME NEW i \in 1 .. Len(queued[q]), queued[q][i] = r, r # x
            PROVE  \E j \in 1 .. Len(queued'[q]) : queued'[q][j] = r
        <5>1. i - 1 \in 1 .. Len(queued'[q]) /\ queued'[q][i - 1] = r
          BY <1>2, <4>3
        <5> QED
          BY <5>1
      <4> QED
        BY <4>1, <4>2, <4>3
    <3>2. (\E v \in Workers : job'[v] = r) <=> r = x \/ \E v \in Workers : job[v] = r
      BY <1>4, <1>5
    <3>3. (\E p \in Backend!Queues : \E i \in 1 .. Len(queued[p]) : queued[p][i] = r)
            <=> r = x \/ \E p \in Backend!Queues : \E i \in 1 .. Len(queued'[p]) : queued'[p][i] = r
      BY <1>3, <3>1
    <3> QED
      BY <3>2, <3>3 DEF Somewhere, ByAcceptor, InChannel, ByWorker
  <2> QED
    BY <2>1 DEF InOnePlace, EachSomewhere
<1>12. AcceptorAlone'
  BY DEF InOnePlace, AcceptorAlone, ByAcceptor
<1>13. ChannelAlone'
  <2> SUFFICES ASSUME NEW r \in Requests, NEW p \in Backend!Queues,
                      NEW i \in 1 .. Len(queued'[p]), InChannel(r, p, i)'
               PROVE  /\ r \notin incoming' /\ ~ByAcceptor(r)'
                      /\ \A o \in Backend!Queues : \A j \in 1 .. Len(queued'[o]) :
                            InChannel(r, o, j)' => o = p /\ j = i
    BY DEF ChannelAlone
  <2> DEFINE back(o, j) == IF o = q THEN j + 1 ELSE j
  <2>1. \A o \in Backend!Queues : \A j \in 1 .. Len(queued'[o]) :
           back(o, j) \in 1 .. Len(queued[o]) /\ queued[o][back(o, j)] = queued'[o][j]
    BY <1>2, <1>3, <1>6
  <2>2. \A o \in Backend!Queues : \A j, k \in 1 .. Len(queued'[o]) : back(o, j) = back(o, k) => j = k
    OBVIOUS
  <2> HIDE DEF back
  <2>3. InChannel(r, p, back(p, i))
    BY <2>1 DEF InChannel
  <2>4. /\ r \notin incoming /\ ~ByAcceptor(r)
        /\ \A o \in Backend!Queues : \A j \in 1 .. Len(queued[o]) :
              queued[o][j] = r => o = p /\ j = back(p, i)
    BY <2>1, <2>3 DEF InOnePlace, ChannelAlone, InChannel
  <2> QED
    BY <2>1, <2>2, <2>4 DEF InChannel, ByAcceptor
<1>14. WorkerAlone'
  <2> SUFFICES ASSUME NEW r \in Requests, NEW v \in Workers, job'[v] = r
               PROVE  /\ r \notin incoming /\ ~ByAcceptor(r)
                      /\ \A p \in Backend!Queues : \A i \in 1 .. Len(queued'[p]) : queued'[p][i] # r
                      /\ \A u \in Workers : job'[u] = r => u = v
    BY DEF WorkerAlone, ByWorker, InChannel, ByAcceptor
  <2>1. CASE v = w
    BY <1>4, <1>8, <1>9, <1>10, <2>1
  <2>2. CASE v # w
    <3>1. ByWorker(r, v) /\ r # x
      BY <1>4, <1>9, <2>2 DEF ByWorker
    <3>2. /\ r \notin incoming /\ ~ByAcceptor(r) /\ \A u \in Workers : job[u] = r => u = v
          /\ \A p \in Backend!Queues : \A i \in 1 .. Len(queued[p]) : queued[p][i] # r
      BY <3>1 DEF InOnePlace, WorkerAlone, ByWorker, InChannel
    <3>3. \A u \in Workers : job'[u] = r => u = v
      BY <1>4, <3>1, <3>2
    <3>4. ASSUME NEW p \in Backend!Queues, NEW i \in 1 .. Len(queued'[p])
          PROVE  queued'[p][i] # r
      <4>1. CASE p = q
        BY <1>2, <1>6, <3>2, <4>1
      <4>2. CASE p # q
        BY <1>3, <3>2, <4>2
      <4> QED
        BY <4>1, <4>2
    <3> QED
      BY <3>2, <3>3, <3>4
  <2> QED
    BY <2>1, <2>2
<1> QED
  BY <1>11, <1>12, <1>13, <1>14 DEF InOnePlace

\* A worker has finished with a request.
LEMMA FinishedPlace ==
    ASSUME TypeOK, InOnePlace, NEW w \in Workers, NEW r \in Requests, r = job[w],
           NEW what \in Backend!Answers \ {"none"}, answer' = [answer EXCEPT ![r] = what],
           job' = [job EXCEPT ![w] = NoRequest],
           UNCHANGED <<incoming, at, request, queued, arrived>>
    PROVE  InOnePlace'
<1>1. job \in [Workers -> Requests \cup {NoRequest}]
  BY DEF TypeOK, Backend!TypeOK, Workers
<1>2. job'[w] = NoRequest /\ \A v \in Workers : v # w => job'[v] = job[v]
  BY <1>1
<1>3. \A s \in Requests : s # NoRequest
  BY NoneAssumption DEF Requests
<1>4. /\ r \notin incoming /\ ~ByAcceptor(r) /\ \A v \in Workers : job[v] = r => v = w
      /\ \A q \in Backend!Queues : \A i \in 1 .. Len(queued[q]) : queued[q][i] # r
  BY DEF InOnePlace, WorkerAlone, ByWorker, InChannel
<1>5. EachSomewhere'
  <2>1. Somewhere(r)
    BY DEF Somewhere, ByWorker
  <2>2. ~Somewhere(r)'
    BY <1>2, <1>3, <1>4 DEF Somewhere, ByWorker, ByAcceptor, InChannel
  <2>3. \A s \in Requests : s # r => (Somewhere(s)' <=> Somewhere(s))
    BY <1>2, <1>3 DEF Somewhere, ByWorker, ByAcceptor, InChannel
  <2> QED
    BY <2>1, <2>2, <2>3, OneAnswered DEF InOnePlace
<1>6. AcceptorAlone' /\ ChannelAlone'
  BY DEF InOnePlace, AcceptorAlone, ChannelAlone, ByAcceptor, InChannel
<1>7. WorkerAlone'
  BY <1>2, <1>3 DEF InOnePlace, WorkerAlone, ByAcceptor, InChannel, ByWorker
<1> QED
  BY <1>5, <1>6, <1>7 DEF InOnePlace

\* A step of a worker.
LEMMA WorkerPlace ==
    ASSUME TypeOK, InOnePlace, NEW w \in Workers, Receives(w) \/ CountsDown(w) \/ Finishes(w)
    PROVE  InOnePlace'
<1> USE NoneAssumption
        DEF TypeOK, Backend!TypeOK, Backend!Workers, Workers, Backend!Queues, Backend!workerVars,
            Backend!acceptorVars, Backend!Answer, InOnePlace, EachSomewhere, AcceptorAlone,
            ChannelAlone, WorkerAlone, Somewhere, ByAcceptor, InChannel, ByWorker, Requests, frontVars
<1>1. CASE Receives(w)
  <2>1. PICK q \in Backend!Queues : q = Backend!QueueOf(w)
    BY DEF Backend!QueueOf
  <2>2. /\ queued[q] \in Seq(Requests) /\ queued[q] # <<>>
        /\ job[w] = NoRequest /\ job' = [job EXCEPT ![w] = Head(queued[q])]
        /\ queued' = [queued EXCEPT ![q] = Tail(@)]
        /\ UNCHANGED <<incoming, at, request, answer, arrived>>
    BY <1>1, <2>1 DEF Receives, Backend!Receives
  <2>3. PICK x \in Requests : x = Head(queued[q])
    BY <2>2, HeadAndTail
  <2> HIDE DEF TypeOK, InOnePlace, Workers, Backend!Queues, Requests
  <2> QED
    BY <2>2, <2>3, TakenPlace
<1>2. CASE CountsDown(w)
  <2>1. UNCHANGED <<incoming, at, request, queued, job, answer, arrived>>
    BY <1>2 DEF CountsDown, Backend!CountsDown
  <2> HIDE DEF TypeOK, Backend!TypeOK
  <2> QED
    BY <2>1
<1>3. CASE Finishes(w)
  <2>1. PICK r \in Requests : r = job[w]
    BY <1>3 DEF Finishes, Backend!Finishes
  <2>2. /\ "handled" \in Backend!Answers \ {"none"}
        /\ answer' = [answer EXCEPT ![r] = "handled"] /\ job' = [job EXCEPT ![w] = NoRequest]
        /\ UNCHANGED <<incoming, at, request, queued, arrived>>
    BY <1>3, <2>1 DEF Finishes, Backend!Finishes, Backend!Answers
  <2> HIDE DEF TypeOK, InOnePlace, Workers, Backend!Queues, Requests
  <2> QED
    BY <2>1, <2>2, FinishedPlace
<1> QED
  BY <1>1, <1>2, <1>3

\* Nobody else touches what InOnePlace speaks of.
LEMMA PlaceStep == TypeOK /\ InOnePlace /\ [Next]_vars => InOnePlace'
<1> SUFFICES ASSUME TypeOK, InOnePlace, [Next]_vars PROVE InOnePlace'
  OBVIOUS
<1>1. CASE UNCHANGED <<incoming, at, request, queued, job, answer, arrived>>
  BY <1>1 DEF InOnePlace, EachSomewhere, AcceptorAlone, ChannelAlone, WorkerAlone, Somewhere,
              ByAcceptor, InChannel, ByWorker
<1>2. CASE RequestShutdown \/ Front
  BY <1>1, <1>2 DEF RequestShutdown, Front, FrontDrains, FrontCloses, Exits, backendVars
<1>3. CASE \/ \E w \in Workers : SendsTask(w) \/ \E a \in Accounts : AsksForRefresh(w, a)
           \/ \E u \in UsageWorkers : UsageWorker(u)
  BY <1>1, <1>3, UsageStepsLeaveBackend DEF backendVars
<1>4. CASE vars' = vars
  BY <1>1, <1>4 DEF vars, backendVars, frontVars
<1> QED
  BY <1>2, <1>3, <1>4, AcceptorPlace, WorkerPlace DEF Next, Worker

\* A request is in one place until it is answered, and nowhere afterwards.
THEOREM HandledOnce == Spec => [](TypeOK /\ InOnePlace)
<1>1. Init => InOnePlace
  <2> SUFFICES ASSUME Init PROVE InOnePlace
    OBVIOUS
  <2>1. /\ incoming = {} /\ request = NoRequest /\ arrived = 0
        /\ \A q \in Backend!Queues : queued[q] = <<>>
        /\ \A w \in Workers : job[w] = NoRequest
        /\ \A r \in Requests : answer[r] = "none"
    BY DEF Init, Backend!Init, Workers
  <2>2. \A r \in Requests : r # NoRequest /\ ~(r <= 0)
    BY NoneAssumption, BoundsAssumption DEF Requests
  <2>3. \A q \in Backend!Queues : \A i \in 1 .. Len(queued[q]) : FALSE
    BY <2>1
  <2> QED
    BY <2>1, <2>2, <2>3 DEF InOnePlace, EachSomewhere, AcceptorAlone, ChannelAlone, WorkerAlone,
       Somewhere, ByAcceptor, InChannel, ByWorker
<1>2. Spec => []TypeOK
  BY TypeCorrect
<1> QED
  BY <1>1, <1>2, PlaceStep, PTL DEF Spec

-----------------------------------------------------------------------------
(* The gauges                                                               *)

Lag(q) == IF at = "counting" /\ queue = q THEN 1 ELSE 0

LEMMA UncountedFinite ==
    ASSUME NEW q
    PROVE  IsFiniteSet(Uncounted(q)) /\ Cardinality(Uncounted(q)) \in Nat
<1>1. IsFiniteSet(Workers)
  BY WorkersAssumption, FS_Union DEF Workers, Backend!Workers
<1>2. Uncounted(q) \subseteq Workers
  BY DEF Uncounted
<1> QED
  BY <1>1, <1>2, FS_Subset, FS_CardinalityType

\* A step that moves no request and no count.
LEMMA GaugeSame ==
    ASSUME GaugeCoversBacklog, UNCHANGED <<depth, queued>>,
           \A q \in Backend!Queues : Lag(q)' = Lag(q),
           \A w \in Workers : (stage'[w] = "received") <=> (stage[w] = "received")
    PROVE  GaugeCoversBacklog'
<1>1. \A q \in Backend!Queues : Uncounted(q)' = Uncounted(q)
  BY DEF Uncounted
<1> QED
  BY <1>1 DEF GaugeCoversBacklog, Lag

LEMMA GaugeStep == TypeOK /\ GaugeCoversBacklog /\ [Next]_vars => GaugeCoversBacklog'
<1> SUFFICES ASSUME TypeOK, GaugeCoversBacklog, [Next]_vars PROVE GaugeCoversBacklog'
  OBVIOUS
<1>0. /\ depth \in [Backend!Queues -> Nat] /\ queued \in [Backend!Queues -> Seq(Requests)]
      /\ stage \in [Workers -> Backend!Stages] /\ queue \in Backend!Queues
  BY DEF TypeOK, Backend!TypeOK, Workers
<1>1. CASE UNCHANGED <<depth, queued, at, queue, stage>>
  BY <1>1, GaugeSame DEF Lag
<1>2. CASE RequestShutdown \/ Front \/ Arrives \/ \E r \in Requests : Answered(r) \/ Drops(r)
  BY <1>1, <1>2 DEF RequestShutdown, Front, FrontDrains, FrontCloses, Exits, Arrives, Answered, Drops,
     Backend!Drops, Backend!acceptorVars, Backend!workerVars, backendVars
<1>3. CASE \/ \E w \in Workers : SendsTask(w) \/ \E a \in Accounts : AsksForRefresh(w, a)
           \/ \E u \in UsageWorkers : UsageWorker(u)
  BY <1>1, <1>3, UsageStepsLeaveBackend DEF backendVars
<1>4. CASE vars' = vars
  BY <1>1, <1>4 DEF vars, backendVars
<1>5. CASE \/ \E r \in Requests : Accepts(r) \/ StopsAt(r)
           \/ Bypasses \/ SpillsOver \/ Refuses \/ Woken
  <2>1. UNCHANGED <<depth, queued, stage>> /\ at # "counting" /\ at' # "counting"
    BY <1>5 DEF Accepts, Backend!Accepts, StopsAt, Backend!StopsAt, Bypasses, Backend!Bypasses,
       SpillsOver, Backend!SpillsOver, Backend!NotSent, Refuses, Backend!Refuses, Woken,
       Backend!StopsWhenWoken, Backend!NextRequest, Backend!workerVars
  <2> QED
    BY <2>1, GaugeSame DEF Lag
<1>6. CASE Sends
  <2>1. /\ queued' = [queued EXCEPT ![queue] = Append(@, request)] /\ request \in Requests
        /\ at # "counting" /\ at' = "counting" /\ UNCHANGED <<queue, depth, stage>>
    BY <1>6 DEF Sends, Backend!Sends, Backend!workerVars, TypeOK, Backend!TypeOK
  <2>2. Len(queued'[queue]) = Len(queued[queue]) + 1 /\ Len(queued[queue]) \in Nat
    BY <1>0, <2>1, AppendedTask
  <2>3. \A q \in Backend!Queues : q # queue => queued'[q] = queued[q]
    BY <1>0, <2>1
  <2>4. \A q \in Backend!Queues : Uncounted(q)' = Uncounted(q)
    BY <2>1 DEF Uncounted
  <2> SUFFICES ASSUME NEW q \in Backend!Queues
               PROVE  depth'[q] + Lag(q)' >= Len(queued'[q]) + Cardinality(Uncounted(q)')
    BY DEF GaugeCoversBacklog, Lag
  <2>5. /\ depth[q] + Lag(q) >= Len(queued[q]) + Cardinality(Uncounted(q))
        /\ depth[q] \in Nat /\ Len(queued[q]) \in Nat
    BY <1>0 DEF GaugeCoversBacklog, Lag
  <2>6. /\ Lag(q) = 0
        /\ q = queue => Lag(q)' = 1
        /\ q # queue => Lag(q)' = 0
    BY <2>1 DEF Lag
  <2>7. Len(queued'[q]) = Len(queued[q]) + Lag(q)'
    BY <2>2, <2>3, <2>5, <2>6
  <2> QED
    BY <2>1, <2>4, <2>5, <2>6, <2>7, UncountedFinite
<1>7. CASE Counts
  <2>1. /\ depth' = [depth EXCEPT ![queue] = @ + 1]
        /\ at = "counting" /\ at' = "accepting" /\ UNCHANGED <<queue, queued, stage>>
    BY <1>7 DEF Counts, Backend!Counts, Backend!Counted, Backend!NextRequest, Backend!workerVars
  <2>2. \A q \in Backend!Queues : Uncounted(q)' = Uncounted(q)
    BY <2>1 DEF Uncounted
  <2> SUFFICES ASSUME NEW q \in Backend!Queues
               PROVE  depth'[q] + Lag(q)' >= Len(queued[q]) + Cardinality(Uncounted(q))
    BY <2>1, <2>2 DEF GaugeCoversBacklog, Lag
  <2>3. /\ depth[q] + Lag(q) >= Len(queued[q]) + Cardinality(Uncounted(q))
        /\ depth[q] \in Nat /\ Lag(q) \in Nat
    BY <1>0 DEF GaugeCoversBacklog, Lag
  <2>4. Lag(q)' = 0
    BY <2>1 DEF Lag
  <2>5. depth'[q] = depth[q] + Lag(q)
    <3>1. CASE q = queue
      BY <1>0, <2>1, <3>1 DEF Lag
    <3>2. CASE q # queue
      BY <1>0, <2>1, <3>2 DEF Lag
    <3> QED
      BY <3>1, <3>2
  <2> QED
    BY <2>3, <2>4, <2>5, UncountedFinite
<1>8. ASSUME NEW w \in Workers, Receives(w)
      PROVE  GaugeCoversBacklog'
  <2> DEFINE o == Backend!QueueOf(w)
  <2>1. /\ o \in Backend!Queues /\ stage[w] = "waiting" /\ queued[o] # <<>>
        /\ queued' = [queued EXCEPT ![o] = Tail(@)] /\ stage' = [stage EXCEPT ![w] = "received"]
        /\ UNCHANGED <<at, queue, depth>>
    BY <1>8 DEF Receives, Backend!Receives, Backend!acceptorVars, Backend!QueueOf, Backend!Queues
  <2>2. Len(queued'[o]) = Len(queued[o]) - 1 /\ Len(queued[o]) \in Nat
    BY <1>0, <2>1, HeadAndTail
  <2>3. Uncounted(o)' = Uncounted(o) \cup {w} /\ w \notin Uncounted(o)
    BY <1>0, <2>1 DEF Uncounted
  <2>4. Cardinality(Uncounted(o)') = Cardinality(Uncounted(o)) + 1
    BY <2>3, UncountedFinite, FS_AddElement
  <2>5. \A q \in Backend!Queues : q # o => queued'[q] = queued[q] /\ Uncounted(q)' = Uncounted(q)
    BY <1>0, <2>1 DEF Uncounted
  <2> SUFFICES ASSUME NEW q \in Backend!Queues
               PROVE  depth[q] + Lag(q) >= Len(queued'[q]) + Cardinality(Uncounted(q)')
    BY <2>1 DEF GaugeCoversBacklog, Lag
  <2>6. /\ depth[q] + Lag(q) >= Len(queued[q]) + Cardinality(Uncounted(q))
        /\ depth[q] \in Nat /\ Lag(q) \in Nat
    BY <1>0 DEF GaugeCoversBacklog, Lag
  <2>7. CASE q = o
    BY <2>2, <2>4, <2>6, <2>7, UncountedFinite
  <2>8. CASE q # o
    BY <2>5, <2>6, <2>8
  <2> QED
    BY <2>7, <2>8
<1>9. ASSUME NEW w \in Workers, CountsDown(w)
      PROVE  GaugeCoversBacklog'
  <2> DEFINE o == Backend!QueueOf(w)
  <2>1. /\ o \in Backend!Queues /\ stage[w] = "received"
        /\ depth' = [depth EXCEPT ![o] = IF @ = 0 THEN 0 ELSE @ - 1]
        /\ stage' = [stage EXCEPT ![w] = "handling"]
        /\ UNCHANGED <<at, queue, queued>>
    BY <1>9 DEF CountsDown, Backend!CountsDown, Backend!acceptorVars, Backend!QueueOf, Backend!Queues
  <2>2. Uncounted(o)' = Uncounted(o) \ {w} /\ w \in Uncounted(o)
    BY <1>0, <2>1 DEF Uncounted
  <2>3. Cardinality(Uncounted(o)') = Cardinality(Uncounted(o)) - 1
    BY <2>2, UncountedFinite, FS_RemoveElement
  <2>4. \A q \in Backend!Queues : q # o => depth'[q] = depth[q] /\ Uncounted(q)' = Uncounted(q)
    BY <1>0, <2>1 DEF Uncounted
  <2> SUFFICES ASSUME NEW q \in Backend!Queues
               PROVE  depth'[q] + Lag(q) >= Len(queued[q]) + Cardinality(Uncounted(q)')
    BY <2>1 DEF GaugeCoversBacklog, Lag
  <2>5. /\ depth[q] + Lag(q) >= Len(queued[q]) + Cardinality(Uncounted(q))
        /\ depth[q] \in Nat /\ Lag(q) \in Nat /\ Len(queued[q]) \in Nat
    BY <1>0 DEF GaugeCoversBacklog, Lag
  <2>6. CASE q = o
    <3>1. depth'[q] >= depth[q] - 1 /\ depth'[q] \in Nat
      BY <1>0, <2>1, <2>6
    <3> QED
      BY <2>3, <2>5, <2>6, <3>1, UncountedFinite
  <2>7. CASE q # o
    BY <2>4, <2>5, <2>7
  <2> QED
    BY <2>6, <2>7
<1>10. ASSUME NEW w \in Workers, Finishes(w)
       PROVE  GaugeCoversBacklog'
  <2>1. /\ stage[w] = "handling" /\ stage' = [stage EXCEPT ![w] = "waiting"]
        /\ UNCHANGED <<at, queue, queued, depth>>
    BY <1>10 DEF Finishes, Backend!Finishes, Backend!WaitsAgain, Backend!acceptorVars
  <2>2. \A v \in Workers : (stage'[v] = "received") <=> (stage[v] = "received")
    BY <1>0, <2>1
  <2> QED
    BY <2>1, <2>2, GaugeSame DEF Lag
<1> QED
  BY <1>2, <1>3, <1>4, <1>5, <1>6, <1>7, <1>8, <1>9, <1>10 DEF Next, Acceptor, Worker

\* A gauge lags its channel by no more than the request being counted.
THEOREM GaugeKeepsUp == Spec => [](TypeOK /\ GaugeCoversBacklog)
<1>1. Init => GaugeCoversBacklog
  <2> SUFFICES ASSUME Init, NEW q \in Backend!Queues
               PROVE  depth[q] + Lag(q) >= Len(queued[q]) + Cardinality(Uncounted(q))
    BY DEF GaugeCoversBacklog, Lag
  <2>2. depth[q] = 0 /\ Lag(q) = 0 /\ queued[q] = <<>>
    BY DEF Init, Backend!Init, Lag
  <2>1. Uncounted(q) = {}
    BY DEF Init, Backend!Init, Uncounted, Workers
  <2> QED
    BY <2>1, <2>2, FS_EmptySet
<1>2. Spec => []TypeOK
  BY TypeCorrect
<1> QED
  BY <1>1, <1>2, GaugeStep, PTL DEF Spec
=============================================================================
