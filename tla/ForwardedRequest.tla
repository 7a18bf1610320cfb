--------------------------- MODULE ForwardedRequest ---------------------------
(***************************************************************************)
(* The loop over the candidates with the attempts inside it: for one of    *)
(* the requests each attempt of CandidateExecutor is a run of AttemptFlow, *)
(* step by step, while the loops of the other requests, the cooldowns and  *)
(* the deadline go on around it.  The attempts of the others stay the      *)
(* single steps that CandidateExecutor makes of them.                      *)
(***************************************************************************)
EXTENDS CandidateExecutor

CONSTANT Traced     \* the request whose attempts are looked into

ASSUME TracedAssumption == Traced \in Requests

VARIABLES
    call, stage, upstream, seen, sends, late_sends,     \* those of AttemptFlow
    marks, effect, unavailable, enqueued, decision,
    late_work   \* history: sends that earlier attempts of the request began late

\* The attempt looks at the deadline of its request.
INSTANCE AttemptFlow WITH late <- late[Traced]

attemptVars == <<call, stage, upstream, seen, sends, late_sends, marks, effect,
                 unavailable, enqueued, decision>>
forwardedVars == <<vars, attemptVars, late_work>>

ForwardedInit == Init /\ AttemptInit /\ late_work = 0

InAttempt == pc[Traced] \in {"attempt", "retry"}

\* The arguments that follow from the setup of the request, not from the candidate.
Setup(c) == <<c.base, c.has_alt_url, c.responses_stream, c.disable_stateless_retry>>

\* What execute_candidate_sequence may call the attempt with: the first candidate keeps
\* the session affinity, the retry after a 400 never does.
Suits(c) ==
    /\ c.has_more_candidates = HasMoreCandidates(Traced)
    /\ pc[Traced] = "retry" => c.strip_session_affinity
    /\ pc[Traced] = "attempt" /\ idx[Traced] = 1 => ~c.strip_session_affinity
    /\ call # NoCall => Setup(c) = Setup(call)

BeginsAttempt ==
    /\ InAttempt
    /\ \E c \in Calls : Suits(c) /\ AttemptBegins(c)
    /\ late_work' = late_work + late_sends
    /\ UNCHANGED vars

AttemptGoesOn ==
    /\ UNCHANGED <<vars, late_work>>
    /\ AttemptStep
    /\ stage' # "done"

\* A 400 may be due to the session affinity, unless that was stripped already.
MayRetry == upstream'.status = "400" /\ ~call.strip_session_affinity

\* The decision of the attempt is what the loop goes on with.
AttemptEnds ==
    /\ UNCHANGED <<late, late_work>>
    /\ AttemptStep
    /\ stage' = "done"
    /\ LET outcome == Outcome(decision', effect')
       IN  \/ AttemptFailsOver(Traced, outcome)
           \/ \E kind \in ErrorKinds : AttemptIsTerminal(Traced, outcome, kind)
           \/ \E again \in BOOLEAN :
                  (again => MayRetry) /\ AttemptResponds(Traced, outcome, again)

\* Everything else that goes on; the step after an attempt leaves it behind.
AroundAttempt ==
    /\ Next
    /\ InAttempt => pc'[Traced] = pc[Traced]
    /\ \/ /\ pc'[Traced] = pc[Traced]
          /\ UNCHANGED <<attemptVars, late_work>>
       \/ /\ pc'[Traced] \notin {pc[Traced], "idle"}
          /\ AttemptReturns(call)
          /\ late_work' = late_work + late_sends
       \/ /\ pc'[Traced] # pc[Traced] /\ pc'[Traced] = "idle"
          /\ AttemptReturns(NoCall)
          /\ late_work' = 0

ForwardedNext == AroundAttempt \/ BeginsAttempt \/ AttemptGoesOn \/ AttemptEnds

ForwardedSpec == ForwardedInit /\ [][ForwardedNext]_forwardedVars

-----------------------------------------------------------------------------

\* With its attempts carried out step by step the loop is still the loop of
\* CandidateExecutor: however a chain of resends ends, it hands over only with a candidate
\* left and the account on cooldown, and never clears a cooldown when it fails
\* (candidate_executor.rs, candidate_attempt.rs).
LoopSpec == Spec

\* At most three sends of a request begin after its deadline, over all its candidates and
\* retries: the first send of an attempt, the one after a token refresh and the challenge retry
\* are the only ones that can follow one another unchecked, and no attempt after that
\* one sends anything (deadline.rs, postprocess.rs, candidate_executor.rs).
LateWorkBounded == late_work + late_sends <= 3

\* What is sent is sent for somebody and counted: the client's request is still there to be
\* answered, although the loop goes on after a delivery, and the account that works for it has
\* its in-flight guard out (candidate_executor.rs, acquire_account_inflight).
SendsAreAccountedFor ==
    [][sends' > sends => request[Traced] = "held" /\ guard[Traced] = Candidate(Traced)]_forwardedVars
=============================================================================
