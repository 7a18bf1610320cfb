----------------------------- MODULE AttemptFlow -----------------------------
(***************************************************************************)
(* The attempt on one candidate account (upstream/attempt_flow and          *)
(* upstream/support): a first send, then a chain of conditional resends,   *)
(* each looking at the status of the answer so far, and at the end one     *)
(* decision that also puts the account on cooldown or takes it off.        *)
(* A refreshed token is used and stored, which is left to other modules.   *)
(* The chain is sequential; its environment is the upstream, which answers *)
(* as it likes, and the deadline of the request, which passes between any  *)
(* two steps.  ForwardedRequest runs it for the candidates of a request.   *)
(*                                                                         *)
(* One send is one call of send_upstream_request, whose own transport      *)
(* retry is left out.  handle_openai_fallback_branch is left out because   *)
(* nothing triggers it: both of its conditions are constant false          *)
(* (should_try_openai_fallback in upstream/config.rs and its sibling).     *)
(***************************************************************************)
EXTENDS Integers, CandidateAttempt

\* The upstream base: api.openai.com, the chatgpt backend, or anything else.
Bases == {"openai", "chatgpt", "custom"}

\* What process_candidate_upstream_flow is called with.
Calls == [base : Bases, has_more_candidates : BOOLEAN, has_alt_url : BOOLEAN,
          responses_stream : BOOLEAN, strip_session_affinity : BOOLEAN,
          disable_stateless_retry : BOOLEAN]

\* Status classes: "5xx" stands for the server errors but 500, "other" for the rest.
Statuses == {"success", "400", "401", "403", "404", "429", "500", "5xx", "other"}
\* What marks an answer as coming from the edge and not from the upstream.
Edges == {"none", "cf-ray", "html"}
Responses == [status : Statuses, edge : Edges]
NoResponse == [status |-> "none", edge |-> "none"]

VARIABLES
    call,         \* the arguments, constant over an attempt
    stage,        \* the next thing the attempt does
    upstream,     \* the response it would hand to the client
    seen,         \* status, content type and cf-ray, copied out of a response
    late,         \* the deadline of the request has passed; no step of the attempt sets it
    sends,        \* history: sends of this attempt so far ...
    late_sends,   \* ... and those begun after the deadline
    marks,        \* history: how often the cooldown of the account was set or cleared
    effect,       \* what was done to it last
    unavailable,  \* the account was marked unavailable
    enqueued,     \* a refresh of its usage was asked for
    decision      \* CandidateUpstreamDecision

\* Where a send follows a look at the deadline, the two are stages of their own.
AttemptStages == {"idle", "start", "openai", "bearer", "primary", "primary_send", "edge", "refresh",
           "resend", "alt_path", "alt_send", "server_error", "server_error_send", "challenge",
           "stateless", "stateless_send", "stateless_alt", "stateless_alt_send",
           "outcome", "done"}

NoCall == [base |-> "none", has_more_candidates |-> FALSE, has_alt_url |-> FALSE,
           responses_stream |-> FALSE, strip_session_affinity |-> FALSE,
           disable_stateless_retry |-> FALSE]

AttemptInit == /\ call = NoCall
               /\ stage = "idle"
               /\ upstream = NoResponse /\ seen = NoResponse
               /\ sends = 0 /\ late_sends = 0
               /\ marks = 0 /\ effect = "none"
               /\ unavailable = FALSE /\ enqueued = FALSE
               /\ decision = "none"

Afresh(c, s) == /\ call' = c
                /\ stage' = s
                /\ upstream' = NoResponse /\ seen' = NoResponse
                /\ sends' = 0 /\ late_sends' = 0
                /\ marks' = 0 /\ effect' = "none"
                /\ unavailable' = FALSE /\ enqueued' = FALSE
                /\ decision' = "none"

\* run_candidate_attempt, with these arguments.
AttemptBegins(c) == stage \in {"idle", "done"} /\ Afresh(c, "start")

\* It has returned, and nothing is left of it; what its setup was may be needed again.
AttemptReturns(c) == Afresh(c, "idle")

-----------------------------------------------------------------------------
(* What the steps look at                                                   *)

Official == call.base \in {"openai", "chatgpt"}
More == call.has_more_candidates

\* A plausible slip: a deadline that has passed is taken for one that was never set.
NeverExpired == FALSE
\* deadline::is_expired, or a backoff that cap_wait refuses.
Expired == late

\* should_treat_as_challenge_for_retry
ChallengeForRetry == seen.status \in {"401", "403"} /\ seen.edge # "none"

\* A plausible slip: the retry of a server error does not look for one.
AnyStatus == TRUE
IsServerError == seen.status = "500"

\* should_trigger_stateless_retry
StatelessStatuses == (IF call.disable_stateless_retry THEN {} ELSE {"403", "429"})
                         \cup (IF call.strip_session_affinity THEN {} ELSE {"404"})

\* The failures that are the account's, whatever its usage snapshot says; only a custom
\* upstream is judged by its 404 and 5xx.
AccountFailure ==
    \/ seen.edge = "html" \/ seen.status = "429"
    \/ ~Official /\ (seen.status \in {"500", "5xx"} \/ (seen.status = "404" /\ More))

-----------------------------------------------------------------------------
(* What the steps are made of                                               *)

GoTo(s) == stage' = s

\* A plausible slip: an answer replaces the one before, the copies of its status stay.
ReplaceOnly(response) == /\ upstream' = response
                         /\ seen' = IF seen = NoResponse THEN response ELSE seen
Receive(response) == upstream' = response /\ seen' = response
Keep == UNCHANGED <<upstream, seen>>

CountSend == /\ sends' = sends + 1
             /\ late_sends' = late_sends + (IF late THEN 1 ELSE 0)
NoSend == UNCHANGED <<sends, late_sends>>

Cooldown(what) == effect' = what /\ marks' = marks + 1
NoCooldown == UNCHANGED <<effect, marks>>

Decide(d) == decision' = d /\ GoTo("done")
Undecided == UNCHANGED decision
Rest == UNCHANGED <<call, late, unavailable, enqueued>>

\* On to the next candidate if there is one.  A plausible slip: without looking.
FailoverAlways(otherwise) == "Failover"
FailoverOr(otherwise) == IF More THEN "Failover" ELSE otherwise

\* "upstream total timeout exceeded"
TimesOut == Decide("Terminal") /\ Keep /\ NoSend /\ NoCooldown /\ Rest

Continue(s) == GoTo(s) /\ Keep /\ NoSend /\ NoCooldown /\ Undecided /\ Rest

\* A send that is answered, and one that fails and leaves the answer before it.
Answered(at, next, response) ==
    /\ stage = at
    /\ GoTo(next) /\ Receive(response) /\ CountSend /\ NoCooldown /\ Undecided /\ Rest

FailsQuietly(at, next) ==
    /\ stage = at
    /\ GoTo(next) /\ Keep /\ CountSend /\ NoCooldown /\ Undecided /\ Rest

-----------------------------------------------------------------------------
(* The first send                                                           *)

Starts == /\ stage = "start"
          /\ IF Expired THEN TimesOut
             ELSE Continue(IF call.base = "openai" THEN "openai" ELSE "bearer")

\* try_openai_fallback, without a deadline: an answer is decided upon at once.
OpenAiAnswers(response) == Answered("openai", "outcome", response)

\* It fails, before or in the send; a refused token exchange may cost the account its status.
OpenAiFails(sent, marks_unavailable) ==
    /\ stage = "openai" /\ (sent => ~marks_unavailable)
    /\ Decide("Terminal") /\ Cooldown("marked")
    /\ IF sent THEN CountSend ELSE NoSend
    /\ unavailable' = marks_unavailable
    /\ Keep /\ UNCHANGED <<call, late, enqueued>>

\* "missing chatgpt access token"
MissingBearer == /\ stage = "bearer"
                 /\ Decide("Terminal") /\ Keep /\ NoSend /\ NoCooldown /\ Rest

HasBearer == stage = "bearer" /\ Continue("primary")

Primary == stage = "primary" /\ IF Expired THEN TimesOut ELSE Continue("primary_send")

PrimaryAnswers(response) == Answered("primary_send", "edge", response)

\* An official upstream that cannot be reached is no reason to try another account.
PrimaryFails ==
    /\ stage = "primary_send"
    /\ Decide(IF Official THEN "Terminal" ELSE FailoverOr("Terminal"))
    /\ Cooldown("marked") /\ CountSend /\ Keep /\ Rest

-----------------------------------------------------------------------------
(* The resends of process_upstream_post_retry_flow                          *)

\* should_failover_immediately_for_cloudflare, else on to the resends.
Edge == /\ stage = "edge"
        /\ IF ChallengeForRetry /\ More
           THEN Decide("Failover") /\ Cooldown("marked") /\ Keep /\ NoSend /\ Rest
           ELSE Continue(IF seen.status = "401" THEN "refresh" ELSE "alt_path")

\* try_refresh_chatgpt_access_token: the token is refreshed; there is nothing to refresh it
\* with; or that fails, which may cost the account its status.
Refreshes     == stage = "refresh" /\ Continue("resend")
CannotRefresh == stage = "refresh" /\ Continue("alt_path")
RefreshFails(marks_unavailable) ==
    /\ stage = "refresh"
    /\ unavailable' = marks_unavailable
    /\ GoTo("alt_path") /\ Keep /\ NoSend /\ NoCooldown /\ Undecided
    /\ UNCHANGED <<call, late, enqueued>>

\* retry_with_alternate_path.  After a backoff, which is cut to the deadline, nobody looks at
\* the deadline again: here and in the retries below.
AltPath == /\ stage = "alt_path"
           /\ IF ~(call.has_alt_url /\ seen.status \in {"400", "404"})
              THEN Continue("server_error")
              ELSE IF Expired THEN TimesOut ELSE Continue("alt_send")

\* A plausible slip: the failure is noted and the chain goes on.
AltFailsAndGoesOn == /\ stage = "alt_send"
                     /\ GoTo("server_error") /\ Cooldown("marked") /\ CountSend
                     /\ Undecided /\ Keep /\ Rest
AltFails == /\ stage = "alt_send"
            /\ Decide(FailoverOr("Terminal")) /\ Cooldown("marked") /\ CountSend /\ Keep /\ Rest

\* retry_upstream_server_error_once.  A plausible slip: until it works.
UntilItWorks == "server_error"
AfterServerError == "challenge"

ServerError == /\ stage = "server_error"
               /\ IF ~IsServerError THEN Continue("challenge")
                  ELSE IF Expired THEN TimesOut ELSE Continue("server_error_send")

\* retry_chatgpt_challenge_without_compression: no backoff, no deadline; only a success counts.
RetriesChallenge == ChallengeForRetry /\ call.base = "chatgpt" /\ call.responses_stream

ChallengeSucceeds(response) == /\ RetriesChallenge /\ response.status = "success"
                               /\ Answered("challenge", "stateless", response)
ChallengeFails   == RetriesChallenge /\ FailsQuietly("challenge", "stateless")
NoChallengeRetry == stage = "challenge" /\ ~RetriesChallenge /\ Continue("stateless")

\* retry_stateless_then_optional_alt, for other upstreams than chatgpt.  The deadline counts
\* even when there is nothing to retry.
Stateless ==
    /\ stage = "stateless"
    /\ IF call.base = "chatgpt" \/ ChallengeForRetry THEN Continue("outcome")
       ELSE IF Expired THEN TimesOut
       ELSE Continue(IF seen.status \in StatelessStatuses THEN "stateless_send" ELSE "outcome")

\* The answer may send the retry on to the alternate path, after another backoff.
StatelessAnswers(response) ==
    Answered("stateless_send",
             IF call.has_alt_url /\ response.status \in {"400", "404"}
             THEN "stateless_alt" ELSE "outcome", response)

StatelessAlt == /\ stage = "stateless_alt"
                /\ IF Expired THEN TimesOut ELSE Continue("stateless_alt_send")

-----------------------------------------------------------------------------
(* decide_upstream_outcome                                                  *)

OutcomeSuccess == /\ stage = "outcome" /\ seen.status = "success"
                  /\ Decide("RespondUpstream") /\ Cooldown("cleared") /\ Keep /\ NoSend /\ Rest

\* When the status alone does not tell, the cached usage snapshot decides, but never over
\* the 401 of an official upstream; and the snapshot is to be refreshed.
AsksSnapshot == ~AccountFailure /\ ~(Official /\ seen.status = "401")
AsksRefresh == AsksSnapshot \/ (Official /\ seen.status = "429" /\ seen.edge # "html")

OutcomeFailure(snapshot_unavailable) ==
    /\ stage = "outcome" /\ seen.status # "success"
    /\ IF AccountFailure \/ (AsksSnapshot /\ snapshot_unavailable)
       THEN Decide(FailoverOr("RespondUpstream")) /\ Cooldown("marked")
       ELSE Decide("RespondUpstream") /\ NoCooldown
    /\ enqueued' = AsksRefresh
    /\ Keep /\ NoSend /\ UNCHANGED <<call, late, unavailable>>

-----------------------------------------------------------------------------

FirstSend == \/ Starts
             \/ \E response \in Responses : OpenAiAnswers(response) \/ PrimaryAnswers(response)
             \/ \E sent, marks_unavailable \in BOOLEAN : OpenAiFails(sent, marks_unavailable)
             \/ MissingBearer \/ HasBearer \/ Primary \/ PrimaryFails

Refresh == \/ Edge \/ Refreshes \/ CannotRefresh
           \/ \E marks_unavailable \in BOOLEAN : RefreshFails(marks_unavailable)
           \/ \E response \in Responses : Answered("resend", "alt_path", response)
           \/ FailsQuietly("resend", "alt_path")

Resends == \/ AltPath \/ AltFails \/ ServerError \/ NoChallengeRetry \/ ChallengeFails
           \/ \E response \in Responses :
                  \/ Answered("alt_send", "server_error", response)
                  \/ Answered("server_error_send", AfterServerError, response)
                  \/ ChallengeSucceeds(response)
           \/ FailsQuietly("server_error_send", AfterServerError)

StatelessResends ==
    \/ Stateless \/ StatelessAlt
    \/ \E response \in Responses :
           \/ StatelessAnswers(response)
           \/ Answered("stateless_alt_send", "outcome", response)
    \/ FailsQuietly("stateless_send", "outcome")
    \/ FailsQuietly("stateless_alt_send", "outcome")

Outcomes == \/ OutcomeSuccess
            \/ \E snapshot_unavailable \in BOOLEAN : OutcomeFailure(snapshot_unavailable)

AttemptStep == FirstSend \/ Refresh \/ Resends \/ StatelessResends \/ Outcomes

-----------------------------------------------------------------------------
(* Properties                                                               *)

\* An attempt multiplies a request at most by six; from the first answer on there is one.
AttemptTypeOK ==
    /\ call \in Calls \cup {NoCall}
    /\ stage \in AttemptStages
    /\ upstream \in Responses \cup {NoResponse}
    /\ seen \in Responses \cup {NoResponse}
    /\ late \in BOOLEAN
    /\ sends \in 0..6
    /\ late_sends \in 0..sends
    /\ marks \in Nat
    /\ effect \in CooldownEffects
    /\ unavailable \in BOOLEAN /\ enqueued \in BOOLEAN
    /\ decision \in Decisions \cup {"none"}

\* The attempt ends as CandidateExecutor takes it to end: it hands over only with a candidate
\* left and the account on cooldown, and never clears a cooldown when it fails.
OutcomesAsPromised ==
    stage = "done" => Outcome(decision, effect) \in AttemptOutcomes(call.has_more_candidates)

\* However many sends fail on the way, an attempt touches the cooldown of its account at
\* most once: one request that is rate limited climbs one rung of the ladder.
OneCooldownChange == marks <= 1

\* What is done to the cooldown fits the answer that the client gets, not one that a resend
\* has replaced: cleared for a success and for nothing else, and never spared for a 429.
EffectFitsAnswer ==
    decision = "RespondUpstream" =>
        /\ effect = "cleared" <=> upstream.status = "success"
        /\ upstream.status = "429" => effect = "marked"

\* Once the upstream has done the work, no resend makes it do the work again.
NoSendAfterSuccess == [][sends' > sends => upstream.status # "success"]_sends
=============================================================================
