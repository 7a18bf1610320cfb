--------------------------- MODULE CandidateAttempt ---------------------------
(***************************************************************************)
(* What the attempt on one candidate account promises to the loop over the *)
(* candidates, whatever it sends upstream to get there: it hands over to   *)
(* the next candidate only if there is one and only after it has put the   *)
(* account on cooldown; it fails for good without ever clearing a cooldown;*)
(* and only an answer of the upstream can clear it.                        *)
(* CandidateExecutor is written against these outcomes and AttemptFlow is  *)
(* shown to produce no others.                                             *)
(***************************************************************************)

Decisions == {"Failover", "Terminal", "RespondUpstream"}

\* What the attempt did to the cooldown of its account.
CooldownEffects == {"none", "marked", "cleared"}

Outcome(decision, effect) == [decision |-> decision, effect |-> effect]

AttemptOutcomes(has_more_candidates) ==
    {Outcome("Terminal", effect) : effect \in {"none", "marked"}}
        \cup {Outcome("RespondUpstream", effect) : effect \in CooldownEffects}
        \cup (IF has_more_candidates THEN {Outcome("Failover", "marked")} ELSE {})
=============================================================================
