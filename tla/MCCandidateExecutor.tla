------------------------- MODULE MCCandidateExecutor -------------------------
(* Instance of CandidateExecutor for TLC: candidate lists of two lengths over *)
(* the same accounts, in opposite orders, so that one request's last resort  *)
(* is another's first choice.                                                *)
EXTENDS CandidateExecutor
CONSTANTS a1, a2
MCOrders == {<<a1, a2>>, <<a2, a1>>, <<a2>>}
=============================================================================
