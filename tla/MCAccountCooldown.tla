-------------------------- MODULE MCAccountCooldown --------------------------
(* Instance of AccountCooldown for TLC.  The order of the real durations is  *)
(* kept: challenge < default = network = 4xx < 5xx < first rung < ... , one  *)
(* rung no longer than the forget window and a last one longer than it.      *)
EXTENDS AccountCooldown

MCReasonSecs ==
    [reason \in Reasons |->
        CASE reason = "Challenge"   -> 1
          [] reason = "Upstream5xx" -> 3
          [] reason = "RateLimited" -> 4
          [] OTHER                  -> 2]

MCRungSecs == <<4, 5, 7>>
=============================================================================
