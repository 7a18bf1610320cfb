--------------------------- MODULE CooldownLadder ---------------------------
(***************************************************************************)
(* What the account cooldown table promises to the router, without its     *)
(* maps, timestamps and lazy cleanup: every account has a countdown of the *)
(* seconds it must still be left alone and a rung on the rate-limit        *)
(* ladder.  A failure can only lengthen the countdown, a rate limit also   *)
(* climbs one rung, a success ends the countdown and steps one rung down,  *)
(* and the ladder is forgotten when no rate limit was seen for longer than *)
(* ForgetAfter seconds.  AccountCooldown implements this specification.    *)
(***************************************************************************)
EXTENDS Integers

CONSTANTS
    Accounts,     \* the account ids
    Reasons,      \* the reasons for a cooldown, "RateLimited" among them
    ReasonSecs,   \* seconds of cooldown for each reason
    Rungs,        \* number of rungs of the rate-limit ladder
    RungSecs,     \* seconds of cooldown on each rung
    ForgetAfter   \* seconds without a rate limit after which it is forgotten

VARIABLES
    remaining,    \* remaining[a]: seconds before a may be selected again
    level,        \* level[a]: rate limits held against a
    quiet         \* quiet[a]: seconds since the last of them

vars == <<remaining, level, quiet>>

Init == /\ remaining = [a \in Accounts |-> 0]
        /\ level     = [a \in Accounts |-> 0]
        /\ quiet     = [a \in Accounts |-> 0]

\* The rung used for the n-th rate limit; the last rung absorbs all further ones.
Rung(n) == RungSecs[IF n <= Rungs THEN n ELSE Rungs]

Longer(m, n) == IF m < n THEN n ELSE m

\* A failure that is not a rate limit.
Fail(a, reason) ==
    /\ reason # "RateLimited"
    /\ remaining' = [remaining EXCEPT ![a] = Longer(@, ReasonSecs[reason])]
    /\ UNCHANGED <<level, quiet>>

RateLimit(a) ==
    /\ level'     = [level EXCEPT ![a] = @ + 1]
    /\ quiet'     = [quiet EXCEPT ![a] = 0]
    /\ remaining' = [remaining EXCEPT ![a] = Longer(@, Rung(level[a] + 1))]

Succeed(a) ==
    /\ remaining' = [remaining EXCEPT ![a] = 0]
    /\ level'     = [level EXCEPT ![a] = IF @ <= 1 THEN 0 ELSE @ - 1]
    /\ quiet'     = [quiet EXCEPT ![a] = IF level[a] <= 1 THEN 0 ELSE @]

\* The configuration is reloaded: everything is forgotten at once.
Reload == /\ remaining' = [a \in Accounts |-> 0]
          /\ level'     = [a \in Accounts |-> 0]
          /\ quiet'     = [a \in Accounts |-> 0]

\* Does a second more of silence make the ladder of a forgotten?
Forgotten(a) == level[a] = 0 \/ quiet[a] + 1 > ForgetAfter

Tick ==
    /\ remaining' = [a \in Accounts |-> IF remaining[a] > 0 THEN remaining[a] - 1 ELSE 0]
    /\ level'     = [a \in Accounts |-> IF Forgotten(a) THEN 0 ELSE level[a]]
    /\ quiet'     = [a \in Accounts |-> IF Forgotten(a) THEN 0 ELSE quiet[a] + 1]

Next == \/ \E a \in Accounts :
             \/ \E reason \in Reasons : Fail(a, reason)
             \/ RateLimit(a)
             \/ Succeed(a)
        \/ Reload
        \/ Tick

Spec == Init /\ [][Next]_vars
=============================================================================
