--------------------------- MODULE AccountCooldown ---------------------------
(***************************************************************************)
(* The account cooldown table of the gateway (gateway/routing/cooldown.rs):*)
(* three maps and a timestamp behind one mutex, so that every public       *)
(* function is one atomic step.  Entries are swept lazily: by any mark once *)
(* CleanupInterval seconds have passed, and one by one by the lookups.     *)
(*                                                                         *)
(* In every map 0 stands for an absent key, as last_cleanup_at = 0 does in *)
(* the code: the clock starts at 1 and no stored value can be 0.           *)
(* The clock is the wall clock of now_ts() and is taken not to go back.    *)
(***************************************************************************)
EXTENDS Integers

CONSTANTS
    Accounts,
    ReasonSecs,       \* seconds of cooldown for each reason
    Rungs,            \* length of ACCOUNT_RATE_LIMIT_COOLDOWN_LADDER_SECS
    RungSecs,         \* its entries
    ForgetAfter,      \* ACCOUNT_RATE_LIMIT_OFFENSE_FORGET_AFTER_SECS
    CleanupInterval,  \* ACCOUNT_COOLDOWN_CLEANUP_INTERVAL_SECS
    MaxNow,           \* bound of the model: last value of the clock
    MaxOffenses       \* bound of the model: rate limits counted per account

Reasons == {"Default", "Network", "RateLimited", "Upstream5xx", "Upstream4xx", "Challenge"}

ASSUME ReasonSecsAssumption == ReasonSecs \in [Reasons -> Nat \ {0}]
ASSUME RungsAssumption == Rungs \in Nat \ {0} /\ RungSecs \in [1..Rungs -> Nat \ {0}]
ASSUME ForgetAfterAssumption == ForgetAfter \in Nat
ASSUME CleanupIntervalAssumption == CleanupInterval \in Nat
ASSUME BoundsAssumption == MaxNow \in Nat /\ MaxOffenses \in Nat

VARIABLES
    now,              \* the clock, in seconds
    entries,          \* account -> until
    offense_counts,   \* account -> rate limits held against it
    offense_last_at,  \* account -> time of the last of them
    last_cleanup_at   \* time of the last sweep

table == <<entries, offense_counts, offense_last_at, last_cleanup_at>>
vars == <<now, entries, offense_counts, offense_last_at, last_cleanup_at>>

Init == /\ now = 1
        /\ entries         = [a \in Accounts |-> 0]
        /\ offense_counts  = [a \in Accounts |-> 0]
        /\ offense_last_at = [a \in Accounts |-> 0]
        /\ last_cleanup_at = 0

-----------------------------------------------------------------------------
(* The sweep at the start of a mark                                         *)

CleanupDue == last_cleanup_at = 0 \/ now - last_cleanup_at >= CleanupInterval

\* An offense older than the forget window is dropped by a sweep.
StaleOffense(a) == offense_last_at[a] # 0 /\ now - offense_last_at[a] > ForgetAfter

SweptEntry(a)  == IF CleanupDue /\ entries[a] <= now THEN 0 ELSE entries[a]
SweptCount(a)  == IF CleanupDue /\ StaleOffense(a) THEN 0 ELSE offense_counts[a]
\* A plausible slip: the sweep forgets the counts and keeps their timestamps.
KeptLastAt(a)  == offense_last_at[a]
SweptLastAt(a) == IF CleanupDue /\ StaleOffense(a) THEN 0 ELSE offense_last_at[a]

-----------------------------------------------------------------------------
(* Seconds of cooldown for a mark                                           *)

RateLimitSecs(count) == RungSecs[IF count <= Rungs THEN count ELSE Rungs]

\* A plausible slip: the forget window is left to the sweep.
NextCountUnforgotten(a) == offense_counts[a] + 1
\* The count a rate limit of a reaches: a count outside the forget window restarts.
NextCount(a) == IF StaleOffense(a) THEN 1 ELSE offense_counts[a] + 1

SecsForMark(a, reason) ==
    IF reason = "RateLimited" THEN RateLimitSecs(NextCount(a)) ELSE ReasonSecs[reason]

\* A plausible slip: the new end of the cooldown always replaces the old one.
TakeNewer(until, cooldown_until) == cooldown_until
\* The later of the old and the new end of the cooldown is kept.
KeepLater(until, cooldown_until) == IF cooldown_until > until THEN cooldown_until ELSE until

-----------------------------------------------------------------------------
(* The operations                                                           *)

MarkAccountCooldown(a, reason) ==
    /\ reason = "RateLimited" => offense_counts[a] < MaxOffenses
    /\ last_cleanup_at' = IF CleanupDue THEN now ELSE last_cleanup_at
    /\ offense_counts'  = [b \in Accounts |->
           IF b = a /\ reason = "RateLimited" THEN NextCount(a) ELSE SweptCount(b)]
    /\ offense_last_at' = [b \in Accounts |->
           IF b = a /\ reason = "RateLimited" THEN now ELSE SweptLastAt(b)]
    /\ entries' = [b \in Accounts |->
           IF b = a THEN KeepLater(SweptEntry(a), now + SecsForMark(a, reason))
                    ELSE SweptEntry(b)]
    /\ UNCHANGED now

\* A lookup drops an entry that has expired.
IsAccountInCooldown(a) ==
    /\ entries' = [entries EXCEPT ![a] = IF @ > now THEN @ ELSE 0]
    /\ UNCHANGED <<now, offense_counts, offense_last_at, last_cleanup_at>>

\* A success takes one offense back.  A plausible slip: without a floor.
DecayedBelow(count) == count - 1
Decayed(count) == IF count <= 1 THEN 0 ELSE count - 1

\* A success: the entry goes, and one offense with it.
ClearAccountCooldown(a) ==
    /\ entries'         = [entries EXCEPT ![a] = 0]
    /\ offense_counts'  = [offense_counts EXCEPT ![a] = Decayed(@)]
    /\ offense_last_at' = [offense_last_at EXCEPT ![a] =
           IF offense_counts[a] = 1 THEN 0 ELSE @]
    /\ UNCHANGED <<now, last_cleanup_at>>

\* The runtime configuration is reloaded.
ClearRuntimeState ==
    /\ entries'         = [a \in Accounts |-> 0]
    /\ offense_counts'  = [a \in Accounts |-> 0]
    /\ offense_last_at' = [a \in Accounts |-> 0]
    /\ last_cleanup_at' = 0
    /\ UNCHANGED now

Tick == now < MaxNow /\ now' = now + 1 /\ UNCHANGED table

Next == \/ \E a \in Accounts :
             \/ \E reason \in Reasons : MarkAccountCooldown(a, reason)
             \/ IsAccountInCooldown(a)
             \/ ClearAccountCooldown(a)
        \/ ClearRuntimeState
        \/ Tick

Spec == Init /\ [][Next]_vars

-----------------------------------------------------------------------------
(* Properties                                                               *)

\* The maps hold timestamps and counts, and no timestamp of the past lies in the future.
TypeOK == /\ now \in Nat \ {0}
          /\ entries \in [Accounts -> Nat]
          /\ offense_counts \in [Accounts -> Nat]
          /\ offense_last_at \in [Accounts -> 0..now]
          /\ last_cleanup_at \in 0..now

\* offense_counts and offense_last_at hold the same accounts, although a sweep, a forgetful
\* mark and a success each remove from both: a count without its timestamp would never be
\* forgotten, a timestamp without its count would never be freed.
OffensePaired == \A a \in Accounts : offense_counts[a] = 0 <=> offense_last_at[a] = 0

\* No failure of any kind, on this account or on another whose mark sweeps the table, ends a
\* running cooldown early: only a success of that account or a reload does.
EndsEarlier(a) == entries[a] > now /\ entries'[a] < entries[a]
NeverShortened ==
    [][\A a \in Accounts : EndsEarlier(a) => ClearAccountCooldown(a) \/ ClearRuntimeState]_vars

-----------------------------------------------------------------------------
(* The table implements the countdown of CooldownLadder: when entries are   *)
(* swept, and by whom, cannot be observed.                                  *)

Remembered(a) == offense_counts[a] > 0 /\ now - offense_last_at[a] <= ForgetAfter

remainingBar == [a \in Accounts |-> IF entries[a] > now THEN entries[a] - now ELSE 0]
levelBar     == [a \in Accounts |-> IF Remembered(a) THEN offense_counts[a] ELSE 0]
quietBar     == [a \in Accounts |-> IF Remembered(a) THEN now - offense_last_at[a] ELSE 0]

Ladder == INSTANCE CooldownLadder
            WITH remaining <- remainingBar, level <- levelBar, quiet <- quietBar

\* Every history of the table is a history of the countdown specification: in particular the
\* n-th rate limit within the forget window costs exactly the n-th rung, whatever sweeps,
\* lookups and other accounts' marks come between.
LadderSpec == Ladder!Spec
=============================================================================
