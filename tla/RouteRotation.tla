--------------------------- MODULE RouteRotation ---------------------------
(***************************************************************************)
(* The balanced route strategy (gateway/routing/route_hint.rs): for every  *)
(* platform key and model a cursor into the candidate list, moved on by    *)
(* each request, in a map that may be bounded to the keys used last.       *)
(*                                                                         *)
(* starts keeps the entries in the order of their last_seen, so that the   *)
(* first one is the one find_oldest_key finds.  The time to live of the    *)
(* entries is off, as it is by default.  Requests that keep the list as it *)
(* is or put a fixed account at its head (ordered mode, a bound            *)
(* conversation, a preferred account, a single candidate) leave no trace   *)
(* here.  The health scores and the nonce of the challenger are left out:  *)
(* any account of the window may be picked and may be the healthier one.   *)
(***************************************************************************)
EXTENDS Integers, Sequences

CONSTANTS
    Keys,            \* pairs of a platform key and a model
    Capacity,        \* entries the map may hold; 0 for no bound
    OrderedWindow,   \* candidates that may be swapped to the head ...
    BalancedWindow   \* ... in either mode; 1 swaps none

ASSUME RotationAssumption ==
    /\ Capacity \in Nat
    /\ OrderedWindow \in Nat
    /\ BalancedWindow \in Nat

VARIABLES
    mode,       \* ROUTE_MODE
    starts,     \* next_start_by_key_model: [key, value], least recently used first
    clearing    \* a strategy has been stored and the map is about to be cleared

rotationVars == <<mode, starts, clearing>>

Modes == {"ordered", "balanced"}

RotationInit ==
    /\ mode = "balanced"       \* a saved setting; ordered otherwise
    /\ starts = <<>>
    /\ clearing = FALSE

-----------------------------------------------------------------------------

Known(k) == \E i \in DOMAIN starts : starts[i].key = k
Place(k) == CHOOSE i \in DOMAIN starts : starts[i].key = k

\* The other entries: a key has one.
Without(k) ==
    IF Known(k)
    THEN SubSeq(starts, 1, Place(k) - 1) \o SubSeq(starts, Place(k) + 1, Len(starts))
    ELSE starts

\* The value stored for k: 0 for a key that has none yet.
Stored(k) == IF Known(k) THEN starts[Place(k)].value ELSE 0

\* A plausible slip: all keys share one cursor.
SharedStart(k, n) ==
    IF starts = <<>> THEN 0 ELSE starts[Len(starts)].value % n

\* Where a request of k enters a list of n candidates.
StartOf(k, n) == Stored(k) % n

Following(k, n) == (StartOf(k, n) + 1) % n

\* A plausible slip: the map grows with the keys.
Unbounded(entries) == entries

\* enforce_capacity_pair: the entry used least recently goes.
Bounded(entries) ==
    IF Capacity > 0 /\ Len(entries) > Capacity THEN Tail(entries) ELSE entries

Rotated(list, start) ==
    SubSeq(list, start + 1, Len(list)) \o SubSeq(list, 1, start)

Window == IF mode = "balanced" THEN BalancedWindow ELSE OrderedWindow

\* apply_health_p2c: the head stays, or a healthier challenger swaps with it.
Heads(order) ==
    {order[i] : i \in {j \in DOMAIN order : j = 1 \/ j <= Window}}

\* A request of k that no binding and no preferred account decides starts at
\* one of these accounts of list, which has more than one.
StartsAt(k, list, head) ==
    /\ mode = "balanced"
    /\ Len(list) > 1
    /\ head \in Heads(Rotated(list, StartOf(k, Len(list))))
    /\ starts' = Bounded(Append(Without(k),
                                [key |-> k, value |-> Following(k, Len(list))]))
    /\ UNCHANGED <<mode, clearing>>

\* set_route_strategy: the mode first, the map later and under its lock.
StoresStrategy(m) ==
    /\ ~clearing
    /\ mode' = m
    /\ clearing' = TRUE
    /\ UNCHANGED starts

ClearsStarts ==
    /\ clearing
    /\ starts' = <<>>
    /\ clearing' = FALSE
    /\ UNCHANGED mode
=============================================================================
