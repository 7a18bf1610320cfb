----------------------------- MODULE RequestGate -----------------------------
(***************************************************************************)
(* The request gate of the gateway (gateway/routing/request_gate.rs and    *)
(* upstream/proxy_pipeline/request_gate.rs).  Requests with the same key   *)
(* (API key, path and model) take turns: each looks up the lock of its key *)
(* in a shared table, tries it, and if it is held waits on a condition     *)
(* variable, for a bounded time when a gate timeout or a request deadline  *)
(* applies.  A request whose wait ends without the lock goes on without a  *)
(* guard.  Locks are reference counted; a lookup sweeps the entries nobody *)
(* used for longer than Ttl, and a configuration reload drops the table    *)
(* under the feet of whoever is using it.                                  *)
(*                                                                         *)
(* The table mutex and each lock's state mutex make the steps below atomic.*)
(* Their poisoning is left out: nothing panics while one of them is held.  *)
(***************************************************************************)
EXTENDS Integers, FiniteSets

CONSTANTS
    Requests,         \* the worker threads that forward requests
    Keys,             \* gate keys
    Locks,            \* bound of the model: lock objects that can be allocated
    NoLock, NoKey,    \* "no such object"
    Ttl,              \* REQUEST_GATE_LOCK_TTL_SECS
    CleanupInterval,  \* REQUEST_GATE_LOCK_CLEANUP_INTERVAL_SECS
    MaxNow,           \* bound of the model: last value of the clock
    MaxReloads        \* bound of the model: configuration reloads

ASSUME NoLockAssumption == NoLock \notin Locks
ASSUME NoKeyAssumption == NoKey \notin Keys
ASSUME TimesAssumption == Ttl \in Nat /\ CleanupInterval \in Nat
ASSUME BoundsAssumption == MaxNow \in Nat /\ MaxReloads \in Nat

VARIABLES
    now,              \* the clock, in seconds
    entries,          \* key -> lock of the table, or NoLock
    last_seen_at,     \* key -> time of its last lookup (0: never)
    last_cleanup_at,  \* time of the last sweep (0: never)
    held,             \* lock -> the flag its state mutex protects
    pc,               \* where each request is in acquire_request_gate
    key,              \* the key it looked up
    ref,              \* the lock it holds a reference to
    bounded,          \* its wait has a timeout
    expired,          \* and the timeout has passed
    reloads,          \* history: how often the table was cleared ...
    epoch             \* ... when the request looked its lock up

tableVars   == <<entries, last_seen_at, last_cleanup_at>>
requestVars == <<pc, key, ref, bounded, expired, epoch>>
vars == <<now, entries, last_seen_at, last_cleanup_at, held, reloads,
          pc, key, ref, bounded, expired, epoch>>

\* "idle" outside the gate; "looked" has its lock, not tried yet; "busy" found it held, not
\* waiting yet; "asleep" on the condition variable; "woken" off it, about to look again;
\* "holding" the guard; "leaving" with no guard, about to drop its reference.
Stages  == {"idle", "looked", "busy", "asleep", "woken", "holding", "leaving"}
Waiting == {"busy", "asleep", "woken"}

Init == /\ now = 1
        /\ entries = [k \in Keys |-> NoLock]
        /\ last_seen_at = [k \in Keys |-> 0]
        /\ last_cleanup_at = 0
        /\ held = [l \in Locks |-> FALSE]
        /\ pc = [r \in Requests |-> "idle"]
        /\ key = [r \in Requests |-> NoKey]
        /\ ref = [r \in Requests |-> NoLock]
        /\ bounded = [r \in Requests |-> FALSE]
        /\ expired = [r \in Requests |-> FALSE]
        /\ reloads = 0
        /\ epoch = [r \in Requests |-> 0]

-----------------------------------------------------------------------------
(* The lock table                                                           *)

\* Arc::strong_count above the table's own reference.
InUse(l) == \E r \in Requests : ref[r] = l

Allocated(l) == InUse(l) \/ \E k \in Keys : entries[k] = l

\* Arc::new: some lock object nobody refers to.
FreshLock == CHOOSE l \in Locks : ~Allocated(l)

CleanupDue == last_cleanup_at = 0 \/ now - last_cleanup_at >= CleanupInterval

Stale(k) == now - last_seen_at[k] > Ttl

\* A plausible slip: age alone decides.
SweptByAge(k) == CleanupDue /\ Stale(k)

\* The sweep of a lookup removes what is old and referred to by the table only.
Swept(k) == CleanupDue /\ Stale(k) /\ ~InUse(entries[k])

\* request_gate_lock: sweep, then find or create the lock of key k.
Lookup(r, k) ==
    LET kept  == [j \in Keys |-> IF Swept(j) THEN NoLock ELSE entries[j]]
        found == IF kept[k] = NoLock THEN FreshLock ELSE kept[k]
    IN  /\ pc[r] = "idle"
        /\ kept[k] = NoLock => \E l \in Locks : ~Allocated(l)
        /\ last_cleanup_at' = IF CleanupDue THEN now ELSE last_cleanup_at
        /\ entries' = [kept EXCEPT ![k] = found]
        /\ last_seen_at' = [j \in Keys |->
               IF j = k THEN now ELSE IF Swept(j) THEN 0 ELSE last_seen_at[j]]
        /\ held'  = IF kept[k] = NoLock THEN [held EXCEPT ![found] = FALSE] ELSE held
        /\ pc'    = [pc EXCEPT ![r] = "looked"]
        /\ key'   = [key EXCEPT ![r] = k]
        /\ ref'   = [ref EXCEPT ![r] = found]
        /\ epoch' = [epoch EXCEPT ![r] = reloads]
        /\ UNCHANGED <<now, reloads, bounded, expired>>

\* clear_runtime_state: a reload forgets the table, not the guards that are out.
ClearRuntimeState ==
    /\ reloads < MaxReloads
    /\ reloads' = reloads + 1
    /\ entries' = [k \in Keys |-> NoLock]
    /\ last_seen_at' = [k \in Keys |-> 0]
    /\ last_cleanup_at' = 0
    /\ UNCHANGED <<now, held>> /\ UNCHANGED requestVars

-----------------------------------------------------------------------------
(* Acquiring and releasing                                                  *)

Take(r) == /\ ~held[ref[r]]
           /\ held' = [held EXCEPT ![ref[r]] = TRUE]
           /\ pc' = [pc EXCEPT ![r] = "holding"]

\* try_acquire succeeds.
TryAcquire(r) ==
    /\ pc[r] = "looked" /\ Take(r)
    /\ UNCHANGED <<now, tableVars, reloads, key, ref, bounded, expired, epoch>>

\* try_acquire fails: the request will wait, with a timeout or without, or not at all when
\* the timeout is configured to nothing or its deadline has passed.
TryFails(r, hasTimeout) ==
    /\ pc[r] = "looked" /\ held[ref[r]]
    /\ bounded' = [bounded EXCEPT ![r] = hasTimeout]
    /\ pc' = [pc EXCEPT ![r] = "busy"]
    /\ UNCHANGED <<now, tableVars, held, reloads, key, ref, expired, epoch>>

NoTimeToWait(r) ==
    /\ pc[r] = "looked" /\ held[ref[r]]
    /\ pc' = [pc EXCEPT ![r] = "leaving"]
    /\ UNCHANGED <<now, tableVars, held, reloads, key, ref, bounded, expired, epoch>>

\* acquire, acquire_with_timeout: the condition is looked at before the first sleep and
\* after each one; a wait that ran out takes the lock too if it finds it free.
WaitTakes(r) ==
    /\ pc[r] \in {"busy", "woken"} /\ Take(r)
    /\ UNCHANGED <<now, tableVars, reloads, key, ref, bounded, expired, epoch>>

WaitSleeps(r) ==
    /\ pc[r] \in {"busy", "woken"} /\ held[ref[r]] /\ ~expired[r]
    /\ pc' = [pc EXCEPT ![r] = "asleep"]
    /\ UNCHANGED <<now, tableVars, held, reloads, key, ref, bounded, expired, epoch>>

\* A plausible slip: a wait that ran out is not noticed.
GivesUpNever(r) == FALSE
GivesUp(r) == pc[r] = "woken" /\ held[ref[r]] /\ expired[r]

WaitGivesUp(r) ==
    /\ GivesUp(r)
    /\ pc' = [pc EXCEPT ![r] = "leaving"]
    /\ UNCHANGED <<now, tableVars, held, reloads, key, ref, bounded, expired, epoch>>

\* The timeout of a wait passes, on the condition variable or just after a notification.
TimerFires(r) ==
    /\ bounded[r] /\ ~expired[r] /\ pc[r] \in {"asleep", "woken"}
    /\ expired' = [expired EXCEPT ![r] = TRUE]
    /\ pc' = [pc EXCEPT ![r] = "woken"]
    /\ UNCHANGED <<now, tableVars, held, reloads, key, ref, bounded, epoch>>

\* A condition variable may wake a thread that nobody notified.
SpuriousWakeup(r) ==
    /\ pc[r] = "asleep"
    /\ pc' = [pc EXCEPT ![r] = "woken"]
    /\ UNCHANGED <<now, tableVars, held, reloads, key, ref, bounded, expired, epoch>>

Sleepers(l) == {r \in Requests : ref[r] = l /\ pc[r] = "asleep"}

\* A plausible slip: the lock is freed without notify_one.
NobodyNotified(r, woken) == pc' = [pc EXCEPT ![r] = "leaving"]

\* notify_one: woken is the sleeper it wakes, r itself when nobody sleeps.
Notified(r, woken) ==
    /\ IF Sleepers(ref[r]) = {} THEN woken = r ELSE woken \in Sleepers(ref[r])
    /\ pc' = [s \in Requests |-> IF s = r THEN "leaving"
                                 ELSE IF s = woken THEN "woken" ELSE pc[s]]

\* The guard is dropped at the end of the request, also when it panics.
Release(r) ==
    /\ pc[r] = "holding"
    /\ held' = [held EXCEPT ![ref[r]] = FALSE]
    /\ \E woken \in Requests : Notified(r, woken)
    /\ UNCHANGED <<now, tableVars, reloads, key, ref, bounded, expired, epoch>>

\* A plausible slip: the reference outlives the request.
KeepsReference(r) == UNCHANGED ref
DropsReference(r) == ref' = [ref EXCEPT ![r] = NoLock]

\* The last reference of the request to its lock goes.
Leave(r) ==
    /\ pc[r] = "leaving"
    /\ DropsReference(r)
    /\ pc'      = [pc EXCEPT ![r] = "idle"]
    /\ key'     = [key EXCEPT ![r] = NoKey]
    /\ bounded' = [bounded EXCEPT ![r] = FALSE]
    /\ expired' = [expired EXCEPT ![r] = FALSE]
    /\ epoch'   = [epoch EXCEPT ![r] = 0]
    /\ UNCHANGED <<now, tableVars, held, reloads>>

Tick == /\ now < MaxNow /\ now' = now + 1
        /\ UNCHANGED <<tableVars, held, reloads>> /\ UNCHANGED requestVars

Wait(r) == WaitTakes(r) \/ WaitSleeps(r) \/ WaitGivesUp(r)

Next == \/ \E r \in Requests :
             \/ \E k \in Keys : Lookup(r, k)
             \/ TryAcquire(r)
             \/ \E hasTimeout \in BOOLEAN : TryFails(r, hasTimeout)
             \/ NoTimeToWait(r)
             \/ WaitTakes(r)
             \/ WaitSleeps(r)
             \/ WaitGivesUp(r)
             \/ TimerFires(r)
             \/ SpuriousWakeup(r)
             \/ Release(r)
             \/ Leave(r)
        \/ ClearRuntimeState
        \/ Tick

Spec == Init /\ [][Next]_vars

\* A thread that is not blocked gets its state mutex, and a timer that runs fires.  Nothing
\* is assumed of the holders: an upstream may keep a request for as long as it likes.
FairSpec == /\ Spec
            /\ \A r \in Requests : WF_vars(Wait(r)) /\ WF_vars(TimerFires(r))

-----------------------------------------------------------------------------
(* Properties                                                               *)

\* A request refers to a lock and knows its key exactly while it is in the gate code.
TypeOK ==
    /\ now \in Nat \ {0}
    /\ entries \in [Keys -> Locks \cup {NoLock}]
    /\ last_seen_at \in [Keys -> Nat]
    /\ last_cleanup_at \in Nat
    /\ held \in [Locks -> BOOLEAN]
    /\ pc \in [Requests -> Stages]
    /\ key \in [Requests -> Keys \cup {NoKey}]
    /\ ref \in [Requests -> Locks \cup {NoLock}]
    /\ bounded \in [Requests -> BOOLEAN]
    /\ expired \in [Requests -> BOOLEAN]
    /\ reloads \in Nat
    /\ epoch \in [Requests -> Nat]
    /\ \A r \in Requests : /\ pc[r] = "idle" <=> ref[r] = NoLock
                           /\ pc[r] = "idle" <=> key[r] = NoKey

\* Two requests that hold the gate of one key at once looked it up on different sides of a
\* reload: neither the sweep of the table nor a wait that runs out lets a second one in.
KeyExclusion ==
    \A r, s \in Requests :
        (pc[r] = "holding" /\ pc[s] = "holding" /\ key[r] = key[s] /\ epoch[r] = epoch[s])
            => r = s

\* While requests sleep on a free lock one more is on its way to it.  A notification taken
\* by a waiter that times out at that moment, or that finds a newcomer has been faster, must
\* not leave the others asleep.
NoLostWakeup ==
    \A l \in Locks : (~held[l] /\ Sleepers(l) # {}) =>
        \E r \in Requests : ref[r] = l /\ pc[r] = "woken"

\* A wait with a timeout ends, with the lock or without, whatever the holder does.
BoundedWaitEnds ==
    \A r \in Requests : (pc[r] \in Waiting /\ bounded[r]) ~> pc[r] \notin Waiting
=============================================================================
