# A TLA+ model of the CodexManager service

CodexManager (`crates/`) is a local gateway: it keeps a pool of upstream accounts (OAuth
tokens, usage quotas, an order of preference), accepts API requests over HTTP and forwards each
of them with one of these accounts. The interesting part is not a single request but what many
worker threads do to the state they share while upstreams time out, refuse, stall and break
off: cooldowns, gates, in-flight counts, conversation bindings, account statuses, tokens. This
directory models that part in TLA+, checks it with TLC and proves its main properties with TLAPS.

Paths below are relative to `src/crates/service/src/` unless they start with `core/` (for
`src/crates/core/src/`) or `docs/`.

## 1. Inventory

`PROJECT.json` lists every component with its files and status. This is what they are.

### The gateway: one request's way

1. `http/` accepts the request on a front end, which proxies it to `http/backend_runtime.rs`: a
   queue with a pool of workers, one thread per request being served.
2. `gateway/local_validation` checks the API key and rewrites the request; it loads the row of
   `conversation_bindings` that belongs to the conversation.
3. `gateway/routing/selection.rs` takes the candidate accounts from a snapshot cache or the
   database.
4. `gateway/routing/conversation_binding.rs` and `route_hint.rs`, `route_quality.rs` put them in
   order: bound account first, then the manual preference, then the route strategy.
5. `gateway/upstream/proxy_pipeline/request_gate.rs` lets one request per (key, path, model)
   through at a time, softly.
6. `proxy_pipeline/candidate_executor.rs` walks the candidates: skip check, in-flight guard,
   attempt, delivery, fail-over.
7. `gateway/upstream/attempt_flow/` makes one attempt: a send and a chain of conditional resends,
   then a decision, which marks or clears the account's cooldown and may mark its status.
8. `gateway/observability/http_bridge/` delivers the answer; the binding is written.

| Component | State | Operations | Hard behaviour | What makes it correct |
|---|---|---|---|---|
| Account cooldown (`gateway/routing/cooldown.rs`) | until, offence count, time of last offence per account; time of last sweep; one mutex | mark (six reasons), clear, lookup, sweep, reload | lazy sweeping by other accounts' marks; decay; forget window; boundaries | behaves as a plain countdown with a ladder; no failure shortens a cooldown |
| Request gate (`gateway/routing/request_gate.rs`, `upstream/proxy_pipeline/request_gate.rs`) | table key to lock with last use; per lock a flag, a condition variable and a reference count | lookup and sweep, try, wait with or without timeout, guard drop, reload | timeouts against notifications, barging, spurious wakeups, sweep against use, reload under use | exclusion per key, no lost wakeup, bounded waits end |
| Candidate execution (`candidate_executor.rs`, `response_finalize.rs`, `support/candidates.rs`, `observability/metrics.rs`) | place in the list, the client's request (a value that can be given away once), the in-flight guard; shared in-flight counts | check, skip, acquire, attempt, retry, deliver, hold back, fail over | two checks under two locks; guard on a dozen exits; continue after delivery | counts exact; list never runs dry; handled means answered; every request ends |
| Attempt flow (`gateway/upstream/attempt_flow`, `support/`) | the response in hand, copies of its status and headers, deadline | first send, token refresh, alternate path, 5xx retry, challenge retry, stateless retry, decision | resends whose conditions read stale copies; deadlines looked at in some places only | contract towards the loop; one cooldown change; no resend after success |
| Conversation binding (`gateway/routing/conversation_binding.rs`, `core/storage/conversation_bindings.rs`) | one row per conversation: account, epoch, thread anchor | load, select, derive the attempt's thread, write | read and write separated by the whole request; concurrent requests; account deletion; manual preference | one account per upstream thread; a slow answer does not undo a switch |
| Route strategy (`gateway/routing/route_hint.rs`, `route_quality.rs`) | strategy; start index and nonce per key and model in capacity-bounded maps; quality records | order the candidates, change the strategy, record an outcome | eviction of live entries; indices into a list that changes | the requests of a key start at one account after the other |
| Candidate selection (`gateway/routing/selection.rs`) | snapshot of candidates with an expiry | read, fill, invalidate | fill racing an invalidation | an account that is spent is offered only for a reason |
| Account status (`account/account_status.rs`) | status of the account's row and a log of reasons | automatic marks on refusals, recovery on usage success, manual enable and disable | check of "disabled by hand" and write are two statements | a manual decision is not overwritten |
| Token exchange and refresh (`gateway/auth`, `usage/usage_token_refresh.rs`, `core/storage/tokens.rs`) | token row of the account; table of per-account locks | exchange under a lock, refresh under it or without one, persist, log in, delete | double-checked lock, table sweep, one-time refresh tokens used twice, rows replaced and cascaded away | one exchange at a time; the stored refresh token stays good |
| Usage refresh (`usage/refresh`) | set of pending accounts, channel of tasks, polling cursor, failure log | enqueue, run, poll, back off | pending mark set and removed by different threads; cursor on a changing list; failing batches | a pending account is refreshed once and freed; every account is polled |
| Backend runtime (`http/backend_runtime.rs`) | two bounded channels, depth gauges | enqueue with spill-over, take, refuse | gauges raised after the send; panicking handlers | a request is queued once or refused, and answered |
| Shutdown (`lifecycle`, `http/server.rs`, `http/proxy_bridge.rs`) | flag of the process | ask, drain, wake, join | the front proxy waits for the backend and the backend for the front proxy; asked for from another process | a shutdown comes to its end |
| Plugins (`plugin/`) | tasks with schedules, run records | claim due tasks, run, reschedule, run by hand | read-run-write; two triggers at once | every enabled task runs again |
| Storage (`core/storage`) | SQLite, pooled connections | statements | atomic per statement or transaction | (taken as given) |
| Login, account import (but for its write of the token), settings, API keys, models, aggregate API, protocol adapters, logs, web, updater, desktop shell, front end | rows, sessions, files | parsing, CRUD, I/O | little interleaving | not the subject here |

Interaction is by direct calls within a worker thread and by shared maps behind mutexes; there
are no messages between components except the queues. A configuration reload calls the
`clear_runtime_state` of several components one after another.

The hazards this code has, each at its line and with the property that covers it, are listed
under `hazards` in `PROJECT.json`.

## 2. Modules

| Module | Models | Used by |
|---|---|---|
| `CooldownLadder` | abstract: a countdown per account, with a level that a rate limit raises and quiet time forgets | refined by `AccountCooldown` |
| `AccountCooldown` | `gateway/routing/cooldown.rs` | |
| `RequestGate` | both `request_gate.rs` | |
| `CandidateAttempt` | abstract: the outcomes an attempt may have | `CandidateExecutor`, `AttemptFlow` |
| `CandidateExecutor` | candidate loop, skip checks, in-flight guards, finalisation; an attempt is one step | `ForwardedRequest` |
| `AttemptFlow` | attempt flow and its decisions: the state and the steps of one attempt | `ForwardedRequest` |
| `ForwardedRequest` | the candidate loop with the attempts of `AttemptFlow` inside it; refines `CandidateExecutor` | |
| `ConversationBinding` | the life of one conversation's row | |
| `AccountStatus` | statuses of the accounts' rows, who writes them, and the candidate cache in front of them | |
| `TokenExchange` | exchange locks, token rows, refreshes, and the upstream's rotation of refresh tokens | |
| `BackendQueue` | accepting thread, channels, workers and gauges of the backend | `ServiceWork` |
| `UsageQueue` | the deduplicating queue of usage refreshes and its workers | `ServiceWork` |
| `ServiceWork` | front proxy, backend and usage queue of one process, and its shutdown | |
| `RouteRotation` | start of a key's requests, its bounded map, and the change of strategy | `AccountRotation` |
| `UsagePolling` | cursor and batches of the usage polling | `AccountRotation` |
| `AccountRotation` | both cursors over accounts that become usable and unusable | |
| `X_proof` | the theorems about module `X`; `ForwardedRequest_proof` also has those about `CandidateExecutor` and `AttemptFlow` | |
| `MCX` | module `X` with constants for TLC | |

Operators commented as *plausible slips* are not part of the specifications: each is a variant
of the definition after it, as a bug would have it, kept to show that the properties notice.

### How the modules are composed

`CandidateAttempt` is the seam between the loop and the attempt. `AttemptOutcomes(more)` is the
set of (decision, effect on the cooldown) pairs, and `CandidateExecutor` lets an attempt take any
of them in one step. `ForwardedRequest` puts the two together: it extends the loop and
instantiates `AttemptFlow` for one of the requests, whose attempts it carries out step by step, with the
loop's own deadline, while other requests go on around it. The decision an attempt ends with, and nothing else, is
what the loop goes on with. `LoopSpec`, checked and proved, says that the result is still the loop of
`CandidateExecutor`: however its resends go, an attempt produces no other outcomes. What is
shown of the loop alone, with its atomic attempts and several requests, holds therefore of the loop with the
chain of resends in it. The cooldown table appears in the executor as the set of
accounts that a lookup would report, changed arbitrarily from outside; that is all
`AccountCooldown` shows of itself, time having been taken out. The conversation binding takes the order of
the candidates as arbitrary and the loop as "each candidate at most once", which is what
`idx` in the executor gives.

`ServiceWork` instantiates `BackendQueue` and `UsageQueue`: the workers of the one are those who ask
in the other, and a handler does not end while its task waits to be sent. `AccountRotation` extends
`RouteRotation` and `UsagePolling` and gives both the same accounts: what the polling learns decides which
list the rotation walks, and what a request meets asks for a refresh.

### State and actions against the code

* **AccountCooldown.** Every public function takes the one mutex once, so every function is an
  action. The sweep is part of a mark, because the code calls it there. 0 stands for an absent
  map entry. `NextCount` is `ladder_cooldown_secs` with its own check of the forget window,
  which is not redundant: the sweep runs every `CleanupInterval` seconds only.
* **RequestGate.** The table mutex and each lock's mutex make the steps. `pc` follows
  `acquire_request_gate`: `looked` (has the `Arc`), `busy`, `asleep`, `woken`, `holding`,
  `leaving` (guard gone, `Arc` not yet). `InUse` is `Arc::strong_count > 1`. Spurious wakeups,
  a timer that fires after a notification, and newcomers that take a freed lock before the
  notified waiter does are all actions. A `reload` drops the table, not the guards; `epoch`
  remembers on which side of it a request looked up.
* **CandidateExecutor.** `pc` follows `execute_candidate_sequence`; the two lookups of the skip check and the
  increment are three steps, since each takes its own lock. `request` is the
  `Option<Request>` that `respond_with_upstream` takes by value; `guard` the
  `Option<AccountInFlightGuard>` whose drop decrements the count. `DropGuard` stands at each
  place where Rust drops it: in the delivery, at the end of an iteration, at return and on unwinding.
* **AttemptFlow.** `stage` names the next thing the chain does. A stage that looks at the
  deadline and the send that follows are separate, because a backoff lies between them or the
  deadline can pass there. `upstream` is the response in hand and `seen` the copies of status and
  headers, which each resend has to renew. Statuses are classes: those the code tells apart.
  The module has the state and the steps only; who calls it is another module's.
* **ForwardedRequest.** `BeginsAttempt` is a call of `run_candidate_attempt`, the first one for a candidate or the
  retry without session affinity; `Suits` says with which arguments: those that come from the
  setup of the request are the same each time, the affinity is kept for the first candidate and stripped for the retry.
  `AttemptEnds` is the last step of the attempt together with the arm of `match decision` it leads
  to. Between attempts `AroundAttempt` is any step of the loop, of another request or of the cooldowns, and the
  loop waits while an attempt runs. `late_work` adds up the late sends of the attempts that are over.
* **ConversationBinding.** One conversation, several requests of it, and the accounts. `Loads`
  copies the row, `Rebinds` writes it; everything between can take as long as it likes. Epochs
  are as in the code; the anchor is a function of the epoch (the hash of key, conversation and epoch).
* **AccountStatus.** Every SQL statement is an action. Between reading a row and writing what
  follows from it a thread is in stage `write` (a mark, an outcome of a usage snapshot), `patch` (a row
  read for its meta data and written back whole by `insert_account`) or `fill` (candidates read for
  the cache). A query that fails counts as "no such row", as it does in the code. `set_account_status`
  is the only writer that invalidates the cache, after its UPDATE and as a step of its own;
  deletion, logout, login, import and `insert_account` leave the cache alone. Which active accounts have a
  token and quota left is a free choice. Four history variables say how a state came about:
  what the user decided last, whether a write landed on a row other than the one
  read (`overtaken`), whether a row changed last without a look at the cache (`silent`),
  and whether a list is older than the last invalidation (`outdated`, `stale`).
* **TokenExchange.** `pc` follows `resolve_openai_bearer_token` (with the lock) or
  `refresh_and_persist_access_token` (without). `copy` is the `Token` a thread works on, which it read long before
  and writes back whole. Tokens are generations: the upstream issues the next refresh token and the
  one used is spent, also when its answer is lost. The row's `ON DELETE CASCADE` is an action where
  `ForeignKeys` says that SQLite enforces it. An import
  (`Imports`) stores any token issued so far, which may be spent. History variables name the ways a token can be lost that no code defends against: a lost answer, a row overwritten
  with an older token, the cascade, a revocation.
* **BackendQueue.** The accepting thread's position follows `run_backend_server` and `enqueue_request`; the
  send and the gauge are two steps, as are the receive and the gauge. A handler that returns and one that panics
  look alike, which is what `handle_backend_request_safely` is for. The listener and its connections are tiny_http's.
* **UsageQueue.** Insert into the set, send, receive, end of the task and removal from the set are five steps.
* **ServiceWork.** `front` is axum's server with its graceful shutdown: it stops accepting and closes when every open request is answered.
  `RequestShutdown` sets the flag of the service's own process; a request for `/__shutdown` (`StopsAt`) does not.
* **RouteRotation.** `starts` is the map from key to start index in the order of last use, which is what
  eviction goes by. One request reads and advances its index under one lock. The strategy is stored before the map is cleared.
  Whether the challenger takes the place of the head depends on scores, so it is a free choice within the window.
* **UsagePolling.** A batch is the accounts it has still to poll and the workers it has left. `Ends` moves the cursor only if no worker failed.
* **AccountRotation.** `usable` is what the database holds of `quota`; a poll and a refresh asked for bring them together.
  An error of either, or of a request, may mark the account (`Marked`): it is no longer usable, and `banned` if the error speaks of a deactivation.
  The polling leaves disabled and banned accounts out (`Skipped`): a ban ends by a refresh that the gateway or the user asks for
  (`RefreshAnswers`, `AsksUsage`), by a poll that was under way already, or by the user enabling or disabling the account.
  `turn` remembers the head of the last request of one key and the keys that came since.

## 3. What is checked

All runs are complete explorations of the instances named.

| Run | Instance | Shows |
|---|---|---|
| `cooldown` | 2 accounts, a ladder of 3 rungs, forget window 5, sweep interval 2, clock to 8, 4 offences | `OffensePaired`, `NeverShortened`, and `LadderSpec`: the table with its lazy sweeps is the abstract countdown |
| `request_gate` | 3 requests, 1 key, 4 locks, 1 reload, TTL and sweep interval 1, clock to 4 | `KeyExclusion`, `NoLostWakeup`, `BoundedWaitEnds` |
| `executor` | 2 requests, 2 accounts in both orders and alone, limit 1 in flight | `InflightMatchesGuards`, `NeverExhausted`, `HandledIsAnswered`, `EveryRequestEnds` |
| `executor_request` | the same | *violated*: `RequestAvailable`, see findings |
| `forwarded_request` | 1 request, 2 candidates; every call, every sequence of answers, the deadline anywhere | `LoopSpec`: the loop with its attempts inside is the loop; `OneCooldownChange`, `EffectFitsAnswer`, `NoSendAfterSuccess` of each attempt; `LateWorkBounded`, `SendsAreAccountedFor` of the request |
| `binding` | 2 concurrent requests out of 4, 3 accounts, a deletion, a change of preference | `AnchorFollowsEpoch`, `SwitchedRequestLeavesThread`, `OneAccountPerThreadUnlessRaced`, `SlowAnswerKeepsSwitch`, `BoundAccountFirst` |
| `binding_race` | 2 concurrent requests out of 3, 3 accounts | *violated*: `OneAccountPerThread`, see findings |
| `account_status` | 2 threads, 2 accounts, 2 decisions of the users, 1 kind of mark | `DecisionStandsUnlessOvertaken`, `CacheFollowsStatus` |
| `token_exchange` | 3 threads, 1 account, 2 locks, TTL 0, sweep interval 1, clock to 2, 3 tokens issued | `OneExchangeAtATime`, `KeyReused`, `TokenKept`, `RefusalHasCause` |
| `service_work` | 3 requests, 1 worker and 1 place per channel, 2 refreshes asked for, 1 usage worker | `InOnePlace`, `GaugeCoversBacklog`, `OneTaskPerAccount`, `EveryoneAnswered`, `RefreshesEnd`, `ShutdownEnds` |
| `service_shutdown` | the same, 1 refresh asked for | *violated*: `ShutdownObeyed`, see findings |
| `account_rotation` | 3 accounts, 3 keys and room for 2, batches of 2 with 2 workers; one account is spent, disabled and refused: 2 changes, 1 failure | `NextInTurn`, `SpentAccountsReturn` |

Every module whose type invariant is not in its run has it proved (section 4).

### Bounds, and why they are enough

* *cooldown*: two accounts, because a sweep by one account's mark touches another's entry and
  no third party can do more; a rung shorter than, one equal to and one longer than the forget window;
  more offences than rungs, so the ladder saturates; a clock that outlasts forget window plus sweep
  interval. The durations keep the order of the real ones.
* *request_gate*: three requests are a holder and two waiters, the least for a notification to
  go to the wrong one; one lock more than requests, so that a reload gives a second lock for the
  key while the first is in use; times of 1 with a clock to 4 reach both sides of each comparison.
  Keys do not interact except by being swept by each other's lookups; the theorems hold for any
  number of them.
* *executor*: two requests make every race between check and increment; a request's last
  candidate is another's first one. Threads take any number of requests one after another.
* *forwarded_request*: an attempt is finite as it is. Two candidates are one with another after it and one without, which is all that
  an attempt knows of the list; the thread takes any number of requests. Other requests show in the loop only through the
  in-flight counts, which *executor* explores; here there is no limit, and cooldowns change at any time. 0.68 million states.
* *binding*: two requests overlap and four follow one another, enough for two switches with a
  slow answer across each; three accounts tell "moved back" from "moved on". Accounts and requests are
  interchangeable, hence the symmetry set.
* *account_status*: two threads are one that reads and one that changes what it read; two accounts,
  because one account's invalidation empties the cache for the other; two decisions are a
  disable or a deletion and its reversal. The marks `banned`, `limited` and
  `unavailable` are handled alike, so `limited` stands for them; the theorems hold for all three.

* *token_exchange*: one thread in the exchange, one that waits and one that refreshes without the lock; a
  second lock shows a sweep that drops one in use. With TTL 0 and an interval of 1 every tick of the
  clock makes a lock old enough, which is the worst case. Three tokens are the one stored, one that replaces it and one that is lost;
  an import brings any one issued so far, or none. 3.89 million states.
* *service_work*: three requests fill a worker, its channel and the accepting thread's hands, so that the third spills over and can be refused.
  Two refreshes ask twice for one account. More workers only make the gauges lag less alike; the safety theorems hold for any number.
* *account_rotation*: three accounts in batches of two make the cursor wrap within a batch. The third one leaves the list of the polled
  and comes back to it while the cursor stays; one key more than the map has room for. Two changes are quota that comes and goes again, or
  a disable and its reversal, or quota that comes while the user asks for the usage of the banned account, or a change of strategy with one
  of them. One failure repeats a batch once, or marks the account. 0.98 million states. Since changes are bounded, the list stops changing in
  every behaviour; `SpentAccountsReturn` says nothing of a list that changes for ever.

Deadlock is checked for `cooldown`, `request_gate`, `executor`, `forwarded_request`, `account_status`, `token_exchange` and
`account_rotation`. It is off for the bindings, whose requests are bounded, and for the
service, whose process ends.

### Fairness

`RequestGate!FairSpec` asks weak fairness of the steps of a
waiter and of the timer of its wait: a runnable thread gets its state mutex, a timer that runs
fires. Nothing is asked of holders, since an upstream may keep a request as long as it likes: what
is shown is that *bounded* waits end. Waits without a timeout can be overtaken for ever, and the
code promises no more. `CandidateExecutor!FairSpec` asks weak fairness of a request's steps:
worker threads run, and an attempt ends because every send has a timeout of its own and the chain of resends
has no cycle, which is proved (`AttemptsEnd`: every step of an attempt raises `Progress`, up to 18).

`ServiceWork!FairSpec` asks weak fairness of the accepting thread, of each worker and of the front proxy with its poll of the flag:
handlers and refreshes end since their upstream calls have timeouts. Nobody need send a request or ask for a
shutdown. Nothing is asked of `Drops`: when tiny_http closes the connection of a request that nobody took is not
in this repository, so `EveryoneAnswered` and `ShutdownEnds` except a request stranded at a listener whose thread has left.
`AccountRotation!FairSpec` asks weak fairness of the polling loop, of the polls of a batch, of the refreshes asked for, and of
the candidate cache running out (a TTL of seconds, and requests keep coming; without one nobody would miss the account).
Polling is on, which is the default. An account that stays banned is excepted from `SpentAccountsReturn`, for the code does not bring it back (section 5).

## 4. What is proved

The theorems hold for all values of the constants that satisfy the named assumptions: no bound
on accounts, requests, keys, locks or list lengths.

* **AccountCooldown_proof**: `CooldownInvariant` (types and `OffensePaired`),
  `CooldownNeverShortened`, and `ImplementsLadder`: each step of the table is a step or a stutter
  of `CooldownLadder` under the mapping `remainingBar`, `levelBar`, `quietBar`. The inductive
  invariant is `TypeOK /\ OffensePaired`; the pairing is needed for the mapping, since an offence
  without a time would be remembered for ever by one side only.
* **RequestGate_proof**: `GateExclusive` and `GateWakes`. Exclusion is not inductive by itself.
  The invariant adds that a held guard means a raised flag and that one lock has one holder
  (`OneHolder`), that two requests of one key and one epoch refer to one lock (`SharedLock`), and
  that this lock is the table's as long as the epoch is current (`StillInTable`). The last part
  rests on the sweep not removing what is in use, which is what the reference count is for. No lost wakeup is inductive with it: a release wakes a sleeper,
  and a woken waiter leaves only by taking the lock or by finding it held again.
* **ForwardedRequest_proof**, in three parts. *The loop*: `ExecutorInvariant` (`NeverExhausted`, `HandledIsAnswered`) and
  `InflightExact`. The invariant ties the stage to what a request still holds: after the skip
  check has passed over a candidate there is another one, since both skips, fail-over and
  suppression ask for one (`AtCandidate`, `HeldBack`); a guard is out in few stages only
  (`GuardHeld`), which gives that a new one is taken with none in hand, so that the count moves by
  one as the cardinality of the holders does; an attempt runs with the request in hand (`RequestHeld`).
  `LoopOnlyAdvances` is the safety half of `EveryRequestEnds`: each step of a request raises its `Distance` through the
  list, and no other step lowers it.
  *The attempt*: `AttemptInv` says for each stage what may
  have happened before it: how many sends at most (`SendBounds`), how many of them late, none where
  the deadline has just been looked at (`LateBounds`), no mark until the decision (`Open`), what the decision may be (`Closed`), `seen`
  equal to the response in hand, and the status that the resend about to be made asks for. From it follow `WorkDoneOnce`,
  `OneRungAtMost`, `EffectsFit`, `OutcomesKept` and `AttemptsEnd`.
  *Both*: `ImplementsLoop` is the refinement. The end of an attempt is a step `Attempt` of the loop because of `Closed` and because the
  attempt that runs was called with what is left of the list (`AttemptOfTraced`); everything else is a step of the loop
  or leaves its variables alone; `PromisesKept` carries the results on the loop over. `LateWorkIsBounded` carries the bound of one attempt over to the request: once a send
  was late the deadline stays passed, and a later attempt ends at its first stage (`LateWork`), so the bound
  does not grow with the list. `SendsAccounted` joins `AttemptOfTraced` with `RequestHeld`: after
  an answer was given away or held back the loop may come to another candidate, but no attempt begins there.
* **ConversationBinding_proof**: `BindingInvariant`, `SwitchSurvivesSlowAnswers`, `BoundFirst`. For
  one account per thread the invariant says that, unless a row was overwritten unread or an account
  deleted, the row is the newest ever written and every other one has a smaller epoch (`Newest`), and
  that anchors follow epochs in the row, its copies and all rows of the past (`Threaded`).
* **TokenExchange_proof**: `ExchangeExclusive`, `StoredKeyReused`, `RefreshKeepsToken`, `RefusalExplained`. Exclusion is the argument of the
  gate: a lock that somebody refers to is still in the table (`StillInTable`). For the tokens the invariant numbers the
  generations, so that a token just issued differs from all before it (`Generations`), and says how each thread's copy
  relates to the row it was read from and to what the upstream holds good (`CopyFits`).
* **ServiceWork_proof**: `OneTaskAtATime`, `HandledOnce`, `GaugeKeepsUp`. Each is proved per action of the two queues and
  lifted to the composition. `HandledOnce` is conservation: a request without an answer is at the listener,
  with the accepting thread, at one place of one channel or with one worker, and every step moves it between two of these.
  `GaugeKeepsUp` counts, besides the channel, the workers that have received and not yet counted down; since the gauge covers both,
  it is positive whenever a worker lowers it, so saturation never makes it lag.
* **AccountStatus_proof**: `DecisionStands` and `CacheFollows`. The first needs that nobody who
  is about to mark an account saw it disabled (`Heeds`). The second needs that what it says of the
  cache holds already of every list on its way there (`Lists`); a write that does not invalidate
  explains itself by `silent` (`SilentWriteLists`), one that does by its thread's next step, and the
  invalidation by making every list in flight outdated.
* **AccountRotation_proof**: `RotationIsStrict`: `NextInTurn`, for any accounts, keys and capacity, under the hypothesis
  `BalancedWindow <= 1`. That is the default and what `route_hint.rs:20` asks for strictness; with a larger window a healthier account may
  take the place of the first, and the property is not meant to hold. The invariant says that
  the entry of the watched key, left by its last request, holds the position after that request's account, and that
  the entries after it in the map are of keys that have come since (`TurnKept`). Eviction takes the entries from the front, so that
  the watched one goes only after as many other keys as the map has places (`DistinctKeys`). The lemmas say where in
  the sorted list an account stands and what removing, appending and cutting do to the map.

Apart from the window of `RotationIsStrict`, the only assumptions are the named `ASSUME`s on constants: durations are naturals (the ladder's
and the reasons' positive), "no such thing" values are not things, requests form a finite set, marks are among the three statuses.

The type invariant of each of these modules is a theorem of its own, `TypeCorrect`, and so are the other parts of
the conjunctions above that a run checks by name (`OneRungAtMost`, `EffectsFit`, `AnchorsFollowEpochs`, `SwitchLeavesThread`, `HandledMeansAnswered`).

Only model-checked, not proved: `BoundedWaitEnds`, `EveryRequestEnds`, `EveryoneAnswered`, `RefreshesEnd`, `ShutdownEnds` and
`SpentAccountsReturn`: liveness under fairness, which the proof system does not reach. Every invariant, action property and refinement
of a passing run is proved.

## 5. Findings

1. **The candidate loop can go on without the request** (`executor_request`). `finalize_upstream_response`
   takes the client's request by value and may still answer "fail over". The loop continues, but what it
   would need to answer with is gone: the next candidate ends in "request already consumed", or, if
   the deadline has passed, in the `expect` at `candidate_executor.rs:190`. Where the delivery was held back for
   the sake of the fail-over, the client gets nothing.
2. **Two concurrent requests can bind one thread to two accounts** (`binding_race`). The row is
   written from a copy read at the beginning, without a comparison. The documentation says that
   switching the account switches the thread; of two requests that read the same row and
   succeed on two other accounts the second moves the conversation to its account and
   keeps the thread of the first. `OneAccountPerThreadUnlessRaced` shows that this is the only way.
3. **A shutdown asked for from another process does not end the service** (`service_shutdown`). `request_shutdown` sets the flag of
   the process that calls it. `codexmanager-web` and `codexmanager-start` call it in theirs, so that the service gets no more than
   `GET /__shutdown`: the backend's loop ends, and the front proxy, which polls the flag of its own process, goes on. It keeps
   the port, answers what it would forward with 502, and start_http waits for it. The callers wait for the port to be
   closed, and the guide says that `/__quit` tries to stop both. `ShutdownEnds` shows that a shutdown asked for in the service's own process
   does end; the tests ask in that way (`tests/gateway_logs/support.rs`).

Further observations, which contradict no text of the repository:

* For a custom upstream `stateless_retry.rs:72` looks at the deadline before it knows whether there
  is anything to retry: a success in hand becomes a 504. The model has it (`Stateless`).
* `try_openai_fallback` sends without regard to a deadline. `LateWorkBounded` gives the number of sends
  of a request that can begin after the deadline, over all its candidates.
* The forget window (1800 s) equals the third rung: an account used only after its cooldown can
  hardly reach the fourth.
* The in-flight limit is soft by design, and can be exceeded by the requests between check and increment.
* The manual preference is read when the binding is weighed and again by the route strategy.
* `insert_account` writes a row back as it was read, in a usage refresh long before: it can undo a
  disable and bring a deleted account back (`PatchesRow`, `PatchesCandidate`; both make it `overtaken`).
* `usage_status_updates_blocked` covers `disabled` only, so a usage snapshot with quota left activates an
  account that was logged out; the marks leave such an account alone.
* A candidate list is cached even if the cache was invalidated since the query (`stale`), and
  deletion and logout do not invalidate it (`silent`): such accounts are offered until the TTL has passed.
* An automatic mark can overrule a manual disable: "disabled by hand" is asked in one statement, and the mark is
  written in another. `DecisionStandsUnlessOvertaken` shows that a write over a row other than the one read is the only way.
* `insert_account` is an `INSERT OR REPLACE`. Where SQLite enforces foreign keys, as the bundled build does
  by default, replacing a row cascades to `tokens` and removes the account's token; login and import store the token
  afterwards, a patch of the meta data does not (`LosesToken`). What follows has no row to speak about, and no property covers it.
* The exchange and the refresh write back the whole token row they copied, and may so put a spent refresh token over a newer one
  (`TokenKept` names it). A refusal can be the other thread's success (`RefusalHasCause`); the code then looks at the row again only under the lock.
* The due list of the token poll is ordered by due time, which a failed refresh does not move, and cut at a batch limit: tokens that fail for good
  stay at its head, and as many of them as fit a batch keep the others from being refreshed by the poll.
* A depth gauge that a worker lowered before it was raised stays too high for good: it counts a backlog that is not there.
* While the flag is up, a request at the listener is answered "shutdown" though those in the channels are still served. The process ends without waiting for the usage workers.
* A key that the map of the starts has no room for begins each time at the first account: with fewer places than active keys, balanced routing becomes ordered.
* Setting the strategy again, also to the same value, clears all cursors. A start index survives a change of the candidates and then names another account, so one may be passed over.
* A banned account leaves the polling, and also the gateway's candidates, so nothing but its user asks for its usage: if the upstream takes the
  deactivation back, or reported it by mistake, the account stays out until its user asks for a refresh or enables it. A new login or an import makes
  the row active but leaves the log of reasons, by which the polling goes on skipping the account until a status is written with another reason.
  `SpentAccountsReturn` without the exception of banned accounts is violated in the model.
* A refresh that panics each time keeps the polling at its batch: the cursor moves only past batches without a failed worker (`MaxFailures` bounds it in the model).

## 6. What is not modelled, and why

* Contents: headers, bodies, prompts, models, hashes, and the adapters that rewrite them are data
  no property here tells apart. Statuses and errors are the classes the code distinguishes.
* In the attempt: the transport's own single retry within a send, and compression.
* `handle_openai_fallback_branch`, which is never entered: both its conditions are constant false.
* Tokens: the parsing of claims, and the order in which the token poll takes accounts.
* Usage refresh: backoff, jitter and intervals of the loops, keepalive and settings. They decide when a loop runs, which is arbitrary here.
* Rotation: expiry of the map's entries (off by default), nonces and health scores (the challenger is arbitrary), requests that a binding
  or a preference routes (they leave no trace in the map), and two threads that set the strategy at once.
* Service: the websocket, the RPC calls (answered by the front proxy itself), and a second start in the same process.
* Plugins: due tasks, run records and rescheduling are a loop over rows; the script itself is a program of its user. The hazard
  at `plugin/runtime.rs:62` is listed and has no property yet.
* Aggregate API: a second failover loop, over providers that have neither cooldown nor binding.
* A wall clock that is set back; SQLite's own atomicity; poisoned mutexes (nothing panics while
  holding one).
* User interface, updater, web hosting, settings and CRUD: I/O and rows with little interleaving.

## 7. Plan

Done, in this order: cooldown, request gate, candidate loop, attempt, both together, conversation binding, account status and
candidate cache, tokens, backend and usage queues with the shutdown, rotation and polling. What is left, by importance:

| Module | Question | Theorem worth having |
|---|---|---|
| `PluginScheduler` | every enabled task runs again; what a manual run or a disable does to a schedule that is about to be written | an enabled task has a next run |
| `AggregateFailover` | each provider once, and an answer for every request | the contract of `CandidateAttempt`, refined a second time |
| `TokenPolling` | does a token that fails for good keep others from being refreshed | |

`RouteRotation` could replace the arbitrary order in `ConversationBinding`, and `AccountStatus` the set `usable` of
`AccountRotation`; both multiply the states of instances that are large already, and neither adds a question.
