# agent-roi: TLA+ models, checks and proofs

This directory holds the formal models of `agent_roi` (`src/src/agent_roi/`), the
TLC configurations that check them and the TLAPS proofs of the results that matter
most. `PROJECT.json` is the machine-readable index: for every definition the source
lines it models, for every run its configuration and properties, the hazards of the
code and the properties that cover them. Paths below are relative to
`src/src/agent_roi/` unless they say otherwise.

## 1. The system

agent-roi governs the tool calls of agents. A *run* executes a decision; a *guarded
tool runtime* asks policies, approvals, a circuit breaker and an idempotency store
before it lets a tool handler run; what happens is written to an audit chain, to
telemetry sinks and, durably, to an outbox that workers deliver to other systems. A
control plane gives agents their signed policies; a ledger keeps the value they
produce.

| component | source | state | operations | interacts with |
|---|---|---|---|---|
| Circuit breaker | `runtime/resilience.py` | `_state`, `_failures`, `_successes`, `_opened_at`, `_probe_in_flight`, under one lock | `state`, `before_call`, `record_success`, `record_failure` | called around every handler by the runtime; several threads have calls in flight |
| Idempotent execution | `runtime/resilience.py`, `runtime/context.py` | one record per key: digest, status, response, expiry | `begin`, `complete`, `fail` | the runtime calls `begin`, then the handler, then `complete` or `fail`, in separate transactions |
| Durable outbox | `enterprise/outbox.py` | `enterprise_outbox`, `enterprise_dead_letters`; per worker the snapshot of its batch | `enqueue`, `claim`, `mark_delivered`, `reschedule`, `dead_letter`, `run_once` | producers and worker processes share only the store |
| Approval workflow | `approvals/base.py`, `approvals/postgres.py`, `runtime/tools.py`, `runtime/context.py` | records and grants in the repository; caches in each broker | the broker's `__call__`, `decide`, `consume_grant`, `ApprovalGrant.validate` before execution | brokers of several processes over one repository; providers notify people |
| Policy control plane | `enterprise/control_plane.py`, `enterprise/postgres.py` | bundles, active policies, rollouts; a cached file per agent | `publish_policy`, `activate_policy`, `promote_policy`, `rollback_policy`, `start_rollout`, `cancel_rollout`, `resolve_active`, the client's fetch | administrators and agents over HTTP |
| Guarded tool runtime | `runtime/tools.py`, `runtime/context.py`, `control/guardrails.py` | the counters `_steps`, `_tool_calls`, `_cost_usd`; the call's place in `_prepare_call` | `call_tool`, `acall_tool`, `bump_step`, `add_cost` | all of the above; several calls at once under `arun` |
| Run executor and decisions | `runtime/executor.py`, `enterprise/runtime.py`, `control/decision.py` | the run's context, timer and result | `run`, `arun`, `_log`, `heartbeat` | audit store, event sinks, control plane, runtime |
| Agent inventory | `enterprise/control_plane.py` | agent rows with revisions | `register_agent`, `heartbeat` | control plane store |
| Identity and RBAC | `enterprise/identity.py`, `enterprise/postgres.py` | users, groups with members, roles, bindings | SCIM and RBAC administration, `principal_for`, `authorizer`, `authorize` | every API request and tool call asks it, in several statements |
| ROI ledger and reports | `roi/` | opportunities with status, revision and history; values and costs by evidence key | `create_opportunity`, `transition`, `record_value`, `record_cost`, `portfolio_summary` | users over HTTP; reports render it |
| Audit chain | `audit/` | hash-chained events in memory, a file or a database | `record`, `append`, `last_hash`, `verify` | `_log` of every run, remote clients over HTTP |
| Migrations | `db/core.py`, `migrations/` | the set of applied migrations | migrate under an advisory lock | every PostgreSQL store |
| Telemetry, signers, workload identity, providers | several | none of their own | HTTP and cryptography | external systems |
| Policies, analyzers, framework adapters, CLI | several | none | sequential computation | the runtime |

### What is hard here

* **Steps of several processes between two transactions.** A worker's batch, a
  broker's decision, `start_rollout`, `resolve_active`, an idempotent call, a status
  transition, a summary and the making of a principal each read in one transaction and
  act in another; their snapshot may be stale by then.
* **Late results.** A call admitted by a closed circuit ends while a probe runs; a
  handler ends after its idempotency record has expired; a worker settles an event
  after its lease has gone to another one.
* **Crashes and partial failures** between the outside effect and the write that
  records it: delivery and `mark_delivered`, `provider.submit` and `save_record`, the
  decision and its grant, an event's line and its newline, a call's charge, its
  records and its handler.
* **Concurrent calls of one run** that share counters, and calls that outlive it.
* **Time.** Leases, grants, checkpoints, records, cached policies and open circuits
  all run out while somebody relies on them.
* **Progress.** The breaker must close again, accepted events must be settled.

`PROJECT.json` lists each of these as a hazard at the line where it bites.

### What makes each component correct

* *Breaker*: never wedged half-open; opens only on enough failures in a row; closes
  for good once the dependency is healthy.
* *Idempotency*: one handler at a time per key; a replay answers an identical
  request; a completed answer is final.
* *Outbox*: at-least-once: delivered only when received, nothing accepted is lost or
  stored twice, only what was not delivered is given up, dead letters agree with the
  outbox, everything is settled in the end.
* *Approvals*: nothing executes without a saved, unexpired approval of that very
  action by an authorised person other than the requester; a request is decided once; a
  consumed grant is spent.
* *Control plane*: versions are immutable; no lost activation; a rollout's candidate is
  not the active version; agents are never on a policy withdrawn too long ago.
* *Audit chain*: writers never fork it; honest chains are accepted; what was
  acknowledged is on it; an event that kept its hash vouches for those before it.
* *ROI ledger*: the history explains the status; no transition is lost; value is
  recorded only for work in progress, and never shown without the costs recorded before.
* *Identity*: a grant rests on what was on record while the request ran; what was
  revoked before never grants; no administrator's update is lost.
* *Runs*: the limits hold for every interleaving of calls; nothing runs that is not on
  record; what started has its end there; the result is the outcome on record.

Not all of this holds: section 3 lists what TLC refutes and where the models show that
the code does something else.

## 2. Modules

| module | what it is |
|---|---|
| `CircuitBreaker` | the breaker, its callers and its clock |
| `Idempotency`, `MCIdempotency` | one idempotency key and the calls under it |
| `Outbox`, `MCOutbox` | store, producers, workers, receivers |
| `DeliveryLedger` | what the outbox promises, without leases or workers |
| `Approvals`, `MCApprovals` | brokers, repository, the runtime's checks |
| `ControlPlane`, `MCControlPlane` | store, administrators, agents and their caches |
| `AuditChain`, `MCAuditChain` | the four audit stores, their writers, faults and changes from outside |
| `AuditTrail` | what an audit store promises, without writers, locks, files or hashes |
| `RoiLedger`, `MCRoiLedger` | opportunities, values, costs, and summaries read in between |
| `Identity`, `MCIdentity` | SCIM and RBAC tables, administrators, requests |
| `SentinelRun`, `MCSentinelRun` | one run: agent, tool calls, budget, events, timeout, heartbeats |
| `*Proofs` | the theorems of each module; those of `CircuitBreaker` and `Idempotency` are together in `ResilienceProofs`, as their code is in `runtime/resilience.py` |

Definitions whose comment calls them *mutant* are plausible bugs of the definition
that follows. They are used only to show that each property can fail.

### CircuitBreaker

One action per method of the class, each atomic since the method holds the lock:
`ReadState` is the property `state` with its transition to half-open, `BeforeCall`
admits a caller, `RecordSuccess` and `RecordFailure` end its call. `inFlight[c]` keeps
the state in which `c` was admitted, so calls of earlier states can end at any time.
`age` is the time since `_opened_at`; counters stop at their thresholds, above which
the code does not tell values apart. `healthy` (external) says that the dependency
has recovered and will not fail again.

### Idempotency

One key of either store. `BeginStarted` and `BeginAnswered` are `begin` (expired
records are dropped first; the answers are conflict, in progress, replay and the
stored error), `HandlerEnds` and `Cancelled` the ways a handler ends (a cancelled
task or a `BaseException` skips `fail`), `Complete` and `Fail` look for a pending record
of the key, and `RecordLost` is their `KeyError`. Keys interact in one way only: `begin`
of any key deletes the expired records of all (`Purge`). The history variable `late` is set
once a handler has outlived its record.

### Outbox and DeliveryLedger

A store method is one transaction and one action, with one exception (below). `Enqueue` inserts or finds the
delivery key, `Claim` leases the oldest claimable events, `DeliverOk`, `DeliverRetry`
and `DeliverFail` are `retry_call` around the destination's handler (an answer may
be lost after the receiver has accepted the event), `MarkDelivered`, `Reschedule` and
`DeadLetter` settle it. `Backend` tells the stores apart: PostgreSQL's `dead_letter` is
one statement that checks the owner (`DeadLetter`), SQLite's selects the leased row in
autocommit mode (`SelectOwned`) and then, in a transaction, inserts and updates by
`event_id` alone (`MoveSelected`), with other processes in between. `Abandon` and `LeaseLost` are the exceptions that end
`run_once` with the rest of the batch still leased, and `Crash` forgets a worker's
snapshot. `SKIP LOCKED` and SQLite's `BEGIN IMMEDIATE` both make claims serial.
Events of a batch are handled in any order, a superset of the code's.

`DeliveryLedger` knows only whether an event is absent, queued, delivered or dead
and what was received. `LedgerSpec` states that `Outbox` implements it with the
stages `pending` and `leased` mapped to queued. Its events are settled for good, but for
`LateGiveUp`, which the mapping sets for SQLite: there a delivered event may still be
given up. `outbox` runs the PostgreSQL store, `outbox_settles` the SQLite one. Nothing is
assumed of `WorkerId`: processes that share a worker id are covered by the theorems, and
run in `outbox_settles`.

### Approvals

`CallCached`, `CallReplayed` and `CallMissed` are `ApprovalBroker.__call__`, by which
the runtime asks for a grant: the broker's cache, the repository's grant replayed for the new checkpoint, or
nothing, which leads to a submission (`Lookup`, `Submitted`, `SubmitFailed`).
`Admit` and `Refuse` are `validate` in `_authorize`; `Execute` is what follows without
another look at the grant: events, limits, the idempotency record and the handler, perhaps
much later and more than once, so that `ExecutionsApproved` speaks of the time of
admission. `Decide` checks a
broker's own view and changes its cache; `SaveDecision` and `SaveGrant` are the
repository writes that follow and may fail (`SaveFailed`) or be cut off by a
`Restart`. `DecideExpired`, `SaveExpired` and `DecideRefused` are the early returns.
A checkpoint may be presented to any broker. A failed `provider.update` changes no
state. Optimistic revisions of records exist in the repository, but no caller passes
one. `spent` (history) marks an offer whose grant was consumed in the repository when the
broker handed it out of its cache; `ConsumedIsSpent`, the docstring of `consume_grant`, is
refuted by `consumed_grant`. An expired cached approval hides a live grant in the
repository, of which no document says anything.

### ControlPlane

One organization and one policy name. Operations that are one transaction are one
action (`PublishPolicy`, `CancelRollout`), except an activation, whose statements and
commit other PostgreSQL transactions can come between: `Store` does
the UPDATE, which takes the row lock (`ActiveLocked`), and the DELETE, which sees only
committed rollouts (and locks the row it finds, `RolloutLocked`); `Commit` makes both
visible. SQLite, where writers exclude each other, has the behaviours in which `Commit`
follows at once. A rollout inserted between the two survives. The other operations are jobs of an
administrator: `PromotePolicy`/`PromoteActivate`, `RollbackPolicy`/`RollbackCancel`,
`ReadForRollout`/`WriteRollout` or `RolloutConflict`. An agent's fetch is `ReadActive`,
`ResolveActive`, `Receive`, or `RequestFails` followed by `LoadCached` or `LoadFails`.
Signatures are modelled by the signing key; `Restart` configures the service with
other signers and ends its operations. Seed and percentage of a rollout come down to
the set of agents in the canary. `told` keeps one revision an administrator has read:
revisions do not interact. `gone` (history) counts for how long a version has been
out of force; `shown` in a job (history) is the version that was active when the revision
it expects was read.

### AuditChain

The store is chosen in `Init`. Under its lock (`InLock`; of one chain only in
PostgreSQL), `record` is `Record`, `SelectTail`, `Write`; the older protocol is
`Build` (`last_hash` and `AuditEvent.create`, without the lock, or a client's own event
with any hash: `append` and the API look at `prev_hash` only), `AppendEvent`,
`CheckTail`, `Write`; `Rejected` is `AuditIntegrityError`, and only `Answer` tells the
writer that its event is stored. An event is its id, whether its content (and the
copy in the database's columns) is as written, its `prev_hash` and its hash; `Digest`
is an injective number in place of SHA-256. The events of `Frail` carry floats that JSONB
gives back as other values (`Stored`). In the JSONL file a crash may leave part
of a line (`torn`) or a whole line without its newline (`open`), on which the next
writer then glues its own (`WriteGlued`). `Harm` alters stored events, with the
hash recomputed or not since it has no key, removes or exchanges them. `seal` and
`lineage` (history) are the hash an event was created with and the events that were then
before it. The chains share lock and file and nothing else. Hashing is on, as by default.

`AuditTrail` is the promise behind it: trails that only grow, no event twice, a store
that may break once and then loses at most the last event of one trail, which nobody
was told of. The refinement mapping of `TrailSpec` takes the ids on each chain as its
trail, `acked` as what was told, `torn` as broken; a chain changed from outside maps to
the empty trail, of which nothing is promised.

### RoiLedger

`transition` and `record_value` read in one transaction and write in another, so each
is two actions (`BeginTransition`/`Transition` or `TransitionConflict`,
`BeginValue`/`RecordValue` or `ValueRefused`); `Return` covers a caller that stops in
between. A user may present the revision it saw with `GetOpportunity`
(`TransitionSeen`) or none (`TransitionAny`). `portfolio_summary` is
`ListOpportunities`, `ReadValues`, `ReadCosts`. Amounts never influence control and are
left out: a summary is the set of values and costs it adds up. `billed` (history)
holds the costs on record when a value was inserted. The unique constraints on
`source_key` and `evidence_key` are `SourceFree` and `Uncounted`. Between `BeginValue` and
`RecordValue` the opportunity can be closed; `RealizedWasBegun` is what remains of the
check.

### Identity

`replace_user`, `create_group` and `replace_group` read before they write and are two
actions each, everything else that administrators do is one statement. A request is
`GetUser`, `ListGroups`, for each group `GetGroupRow` and `GetGroupMembers`,
`ReadRoles`, `ReadBindings`: the statements of `principal_for` and of
`DynamicRBACAuthorizer.authorize`, with commits of administrators in between. Cascades
and foreign keys are those of the tables. Wildcard permissions come down to the set of
actions a permission covers. `since` (history) collects what was on record at some time
since the request began, and whether anything changed. PostgreSQL's `list_groups` shows
`principal_for` one page of at most 500 groups in the order of their names (`OnPage`,
`PageLimit`). `Init` is any consistent store,
so that a few changes reach every case.

### SentinelRun

`BeginCall` to `Started` are `_prepare_call`, one action for each event or counter
update; none of them awaits, so that `Turn` lets only one call be in that part. A call of
`call_tool` (`inline`) holds the thread or the event loop to its end (`Holds`).
`HandlerEnds` stands for `_execute_sync` and `_execute_async`, whose idempotency,
breaker and approval protocols have modules of their own. `Logged` and `LogFails` are
`_log`: the store records or raises, and with `fail_on_event_sink_error` a sink may raise
after the record. The agent is arbitrary: it calls, catches, lets exceptions pass,
returns, and moves the counters itself (`BumpStep`, `BumpToolCall`, `AddCost`). `Alarm` is
the SIGALRM of `run`, which a handler, a retry or the agent may swallow, or which cuts off
a call between its handler and its event (`CutOff`). `Timeout` is the `wait_for` of
`arun`: it cancels the calls the agent awaits and then waits for the agent, which may end
or go on. `Cancel` is the cancellation of the task; `Abandon` says which calls end with it
and which go on. `Exit` and `Abort` are a `BaseException` in a call and in the agent or
the runner, which no `except Exception` catches: no event, no result. `Refuse` is the
`TypeError` for a coroutine function given to `run`, before the run is on record. `Success`, `ApprovalResult` and `Failure` write the closing events,
`FirstHeartbeat` and `LastHeartbeat` are those of `EnterpriseSentinelRunner`. `ran` and
`spent` (history) count the handlers begun and their cost. Threads of the agent that
call one context at the same time are not modelled: its counters have no lock and the
documentation offers no such use.

## 3. Runs

| run | expectation | what it shows |
|---|---|---|
| `breaker` | pass | `ProbeFlagHeld`, `OpensOnFailureStreak`, `Recovers` with three callers in flight across state changes |
| `outbox` | pass | `LeaseExclusive`, `DeadLettersAgree`, `AcceptedIsStored`, `OnlyFailuresMoved` and the refinement `LedgerSpec` (here: settled for good) over PostgreSQL with leases that run out, a crash, retries, a repeated submission and an event id used twice |
| `outbox_settles` | pass | `Settles` under timely workers over SQLite with one `worker_id`, through a crash and failing deliveries |
| `approvals` | pass | `DecidedOnce` and `ExecutionsApproved` for one broker with restarts, failed writes and consumed grants |
| `decided_once` | violation of `DecidedOnce` | two brokers both decide one request, the last write wins |
| `consumed_grant` | violation of `ConsumedIsSpent` | a consumed grant admits another execution from the broker's cache |
| `idempotency` | pass | `SingleFlight`, `TimelyReplay`, `NoRecordLost`, `CompletedIsFinal` for four calls of two requests |
| `audit` | pass | `IntactVerifies`, `AcknowledgedVerified`, `HarmEvident` over each of the four stores; refinement `TrailSpec` |
| `roi_ledger` | pass | `HistoryIsPath`, `RealizedWasBegun`, `NoLostTransition`, `SummaryComplete`, `ValueWithItsCosts` with two users between each other's statements |
| `identity` | pass | `PrincipalJustified`, `RevocationEffective`, `CalmDecisionExact`, `NoLostUpdate` with two administrators between the statements of a request, and more groups than a page shows |
| `runtime` | pass | `BudgetKept`, `ExecutionAudited`, `EveryStartEnds`, `ResultMatchesLog` under `run` and `arun`, with alarm, timeout, cancellation, interrupts, failing records, sinks and heartbeats |
| `control_plane` | pass | `OnePolicyPerVersion`, `NoLostActivation`, `BoundedStaleness` with activations in two steps and an agent that falls back on its cache |

The runs of the outbox and the identity tables also check `TypeOK`, which there says what
the tables' constraints say (only leased rows carry a lease, members are existing users).
Of the other modules type correctness is proved (section 4).

The findings in `PROJECT.json` quote the sentence each violation contradicts, and the
line where the code goes another way.

### Other disagreements between the code and its words

The models also contain these; the checked properties state what does hold.

* `src/ENTERPRISE_ARCHITECTURE.md:30`: workers "move terminal failures into a dead-letter
  store". `SqliteOutboxStore.dead_letter` (`enterprise/outbox.py:262`) checks the owner
  with a SELECT in autocommit mode and then updates `WHERE event_id` alone. A worker that
  has selected (`SelectOwned`) loses its lease, another one claims the event, delivers it
  and marks it delivered, and the first one moves it all the same (`MoveSelected`): with
  `Backend = "sqlite"` TLC refutes `OnlyFailuresMoved` in this way.
* `src/README.md:294`: "Verification checks chain links, canonical event hashes and
  denormalized database columns". The PostgreSQL store hashes the payload it is given and
  verifies the one that JSONB gives back (`audit/postgres.py:113`): a float such as 1e16
  or -0.0 comes back as another value, and a chain that nobody has touched is rejected as
  altered. `IntactVerifies` says that this and a wrong hash are the only causes.
* `roi/ledger.py:450`: "Realized or validated value requires an in-progress opportunity".
  The status is read in an earlier transaction (line 443) than the value is inserted in; the
  opportunity may be closed in between. `RealizedWasBegun` is what is left.
* `enterprise/control_plane.py:395`, `enterprise/postgres.py:219`: "candidate_version must
  differ from the active version". `start_rollout` compares with the version it has read
  before. When an activation of the candidate commits in between, or has issued its DELETE
  already, the rollout that is written has the active version as its candidate and the
  version it replaced as its primary: the activation is undone for the agents outside the
  canary. No property excludes this.
* `runtime/resilience.py:108` promises "a single half-open probe". The result of a call
  admitted before the circuit opened clears `_probe_in_flight` (lines 157, 167), and a
  second probe is admitted. `ProbeFlagHeld` and `Recovers` hold all the same.
* `src/README.md:393`: a key cannot "be reused for a different action". A handler that
  outlives `ttl_seconds` completes the record another request has begun since
  (`runtime/resilience.py:283` looks for the key alone). `TimelyReplay` is the promise
  with the missing premise.
* `src/README.md:261`: events are "routed to one or more sinks". `OutboxEventSink.emit`
  takes the CloudEvent's id as primary key, so the second outbox sink of one store is
  refused. `AcceptedIsStored` speaks of what was accepted.
* `enterprise/telemetry.py:355` adds `cost_usd` for each of the four events of a call, and
  line 358 looks for a suffix `run_completed` that `runtime_event`, which writes
  `run.completed`, never produces. Not modelled.
* A run whose sink raises after `run_completed` with status `ok` is on record with a
  second `run_completed`, of status `error`; a cancelled `arun` has none. This is why
  `ResultMatchesLog` speaks of results, and of errors only without failures.
* Verification that rejects an event appended with a wrong hash is right to do so, but
  nothing stopped the event: `append` compares `prev_hash` alone, and every event after it
  is on a chain that will not verify. `IntactVerifies` names the exception.

### Bounds and why they are enough

* *breaker*: a call of an earlier state, a probe and a newcomer need three callers;
  thresholds of 2 tell a first from a last failure and success; a recovery timeout of
  2 ticks has a tick before it is over.
* *outbox*: two workers for a race about a lease; leases of one tick and batches of
  two, so that a lease runs out within a batch; two delivery attempts and two tries,
  so that both a retry and exhaustion happen; a destination without a handler; a
  submission repeated under a new event id, which is also that of another delivery, and
  the same key used for two destinations; delays 0 and 1; one crash. Attempts stop
  counting at `MaxDeliveryAttempts`, beyond which the code compares alike.
* *outbox_settles*: the same over SQLite with one event per kind and one try per delivery,
  which keeps the graph small for the liveness check.
* *approvals*: one broker, three calls of two actions, two faults and consumption; lifetimes
  of one tick and a horizon of two let checkpoints and grants expire before, at and after
  each step. *decided_once* has two brokers and two calls of one action. What several
  brokers do to `ExecutionsApproved` is left to its theorem, which is of any number of them:
  two brokers with faults have too many states.
* *idempotency*: two calls per request, two requests, records of two ticks: a
  duplicate, a conflict and a newcomer after expiry at once.
* *control_plane*: two administrators, one agent, a production environment fed from
  staging, two versions, one of them published with two policies, two signing keys,
  three activations, two writes of a rollout row, a cache of one tick and requests of
  one tick. Environments do not interact except by promotion, so only production is
  activated (`Managed`).
* *audit*: two writers for a race about a tail, two chains for the difference between a
  store-wide and a per-chain lock, three events so that a chain goes on after a fault, the
  second of them frail, two faults so that one may follow the other.
* *roi_ledger*: two users, a third opportunity with the source of the first, two
  currencies, one piece of evidence and one bill; the first opportunity has room for
  the four transitions from proposal to closure, which no fewer reach; a page holds all
  opportunities, the premise of `SummaryComplete`.
* *identity*: one user, two groups that can be renamed and a page of one, so that a group
  is beyond it, one role bound to a group; two changes from any initial store, so that one
  can come before and one after a read, or both between two reads. The PostgreSQL store:
  the SQLite one differs only by the revision and the page it lacks. Bindings of a user,
  mapped roles and several environments are left to the theorems.
* *runtime*: two calls for concurrency of a tool that needs approval; limits of two calls,
  two steps and a cost of two, so that each limit can refuse; one fault at any place. `run`
  has an authorizer, `arun` has none. A tool that needs no approval skips one step of these,
  one that is not allowed all of them.

Brokers in `decided_once`, administrators in `control_plane` and `identity`, groups in
`identity`, users in `roi_ledger`, writers and chains in `audit` and calls in `runtime` are
interchangeable and declared symmetric; the runs with symmetry check no liveness.

`idempotency` and `audit` do not check deadlock: once every call has been answered, or
the bound on events is reached, the system stops. All other runs check it.

### Fairness

* `FairSpec` of the breaker: time passes, callers keep calling and every protected
  call ends: `CircuitBreaker.call` and `acall` record a success or, for any
  `BaseException`, a failure, and callers that are refused come back. No fairness is assumed for the choice between success and failure:
  `Recovers` starts from `healthy`.
* `TimelySpec` of the outbox: workers poll, deliver and settle (`cli/outbox.py` loops
  over `run_once`; the HTTP handler has a timeout), time passes, and a worker that runs
  finishes its batch within its leases. Without the last assumption two slow workers
  can take an event from each other for ever, and every claim counts an attempt that
  no snapshot acts upon. Safety is checked and proved without it.

Nothing is assumed of runs, and no property says that one ends: an agent that blocks the
event loop keeps `wait_for` from cancelling it, one that swallows its cancellation keeps
`arun` waiting, and the alarm of `run` goes off once and may be swallowed by a retried
handler or by the agent.

## 4. Proofs

All theorems hold for every value of the constants that satisfies the named
assumptions (thresholds, time limits and bounds natural numbers, null values outside
their types, `EnvOf`, `ActionOf`, `DigestOf` and the tables of permissions and bindings
functions of the right type, worker ids other than the null owner). Every safety
property that a passing run checks is stated by a theorem.

* **ResilienceProofs**, the breaker: `BreakerTypeCorrect`, `NeverWedged`,
  `OpensOnStreak`. Inductive invariant: types, `ProbeFlagHeld`, and `CountsStreak` (while
  closed, `_failures` is the length of the streak of failures), which is what ties the
  counter to history.
* **ResilienceProofs**, idempotent execution: `TypeCorrect`, `TimelySafe`,
  `TimelyAnswers`, `TimelyRecords`, `CompletedStays`. Until a handler is late, a call in
  progress holds the pending record of its own digest (`HoldsRecord`) and a settled record
  was produced by a call of that digest (`ProducerMatches`).
* **OutboxProofs**: `TypeCorrect`, `DeliveredReceived`, `DeadLettersSound`,
  `MovesFailuresOnly`, `LeasesExclusive`, `AcceptedStored`, `Refinement`. The invariant
  adds to the properties that a worker settles only events of its own batch, and as
  delivered only what was received (`WorkInHand`), that a snapshot's attempts never
  exceed the row's (`SnapshotsLag`: exhaustion judged on a stale snapshot is
  exhaustion of the row), that a delivered event stays so, except that SQLite may give it
  up (`DeliveredKept`), and that rows and status agree (`RowsStored`). `MovesFailuresOnly`
  has the premise that the store is PostgreSQL, without which it is false (section 3). Leases need
  `HoldsLease` (a snapshot lease that is not over is the lease in the store, unless a late
  worker has given the event up) and
  distinct worker ids, the premise that `LeaseExclusive` itself states. Accepted
  events need `OncePerKey`. The refinement maps a row to its
  stage and shows each step to be an enqueue, a receipt, a delivery, a dead-lettering
  or a stutter of `DeliveryLedger`.
* **ApprovalsProofs**: `TypeCorrect`, `OnlyApprovedExecutes`, `DecidesOnce`. The invariant
  follows a grant through every place that keeps one (job, repository, both caches, offer):
  each is `Covered` by a saved approval, an admitted offer by one in force at its
  admission, and those kept for a checkpoint end no later
  than it does. `DecidesOnce` has the premise `OneBroker`, without which the run
  `decided_once` refutes it. It needs `Settled`: once a decision is saved, the repository
  keeps it, the broker's cache has it or nothing, and the broker is in the middle of nothing
  that would replace the record; and `DecidingCached`: what is about to be saved is in the
  cache already, so that a second `decide` finds it even if the write fails.
* **ControlPlaneProofs**: `TypeCorrect`, `ImmutableVersions`, `NoLostUpdates`,
  `Staleness`. Type correctness includes the foreign keys, for which
  versions held by jobs and requests must be stored too (`JobsPublished`,
  `RequestsPublished`). Lost updates are excluded by `ToldCurrent` (a revision that is still
  current stands for the version it was read with) up to the UPDATE and from there to the
  commit by `ShownActive`, which rests on the row lock (`Locks`: one uncommitted activation
  per environment); staleness by
  `InForceNow`, `RequestsFresh` and `CachesFresh`: what is on its way or cached has
  been out of force no longer than it has been there.

* **AuditChainProofs**: `TypeCorrect`, `NeverForked`, `AuditComplete`,
  `TamperEvident`, `KeepsTrail`. The invariant says
  of every writer in the lock that nobody else is in it for the same chain, that what it
  is about to write continues the current tail, and that what has been stored stays on the
  chain, or the file is torn and no chain verifies any more. `AcknowledgedVerified` needs
  the last part: the event of a glued line is acknowledged though it cannot be read, and
  the same write makes the store unreadable. `TamperEvident` (`HarmEvident`) rests on a second
  invariant, `Traced`: the hash an event was created with covers that of the last event of
  its history, and its history is that of this event, and this event (`Ancestral`); what is
  on a chain or with a writer has been created (`KnownLogs`, `KnownJobs`); and on a chain
  nobody changed the hashes are the original ones and the histories are what the chain
  shows (`RecordedLogs`, `RecordedJobs`), which append's comparison of hashes keeps
  (`CheckTailTraced`). `DigestTells` proves that `Digest` tells ids, contents and
  predecessors apart. In a chain that verifies, an event with its original hash has its
  original content and predecessor, which therefore has its original hash too (`OneBack`).
  That this goes back to the beginning would be an induction over the chain; it is proved
  by way of the latest event for which it fails (`LeastNumber`, from the well-foundedness
  of the numbers; `GoodBack`). `NeverForked` needs, of the events on an unchanged chain,
  that content and columns are what the store reads back (`SoundLogs`).
  `KeepsTrail` is the refinement of `AuditTrail` and needs a third
  invariant, `Unique`: an id is given to one event, one place in all the chains (`IdsCreated`,
  `IdsDistinct`); what a writer has yet to store is on no chain (`NotYetStored`); and the
  event of a line without its newline was acknowledged to nobody and never will be
  (`OpenUntold`), so what gluing loses is not missed.
* **RoiLedgerProofs**: `TypeCorrect`, `HistoryAccounts`, `ValueEarned`, `TransitionAsSeen`,
  `NothingMissing`, `NetNotOverstated`. `BeginsRecorded` (an opportunity
  that has begun has a history entry that says so, and never leaves the begun statuses)
  carries the check of `record_value` over to its insert; `JobsOK` relates what a job has
  read to the revision it read it with. The summary needs `ReportOK`: of each job, the
  opportunities listed, the values read and the costs read so far.
* **IdentityProofs**: `TypeCorrect`, `PrincipalsJustified`, `RevocationsEffective`,
  `CalmDecisionsExact`, `UpdatesKept`. What a request or an administrator has read lags
  behind the tables, so the invariant relates each to the history kept since: the row an
  administrator read is the current one unless its revision or the user's life has moved on
  (`ReadsLag`); the history of a request contains what is on record now (`SinceGrows`) and
  everything it has read so far (`RequestsJustified`); and as long as nothing has changed,
  what it has read is exactly what is on record, of the groups what the page shows
  (`CalmExact`), which is all of them if they fit on it (`AllOnPage`).
* **SentinelRunProofs**: `TypeCorrect`, `BudgetHolds`, `ExecutionOnRecord`,
  `StartsAccounted`, `ResultOnRecord`. The budget rests on `Solo` (one call in
  `_prepare_call` at a time) and on the charge a call past admission has paid and not yet
  spent; the order of events on `Trail`, what must be on record at each place of a call, with
  `Grows` (the log only grows); the result on which `run_completed` events each phase allows;
  the account of starts on what a call at each place has recorded (`Account`), the alarm's
  call and those ended by a `BaseException` apart.

Only model-checked: liveness (`Recovers`, `Settles`), which is out of the
prover's reach, and the violations.

## 5. Not modelled

Providers' HTTP calls, signers, workload identity, OIDC token checks and telemetry
encodings (pure I/O or cryptography around external systems); reports, policy schema
validation, analyzers, framework adapters, serialization and the CLI (sequential, no
shared state); migrations (one transaction under an advisory lock, so that atomicity is
PostgreSQL's); the agent inventory (single statements on one row); the in-memory SCIM
directory (one lock around every operation). The connection pool belongs to the driver.

Known limits of the models that exist: circuit breakers inside an outbox worker show
only as failed deliveries; `OutboxApprovalProvider` is not composed with `Approvals`;
the API's separate reads of the active bundle and its revision are a listed hazard
without a property.

Known limits of the code that contradict none of its promises, visible in the models:
costs in another currency than their opportunity's appear in no summary, and neither do
opportunities beyond the page limit; a principal may hold groups it never held together,
and a binding of a role created during a request fails that request; a SQLite
`replace_user` of a user deleted meanwhile reports success; a PostgreSQL revision starts
again at 1 when a user is deleted and created again, and so does a rollout's when it is
deleted and started again; a user whose groups are beyond the first 500 is served without
them.

## 6. What could follow

1. Compositions: `Outbox` with a breaker per destination; approvals submitted through the
   outbox; `SentinelRun` over `AuditChain` in place of its abstract log.
2. `AgentInventory`: `register_agent` and `heartbeat` on one row.
3. Theorems: what several brokers guarantee of decisions.
