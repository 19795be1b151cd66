# Verification of CubeAgent

This directory holds a TLA+ model of CubeAgent (the Python package `agent_hub`):
modules that model its components, TLC configurations that check them on small
instances, and theorems with proofs that TLAPS checks for every instance. Paths
below are relative to `src/src/agent_hub/` unless they start with `src/`.

## 1. The system

CubeAgent takes tasks from chat channels (Feishu, a generic webhook) and from an
HTTP console, decides how a task is to be done (one agent, a crew, a discussion,
a hybrid of these), and runs it in a worker process with leased model capacity.
Three kinds of process share PostgreSQL and Redis: the API (`app.py`), the worker
(`runtime/worker.py`) and channel listeners. All of them are asyncio programs, so
the interleavings that matter are those between `await`s of different processes
and tasks, between database transactions, and between Redis scripts.

| Part | Files | State | Operations | Hard behaviour |
|---|---|---|---|---|
| Run lifecycle | `runs/service.py`, `runs/repository.py`, `runtime/worker.py` | run rows (status, version), outbox, events, checkpoints; a queue in each worker's memory | submit, choose mode, decide on a temporary agent, pause, resume, cancel, delete, capability approval, publish outbox, claim, execute, recover | commands between two events of a stream; delivery into memory; crashes after claim or delivery; resume under a live executor |
| Model capacity | `models/capacity.py`, `models/redis/*.lua` | leases per scope, limits (AIMD), registered policies, fingerprint claims, all with expiry | acquire, renew, release, record outcome, register, roll back | expiry against renewal, lost replies, lowered limits below the leases held, policies of several processes |
| Model gateway | `models/gateway.py`, `models/litellm_client.py` | one call: its lease, heartbeat task, transport task | complete with a fallback chain | lease lost during transport, cancellation, release on every path |
| Dispatch runtime | `runtime/crew/adapter.py`, `crew/plan.py` | per run: model and tool ledgers, retries, budget, artifacts; a queue of events; a task per step | execute or restore a plan, step, tool, review, checkpoint, cancel | write-ahead records that are only queued, parallel steps over shared ledgers, restarts from any checkpoint |
| Channel ingress | `channels/dedup.py`, `gateway.py`, `submitter.py` | one row per inbound message: reserved, submitted | reserve, submit, mark, release, wait | crash between submit and mark; two deliveries at once |
| Approvals | `capabilities/approvals.py`, `gateway.py`, `runtime.py` | approval records in memory, run row | start waiting, approve, reject, expire, consume | partial failure between the record and the run row; expiry against decision |
| Scheduler | `scheduler/service.py`, the handlers of `/schedules` in `api/routers/admin.py` | schedules and submitted fires in memory, one document per schedule in the database | create, list, tick, delete, each with a restore or a persist around it | overlapping requests that write older copies back, failing submissions, restarts |
| Configuration | `config/service.py`, `config/repository.py` | revisions: draft, validated, published, superseded | draft, validate, publish, rollback | concurrent publishers; notification after commit |
| Identity | `auth/*` | users, roles, session versions, bootstrap codes, rate limits | bootstrap, log in, change role, disable | one bootstrap; the last super admin; stale sessions |
| Other runtimes | `runtime/direct.py`, `hybrid.py`, `autogen/` | stages, checkpoints, active tasks | run, checkpoint, restore, cancel | restore after a restart, cancellation during a stage |
| Improvements | `improvements/service.py`, `evolution.py` | proposals | propose, approve, publish, evaluate, roll back | cancellation between two saves |
| Everything else | see `PROJECT.json` | little or none | | text, I/O, layout |

### How the parts interact

A channel delivery goes through `ChannelGateway.handle` (reserve, submit, mark)
into `RunService.submit`, which writes the run row and an outbox row in one
transaction. A worker publishes the outbox into its own memory, claims a run,
and consumes the event stream of a runtime, one transaction per event. The
runtime calls the model gateway, which leases capacity in Redis around every
request, and the capability gateway, which may put the run in
`WAITING_APPROVAL` inside its execution. The scheduler and the console call the
same submission and the same run commands. Configuration, identity and
improvements keep their own tables or dictionaries and meet the run only
through the values they publish.

### What makes each part correct

* **Run lifecycle**: no queued run is forgotten; one executor per run; events are
  not repeated; the outcome that was reported is the outcome that stands; workers
  are let go.
* **Model capacity and gateway**: a lease is granted only within the limit of that
  moment; a transport never outlives its lease
  by more than a heartbeat; a lease is released on every path; a worker with a
  stale policy never raises the limit of another.
* **Channel ingress**: one task per message, and every delivery is told that task.
* **Approvals**: the record and the run row agree, a decision is taken once, an
  expired approval is never approved.
* **Dispatch runtime**: no checkpoint it writes contradicts itself; a restored run
  repeats no call whose outcome is known; nothing recorded is taken back.
* **Scheduler**: no tick moves a schedule past a moment without a run, no schedule is stuck, a deleted
  schedule stays deleted.
* **Configuration**: one published revision per tenant, versions only grow.
* **Identity**: one bootstrap, always one super administrator, no session outlives
  the change that revoked it.
* **Improvements**: a published proposal was approved, and a publication that
  failed can be tried again.

The hazards, each at its line of the code, are listed in `PROJECT.json` with the
properties of the runs below that cover them. Those that no property covers have a
note that says why: most are windows that the code leaves open and no document
speaks of, which the models contain and the properties excuse by a history variable.

## 2. Modules

| Module | Models | Composition | Runs | Proofs |
|---|---|---|---|---|
| `RunLifecycle` | run rows, outbox, workers, `execute()` | the runtime is its environment | `run_safety`, `run_liveness`, `run_terminal`, `run_crash` | `RunLifecycleProofs`, `RunEventProofs` |
| `OnceOnly` | what the ingress promises | | | |
| `ChannelIngress` | `ChannelGateway.handle` and its transactions | refines `OnceOnly` | `ingress_safety`, `ingress_refines`, `ingress_twice` | `IngressProofs` |
| `LeaseBook` | what the capacity pool promises | | | |
| `ModelGateway` | calls, leases, limits, cooldowns, the bounded queue | gateway and capacity pool together; refines `LeaseBook` | `gateway`, `gateway_live` | `GatewayProofs` |
| `CapacityRegistration` | claims and policies of several processes | what `ModelGateway` takes for granted of registrations | `registration` | `RegistrationProofs` |
| `DispatchRuntime` | coordinator of a plan, ledgers, checkpoints | runtime together with the service that reads its stream | `dispatch` | `DispatchProofs`, `DispatchLedgerProofs` |
| `Scheduler` | schedules, the handlers around them, the run they submit | scheduler, documents and run service | `scheduler` | `SchedulerProofs` |

`MCx` is the module that instantiates `x` for TLC. Every component module keeps
its parameters as CONSTANTS with a named assumption and declares no RECURSIVE
operator, so that it can be proved about. The parts meet where the code hands over:
`RunLifecycle` leaves to the runtime what its stream yields, and `DispatchRuntime`
is one such stream; `DispatchRuntime` leaves the outcome of a model call open, and
`ModelGateway` is the life of one; `ModelGateway` lets a policy be republished with
any limit and a call find itself unregistered, and `CapacityRegistration` shows when
that happens; `Scheduler` and `ChannelIngress` use of a run only that an
idempotency key finds it again.

Candidates that would come next are user administration (two administrators that
demote each other), the AutoGen adapter, and `ConfigRevisions`.

## 3. RunLifecycle

### State

| Variable | Code |
|---|---|
| `row` | `agent_hub_runs`: `status`, `version`, and from `routing_decision` the `approval_kind` and whether an `approval_id` is pending |
| `outbox` | rows of `agent_hub_run_outbox` with `delivered_at IS NULL`; a row is named by the run and the version it was written for, as in its `idempotency_key` |
| `log`, `checkpoint` | the highest `sequence` of the run's events and checkpoints |
| `queue`, `phase` | a worker's `LocalRunQueue`, and whether `run_worker_loop` publishes or drains |
| `exec` | the `RunService.execute` call a process is in, and where |
| `reported` | what `record_outcome` and the terminal hooks were told of a run, in order |
| `resumed`, `overlapped`, `orphaned`, `untold` | history: runs queued again after a pause or an approval, runs queued again under their executor, runs whose owner a fault took, runs whose report a fault took |
| `faults` | the number of crashes and lost calls, bounded by `MaxFaults` |

### Actions

Each action is one transaction or one step between two `await`s.

* User commands (`SubmitQueued`, `SubmitWaiting`, `ChooseMode`,
  `DecideTemporaryAgent`, `Pause`, `Resume`, `Cancel`, `DeleteRun`) are the
  transactions of `RunRepository`; the routes are those of `RunService` and of
  `RepositoryAdminService`.
* `BeginCapabilityApproval` and `ResolveCapabilityApproval` are the two
  transactions of the capability gateway on the run row, made while the stream
  is open.
* The worker: `Deliver` (`pending_outbox` and `deliver_outbox`),
  `DeliverUncommitted` (the commit fails after the enqueue), `StartDrain`,
  `TakeNext`, `DrainDone`.
* `execute()`: `ClaimForExecution`, `ClaimRefused`, `PersistEvent`,
  `PersistTerminalEvent`, `StopStream`, `AbandonStream`, `StreamRaises`,
  `FailRun`, `StreamEnds`, `CompleteRun`, `AppendNotices`, `ReportOutcome`.
* `Recover` is `RunService.recover`, which no process of the deployment calls; it
  is there for the operators of `Operators`, and a run without operators is the
  deployment as shipped.
* Faults: `Crash` and `LoseCall`.

The runtime is an environment here: its stream yields events and checkpoints
with growing numbers, raises, ends with a terminal event, or (with `SilentEnds`)
without one, which `RunService.execute` handles although the runtimes of the
repository always send one.

### Runs

| Run | Instance | Result |
|---|---|---|
| `run_safety` | one run, two workers, one recovering operator, versions to 5, three events, one fault | 1.37 million states; the safety properties below hold |
| `run_liveness` | one run, two workers, versions to 4, one event, one fault, `FairSpec` | 93 thousand states; the liveness properties hold |
| `run_terminal` | no fault, no silent end | `TerminalRunStateIsImmutable` is violated (finding) |
| `run_crash` | one worker, one crash, `FairSpec` | `CrashedRunTakenUp` is violated (finding) |

* `ActiveRunIsOwned`: a queued run has an outbox row or a place in a worker's
  memory, a running one has an executor; only faults orphan a run.
* `ExclusiveExecution`: the claim is a lock, except for a run queued again under
  its executor (`overlapped`).
* `NoEventReplayed`: no event is lost to `ON CONFLICT DO NOTHING`, except after a
  pause or a bypassed approval (`resumed`); recovery after a crash keeps this.
* `ReportsAgree`: of a run Hermes and the hooks are told at most once, and what its
  row says; and a run that completed or failed is told, or its executor is about to.
  The second half does not hold of a run whose executor crashed or raised after the
  outcome, as the second transaction for the observer's notices may, or which a
  refused recovery failed: these are in `untold`, and that hooks are not told of
  them is what the code does. A cancelled run is told only if its executor saw it.
* `TerminalStatusKept`: a terminal status is rewritten only in the two ways
  the code leaves open.
* `QueuedRunTaken`, `RunningRunLeaves`, `ExecutorReleased`.

The exceptions in these properties are the places where the code really does not
keep the plain statement; they are history variables that record that very event
and nothing more, and the plain statement on terminal statuses has its own
violated run.

**Bounds.** One run is enough because no transaction of the code touches two run
rows, and a worker's queue is the only place where runs meet: with one run a
worker may be busy with it while it is delivered again, which is the interesting
case of `enqueue_run`. The liveness run has one event number, so that its streams
yield a checkpoint or an event and end; longer streams are in `run_safety`. Five versions allow a claim, a pause, a resume, a second
claim and an outcome; three event numbers allow an event on either side of a
checkpoint before a restart. Two workers and one operator give three executors.
The theorems of section 9 hold for all of these without bound.

**Fairness.** Weak fairness of the worker loop's own steps: it is an infinite
loop of a process that is running. Weak fairness of `StreamStep`: a stream yields
or raises because `TaskContext.timeout_seconds` bounds it. Strong fairness of
`Deliver`: publication is tried again in each round, and its commit does not fail
in every one of them. Nothing is assumed of users, operators or faults.

## 4. ChannelIngress and OnceOnly

`OnceOnly` is the promise: each message becomes at most one task and every
delivery that is told a run id is told that task's. `ChannelIngress` is the code.

### State

| Variable | Code |
|---|---|
| `row` | `agent_hub_channel_dedup`; a row is named by the delivery that inserted it, as each reservation has a fresh id |
| `keyed` | the run that carries an event's `idempotency_key`, a hash of channel, tenant and event id |
| `waiting` | runs of the conversation in `WAITING_USER_MODE` |
| `call`, `answer` | where each `handle()` is and what it returned or raised |
| `effects` | history: which delivery created, found or chose which run |
| `lost` | history: deliveries whose handler, or the release of it, a fault took |

`FindExisting`, `InsertReservation`, `InsertConflicts` and `LoadExisting` are
`reserve` (two attempts, then a read); `RunIdSeen` and `WaitTimesOut` are
`wait_for_run_id`; `LatestWaitingChoice`, `ChooseMode` and `CreateRun` are
`RunServiceInboundSubmitter.submit` with the transactions it leads to;
`MarkSubmitted`, `MarkFails`, `ReleaseReservation` and `ReleaseFails` are the
rest of `handle`. Every transaction may fail, and one that commits may be
reported as failed (`CommittedThen`, and the second branch of `MarkSubmitted`
and `ReserveRaises`). `Crash` is also the cancellation of a request:
`CancelledError` passes both `except` clauses of `handle`, so nothing is
released. `RefuseDirective` is any `ChannelDirectiveError`. Which run a console
decides on (`DecidedElsewhere`) and whether a number names an option of the
waiting run are free choices. `create_run` is one atomic step: `OneSubmitter`
shows that two handlers of one event are never in it at once.

### Runs

| Run | Instance | Result |
|---|---|---|
| `ingress_safety` | three deliveries of one message, the third under a new event id, all of them numeric choices, one waiting run; unbounded failures | 381 thousand states; all hold |
| `ingress_refines` | two messages with ids that agree, one delivered twice, no choices, `FairSpec` | 99 thousand states; refinement, `EveryCallEnds` and `ReservationSettles` hold |
| `ingress_twice` | one message delivered twice, a choice | `OneTaskAlways` is violated (finding) |

* `OneSubmitter`: between reserve and mark a handler has its row and is alone.
* `OneTaskPerMessage`: the effect of two runs is possible only after a first
  handler failed past its effect, and only under another event id or by a choice.
* `AnswerIsTheTask`: whoever is told a run id is told a run of that message.
* `AttachedRowStays`: the narrow delete of `release_reservation`, also after a
  mark that committed and was reported failed.
* `ImplementsOnceOnly`: with `task` mapped to the keyed run.
* `EveryCallEnds`, `ReservationSettles`.

**Bounds.** Three deliveries are what a second insertion conflict and the final
read need: one that holds a row, one that releases, one that conflicts. A delivery is
handled once, and its repetition by the channel is another delivery, so nothing
but the number of deliveries is bounded; faults are not. The liveness properties
are checked without choices: a choice differs only in the transactions between
reserve and mark, each of which fails and goes on like the others.

**Fairness.** Weak fairness of each handler's steps: a coroutine that was started
goes on, and the waits have deadlines. None for the arrival of deliveries, for
faults or for the console.

## 5. ModelGateway and LeaseBook

`LeaseBook` is the promise of the capacity pool: a lease is granted only while its
scope holds fewer than it is allowed at that moment, and one that has ended never
comes back. What is allowed (`allowed`, the effective limit) changes with policies,
outcomes and cooldowns, and may fall below what is held.
`ModelGateway` is a call from `ModelGateway.complete_with_context` to its end,
together with the scripts of `models/redis/` it runs.

| Variable | Code |
|---|---|
| `lease` | the members of a scope's lease set, as the time each has left |
| `base`, `eff`, `cool` | registered limit, effective limit and cooldown of the scope's health record |
| `late` | commands whose sender was cancelled or disconnected: Redis may still run them |
| `call` | per call: its place in `complete_with_context`, `acquire` and `_complete_leased`, its place in the fallback chain, its heartbeat task, the time since its last grant or renewal that the heartbeat had not planned to sleep, and the failure it carries |
| `waiters` | `CapacityPool._waiters` |
| `cancelled`, `spent`, `leaky` | history: calls that were cancelled, leases that ended, leases nobody is left to release |

Actions are the commands as they are sent, executed and answered (three moments,
each of which may fail: `acquire`, `renew`, `release` and `record_outcome`), the
steps of the queue, the secret, the transport, the heartbeat that races it, the
cleanup of a cancelled acquisition, `Cancel` at every await, `Crash` of the process,
`Republish` by any registration, and `Tick`. Time counts down: a lease, a cooldown
or a sleep loses one at every `Tick`, so that no clock is needed and nothing
bounds how long a behaviour is.

| Run | Instance | Result |
|---|---|---|
| `gateway` | two calls against one scope with room for two, one place in the queue, leases of four ticks renewed after two | 306 thousand states; safety and refinement hold |
| `gateway_live` | one call with a fallback to a model of the same account, so that one call may hold two leases of a scope; `FairSpec` | 25 thousand states; liveness holds |

* `OnlyOwnersHold`: a live lease belongs to a call inside its lease, or nobody can
  release it (`leaky`: the process died, or a command's effect was never learned).
* `WaitersExact`, `TransportIsLeased`, `CooldownHalvesLimit`.
* `ImplementsLeaseBook`: with `allowed` mapped to the effective limit, which is one
  during a cooldown or under a lower policy, so that two calls are enough for a grant
  beyond it.
* `LeakHeals`, `EveryCallEnds`.

**Bounds.** Two calls are what contention, the queue and a limit below what is held
need; a lease of four ticks has a renewal, a late renewal and an expiry. The chain of
two is checked for one call: two chains of two exceed what TLC can visit. The proofs
hold for all of these.

**Fairness.** A call's coroutine runs when it can, every command gets a reply or an
error, the transport ends (its client has a timeout) and time passes. Nothing is
assumed of heartbeats, and no call has to come.

## 6. CapacityRegistration

Before a pool takes leases it registers, in Redis, in which scope each credential is
used (a claim) and which limit each scope has (a policy), under its own name and for
a time. The processes must agree, and leases must not outlive what they rest on.

| Variable | Code |
|---|---|
| `setup` | the configuration: whose each view is (`CapacityPool.scoped`), the keys it plans, what each process wants, and the times |
| `left` | per key and owner, the time its record has left |
| `base` | the limit `acquire_lease` reads |
| `valid` | per view, `_registration_valid_until` as the time left |
| `reg` | per owner, the registration under the lock: its view, the keys left, the keys it created, whether a heartbeat forced it |
| `poll`, `lease`, `renew` | acquisitions that were let in, their leases, and heartbeats between the forced refresh and the renewal |
| `rolled` | history: records that a rollback removed |

`Register` is the claim or policy script with its refusals, `RegisterLost` one whose
reply is lost, `Rollback` one key of a rollback, `Abandon` a rollback that ends
early, `LetIn` and `TurnAway` what `acquire` finds.

`registration` (2.50 million states) has seven setups: two views of a process and one
of another that puts the credential elsewhere; a shared scope; a shared scope under
different limits; a wait that the margin does not cover; and one view whose lease is
renewed, with a margin that covers wait and lease, less, or nothing. The properties
say that an admission has its records, that time does not take the claim of a lease
that is fenced, that a credential has one scope at a time, and that a limit covers
who registered it. `rolled` excuses one thing only: the rollback of a view's first
registration erases records its sibling views believe in.

What fences a lease (`Fenced`) is what the code has to offer. The margin is a tenth
of the registration's lifetime, and nothing relates it to the queue's timeout or the
lease: `models/capacity.py:257` asks only that a registration lives for three leases.
So an acquisition may poll for longer than the registration it was let in under
lasts, and its lease then stands without a claim until the first heartbeat refreshes
it; `Fenced` says for how long the margin is enough. From the first renewal on
(`renewed`) the refresh that the heartbeat has forced is what counts, and that one
lasts: there the three leases are needed. The setups `Waits`, `Outlived` and
`Unfenced` have leases of both kinds.

## 7. DispatchRuntime

The coordinator of a dispatch plan in `runtime/crew/adapter.py` with the part of
`RunService.execute` that reads it.

| Variable | Code |
|---|---|
| `plan` | dependencies, `max_parallel` and the token budget |
| `status` | the run's row |
| `durable`, `ahead` | the latest checkpoint that was persisted, and whether events were after it |
| `starts`, `reader` | runtime instances so far, and the one whose stream is read |
| `rt` | per instance: the ledgers, the queue of its stream, each step's task, and what it was restored from and has called |

A ledger has the state of each model call (by step, attempt, purpose and index) and
of each tool call, completed steps, retries, answers paid for, and the accounting's
phase. `Coordinate` has what a task does between two waits: start the frontier,
prepare, send and record a model call, run a tool, submit a review, time out, skip an
optional step, exhaust the budget, collect, complete or fail. `Service` reads an
item, pauses, cancels, crashes, fails and restarts from the latest checkpoint.

A coordinator may be two records ahead of the service (`QueueSize`). A verdict that
asks for a revision is two steps: the checkpoint of its usage, and that of the retry
(`Verdict`, `Revise`). A restart checks a checkpoint as `_validate_checkpoint`
(`Valid`) and `_hydrate_checkpoint` (`Restorable`) do, and fails the run that it
refuses (`Opening`).

`dispatch` (465 thousand states) has four plans (a reviewed draft with an optional
check, two parallel steps of which one has a tool on a budget that the second answer
exhausts, a tool that writes, a tool that reads) and one restart. A paused coordinator
goes on beside its successor in the code; the run does not follow it (`OrphanSize`),
since none of its properties is about it.

* `CheckpointsValid`: no checkpoint, durable or queued, contradicts itself, which is
  what `_validate_checkpoint` looks for. It does not say that every checkpoint can be
  restored: `_hydrate_checkpoint` refuses one with a call in doubt or artifacts that
  are gone.
* `RestoredOutcomesStand`, `EffectsRecorded`, `DurableProgressKept`.

Beside the runs, `MCDispatchReplay.cfg` (`tlc -config MCDispatchReplay.cfg
MCDispatchRuntime.tla`) finds `UncertainWritesNotReplayed` violated: a writing tool
runs twice after a pause, since the record that it is running is only queued
(`runtime/crew/adapter.py:3377`) and the service leaves the stream without cancelling
the coordinator (`runs/service.py:1099`). The design document says at
`src/docs/superpowers/specs/2026-08-05-agent-hub-design.md:139` that an external write
of which it is uncertain whether it succeeded must not be repeated automatically.

Left out: summaries of final attachments, direct multimedia steps, audit overflow,
budgets per step, several framework calls in one step, and a second `execute` beside
a reader that lives (that is in `RunLifecycle`).

## 8. Scheduler

| Variable | Code |
|---|---|
| `spec` | what a schedule was created with: once or repeatedly, late fires submitted or skipped |
| `mem` | `SchedulerService._schedules`, by the next fire; 0 is completed |
| `submitted` | `_submitted_fires` |
| `docs` | the admin documents of kind schedule |
| `runs`, `again` | when the run of a fire was created, and last found by its key |
| `handler` | per request, the handler of `/schedules`: what it read and what it has yet to write |
| `gone`, `revived`, `overtaken` | history: deletions that were answered, those another handler overlapped, schedules deleted while a fire was submitted |

`Read` is `_restore_persisted_schedules` up to its await; `ListSchedules`,
`TickSchedules` and `DeleteSchedule` go on from there; `TakeDue` is
`_next_due_request`, called again after each reply (`Submitted`); `Persist` writes one
document. `SubmitFails` releases the fire, before or after the run was committed.
`SubmitCancelled` does not: the `except Exception` of `tick` lets a cancellation pass,
and the fire stays marked until its schedule is deleted or the process restarts.
Ticks come only from requests, and their `now` is what the client sent, which nothing
compares with the clock: it is any moment.

`scheduler` (1.89 million states): one schedule of any kind, two requests, three
moments, one restart.

* `FiresServed`: no schedule that fires late moves past a moment but by a run that
  was submitted, for that fire or an earlier one, by a tick whose now had reached the
  moment. Whether the moment had really come is for the client to know: one that is
  ahead of the clock lets moments pass before they come, with the one run.
* `HeldFires`: a schedule that stands at a submitted fire has a request that is
  submitting it, or its submission was cancelled (`dropped`). The schedules that skip are left out: `_next_due_request` moves such
  a one past a marked fire.
* `DeletedStaysGone`: unless `revived`, that is, unless a list, a tick or a persist
  that had read the schedule before writes it back, which the code does.

Two schedules or three requests are beyond TLC; schedules meet only in the order in
which one tick takes them, which `TakeDue` leaves open, and the proofs hold for any
number. Cron expressions and time zones are left out: a cron schedule fires at
every moment.

## 9. Proofs

The proof modules hold theorems for every value of the constants, under the
assumptions `ProcessAssumption`, `RunAssumption`, `BoundAssumption`,
`DeliveryAssumption` (disjoint name sets and natural bounds), `GatewayAssumption`
(positive times and limits, finitely many calls), `RegistrationAssumption` (the
setups' plans, and registrations of three leases at least), `SchedulerAssumption` and
`DispatchAssumption` (well-formed plans). The bounds are constants, so the theorems hold for each
choice of them.

* **TypeCorrect, WorkIsOwned** (`[]TypeOK`, `[]ActiveRunIsOwned`). Ownership alone
  is not inductive: `enqueue_run` drops a run that is already held, and the
  outbox row is marked delivered all the same. `OwnershipInv` adds
  `PublishIsIdle`, that a worker publishes only between executions, so a run
  that is dropped is one that still stands in the queue.
* **RunLockHolds, OutcomeStands** (`[]ExclusiveExecution`, `TerminalStatusKept`).
  `LockInv` adds that a run which is queued, completed or failed has no executor,
  so that a claim never meets one; outside `overlapped` runs. The action property
  then follows action by action.
* **ReportsTrue** (`[]ReportsAgree`). `ReportInv` adds to `LockInv` that an outcome
  given to Hermes and the hooks, or about to be, is the row's and that no executor
  is left to write another (`Told`); an executor that is alone finds none told
  before it, so that it tells the first time, and a row becomes completed or failed
  only in a step that leaves its executor about to tell or the run in `untold`.
* **EventsUnique** (`[]NoEventReplayed`). `EventInv` adds that a run no worker has
  claimed has neither log nor checkpoint nor call (`Fresh`), that one call at a
  time writes a run's events, and that a run whose call closes is never taken up
  again without a user's resume (`Alone`).
* **IngressTypes, SubmitterAlone, TaskOnce, AnswersTrue, AttachedStays**.
  `IngressInv` is the conjunction of `TypeOK`; `RowsApart` (no two rows share an
  id); `HeldRows` (a handler between reserve and mark has its own row,
  reserved); `EffectsOnce` (a delivery has one effect, and two unnumbered
  deliveries of one event the same run); `RunsCaused` (a run id in a row, a
  call or an answer stems from the effect of a linked delivery);
  `ReleaseAnswers` and `AnsweredOnce` (only a call that has ended has an answer).
* **IngressIsOnceOnly**: under `StableIds` (event and message ids agree) and
  `Choices = {}` each step is one of `OnceOnly` or a stutter: `CreateRun` is
  `Submit`, the steps that answer are `Reply`. Both hypotheses are needed, as
  `OneTaskPerMessage` and `ingress_twice` show.

* **GatewayTypes, SlotsComeBack, QueueCountsWaiters, CooldownHolds**. `SlotsComeBack`
  needs `LateLeaky` (a late acquisition's lease is one nobody can release) beside the
  property; the others are inductive with the types. `QueueCountsWaiters` is a lemma
  on the cardinality of a set that one call enters or leaves.
* **TransportLeased**. `MarginInv` adds `MarginKept` (the lease's time and the
  unplanned delay together are at least half a lease, and the sleep that is left on
  top of it) and `SleepPlanned` (the first renewal is planned for half a lease at
  most), which is where `min(interval, ttl / 2)` is used.
* **GatewayKeepsBook, ScopeWithinLimit**. With `UntakenFresh` and `LateFresh` (an
  identifier not yet used, or whose acquisition is on its way, has never been held)
  each step grants one lease within the effective limit, ends some, changes what is
  allowed, or stutters. That a scope
  stays within its largest limit then follows from the steps of `LeaseBook` alone.
* **RegistrationTypes, LimitsAgreed, AdmissionsCovered, ClaimsOutlastLeases,
  CredentialsHaveOneScope**, for any wait, lease and margin. `CoverInv` follows one
  fact, that the record lasts at least as long as what rests on it, along its path:
  what a registration has written while it goes on, what a view believes plus the
  margin, what the margin leaves of it to a poll (`PollBound`) and to a lease of a
  given age (`LeaseBound`), a heartbeat that has refreshed, a lease that was renewed
  (`RenewedLive`). `ClaimInv` says that claims which stand
  agree; together they give that a credential has one scope.
* **SchedulerTypes, DeletionsStand, MomentsServed, MarksAreHeld**. `DeletionsStand` needs
  `BornInv` (memory, documents and handlers hold only schedules that were created)
  and `GoneInv` (a deleted schedule that is not revived is in no memory, document or
  handler's copy). `MomentsServed` needs `CarryInv` (a handler has a fire only while it
  submits it, and one that its tick's now has reached) and `FiresInv` (beside the
  property, that the moments before a fire under submission are served, and that an
  accepted fire has a run of its tick or later). `MarksAreHeld`
  needs `HeldInv`: of a schedule that was not deleted under submission, every marked
  fire that was not `dropped` is one it has moved past or stands at under a handler (`Marked`), and a fire
  under submission is marked, stood at, and submitted by one handler (`UnderWay`).

* **TypeCorrect, RestoredStand** of `DispatchRuntime` (`[]TypeOK`,
  `[]RestoredOutcomesStand`, under `DispatchAssumption`). `DispatchInv` bounds each
  task by the rounds and retries its calls have keys for (`Proper`), and ties a
  running coordinator to the checkpoint it came from (`Tied`): no call in doubt in
  that checkpoint, and whatever it knew the outcome of still has one in the ledger
  (`Follows`), so that no step finds it open.
* **CheckpointsConsistent, EffectsKnown, ProgressKept** (`[]CheckpointsValid`,
  `[]EffectsRecorded`, `DurableProgressKept`). A coordinator runs ahead of the
  checkpoints the service has read, so none of the three is inductive: each speaks of
  `durable`, and what decides it is still queued. `LedgerInv` joins the two ends by a
  `Trail`: reading the queue leads from the durable checkpoint to the coordinator's
  ledger by ledgers that are each valid and each go on from the one before
  (`Progressed`); the last of them knows every call that was made (`Covered`). A
  running coordinator's ledger is valid and knows what its tasks rest on (`Sound`,
  `Placed`). The argument has two sides. Each boundary of the coordinator moves the
  ledger on and disturbs no other task's grounds (`Advances`, `Local`), so
  the trail grows at its end; the service reads its head, drops it with the run, or
  starts a new one at `durable`. A stopped coordinator's queue keeps a trail
  from some ledger, which nobody reads. A fallback answers the first of a step's
  open calls; that there is a first is `Least`, from `WellFoundedInduction`.

Model-checked only: the liveness properties, which are beyond the prover, and the
properties of `run_terminal`, `run_crash` and `ingress_twice`, which the code refutes.

## 10. Findings

1. `run_terminal`: a run queued again under its executor (paused and resumed, or
   decided on a second time while it waits for a capability approval) gets a second
   executor; the later terminal event replaces the first outcome, although
   `runs/repository.py:510` calls terminal run state immutable.
2. `run_crash`: a crashed worker's run stays `RUNNING`, although the design
   promises that it resumes from its latest checkpoint; `recover` exists and has
   no caller.
3. `ingress_twice`: a choice whose mark fails is released and its retry becomes a
   second run, although the plan promises that a retry returns the existing run.

What the models show besides, where no document promises otherwise:

* *Gateway*: a cancellation that arrives while a lease is released or an outcome
  recorded is swallowed when the call already carries a retryable failure
  (`models/gateway.py:500-527`), and the next fallback is asked.
* *Registration*: a refused forced refresh (`models/capacity.py:596`) and a sibling's
  rollback (`:487`) leave views that believe in what is gone; the three leases to a
  registration fence a lease only after its first renewal, and before it nothing but
  the margin does, which may be shorter than the wait (section 6).
* *Dispatch*: a retry after a failed or timed-out model call meets its own running
  key and never reaches the model; a skipped review leaves its key running, so that
  later checkpoints of the run cannot be restored; a restart after a recorded
  rejection reviews a new candidate identifier, skips it, and the rejection becomes
  an approval; a parallel step may ask the model after the accounting has ended; the
  stable terminal error is swallowed by the review loop and its step runs until the
  deadline; an optional step skipped after an answered call tears the artifact graph a
  restart asks for; `ConfigBackedDispatchRuntime.cancel` cancels all runs of its mode.
* *Scheduler*: a schedule whose creation was answered 503 stays in memory, fires, and
  is persisted by the next tick; a deleted schedule may return with an overlapping
  request; after a repeated submission a schedule moves past later moments with the
  older run only; a tick whose now is ahead of the clock moves schedules past
  moments that have not come; a cancelled tick leaves its fire marked, and the
  schedule stands still until it is deleted or the process restarts; a schedule that
  was deleted under submission and came back may be
  stuck on a marked fire until the process restarts; a failing submission ends the
  tick without persisting what it fired.

## 11. Not modelled

* Routing, prompts, the observer's thresholds, Hermes' advice, the text of
  messages: pure functions of text whose results are inputs of the actions.
* `mark_completed` and `cleanup_completed_older_than` of the deduplication: no
  code under `src/src/agent_hub` calls them.
* The loser of two `create_run` calls under one idempotency key of the HTTP API:
  the insert fails on the unique key and the caller is told of an error
  (`runs/repository.py:115`).
* A transaction that is still committing when its client was told of a failure
  and the client has gone on: commits are atomic with their report here.
* `ApprovalService`: no code under `src/src` constructs it. Approvals appear as the
  two transactions on the run row in `RunLifecycle`.
* User administration, configuration revisions, improvements: transactions on one
  row or a dictionary under one lock, see the notes of `PROJECT.json`. The AutoGen
  adapter keeps ledgers of the kind of `DispatchRuntime` and has no model.
* Transport, cryptography, file and process I/O, the web console; see the notes
  of `PROJECT.json`.

## 12. Running

    tlc -workers 2 -config MCRunLifecycle.cfg MCRunLifecycle.tla
    tlc -workers 2 -config MCIngress.cfg MCChannelIngress.tla
    tlc -workers 2 -config MCGateway.cfg MCModelGateway.tla
    tlapm RunLifecycleProofs.tla

and likewise for the other configurations and proof modules. Operators commented
`Fault:` in a module are deliberately wrong versions of the definition that
follows; replacing the definition by its fault makes the property named in
`PROJECT.json` fail, which shows that the property depends on that line of the code.
