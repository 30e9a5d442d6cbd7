# Verification of windylane

TLA+ models of the windylane backend (the Go code under `src/`), checked with
TLC on small instances; the properties that matter most are proved with TLAPS
for instances of every size.

## The system

windylane keeps what must not be lost in Postgres and uses Redis to dispatch
work. Four subsystems share the database; each runs in several processes at
once, and no lock spans more than one SQL transaction or Redis script.

| subsystem | code | what it does |
| --- | --- | --- |
| QueueFlow | `internal/usecase/service.go`, `internal/engine`, `internal/worker`, `internal/broker/redis`, `internal/storage/postgres/postgres_storage.go` | A task queue. The API inserts a row and enqueues a message; worker pools dequeue, claim the row, execute and record the outcome; three loops reclaim expired leases, promote delayed messages and dispatch rows that were never dispatched. |
| EventForge | `internal/usecase/webhook_*.go`, `internal/storage/postgres/webhook_repository.go`, `cmd/webhook-worker` | Webhooks. A task event becomes one delivery row per subscribed endpoint; workers claim batches of due rows, send them, and record the outcome. |
| TaskCanvas | `internal/usecase/workflow_*.go`, `internal/storage/postgres/workflow_*.go` | Workflows. Drafts are edited, validated and published as numbered versions; an execution is pinned to a version, and any number of `AdvanceExecution` calls drive its nodes, which run as QueueFlow tasks, EventForge deliveries or timers. |
| QueueLens | `internal/metrics`, `internal/domain/metric.go`, `internal/storage/postgres/metric_repository.go` | Metric events, buffered in the process and written in batches. |

Around them: the worker process (`cmd/worker`), which discovers the queues with
work (`internal/worker/discovery.go`) and runs a pool for each, a rate limiter in
Redis, a command that rebuilds Redis (`internal/usecase/redis_rebuild.go`), the
HTTP API (`internal/api`) and a dashboard. `PROJECT.json` lists every part with what is modelled of it and, for
what is not, why.

## Modules

| module | models |
| --- | --- |
| `TaskStore` | the statements on the `tasks` table: a guard `CanX` (the WHERE clause) and an effect `X` on one row |
| `DispatchBroker` | the Redis scripts and pipelines on the sets of one queue |
| `QueueFlow` | requests, goroutines, heartbeats, pools, loops and the rebuild of Redis over the two |
| `TaskLifecycle` | abstract: what may happen to a task at all |
| `RetryPolicies` | the backoff functions of tasks and deliveries, as functions |
| `WorkerProcess` | one worker process from its start to its exit |
| `MetricRecorder` | `BufferedRecorder`: its channel, its goroutine and `Close` |
| `MetricLog` | abstract: a bounded, lossy, append-only log of metric events |
| `RateLimiter` | the token-bucket script, as a function |
| `DeliveryStore` | the statements on `webhook_deliveries` |
| `EventForge` | publisher, delivery workers, endpoint edits and manual retries |
| `TaskCanvas` | one execution, driven by concurrent `AdvanceExecution` calls |
| `WorkflowPublishing` | drafts, publication of versions and the start of executions |
| `VersionLog` | abstract: an editable draft with an append-only log of versions |
| `WorkflowValidation` | `parseWorkflowDefinition` and `ValidateWorkflowDefinition` |
| `MC...` | the instances TLC checks: symmetry, pools, three workflow graphs |
| `...Proofs` | the theorems about the module of the same name; `QueueMovesProofs` and `QueueRecoveryProofs` continue `QueueFlowProofs` |

The modules compose through their stores and their interfaces. `QueueFlow`
instantiates `TaskStore` and `DispatchBroker`, `EventForge` instantiates
`DeliveryStore`, `WorkerProcess` instantiates `MetricRecorder`. `WorkerProcess`
sees of a pool that it starts, executes tasks that record metrics, and drains;
what a task goroutine does is in `QueueFlow`. `TaskCanvas` sees a task or delivery only through its status;
its `Work...` actions allow the statuses to change as `TaskLifecycle` and
`EventForge` allow it. It assumes of the published graph what `WorkflowValidation`
shows of every accepted one (`TaskCanvasAssumption` is what `ValidExactly` says of
edges, `Publishable` and `Schedulable`), and of its node rows what
`WorkflowPublishing` shows (`ExecutionPinned`).

### QueueFlow

The grain is one SQL statement or transaction, or one Redis script or pipeline.

| action | code |
| --- | --- |
| `CreateTask`, `RetryTask`, `CancelTask`, `SoftDeleteTask`, `RemoveMessage` | `usecase.Service`: the statement, and the broker call after it |
| `ReclaimScan`, `ReconcileScan`, `PromoteDelayed` | the loops of `engine.Engine`; a scan holds its list in `disp` while others run |
| `DispatchEnqueue`, `DispatchMark` | the Enqueue / MarkDispatched pair that requests and loops share |
| `Dequeue`, `Claim`, `ClaimFails`, `AckMessage` | `worker.Pool.Run` and `process` |
| `ExecuteSucceeds`, `ExecuteFails`, `OutcomeLost`, `NackMessage`, `MarkRetry`, `BuryMessage` | `Engine.Execute` and `handleFailure`, call by call |
| `HeartbeatRenews`, `HeartbeatLost` | `heartbeatLoop`, which on an error cancels whichever goroutine `inFlight` names |
| `HeartbeatLingers`, `LateHeartbeat` | a `heartbeatLoop` that falls behind its goroutine: `process` cancels it and does not wait for it, so that its last call may return an error when the slot already has another goroutine |
| `Drain`, `ForceCancel`, `Restart`, `Crash` | `gracefulDrain`, the end of a process and its restart |
| `FlushRedis`, `StopWorkers`, `RebuildScan`, `RebuildRemove`, `RebuildEnqueue`, `RebuildMark`, `RebuildFails` | a loss of Redis and `RedisRebuildService.Rebuild`, call by call |
| `Elapse` | time: a backoff ends, a scheduled time comes, a lease expires |

`row` is the table, `redis` the sets of the queue, `proc` the goroutine in each
slot of the semaphore with its own copy of the attempt count, `inFlight`, `mode`
and `lingering` (heartbeat loops left behind) belong to a pool, `disp` is what a request or loop has yet to dispatch,
`rebuild` is the list the rebuild works on. Workers are stopped while it runs, as
`readme.md:456` asks, and their loops with them; the API goes on.
`visible_at` is reduced to whether it has passed, the only thing any statement
asks of it. A call under a cancelled context fails. Every other failure is
guarded by `Fault(k)`; the header of the module lists the kinds.

The length of a wait is left to `RetryPolicies` (see EventForge).

### WorkerProcess

| action | code |
| --- | --- |
| `QueueWakes`, `QueueEmpties`, `Signal` | the world: a queue gets work or has none left; SIGTERM |
| `List`, `Apply`, `StopAll`, `Join` | `ScopeDiscovery.Run`: the listing, then the critical section of `refresh` or `stopAll`, then the wait for the runners |
| `TaskStarts`, `TaskRecords`, `TaskReturns`, `PoolStops`, `PoolDrained` | `runScope` and its pool, of one slot |
| `BeatUpserts`, `BeatChecks` | `workerHeartbeatLoop`, which nobody waits for |
| `SendMetric`, `RecorderSteps`, `RecorderFails` | `RecordMetric` after its check of `closed`; the goroutine of the recorder: receive, tick, drain, write |
| `CloseRecorder`, `StopRecorder`, `Exit` | `main` after discovery has returned |

`RecordMetric` is two steps, the check of `closed` and the send, since `Close` may
come between them. `running` is the map of `ScopeDiscovery`; a runner that it no
longer names may still drain while another of the same queue starts.

### EventForge

`PublishList` and `PublishInsert` are `PublishTaskEvent`; `ClaimDue`,
`ReadEndpoint`, `Send` and `Record` are `ProcessDue` and `process`, one batch per
worker; `EditRead` and `EditWrite` are `UpdateEndpoint` and `RotateSecret`, which
read a row and later write every column of it back; `RetryDelivery` is the manual
retry. A request may be accepted by its receiver and still count as failed.

The loops that compute the delay of a failed delivery, and of a failed task, are
functions in `RetryPolicies`, in durations that overflow at `Overflow`;
`BackoffExact` compares them with a closed formula.

### TaskCanvas

A pass of `AdvanceExecution` is `Begin`, `Mark`, then iterations of `List`,
`Reconcile` (one node), `Settle`, `Schedule` (one claim), `Execute`, `Write`,
`FailExecution` and `Finalize`. A pass decides on the rows it read (`snap`),
while other passes, `Cancel`, tasks, deliveries and timers go on. `ClaimExpires`
is the 30 s after which `reconcileExternalNodes` executes a claimed node again.

### WorkflowPublishing

The publishing transaction is cut into its statements: `PublishRead` (the
service, without a lock), `PublishLock` (`SELECT ... FOR UPDATE` and the conflict
check on `updated_at`), `PublishNumber` and `PublishCommit`. `StartCheck`,
`StartSelect`, `StartFind` and `StartInsert` are `StartExecution` up to
`AdvanceExecution`. A request may be cut short anywhere (`Abandon`).

Requests come through `RateLimitMiddleware`; a pool asks the same limiter before
each task. `RateLimiter` has its token bucket as the sequence of runs of the
script for the doubles of epoch seconds that `Allow` makes of clock readings
(`Seconds`, the nearest double). `RateLimited` says which of the calls it admits:
exactly those that every window of calls allows in these doubles
(`WindowsExact`), and on the clock the same up to the rounding
(`WindowsOnTime`, with `Slack`).

### WorkflowValidation

`ParseNode` and `ParseEdge` take the elements of a request one by one, so that
TLC enumerates all requests; `CheckElements` is the part of the validator without
state; `Reach` and `Reached` are its breadth-first search, `VisitRoot`,
`VisitTarget`, `VisitReturn` and `Visited` its recursive depth-first search with
an explicit stack. The reference definitions (`FromTriggers`, `Acyclic`,
`Publishable`, `Schedulable`) say what is to be found without searching.

## Runs

`PROJECT.json` names for each run its module, configuration and properties, and
for each property a mutant: a plausible slip in the code (a dropped condition, an
off-by-one, a forgotten column) under which TLC finds the property violated. The
mutants stand in the modules next to the definition they replace.

| run | question | distinct states |
| --- | --- | --- |
| `queue_safety` | Does a task run on one goroutine, within its budget and through legal transitions only, whatever fails? | 403,814 |
| `queue_recovery` | Does a pending task always keep a path to a worker, a loss of Redis included, does a final state stay final, and is every task finished in the end? | 436,766 |
| `stranded_by_early_crash` | violation, see Findings | |
| `delivery_safety` | Is a delivery in one worker's hands only, within its budget, truthful, final, and created for every endpoint? Which failures leave one in nobody's hands? Is a backoff what its policy says? | 190,595 |
| `delivery_liveness` | Is every delivery settled, and does a deleted endpoint stay deleted under concurrent edits? | 428,641 |
| `delivery_stuck` | violation, see Findings | |
| `canvas_join` | Do nodes wait for all their dependencies, run only on chosen branches, and mirror what they dispatched, at a join of two branches? Is there always something to go on with? | 274,942 |
| `canvas_liveness` | Does every execution finish, with all nodes closed and the right outcome? | 187,264 |
| `skipped_branch_runs` | violation, see Findings | |
| `publishing` | Are versions gapless, valid and immutable, is the published version what was drafted, is an execution pinned and a start idempotent? Does the rate limiter grant what its rate and burst allow? | 214,895 |
| `worker_process` | Does each queue with work have one runner, is everything recorded written or accounted for, does a shutdown complete? | 56,698 |
| `validation` | Is a definition accepted exactly if it is publishable as documented, can it then be scheduled to its end, and do both searches end? | 1,087,871 |

### Bounds

* **QueueFlow**: one task, since no statement or script relates two tasks of a
  queue except by their order, which is left open. Two goroutines are what it
  takes to contend for a lease; they share a pool (and its `inFlight` map) in
  `queue_safety`, and are two processes of one slot in `queue_recovery`. Two attempts give a retry and an exhaustion. One client and
  one loop already interleave with each other, so each call is overtaken by each
  other. `MaxFaults` and `MaxRequeues` bound failures and manual retries; a loss
  of Redis is a failure.
* **RetryPolicies**: durations of 7 bits, every cap and initial delay among them,
  and attempts up to 8, so that doubling passes the cap and the width.
* **WorkerProcess**: one queue and two runners, the least with which a queue comes
  back while its first runner drains; a channel of two and batches of two, so that
  batches fill, and the channel is full while a batch is written; one metric of a
  task or a heartbeat beside those of the runners' ends; one failure.
* **RateLimiter**: four calls with any readings 0..6 of a clock with three to a
  second, in any order, where the script has four doubles to a second: most
  readings are rounded, some up and some down, as a millisecond is among 2^22
  doubles. Rates and bursts up to three; a bucket expires after two seconds.
* **EventForge**: two endpoints make a fan-out of which one part can fail, and a
  batch of two; two senders contend; two admins overlap in an edit.
* **TaskCanvas**: two advancers are the least that can act on each other's stale
  rows. The diamond of five nodes has a condition with two branches that join;
  the chain has every step of a pass and room for two failures; the fork is the
  smallest graph with a branch not taken.
* **WorkflowPublishing**: three callers (an edit and two publications overlap),
  three definitions of which one is invalid, five writes.
* **WorkflowValidation**: all definitions of at most three nodes and three edges:
  self-loops, cycles of two and three, two paths to one node, duplicate edges,
  unreachable nodes and cycles. Configurations are taken as valid or not, and
  conditions by the cases `parseWorkflowBranch` tells apart. A condition with a
  boolean branch (`"branch"`) is not among the values of the run: the validator
  treats it as it does `null`, a fourth value would more than double the states,
  and `ValidExactlyHolds` covers it.

Deadlock is checked in `validation` and in `worker_process`, which stutter
explicitly once they are at their end. In the other models a behaviour may stop:
everything is done and nobody calls.

### Failures

`Faults` names the failures a run allows. `queue_safety` allows all of them but
`flush`, the loss of Redis, which `queue_recovery` has; `delivery_safety` and
`worker_process` allow all; so do the proofs, but for the three named below.
`NoStranded` and `EventuallyDone` are about recovery, and hold for the failures
the code does recover from: `enqueue`, `nack`, `cleanup`, `write`, `crash`,
`abandon`, `shutdown`, `flush`, `heartbeat`, `linger` and `stall`. They do **not**
hold for the others, which all lead to the same end, a pending row that counts
as dispatched and has no message a worker would read:

* `early`: a worker dies between Dequeue and the claim (the run
  `stranded_by_early_crash`);
* `claim`, `skipLocked`: the claim returns an error, or skips a row that another
  statement has locked at that moment, and `process` acknowledges the message;
* `skew`: a delayed message is promoted before its row is visible;
* `late`: the MarkDispatched of an earlier life of the task marks a later one;
* `misfire`: a heartbeat loop that ends with an error cancels a goroutine that has
  not claimed yet, so that its claim and its Ack fail. In a pool with several
  slots that may be the goroutine of a duplicate message; but one slot is enough,
  since `process` returns without waiting for its heartbeat loop, whose last call
  may fail while the slot's next goroutine is about to claim the same task. It
  takes a failed heartbeat, an expired lease of a live goroutine or a loop that
  falls behind before it: with any of these `misfire` is left out.

In `queue_recovery` a heartbeat that fails, comes late or was left behind therefore
cancels goroutines at every point after their claim, and `queue_safety` has
`misfire` too. With `misfire` added to `QueueRecovery.cfg`, TLC finds the row
stranded. `NoStrandedHolds` proves the invariant under exactly these conditions
(`Repairable`: none of the other failures, and `misfire` only without
`heartbeat`, `stall` and `linger`), for pools of any size and any number of
failures.

`canvas_liveness` leaves out `delete`: a finished task that is soft-deleted before
it was observed leaves its node open for good (`NeverStuck` counts its node as
linked, and excludes every other way to wait for nothing). `delivery_liveness` leaves out
`write`, `claim`, `shutdown` and `crash`, after which a row may stay in
`delivering` for good (the run `delivery_stuck` shows it for `shutdown`).
`canvas_join` leaves out `skip` (the run `skipped_branch_runs`) and `slow`, the
same with a caller that is alive but takes more than 30 s, since `BranchRespected`
fails with them; and `reply` and `retry`, with which `MirrorsWork` fails: a
dispatch that reports an error after its insert fails the node although the task
will run, and a task retried by hand between the observation of its failure and
the update of the node runs again behind a failed node. `DependencyOrder` holds
with all of them, and is proved. `BranchRespected` is proved without `skip` and
`slow` (`Prompt`), `MirrorsWork` without `reply`, `retry` and `dispatch`
(`Answered`). `dispatch` takes a second failure to do harm, so `canvas_join`, with
one, has it: a node recovered from a pass that was abandoned after its dispatch
is recorded as failed if the second dispatch fails, although its task runs.

### Fairness

* **QueueFlow**: weak fairness of every call a goroutine, request or loop makes
  next, of `Dequeue`, the loops and `PromoteDelayed`, of a worker's restart, and
  of the passing of time as far as it needs no failure. Goroutines run to their
  end, handlers have a timeout, tickers run until the process stops. The steps of
  a rebuild are fair too: the operator repeats it until it succeeds. New requests,
  heartbeats and failures are not fair. The fairness of a slot and of an agent is
  written with the condition under which their next call is enabled
  (`SlotReady`, `AgentReady`) in place of `ENABLED`, which nearly halves the time of
  the run: an idle slot needs a message and a pool that is up, anything that has
  begun can always go on.
* **WorkerProcess**: weak fairness of every goroutine somebody waits for: the
  discovery, the tasks and pools of each runner, the recorder, and `main`.
  Registry heartbeats, the work of a queue, the signal and failures are not fair.
* **EventForge**: weak fairness of the worker's steps (a polling loop, HTTP
  requests with a timeout) and of time. Publications and edits are not fair.
* **TaskCanvas**: weak fairness of the passes (the reconciliation loop calls
  `AdvanceExecution` on every active execution again and again), of the start of
  dispatched work, of timers and of the claim lease; strong fairness of the end
  of work, since retries of a task or delivery are bounded. The latter is what
  `EventuallyDone` and `EventuallySettled` say of the other two subsystems, and
  holds under their conditions.
* **WorkflowValidation**: none. `SearchesTerminate` is an action property: every
  step of a search makes a well-founded measure smaller.

## Abstract specifications

* `TaskLifecycle` is what `internal/domain/task.go` and the documentation promise
  of a task: which status follows which, when an attempt is counted, that a
  deleted task stays as it is. `QueueFlow` implements it (`ImplementsLifecycle`)
  under the mapping that keeps status, attempts and deletion of each row and
  forgets Redis, goroutines and loops. Checked in `queue_safety`, proved in
  `LifecycleRefinement`.
* `VersionLog` is a draft that can be edited and an append-only log of what was
  published of it. `WorkflowPublishing` implements it (`ImplementsLog`): of
  `PublishWorkflow` only the commit is visible, and it appends exactly the draft.
  Checked in `publishing`, proved in `LogRefinement`.
* `MetricLog` takes or drops each event when it is recorded, and writes or loses
  what it took in batches; a batch is written, or given up, as a whole. The
  recorder of `WorkerProcess` implements it (`RecorderIsLog`): pending is what is
  in the channel or the batch, lost is what was dropped or in a failed batch.
  Checked in `worker_process`, proved in `RecorderRefinement`.

## Proofs

The theorems hold for all values of the constants that satisfy the `ASSUME` of
the module: any number of tasks, goroutines, pools, endpoints, workers, callers,
nodes and edges, any budget, any set of failures unless the theorem says which
it leaves out (`NoStrandedHolds`, `BranchRespectedHolds`, `MirrorsWorkHolds`, `NoOrphans`). The assumptions say only that
the constants have their types, that `None` is none of the values it stands
beside, that budgets and batches are not zero, that a batch fits the channel of
the recorder, that requests and loops are different agents, that a second and a duration have
units and, for `TaskCanvas`, what the validator shows of a graph: no edge leads to
a trigger, every other node has a dependency, and whatever nodes are done there is
one left that waits for no other.

| module | theorems |
| --- | --- |
| `QueueFlowProofs` | `TypeCorrect`, `LeaseExclusionHolds`, `RetryBudgetHolds`, `RowConsistentHolds`, `FinalityHolds`, `LifecycleRefinement` |
| `QueueMovesProofs` | only lemmas: how a step may move a row, a message, a goroutine or a list of tasks |
| `QueueRecoveryProofs` | `NoStrandedHolds` |
| `WorkerProcessProofs` | `TypeCorrect`, `SoleRunnerHolds`, `StoppedIsLastHolds`, `NothingLeftBehindHolds`, `RecorderRefinement` |
| `EventForgeProofs` | `TypeCorrect`, `IInvHolds`, `SoleSenderHolds`, `AttemptBudgetHolds`, `DeliveredIsTrueHolds`, `DeliveredIsFinalHolds`, `DeletedIsFinalHolds`, `FanOutCompleteHolds`, `BackoffExactHolds`, `OrphanedByFaultHolds`, `NoOrphans` |
| `TaskCanvasProofs` | `TypeCorrect`, `IInvHolds`, `TerminalClosedHolds`, `DependencyOrderHolds`, `SucceededIsTrueHolds`, `ExecutionFinalHolds`, `BranchRespectedHolds`, `MirrorsWorkHolds`, `NeverStuckHolds` |
| `WorkflowPublishingProofs` | `TypeCorrect`, `IInvHolds`, `VersionsSoundHolds`, `PublishedIsLatestHolds`, `ExecutionPinnedHolds`, `IdempotentStartHolds`, `LogRefinement`, `RateLimitedHolds` |
| `WorkflowValidationProofs` | `TypeCorrect`, `IInvHolds`, `SearchesExactHolds`, `ValidExactlyHolds`, `SearchesTerminateHolds` |

Each module first proves types, then an inductive invariant, one lemma per group
of actions, and reads the properties off it.

* **QueueFlow** (`Steady`). Exclusion is not inductive: it does not say why a
  second claim fails. While no lease on a task has lapsed, a processing row is
  not due, hence not claimable; the goroutine that executes it is the only one,
  and its copy of the attempt count is the row's. From the copy being exact
  follows that `handleFailure` decides on the right number. `FinalityHolds` needs
  of the invariant only the types: it is about the WHERE clauses.
* **Recovery of QueueFlow** (`Recovery`). That a pending, dispatched row has a
  message is not inductive. `Queued` extends it to rows about to be marked as
  dispatched, and to what the rebuild has yet to enqueue. For a message to be
  consumed only with a claim, the row must be visible when the message is
  (`Backoff`, `Planned`, `Halted`); for an acknowledgement to be harmless, the row
  must be terminal by then (`Ended`); for an outcome not to be refused, who
  executes must hold the lease (`Live`), or a later message must be there.
  `RowEvolves` says once how a row may change, so that what each goroutine,
  request and loop knows of its rows needs no case per action.
* **WorkerProcess**. `Assigned`: discovery remembers each runner that was not
  cancelled. `Waits` is the chain of who waits for whom, from the tasks to the
  recorder. `Known` and `Kept`: what is on its way was recorded, and what a task
  recorded is on its way or settled; `OnlyBeats`: once the recorder
  has found its channel empty after `Close`, only registry heartbeats still enter
  it. `Ordered` is `StoppedIsLast` for the batch and the channel apart.
* **EventForge**. The unconditional `UpdateWebhookDelivery` is safe because a
  delivery in a worker's hands is `delivering`, and nothing but that worker
  touches such a row (`SoleSender`). `Unsent` counts requests against the
  attempts of the claim, `Answered` ties what is recorded to what was accepted,
  `Fresh` says that a publication inserts each row once. `FanOutCompleteHolds`
  adds `WorkedOff`: what a publication has worked off has its row. A row that is
  `delivering` and in nobody's hands is an `Orphan`. `OrphanedByFaultHolds` says
  that only a lost claim reply, a lost update, a crash or a shutdown makes one and
  that nothing takes it up again; `NoOrphans` reads off that without these four no
  delivery is ever abandoned, whatever else fails.
* **TaskCanvas** (`PassInv`). Each pass holds rows it read earlier. What it saw
  closed is still closed with the same status, what it has claimed was ready and
  therefore is still ready, and the status it is about to write is true of the
  work. Statuses of closed nodes never change, so readiness is stable.
  `BranchInv` adds that a node to be skipped is in the hands of the one pass that
  claimed it, which without `skip` and `slow` nobody takes from it. `MirrorInv`
  says that a pass about to end a task or webhook node saw its work end, and that
  the work is still over. `LinkInv`, for `NeverStuckHolds`: a queued node has a
  link, a link means that work was started, also in the rows a pass read and in
  the row it is about to write, and only the end of the execution cancels a node.
  Of the nodes that are not done, take one that waits for no other (the assumption
  on the graph): it is failed, ready, claimed without a link and so recoverable, or
  linked to work.
* **WorkflowPublishing**. A stamp names one write, so an equal `updated_at` means
  the draft that was validated; the row lock keeps the draft, and with it the
  highest number, until the commit. An execution copies a version, which is
  immutable.
* **RetryPolicies** (in `EventForgeProofs`), **RateLimiter** (in
  `WorkflowPublishingProofs`). A loop is a recursive function of its rounds.
  `Rounds` shows that every such function exists, and `Counting` is the one
  induction all of them need, by a smallest counterexample; it takes a set of
  numbers and no operator, so that it can be cited. For the delays, a round that
  cuts at the cap commutes with doubling (`CutDouble`), and below half the cap
  nothing overflows (`DoubledExactly`). For the limiter, the tokens a call finds
  are the least that any window ending with it leaves (`TokensAreLeast`): a
  refill adds the same to every window, a grant takes the same from every
  window, and the cut at the burst is the window of the call alone. That a bucket
  may be dropped needs `burst <= rate * Expiry`, which `WindowsExact` asks for.
  On the clock, a double is within half a grain of its reading (`SecondsNear`), so
  the time that passes in a window differs by at most a grain, and by one more for
  every step back (`Drift`, by induction over the calls with `DriftNext`);
  `WindowsAreOnTime` widens and narrows the windows by that.
* **WorkflowValidation**. `ReachInv`: the set reached lies between the triggers
  and every closed set that contains them, and is closed but for the queue.
  `PathInv`: the stack is a path of the nodes marked visiting. `VisitedInv`: what
  is marked visited is closed under edges and contains no set in which every node
  has a successor. `CycleInv`: a cycle was reported only if there is one. At the
  end of the searches, what they found is what the reference definitions say.
  `ValidExactlyHolds` joins them to the other checks (`CheckInv`) and shows that
  an accepted graph can be scheduled to its end: nodes left over that each wait for
  another of them contain a cycle (`Backwards`: a smallest such set is one), which
  needs the set of nodes to be finite. `SearchesTerminateHolds` counts: a step
  that finds no node takes a pair out of a finite set of pairs (`Pending`), or,
  when a call returns, maps what is left into the rest of it one to one.

### Only model-checked

* Liveness: `EventuallyDone`, `EventuallySettled`, `EventuallyFinished`,
  `ShutdownCompletes`, `ScopeServed`, `EventuallyWritten`. TLAPS has no rules for
  fairness. The safety half of the first three is proved: that the system is never
  in a state from which nothing leads on (`NoStrandedHolds`, `NoOrphans`,
  `NeverStuckHolds`). What is left to TLC is that fair scheduling then gets there.

Every invariant and action property of the passing runs is proved. The type
invariants (`TypeOK`) are proved of every module and are no property of a run.

## Findings

Three documented promises fail, each in a run of its own:

* `stranded_by_early_crash`: "No durable lifecycle state may depend exclusively
  on Redis" (`docs/decisions/0001-postgres-and-redis.md:19`). A worker that stops
  between Dequeue and the claim leaves a pending row with `dispatched_at` set and
  its message in the processing set. The reclaim loop looks at processing rows,
  the reconciliation loop at undispatched ones, and nothing reads that set.
* `delivery_stuck`: "EventForge delivery is at least once"
  (`docs/eventforge.md:162`). A worker marks its whole batch `delivering`, and on
  SIGTERM every further call fails, the updates included. No statement claims a
  row that is `delivering`. `OrphanedByFaultHolds` proves both parts for every
  instance: these rows are lost for good, and failures of four kinds are the only
  way to lose one.
* `skipped_branch_runs`: "Nodes on unselected branches become `skipped`"
  (`docs/taskcanvas.md:642`). A node to be skipped is claimed like any other. If
  the update that follows is lost, the recovery of stale claims executes it.

Further places where the code allows more than its documentation, or a reader,
may expect. The properties are stated so that they hold with them:

* After a lease has lapsed, `Fail`, `Complete` and `MoveToDeadLetter` of the old
  owner check the status and not `locked_by`: its failure releases the row of the
  new owner, and a third execution may start while that one's lease is valid
  (`ports/storage.go:28` speaks of "exactly-one-worker semantics").
* `ReclaimExpired` does not look at the attempts: a task that kills its worker on
  the last attempt is executed again.
* The Ack of a duplicate message removes the stored priority of a task that waits
  in the delayed set; it is promoted with priority 0.
* `process` does not wait for its heartbeat loop, which on an error cancels whatever
  goroutine `inFlight` names for the task by then (`misfire`, see Failures).
* The goroutine of a duplicate message replaces and then deletes the `inFlight`
  entry of the running one, which a forced drain then does not cancel.
* `CreateTask` reports `task_not_found` if a worker claims the task before
  `MarkDispatched`.
* An edit of an endpoint that overlaps with `RotateSecret` writes the old secret
  back. Of two overlapping edits of a draft the later write wins, also for the
  fields it did not mean to change.
* The publication conflict is detected by `updated_at`, in microseconds. The model
  gives each write a stamp of its own.
* A repeated start of an execution is answered differently after an edit or a new
  publication (`docs/taskcanvas.md:205`); no second execution is started.
* A pass that claimed a node before the execution was cancelled still dispatches
  its task.
* A node recovered after its task was dispatched is recorded as failed if the
  second dispatch fails, although the task runs.
* Rate-limiter scripts that run in the other order than their clock readings move
  the stored time back, and credit the time between twice. The script computes in
  doubles of epoch seconds: a token that is due to the millisecond may be refused.
* While a runner drains, a second runner of the same queue has the same worker id;
  heartbeats of one may renew leases of the other.
* A metric of a registry heartbeat that overlaps with `Close` can be neither
  written nor counted as dropped.
* A rebuild beside running workers may remove the message of a task that a loop has
  just dispatched; nothing but the instruction in `readme.md:456` prevents it.

## Not modelled

| part | why |
| --- | --- |
| HTTP API, ports, domain errors, queries, test stubs | decoding, filters and interfaces without state of their own |
| webhook signing, encryption and the HTTP client | stateless; the worker model keeps the outcome of a request |
| node configurations and conditions, except `parseWorkflowBranch` | pure functions of JSON; the models keep whether a configuration parses and which branch a condition takes |
| idempotency of `CreateTask` | the unique index decides and the loser reads the winner's row; the same race is modelled and proved for executions |
| ids of metric events after a manual retry | a collision makes a count of attempts wrong and touches no task |
| queries of QueueLens, listings, worker registry, API keys | they only read, or are independent of the state of the models |
| scores and stored priorities of messages, the dead-letter list in Redis | they only order the messages, which the models leave open; nothing reads the list |
| `Wait` of the rate limiter | a ticker that chooses when to run the script again |
| the other `main` functions | wiring; environment variables are the constants of the models |
| handler registry | no process uses it |
| dashboard | a client of the API |

Two abstractions could be made finer. `TaskCanvas` assumes of a task that its
status moves as `TaskLifecycle` allows; its `Work...` actions are not shown to
refine that module. The two clocks behind a delayed message and its row are the
fault `skew`, not numbers.
