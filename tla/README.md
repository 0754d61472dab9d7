# A TLA+ model of the BoundFlow control plane

BoundFlow runs workflows of LLM agents under policies.  One Go binary
(`src/cmd/boundflow/main.go`) serves three roles, which may be separate processes:
the API **server**, the **scheduler** and the **worker** endpoint.  They share
nothing but Postgres.  A Python SDK is the client of the API and of the worker
endpoint.  This directory models what those roles do to the rows they share, checks
the models with TLC, and proves the central properties with TLAPS.

## 1. The system

### Parts, their state and their operations

| part | state | operations |
|---|---|---|
| Rows of a workflow (`src/internal/storage/postgres`) | `workflows` row: lifecycle, state, target/current/resolved versions, suspension and deletion columns; at most one `jobs` row; many `customer_requests` rows | one SQL statement or transaction each |
| Server: invocations (`service/lifecycle.go`) | goroutine-local reads | InvokeWorkflow: admit, insert, schedule at once |
| Server: operators (`service/lifecycle.go`) | goroutine-local | activate, configure, acknowledge, abandon queued, suspend, resume, delete |
| Server: API (`server/handlers`, `convert`, `auth`) | calls in flight | authenticate, check the owner, convert, store, answer |
| Scheduler (`scheduler/scheduler.go`) | what a goroutine has read | schedule the oldest or newest request, complete a job, fail or requeue a job, sweeps |
| Resolver (`scheduler/lifecycleresolver.go`) | - | apply the policy's verdict to a finished run |
| Reconcilers (`scheduler/*reconciler.go`, `*resolver.go`) | - | finish suspensions, deletions, abandoned jobs, expired gates and cooldowns; purge |
| Worker session (`rpcworker/rpcworker.go`) | protocol position, copy of the job, lease goroutine, abandon signal | acquire, dispatch, launch, follow, park, finish, release |
| Metrics (`metrics/`, `postgres/metrics.go`) | version totals, window, agent rows | read-modify-write after a run |
| Policy engine (`lifecyclepolicy/engine.go`) | none | verdict over a window of metrics |
| Partitions (`postgres/scheduler_partition.go`) | lease per partition | acquire, renew, release |
| Tenants, settings, pricing, audit | rows | insert, update, look up, purge |
| SDK (`src/sdk/python/boundflow`) | connection, budgets | worker loop, governed calls, client, CLI, console |

### What makes it hard

* A handler is several statements with Go code in between.  Two handlers, or a
  handler and a sweep, interleave between statements, and a process may die there.
* A run can be torn down by its own session and by the sweeps, at the same time.
* Ownership of a job is a lease.  A session that lost it may not know.
* Versions number requests.  `target_version` counts requests made,
  `current_version` is the last one that ended, `lifecycle_last_resolved` the last
  one the policy has seen.  Most guards compare these three.
* Suspension and deletion freeze new work while old work runs out.
* Sums are read, added to and written back in several statements under a gate.
* What is set through the API passes two conversions and a JSON column, and comes
  back through two more.

## 2. Modules

| module | models | variables |
|---|---|---|
| `Store` | the rows of one workflow and each statement on them, WHERE clauses as guards or `...Matches` operators | `workflow`, `job`, `request` |
| `Scheduler` | InvokeWorkflow, periodic requests, ScheduleRequest, CompleteRequest, FailRequest, sweeps | `task`, `faults`, `applied` |
| `WorkerSession` | the worker endpoint: sessions, leases, gates | `session`, `gates` |
| `Lifecycle` | operators' calls and the reconcilers that finish them | `admin` |
| `ControlPlane` | the composition of these four, fairness, properties | - |
| `Ledger` | the abstract specification: runs asked for, taken up, begun, ended, resolved | `asked`, `taken`, `begun`, `ended`, `resolved` |
| `PolicyEngine` | evaluation of lifecycle rules, and a reference definition | - |
| `Metrics` | CompleteRequest and FailRequest over the metrics tables, the resolver, the audited action | `row`, `totals`, `agent`, `job`, `task`, `audit`, `ledger`, `overtaken` |
| `Gates` | one run through its operations and gates: verdicts, branches, spending, audit, partition leases | `job`, `session`, `partition`, `scheduler`, `pending`, `audit`, ... |
| `Convert` | messages to domain values and back | - |
| `Registry` | tenant groups, keys, tenants, workflows with their settings, pricing, audit; purging | `groups`, `apiKey`, `tenant`, `workflow`, `override`, `audit`, `purge` |
| `Api` | the handlers: authentication, ownership, arguments, statements, replies | `call`, `reply`, `asked`, `told`, `reopened` |
| `MCControlPlane`, `MCMetrics`, `MCGates`, `MCApi` | messages and symmetry for TLC | - |
| `StoreProofs`, `TypeProofs`, `VersionProofs`, `OwnershipProofs`, `LedgerProofs`, `HoldProofs`, `RequestProofs` | theorems about `ControlPlane` | - |
| `GateProofs` | theorems about `Gates` | - |

There are four state machines over the same code, each keeping the columns its
questions need: `ControlPlane` (versions, ownership, holds), `Metrics` (sums and
verdicts), `Gates` (verdicts within a run) and `Api` (everything kept per tenant).
Where one leaves to chance what another computes, the comment at the definition says
so: the verdict of the policy is any member of `PolicyGoals` in `Scheduler`, and
computed in `Metrics`.

**Store** is the only module that writes rows of a workflow.  A statement that matches
no row is a step that changes nothing where the code goes on regardless, and a branch
of its own where the code looks at the result.  A request is named by its version.

**Scheduler** has a `task` record per goroutine: where it is (`pc`) and the
columns it has read.  Each action is one statement and the Go code up to the next
one, so other actors run between them.  `TaskFault` ends a goroutine anywhere: a crash
or a failed statement.  A session tears its run down in a task of its own (`Tasks` is
`Runners` and `Sessions`).  `applied` is a history variable: the versions whose end
reached the workflow row.

**WorkerSession** follows the protocol of a connection.  A client may answer, stay
silent or disconnect at any moment; timers are choices.  With `Stalls` FALSE a
lease runs out only once its session has let go of the job or is gone, and a session
acquires the next job only after it released the last; with `Stalls` TRUE a session
may be held up for longer than its lease and carry on later.  The timings in the code
(renewal well within the lease, a grace period in the orphan sweep) make the first
usual and do not exclude the second.

**Lifecycle** has a position per operator call or reconciler (`Admins`).  A
reconciler repeats the tail of the call it stands in for, as in the code.

**Ledger** knows no rows.  `ControlPlane` instantiates it with
`asked <- workflow.target`, `taken <- job.version`, `ended <- workflow.current`,
`resolved <- workflow.resolved`, and `begun` when the job is past its first pending:
exactly when `UpsertJobAndSchedule` may no longer overwrite it.

**Metrics** has a teardown per goroutine with the rows it has read.  Metrics are
functions from names to small numbers; `ledger` is a history variable, the metrics of
the runs in the order they were written, from which the properties recompute what the
tables should hold.  A teardown may be held up while the next run is scheduled, runs and
ends; `overtaken`, a history variable too, has the runs to which that happened.

**Gates** gives every session its in-memory copy of the job, because that copy, not the
row, decides the operation that follows a gate.  `decided` and `landed` are history
variables.  A scheduler may sweep while it only believes it holds the partition.  A
suspension may flag the run at any time (`job.abandon`) and another take the flag back;
a flagged run is ended by its session, by the session that acquires it next or by the
abandoned-job sweep, and `job.cut` tells that it ended so.

**Api** lets all methods about a workflow share their first steps, and likewise those
about a tenant; which method a call is shows in what it does next, so a state stands
for many calls.  `asked` and `told` are history variables for read-back properties.
Foreign keys are guards: the database refuses the deletion of a row still referred to.
A workflow's row keeps `lifecycle_state` (`life`) apart from the deletion columns, as in
the table, because the ends of runs, suspensions, resumptions and acknowledgements write
the one without a look at the other.  `reopened` is a history variable: the tenants
with a workflow that was acknowledged while it was being deleted.

A definition named "Mutation" in its comment is a plausible bug that a property
catches; no specification uses it.  `PROJECT.json` maps each definition to lines.

### Bounds

`MaxRequests` and `MaxRuns` bound versions, `MaxGates` and `MaxDispatches` the length of
a run, `MaxFaults` crashes, `MaxAttempts` requeues (the code's own limit),
`MaxQueueDepth` the cap of the queue (the code's own), `MaxConfigs` changes of
configuration, `MaxEvents` audit events.  Two goroutines and two requests are the least
at which one run's teardown meets another's scheduling; two sessions the least at which
a run is handed on; one fault the least at which a sweep repeats work; two groups,
each with a key, and two callers the least at which one caller meets another's rows.
`MayDelete`, `MayAcknowledge` and `Periodic` switch calls off that would blur a run's
question.  `Api` is cut by the constraint `FewAway`: at most one group of settings
is away from its default at a time (each setting is a column or row of its own, and the
statements on one do not read another), so that every setter still meets every other
call; a failed run counts as one such group.  In `Api` and `Purge` the run of one
workflow (`Interruptible`) may fail, and in `Purge` that of the other may leave its job
behind (`JobsLeft`); once a workflow was acknowledged while being deleted, at most one
workflow of `Purge` is other than as created (`OthersLeftAlone`).  In `Gates` a flag taken
back counts as a fault, and each kind of gate has branches of its own.
Symmetry (goroutines, sessions, callers, groups with their keys) is used only in runs
whose properties are all safety properties.  The `Api` run explores states that differ
only in the last answer once (`AllButReply`): no action reads the answer, and the one
property about it is an action property, which TLC checks on every step.

## 3. Runs

| run | instance | states | properties |
|---|---|---|---|
| `Resolution` | queue mode, 2 goroutines, 2 requests, 2 configuration versions, rollbacks and cooldowns | 732,302 | `TypeOK`, `PriorRunsResolved`, `HeldIsResolved`, `NoStrandedRequest`, `BacklogNearCap`, `OneRunAtATime` (refinement of `Ledger`), `TerminalStays` |
| `Ownership` | 2 sessions, resumable, a gate, 1 fault, periodic | 795,855 | `LiveRunKeepsJob`, `OneExecutor`, `AttemptsBounded` |
| `Drains` | queue mode, deletion, fair | 21,631 | `EveryInvokeRuns`, `DeletionFinishes` |
| `Teardown` | coalesce mode, resumable, 1 fault, fair | 70,597 | `TeardownFinishes` |
| `Operators` | queue mode, suspension, resumption, deletion, 1 fault | 653,928 | `SuspendedIsFrozen`, `HaltedIsIdle`, `DeletionClosesAdmission`, `DeletedIsFinal` |
| `SuspensionSettles` | suspension with and without stopping the run, fair | 57,902 | `SuspensionSettles` |
| `Stalls` | 2 sessions that may be held up beyond their lease | 742,182 | `OwnerFence` |
| `Metrics` | 2 goroutines that may be held up over a run, 2 runs, 2 agents, 1 fault, a change of configuration | 457,404 | `MetricsTypeOK`, `RunsCountedOnce`, `TablesAgree`, `PolicyActionAuditedOnce`, `EngineMeetsReference`, `ResolvedAfterEmitted` |
| `Gates` | 2 sessions, 2 schedulers, an operator, a suspension, 2 gates, 1 fault, fair | 530,737 | `GatesTypeOK`, `GatesCountedOnce`, `RunFollowsDecision`, `SpendIsWhatLanded`, `AuditTellsDecision`, `ExpiredGateIsDecided` |
| `Api` | 2 callers, 2 groups, a tenant, a workflow whose run may fail, an agent, a model | 193,993 | `ApiTypeOK`, `DeletedTenantIsEmpty`, `ForeignLooksAbsent`, `SettingsReadBack`, `WriteBackChangesNothing`, `InvocationCarriesWhatIsSet`, `AuditReadBack` |
| `Purge` | a group provisioned on the way, 2 workflows, one whose run may fail and one whose job row is left behind, reconcilers that may fail, fair | 91,612 | `TenantCountExact`, `DeletedIsPurged` |
| `ConfigRace` | rollbacks by the policy and changes by an operator, fair | 17,028 | `EveryInvokeRuns` is **violated** |

Deadlock is checked in `Gates`, `Api` and `Purge`, where something can always go on.
In the others a workflow with no requests left, in a state that needs an operator, or
deleted, rightly stands still.

`ConfigRace` is a disagreement between the code and what a document says of it
(`findings` in `PROJECT.json`): a configuration change during a completion makes the
version resolution match no row, and the workflow is never schedulable again, although
`control_plane.py:51` says of queue mode that every invoke runs.

### Fairness

*ControlPlane.*  A goroutine that began an operation goes on with it (weak fairness of
each step): nothing in the handlers waits for anything but Postgres.  Sweeps run on
tickers, so a sweep that is possible again and again is made (strong fairness, because
another actor may briefly make it impossible).  Sessions poll on a timer, have
timeouts for a silent client, and workers reconnect.  A run does not ask for
further operations for ever, and a send to a client that is tried again and again
succeeds in the end: these two are assumptions about the client.  Nothing is
assumed of invocations, operators or faults.

*Gates.*  Schedulers seek, renew and sweep on tickers, an audit append returns, and a
lease that is not renewed runs out.  Nothing is assumed of sessions and operators: a
gate past its deadline is decided without them.

*Api* (run `Purge`).  Runs end and reconcilers sweep again and again.  Each of their
statements may fail, but one that is tried again and again succeeds once; so does the
deletion of a workflow's row found free of references again and again.  Nothing is
assumed of calls.

### Known limits

Each of these can be seen by adding the property to a run, or changing one constant.

| statement | fails | why |
|---|---|---|
| `InProgressHasJob` (comment at `rpcworker.go:678`) | `Teardown` | a launch that cannot be sent returns the job to pending after the request was marked in progress; in coalesce mode a newer request overwrites it |
| `NoStrandedRequest` | `Resolution` with `MaxFaults = 1` | the job is deleted before the request is finished; a crash in between leaves a request no sweep finds (`domain/job.go:24` suggests otherwise) |
| `NoStrandedRequest` | `Resolution` in coalesce mode | the overwritten job of the first row |
| `FailureInterrupts` (comment at `postgres/workflow.go:638`) | runs with a suspension that stops the run | the abandoned-job sweep (`postgres/job.go:446`) completes a job whose failure was already claimed |
| `DecidesOnWhatIsStored` in `Metrics` | `Metrics`, also with no configuration change | a completion retried after its metrics were emitted decides on sums with its own run added twice; `scheduler.go:430` calls it idempotent |
| `EveryRunCountedOnce`, and `TablesAgree` and `PolicyActionAuditedOnce` without their exception for `overtaken` runs | `Metrics` | a completer held up over the whole next run closes the gate of that one (`scheduler.go:468`) |
| `PolicyActionPersisted` in `Gates` | `Gates` | an agent's policy action is audited although the write it came with matched no row (`rpcworker.go:335`) |
| `DeletedIsFinal` | `Operators` in coalesce mode with 2 requests and 2 goroutines | a request older than the last run is scheduled before the goroutine that scheduled the newer one supercedes it; its job lives, the request no longer shows, and HasRunningRequest lets the deletion pass |
| `HeldIsResolved` | `Resolution` with a suspension besides the policy's cooldowns | a resume restores *paused* or *cooldown* while a goroutine that validated the row earlier has yet to write its job |
| `DeletionClosesAdmission`, `DeletedIsFinal` | `Operators` with `MayAcknowledge = TRUE` | ResolveInterruptedWorkflow does not look at the deletion columns |
| `HaltedIsIdle`, `DeletedIsFinal` | `Operators` with `Stalls = TRUE` | DispatchJob is guarded by the owner only |
| `HaltedIsIdle` | `Operators` with 2 operators | a caller may pass the id of an earlier suspension; a tail held up between its check and its finalize over the resumption then finalizes the later one while a run goes on |
| `TenantCountExact`, `DeletedTenantIsEmpty`, `DeletedIsPurged` without their exception for `reopened` tenants | `Api`, `Purge` | ResolveInterruptedWorkflow again: the workflow can be invoked and suspended while it is deleted, the end of the run or the suspension writes over *deleted*, and it is counted out twice or never purged |
| `SuspensionSettles` | `SuspensionSettles` with `MaxFaults = 1` | the request left behind in the second row shows as running for ever, and the suspension waits for it |
| `TerminalStays` | `Resolution` with suspensions | the abandoned-job sweep again: a failure and a completion finish the same request |
| `TerminalStays` | `Resolution` in coalesce mode | the job of a request that was superceded late, as for `DeletedIsFinal` above, still completes or fails it |
| `OneRunAtATime` | `Resolution` with `Stalls = TRUE` | a session that comes back ends the run it no longer holds |
| `EveryInvokeRuns` | two configuration versions | see `ConfigRace` |

Smaller things met while translating, modelled as the code has them:
DeleteTenantGroup can never succeed, because the caller's own key refers to the group
(the CLI's help, `sdk/python/boundflow/cli/tenants.py:26`, says it deletes all);
CreateTenantGroup is documented (`docs/api-reference.md:27`) and not implemented;
`ErrMissingRuntimeParams` (`service/lifecycle.go:22`) is never returned, so a refusal
for missing parameters reaches the caller as Internal; ResumeWorkflow writes
`current_workflow_version` from an earlier read (`service/lifecycle.go:341`);
SetWorkflowLifecyclePolicy on a row purged meanwhile answers OK, the other setters
Internal; a DeleteWorkflow that failed after its mark answers FailedPrecondition when
repeated, and the reconciler finishes it; suspending a workflow that is gone answers
FailedPrecondition; ListWorkflows does not load configurations.  In queue mode a new
invocation is scheduled at once, so it may overtake older ones.

## 4. Proofs

The theorems are about `ControlPlane!Spec` and `Gates!Spec`, for every value of the
constants: any numbers of requests, goroutines, sessions, operators, gates and faults.
The assumptions on the constants are those named in the modules that declare them.
Further hypotheses are in the table below; section 3, *Known limits*, has the behaviours
they exclude.  The one that may not be needed is `~Stalls` in `HeldAreResolved`: its
proof uses `LedgerInv`, which needs it, and TLC finds no counterexample with two
sessions.

| theorem | property | assumes |
|---|---|---|
| `TypeProofs!TypeCorrect` | `TypeOK` | |
| `VersionProofs!VersionsOrdered`, `VersionsMonotone`, `ScheduledAfterResolution` | `VersionOrder`, `VersionsAdvance`, `ResolvedBeforeScheduled` | |
| `OwnershipProofs!AttemptsStayBounded` | `AttemptsBounded` | |
| `OwnershipProofs!OwnerFenced` | `OwnerFence` | |
| `OwnershipProofs!LiveRunsKeepJobs`, `OneExecutorAtATime` | `LiveRunKeepsJob`, `OneExecutor` | `~Stalls` |
| `LedgerProofs!PriorRunsAreResolved` | `PriorRunsResolved` | `~Stalls` |
| `LedgerProofs!OneRunAtATimeHolds` | `OneRunAtATime` | `~Stalls` |
| `HoldProofs!SuspensionFreezes` | `SuspendedIsFrozen` | |
| `HoldProofs!DeletionsCloseAdmission` | `DeletionClosesAdmission` | `~MayAcknowledge` |
| `RequestProofs!NoRequestStranded` | `NoStrandedRequest` | queue mode, no faults |
| `RequestProofs!HeldAreResolved` | `HeldIsResolved` | `~Stalls`; no suspensions, or a policy that neither pauses nor cools down (`OneHold`) |
| `RequestProofs!DeletionsAreFinal` | `DeletedIsFinal` | queue mode, `~Stalls`, `~MayAcknowledge` |
| `GateProofs!GatesTypes` | `GatesTypeOK` | |
| `GateProofs!RunFollows` | `RunFollowsDecision` | |
| `GateProofs!GatesCounted` | `GatesCountedOnce` | |
| `GateProofs!AuditTells` | `AuditTellsDecision` | |
| `GateProofs!SpendFollowsReports` | the action form of `SpendIsWhatLanded` | |

**Types.**  `StoreProofs` shows that each statement keeps the rows in their types.
`TypeOK` alone is not inductive: marking a parked session writes the session's gate as
the lifecycle, so `TypeProofs` carries `ParkedOnGate`, that a parked session's status
is one of the two gates.

**Versions.**  `VersionInv` adds to `VersionOrder` that every version in use was
allocated (`VersionsAllocated`) and that a goroutine about to write the job row
validated a workflow whose last run was resolved, or else a run has ended since
(`UpsertValidated`).  Most statements are *quiet*: they leave the version columns alone
(`QuietRows`), and one lemma covers them.  The others have a lemma each, with the
conclusion `RowsAdvance`.

**Ownership.**  `NextStatements` reduces every step to what it does to the job: one of
the statements anyone may make (`SharedStatement`), or one that a session makes of its
own job (`OwnStatement`), together with the places each goroutine may come to
(`TaskMoved`).  `JobInv` is the invariant of the job row (a goroutine about to requeue
has read attempts below the limit).  `SessionOK` is the invariant of a session: while
it follows a run and owns the job, the job is its run's, not over, under a live lease;
while it executes, it does own it.  A session that leaves its run alone keeps this
under every shared statement and every statement of another session.

**Ledger.**  `NextRows` reduces every step to what it does to the version columns.
`LedgerInv` has three parts.  `TeardownOK`: a teardown works on a run whose end is
recorded, or that is over and still has the job slot; what a completion has read of
`current_version` is the latest, or resolved.  `SlotResolved`: a run that has the slot
and has not ended was taken up after the last one was resolved.  `AppliedResolved`:
every recorded run is the latest, or resolved.  The crux is `OverStays`: a job whose
run is over stays in the slot until its end is recorded; this rests on `SessionOK`,
because a session held up for too long could otherwise write over it.  From there
`RecordsSlot` gives that `current_version` moves only to the run in the slot, and the
refinement follows statement by statement: the upsert is the ledger's Take, the apply
its End, a resolution, an acknowledgement or a resume its Resolve, the deletion of the
job its Clear, and a step that touches none of these begins the run, gives it back or
shows nothing.

**Holds.**  `NextHolds` reduces every step to what it does to `workflow_state` and the
queue.  `SuspendedIsFrozen` is not inductive: a completion writes back a state it read
earlier, and that may be *suspended*.  `NoLateHold` adds that such a completion finds
the hold still in force or its run resolved; it holds because resuming and
acknowledging resolve the last run in the same statement.

**Requests.**  `NextRequests` reduces every step to what it does to one request
(`RequestMoved`).

* *Stranded requests.*  `RunningInv`: a request that shows as running has the job slot,
  or a goroutine at the statement that finishes it.  A session's teardown runs in a task
  of its own, so the proof also needs that the session waits for it (`SessionWaits`) and
  does not begin another.
* *Holds of the policy.*  `CoolInv` adds to `HeldIsResolved` that no run beyond
  `current_version` has the slot, and that a goroutine about to write one validated an
  older row, so that its write matches nothing.
* *Deletion.*  `SlotInv`: a job whose run is not over, or whose end is not recorded,
  belongs to a request that shows as running, and a teardown works on a run that once
  had the slot and is over.  `DeleteInv`: a tail of a deletion runs only on a disabled
  workflow; behind its first statement nothing is queued, behind its check nothing
  runs.  `NextLifecycle` lists what may move `lifecycle_state` away from *deleted*: a
  parked job, a suspension, or an end that is not recorded yet, and the two invariants
  exclude each.  A check made several statements before the write it guards is good
  enough because everything it looks at can only shrink.

**Gates.**  `RunMoved` reduces every step to what it does to the run: it rests, goes on
within an operation, parks, is resolved by a decision, is taken up by a dispatch, or is
cut by a suspension.
`RunInv` is the invariant of the row (`JobOK`: a parked job's gate is the next one and
its branches are those of that gate; a resolved one's status tells the last decision)
and of the copies (`CopyOK`: a session that owns the job and has not dispatched has the
row in memory; after the dispatch it agrees with the row on the rejections).
`CountInv` counts the gates that a dispatch has passed; a gate that is resolved and not
yet dispatched is not counted, nor is one at which a suspension ended the run.  `AuditInv` covers events on their way: each gate's
decision is with one actor, or in the log, and in one place only.  `SpendOK` says how
a session's running total, its copy and the row add up.  `SpendFollowsReports` states
of every step what `SpendIsWhatLanded` states of the sum; the sum itself is a fold over
a sequence of any length, which needs an induction over data that the prover cannot
make, so it stays with TLC.

Only model-checked:

* liveness, because the prover does not handle fairness;
* `SpendIsWhatLanded`, for the reason above;
* `HaltedIsIdle` and `TerminalStays`, which are not true of every instance (see *Known
  limits*): the runs check them where they are;
* `BacklogNearCap`, a bound on the size of a set against the number of goroutines;
* everything about `Metrics` and `Api`.

## 5. Not modelled

* **The Python SDK.**  Its worker is the client end of a session, which
  `WorkerSession` takes as able to do anything the protocol allows.  Budgets are counted
  within one operation of one process; the control plane sees sums only, which `Gates`
  takes as any number.  Client, CLI and console are blocking calls and rendering.
* **Hashing** of API keys and of workflow ids to partitions: a call is made by a group,
  a workflow has its partition.
* **Wiring**: configuration from the environment, process start and stop, the
  repository interfaces, generated protocol code.  All roles are taken to run at once.
* **Time.**  Leases, deadlines, retention and repeat intervals run out at any moment
  after they were set; durations are not compared.
* **A result without a status** (`OPERATION_STATUS_UNSPECIFIED`), which no case of the
  session's switches handles (`rpcworker.go:785`, `856`): the SDK does not send it.
* **Texts**: prompts, traces, error messages, log lines.

The map of `PROJECT.json` covers about a third of the implementation's lines: the
storage, scheduler, worker, service, handler and conversion packages almost whole, the
SDK not at all.
