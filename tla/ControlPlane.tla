---------------------------- MODULE ControlPlane ----------------------------
(***************************************************************************)
(* The control plane around one workflow: scheduler and server goroutines, *)
(* worker sessions, operators and reconcilers, interleaved statement by    *)
(* statement on the rows they share.                                       *)
(***************************************************************************)
EXTENDS Lifecycle

vars == <<store, schedulerVars, sessionVars, admin>>

Init == StoreInit /\ SchedulerInit /\ SessionInit /\ LifecycleInit

\* A step of the scheduler leaves sessions and operators alone.
Scheduling(A) == A /\ UNCHANGED <<sessionVars, admin>>

Next ==
    \/ Scheduling(SchedulerNext)
    \/ SessionNext /\ UNCHANGED admin
    \/ LifecycleNext

Spec == Init /\ [][Next]_vars

-----------------------------------------------------------------------------
(* Fairness.  Every tick of the scheduler runs each of its sweeps, and an  *)
(* operation that was begun runs to its end unless it fails.  A session    *)
(* keeps polling, goes on with the protocol, and its timers see to it that *)
(* a silent client does not hold it; a worker that is gone reconnects.     *)
(* Sending to a client succeeds if it is tried again and again, and a run  *)
(* does not ask for one more operation for ever.  Reconcilers run          *)
(* periodically.  Nothing is assumed of invocations, operators and faults. *)

SchedulerFairness ==
    /\ \A p \in Tasks : WF_vars(Scheduling(TaskStep(p)))
    /\ \A p \in Runners : SF_vars(Scheduling(CompleteSweep(p) \/ FailSweep(p)))
    /\ WF_vars(Scheduling(MarkOrphanedJobsFailed /\ UNCHANGED schedulerVars))

\* The client, a timer or the lease goroutine moves the session on.
SessionProgress(s) ==
    \/ CompleteAcquired(s) \/ Dispatch(s) \/ MarkInvoking(s)
    \/ MarkInProgress(s) \/ Launch(s) \/ AcknowledgeTimeout(s)
    \/ OperationTimeout(s) \/ MarkParked(s) \/ Finish(s)
    \/ Release(s) \/ Reconnect(s)

RunEnds(s) == OperationCompletes(s) \/ OperationFails(s) \/ SessionBreaks(s)

SessionFairness ==
    /\ \A s \in Sessions :
         /\ WF_vars(SessionProgress(s) /\ UNCHANGED admin)
         /\ SF_vars(Acquire(s) /\ UNCHANGED admin)
         /\ SF_vars(Launch(s) /\ UNCHANGED admin)
         /\ SF_vars(RunEnds(s) /\ UNCHANGED admin)
    /\ WF_vars((LeaseAges \/ DelayPasses) /\ UNCHANGED admin)

\* A tail goes on once begun; reconcilers begin one as long as it is needed.
AdminTail(a) ==
    \/ SuspendAbandon(a) \/ SuspendCheck(a) \/ SuspendFinalize(a)
    \/ SuspendAbort(a) \/ ResumeRestore(a)
    \/ DeleteAbandon(a) \/ DeleteCheck(a) \/ DeleteFinalize(a)

RunFairness == SchedulerFairness /\ SessionFairness

SuspensionFairness ==
    /\ \A a \in Admins : WF_vars(AdminTail(a)) /\ SF_vars(ReconcileSuspension(a))
    /\ WF_vars(SweepAbandoned)

DeletionFairness ==
    \A a \in Admins : WF_vars(AdminTail(a)) /\ SF_vars(ReconcileDeletion(a))

FairSpec == Spec /\ RunFairness

FairQueueSpec ==
    /\ Spec /\ RunFairness /\ DeletionFairness
    /\ \A p \in Runners : SF_vars(Scheduling(ScheduleTop(p)))

FairSuspensionSpec == Spec /\ RunFairness /\ SuspensionFairness

-----------------------------------------------------------------------------
(* Versions and their resolution.                                          *)

\* Every variable holds a value of its type.
TypeOK == StoreTypeOK /\ SchedulerTypeOK /\ SessionTypeOK /\ LifecycleTypeOK

\* A run is resolved only after it ended, and ends only after it was asked for:
\* lifecycle_last_resolved <= current_version <= target_version.
VersionOrder ==
    /\ workflow.resolved <= workflow.current
    /\ workflow.current <= workflow.target

\* What ResolveLifecyclePolicy calls its one very critical invariant: of the
\* runs whose end the workflow has recorded, all but the latest are resolved.
PriorRunsResolved ==
    \A v, w \in applied :
      v > workflow.resolved /\ w > workflow.resolved => v = w

\* A job is written for a run only while the previous run is resolved, although
\* ScheduleRequest validates that on a row it read two statements earlier.
ResolvedBeforeScheduled ==
    [][job'.version \notin {0, job.version}
         => workflow.resolved = workflow.current]_vars

\* current_version and lifecycle_last_resolved never go back, whichever of the
\* duplicate teardowns of a run comes last.
VersionsAdvance ==
    [][/\ workflow.current <= workflow'.current
       /\ workflow.resolved <= workflow'.resolved]_vars

\* The ledger of runs the workflow's counters and its job row stand for.
Runs == INSTANCE Ledger WITH
    asked <- workflow.target,
    taken <- job.version,
    begun <- JobExists /\ (job.status # "pending" \/ job.attempts > 0),
    ended <- workflow.current,
    resolved <- workflow.resolved

\* Whatever schedules, dispatches, sweeps and tears down does to the rows is one
\* of the ledger's steps: one run at a time, each resolved before the next.
OneRunAtATime == Runs!LedgerSpec

-----------------------------------------------------------------------------
(* Requests and their job.                                                 *)

TearingDown(v) ==
    \E p \in Tasks : task[p].version = v /\ task[p].pc \in CompletePcs \cup FailPcs

BeingSuperceded(v) ==
    /\ request[v] = "scheduled"
    /\ \E p \in Tasks : At(p, "schedule_supercede") /\ task[p].version > v

\* A request shown as scheduled or in progress has something that will end it:
\* its job, the teardown of its job, or the request about to supercede it.
NoStrandedRequest ==
    \A v \in Versions :
      Running(v) => job.version = v \/ TearingDown(v) \/ BeingSuperceded(v)

\* The same for in_progress alone, as the worker's comment has it: a request
\* that says in_progress always has a job behind it (rpcworker.go:678).  Known
\* not to hold in coalesce mode after a launch that could not be sent.
InProgressHasJob ==
    \A v \in Versions :
      request[v] = "in_progress" => job.version = v \/ TearingDown(v)

\* A request that completed, failed, was superceded or abandoned keeps that
\* status, although the terminal writes do not look at the old one and a run may
\* be torn down by several goroutines at once (scheduler.go CompleteRequest,
\* FailRequest).  So in queue mode without suspensions.  Known not to hold in
\* coalesce mode with two goroutines, where the job of a request superceded late
\* still completes it, nor once SweepAbandonedJobs completes a job whose failure
\* was claimed.
TerminalStays ==
    [][\A v \in Versions :
         request[v] \in TerminalRequest => request'[v] = request[v]]_vars

\* Every invoke runs: while the workflow stays active, a waiting request gets
\* the job slot in the end.
EveryInvokeRuns ==
    \A v \in Versions :
      request[v] = "unscheduled"
        ~> (request[v] # "unscheduled" \/ workflow.state # "active")

Backlog == Cardinality({v \in Versions : request[v] = "unscheduled"})

Admitted == {p \in Runners : At(p, "invoke_create")}

\* What the admission check of InvokeWorkflow guarantees, made as it is before
\* the insert: the waiting requests and the admitted ones together exceed
\* max_queue_depth by less than one for each goroutine.
BacklogNearCap ==
    InvokeModes = {"queue"} =>
      Backlog + Cardinality(Admitted) < MaxQueueDepth + Cardinality(Runners)

-----------------------------------------------------------------------------
(* Sessions and the job they follow.                                       *)

Executing == {"dispatched", "marked", "started", "waiting", "busy", "cancelling"}

\* A session that has dispatched a run holds the job until it lets go itself:
\* no requeue, sweep or upsert takes the job away from a live worker.
LiveRunKeepsJob ==
    \A s \in Sessions :
      session[s].pc \in Executing => Owns(s) /\ job.version = session[s].version

\* Two sessions never execute the run at the same time, also when it is
\* requeued for another worker.
OneExecutor ==
    \A s, t \in Sessions :
      session[s].pc \in Executing /\ session[t].pc \in Executing => s = t

\* The owner column fences: while a session executes under a live lease, nothing
\* but that session ends, requeues or takes its job, whatever a session that was
\* held up and lost the job still writes when it comes back.
OwnerFence ==
    [][\A s \in Sessions :
         /\ Owns(s) /\ job.lease = "live" /\ job.status \in {"dispatched", "running"}
         /\ session'[s] = session[s]
         => /\ Owns(s)' /\ job'.version = job.version
            /\ job'.status = job.status]_vars

\* A run is handed to another worker at most maxJobAttempts times.
AttemptsBounded == job.attempts <= MaxAttempts

\* A job whose run is over is torn down in the end, also by the sweeps when the
\* process that began it died halfway.
TeardownFinishes ==
    \A v \in Versions :
      (job.version = v /\ job.status \in {"completed", "failed", "terminal_failed"})
        ~> job.version # v

-----------------------------------------------------------------------------
(* Interruption, suspension, deletion.                                     *)

\* The resolver's answer holds the workflow back only together with its record:
\* a workflow shown as paused or cooling down has no run left to resolve, so
\* whatever wakes it up cannot be undone by a resolution of an older run.
HeldIsResolved ==
    workflow.state \in {"paused", "cooldown"} =>
      workflow.resolved = workflow.current

\* A failed run leaves the workflow interrupted, or interrupted it earlier: no
\* completion or suspension racing the failure hides it from the operator
\* (postgres/workflow.go:638).  Known not to hold when SweepAbandonedJobs
\* completes a job whose failure was already claimed.
FailureInterrupts ==
    \A v \in Versions :
      request[v] = "failed" =>
        workflow.interrupted = v \/ (workflow.interrupted # 0 /\ v < workflow.current)

\* A suspended workflow has nothing that could be scheduled: the freeze caught
\* every queued request and nothing thaws one while the hold lasts.
SuspendedIsFrozen ==
    workflow.state = "suspended" =>
      \A v \in Versions : request[v] # "unscheduled"

\* A halted workflow runs nothing: once a suspension took effect no session
\* executes an operation and there is no job to begin one from.
HaltedIsIdle ==
    workflow.lifecycle = "halted" =>
      /\ job.status \notin Acquirable \cup {"dispatched", "running"}
      /\ \A s \in Sessions : session[s].pc \notin Executing

\* A requested suspension takes effect, or something else ends it.
SuspensionSettles ==
    \A id \in SuspensionIds :
      (workflow.suspension = id /\ ~workflow.finalized)
        ~> (workflow.suspension # id \/ workflow.finalized)

\* Once deletion is requested no further request is created, and the workflow is
\* not made active again, so that no goroutine that reads the row from then on
\* validates it.  One that validated it before may still write its job
\* (deletionreconciler.go:12), which is what the reconciler waits for.
DeletionClosesAdmission ==
    [][workflow.deleting =>
         /\ workflow'.target = workflow.target
         /\ workflow'.state # "active"]_vars

\* A deleted workflow stays deleted, and has neither a request that shows as
\* running nor a session that executes one.
DeletedIsFinal ==
    [][workflow.lifecycle = "deleted" =>
         /\ workflow'.lifecycle = "deleted"
         /\ ~HasRunningRequest
         /\ \A s \in Sessions : session[s].pc \notin Executing]_vars

\* A requested deletion is finalized in the end.
DeletionFinishes == workflow.deleting ~> workflow.lifecycle = "deleted"

=============================================================================
