------------------------------- MODULE Store -------------------------------
(***************************************************************************)
(* The Postgres rows of ONE workflow and the SQL statements the control    *)
(* plane runs on them (internal/storage/postgres).  Every process of the   *)
(* control plane (server, scheduler, worker) talks to the others only      *)
(* through these rows.                                                     *)
(*                                                                         *)
(*   workflow   the row of table workflows                                 *)
(*   request    customer_requests; a request is named by its version,      *)
(*              which CreateInvocationRequest allocates from               *)
(*              target_version, so version v is the v-th run asked for     *)
(*   job        the row of table jobs: its primary key is workflow_id, so  *)
(*              a workflow has at most one; NoJob when there is none       *)
(*                                                                         *)
(* Every statement, or transaction, is one atomic step.  A statement is    *)
(* written as Postgres runs it: its WHERE clause is <Name>Matches and, if  *)
(* no row matches, it changes nothing.                                     *)
(*                                                                         *)
(* Columns left out: payloads (context, result, failure reasons), metrics, *)
(* prompts and the last_gate_* copies.  Timestamps that are only compared  *)
(* with now() are a truth value or, for lease_expires_at, a phase:         *)
(* "live", "expired" (before now) and "lapsed" (before now by more than    *)
(* the orphan grace period).                                               *)
(***************************************************************************)
EXTENDS Integers

CONSTANTS
    Sessions,        \* ids a worker session stamps on the jobs it owns
    NoSession,       \* owner IS NULL
    MaxRequests,     \* bound on the number of requests ever created
    ConfigVersions,  \* values of current_workflow_version
    InvokeModes,     \* values of invoke_mode an operator may configure
    Resumables,      \* values of resumable an operator may configure
    SuspensionIds,   \* ids callers may give to suspensions
    NoSuspension,    \* suspension_id IS NULL
    MaxGates         \* bound on the number of gates ever opened

ASSUME StoreAssumption ==
    /\ NoSession \notin Sessions
    /\ NoSuspension \notin SuspensionIds
    /\ MaxRequests \in Nat \ {0}
    /\ MaxGates \in Nat
    /\ ConfigVersions # {}
    /\ InvokeModes # {} /\ InvokeModes \subseteq {"coalesce", "queue"}
    /\ Resumables # {} /\ Resumables \subseteq BOOLEAN

VARIABLES workflow, request, job

store == <<workflow, request, job>>

-----------------------------------------------------------------------------
Versions == 1 .. MaxRequests

WorkflowStates == {"active", "paused", "cooldown", "disabled", "suspended"}

LifecycleStates ==
    {"active", "scheduled", "blocked", "invoking", "awaiting_approval",
     "awaiting_input", "deleted", "interrupted", "halted"}

RequestStatuses ==
    {"unscheduled", "scheduled", "in_progress", "failed", "completed",
     "superceded", "abandoned", "paused"}

TerminalRequest == {"completed", "failed", "superceded", "abandoned"}

JobStatuses ==
    {"pending", "dispatched", "running", "awaiting_next", "awaiting_approval",
     "approved", "rejected", "awaiting_input", "answered", "input_timed_out",
     "completed", "failed", "terminal_failed"}

\* The statuses a session may pick a job up in.
Acquirable ==
    {"pending", "awaiting_next", "approved", "rejected", "answered",
     "input_timed_out"}

WorkflowRow ==
    [state : WorkflowStates, lifecycle : LifecycleStates,
     target : 0 .. MaxRequests, current : 0 .. MaxRequests,
     resolved : 0 .. MaxRequests,
     interrupted : 0 .. MaxRequests,   \* last_interrupted_request_id
     decided : 0 .. MaxRequests,       \* last_policy_decision_request_id
     config : ConfigVersions, mode : InvokeModes, resumable : Resumables,
     suspension : SuspensionIds \cup {NoSuspension},
     stopCurrent : BOOLEAN,
     finalized : BOOLEAN,              \* suspension_finalized_at IS NOT NULL
     deleting : BOOLEAN]               \* deletion_requested_at IS NOT NULL

JobRow ==
    [version : 0 .. MaxRequests, status : JobStatuses \cup {"none"},
     owner : Sessions \cup {NoSession},
     lease : {"none", "live", "expired", "lapsed"},
     attempts : Nat,
     abandon : BOOLEAN,                \* abandon_requested_at IS NOT NULL
     due : BOOLEAN,                    \* dispatch_at IS NULL or in the past
     gate : 0 .. MaxGates]             \* approval_id or input_id, 0 for NULL

NoJob ==
    [version |-> 0, status |-> "none", owner |-> NoSession, lease |-> "none",
     attempts |-> 0, abandon |-> FALSE, due |-> TRUE, gate |-> 0]

JobExists == job.version # 0

StoreTypeOK ==
    /\ workflow \in WorkflowRow
    /\ request \in [Versions -> RequestStatuses \cup {"absent"}]
    /\ job \in JobRow

\* A workflow as CreateWorkflow inserts it: idle, and paused until activated.
StoreInit ==
    /\ \E c \in ConfigVersions, m \in InvokeModes, r \in Resumables :
         workflow =
           [state |-> "paused", lifecycle |-> "active", target |-> 0,
            current |-> 0, resolved |-> 0, interrupted |-> 0, decided |-> 0,
            config |-> c, mode |-> m, resumable |-> r,
            suspension |-> NoSuspension, stopCurrent |-> FALSE,
            finalized |-> FALSE, deleting |-> FALSE]
    /\ request = [v \in Versions |-> "absent"]
    /\ job = NoJob

\* UPDATE customer_requests SET status = to WHERE status IN (from): every
\* request in one of the statuses in from moves to the status to.
MoveRequests(from, to) ==
    [v \in Versions |-> IF request[v] \in from THEN to ELSE request[v]]

Running(v) == request[v] \in {"scheduled", "in_progress"}

\* Mutation: a request that is scheduled but not begun does not count.
HasInProgressRequest == \E v \in Versions : request[v] = "in_progress"

HasRunningRequest == \E v \in Versions : Running(v)

-----------------------------------------------------------------------------
(* customer_request.go                                                     *)

CreateMatches == workflow.state = "active" /\ workflow.target < MaxRequests

\* The next version is allocated and the request inserted in one statement.
CreateInvocationRequest ==
    /\ CreateMatches
    /\ workflow' = [workflow EXCEPT !.target = @ + 1]
    /\ request' = [request EXCEPT ![workflow.target + 1] = "unscheduled"]
    /\ UNCHANGED job

\* CreateInvocationRequest behind the periodic guards: nothing in flight (and
\* the repeat interval elapsed, which the model leaves to chance).
CreateDuePeriodicRequest ==
    /\ \A v \in Versions : request[v] \in TerminalRequest \cup {"absent"}
    /\ CreateInvocationRequest

\* vs is the list of ids the caller names, or every id.
AbandonQueuedRequests(vs) ==
    /\ request' = [v \in Versions |->
                     IF v \in vs /\ request[v] \in {"unscheduled", "paused"}
                     THEN "abandoned" ELSE request[v]]
    /\ UNCHANGED <<workflow, job>>

\* The terminal writes name the request and nothing else.
CompleteRequestRow(v) ==
    /\ request' = [request EXCEPT ![v] = "completed"]
    /\ UNCHANGED <<workflow, job>>

FailRequestRow(v) ==
    /\ request' = [request EXCEPT ![v] = "failed"]
    /\ UNCHANGED <<workflow, job>>

-----------------------------------------------------------------------------
(* scheduler.go                                                            *)

\* The request scheduleJobs takes up: newest first when coalescing, oldest
\* first when queueing.
TopUnscheduled(v) ==
    /\ request[v] = "unscheduled"
    /\ \A w \in Versions :
         request[w] = "unscheduled" =>
           IF workflow.mode = "queue" THEN v <= w ELSE w <= v

\* Mutation: the queue guard of the overwrite is missing.
SlotOpenAnyMode(v, mode) ==
    \/ ~JobExists
    \/ job.version < v /\ job.status = "pending" /\ job.attempts = 0

SlotOpen(v, mode) ==
    \/ ~JobExists
    \/ /\ job.version < v
       /\ job.status = "pending"
       /\ job.attempts = 0
       /\ mode # "queue"

\* Mutation: current_version is not compared with the one validated against.
UpsertUnvalidated(v, expectedCurrent, mode) ==
    /\ request[v] = "unscheduled"
    /\ SlotOpen(v, mode)

UpsertMatches(v, expectedCurrent, mode) ==
    /\ request[v] = "unscheduled"
    /\ workflow.current = expectedCurrent
    /\ SlotOpen(v, mode)

\* dispatch_at and the gate columns keep what an overwritten row had.
UpsertJobAndSchedule(v, expectedCurrent, mode) ==
    IF UpsertMatches(v, expectedCurrent, mode)
    THEN /\ job' = [NoJob EXCEPT !.version = v, !.status = "pending",
                                 !.due = job.due, !.gate = job.gate]
         /\ request' = [request EXCEPT ![v] = "scheduled"]
         /\ UNCHANGED workflow
    ELSE UNCHANGED store

SupercedeOlderRequests(v) ==
    /\ request' = [w \in Versions |->
                     IF w < v /\ request[w] \in {"unscheduled", "scheduled"}
                     THEN "superceded" ELSE request[w]]
    /\ UNCHANGED <<workflow, job>>

DeleteTerminalJob(v) ==
    /\ job' = IF job.version = v
                 /\ job.status \in {"completed", "failed", "terminal_failed"}
              THEN NoJob ELSE job
    /\ UNCHANGED <<workflow, request>>

ProtectedLifecycle == {"deleted", "interrupted", "halted"}

\* MarkWorkflowScheduled and MarkWorkflowInvoking: lifecycle_state follows the
\* job while there is one.
MarkLifecycle(l) ==
    /\ workflow' = IF JobExists /\ workflow.lifecycle \notin ProtectedLifecycle
                   THEN [workflow EXCEPT !.lifecycle = l] ELSE workflow
    /\ UNCHANGED <<request, job>>

\* MarkWorkflowAwaitingApproval and ...Input: guarded on the job's status only.
MarkAwaiting(status) ==
    /\ workflow' = IF job.status = status
                   THEN [workflow EXCEPT !.lifecycle = status] ELSE workflow
    /\ UNCHANGED <<request, job>>

\* old: the row has been there for longer than blockedAfterSecs.
ReconciledLifecycle(old) ==
    CASE job.status \in {"dispatched", "running"} -> "invoking"
      [] job.status \in {"awaiting_approval", "awaiting_input"} -> job.status
      [] job.status \in Acquirable /\ job.owner = NoSession /\ job.due /\ old
           -> "blocked"
      [] job.status = "pending"
           /\ ~(job.owner = NoSession /\ job.due /\ old) -> "scheduled"
      [] OTHER -> workflow.lifecycle

ReconcileWorkflowLifecycles ==
    /\ JobExists
    /\ workflow.lifecycle \notin ProtectedLifecycle
    /\ \E old \in BOOLEAN :
         workflow' = [workflow EXCEPT !.lifecycle = ReconciledLifecycle(old)]
    /\ UNCHANGED <<request, job>>

MarkRequestInProgress(v) ==
    /\ request' = [request EXCEPT ![v] =
                     IF @ = "scheduled" THEN "in_progress" ELSE @]
    /\ UNCHANGED <<workflow, job>>

SweepRequestsInProgress ==
    /\ JobExists
    /\ job.status \notin {"completed", "failed"}
    /\ job.status # "pending" \/ job.attempts > 0
    /\ MarkRequestInProgress(job.version)

-----------------------------------------------------------------------------
(* job.go: the worker's statements.  The owner column is their only fence. *)

Owns(s) == job.owner = s

Unheld == job.owner = NoSession \/ job.lease \in {"expired", "lapsed"}

\* Mutation: a failed job is handed out again, without being requeued.
AcquireFailedToo ==
    job.status \in Acquirable \cup {"failed"} /\ Unheld /\ job.due

AcquireMatches == job.status \in Acquirable /\ Unheld /\ job.due

AcquireJob(s) ==
    /\ AcquireMatches
    /\ job' = [job EXCEPT !.owner = s, !.lease = "live"]
    /\ UNCHANGED <<workflow, request>>

RenewJobLease(s) ==
    /\ job' = IF Owns(s) THEN [job EXCEPT !.lease = "live"] ELSE job
    /\ UNCHANGED <<workflow, request>>

\* Mutation: the write is not fenced by the owner column.
UpdateUnfenced(s, status) ==
    /\ job' = IF JobExists THEN [job EXCEPT !.status = status] ELSE job
    /\ UNCHANGED <<workflow, request>>

\* UpdateJobStatus, FailJobWithMetrics and UpdateJobStatusWithMetrics.
UpdateJobStatus(s, status) ==
    /\ job' = IF Owns(s) THEN [job EXCEPT !.status = status] ELSE job
    /\ UNCHANGED <<workflow, request>>

UpdateJobWithMetrics(s, delayed) ==
    /\ job' = IF Owns(s)
              THEN [job EXCEPT !.status = "awaiting_next", !.due = ~delayed,
                               !.gate = 0]
              ELSE job
    /\ UNCHANGED <<workflow, request>>

\* ParkForApproval and ParkForInput.
ParkJob(s, status, g) ==
    /\ job' = IF Owns(s)
              THEN [job EXCEPT !.status = status, !.gate = g] ELSE job
    /\ UNCHANGED <<workflow, request>>

DispatchMatches(s) == Owns(s) /\ job.status # "dispatched"

DispatchJob(s) ==
    /\ job' = IF DispatchMatches(s)
              THEN [job EXCEPT !.status = "dispatched", !.gate = 0] ELSE job
    /\ UNCHANGED <<workflow, request>>

ReleaseJob(s) ==
    /\ job' = IF Owns(s)
              THEN [job EXCEPT !.owner = NoSession, !.lease = "none"] ELSE job
    /\ UNCHANGED <<workflow, request>>

-----------------------------------------------------------------------------
(* job.go: the statements of the scheduler, of operators and of sweeps.    *)

\* Mutation: a requeue not guarded on the failure the caller read.
RequeueAny(v, attempts) == job.version = v

RequeueMatches(v, attempts) ==
    job.version = v /\ job.status = "failed" /\ job.attempts = attempts

RequeueJob(v, attempts) ==
    /\ job' = IF RequeueMatches(v, attempts)
              THEN [job EXCEPT !.status = "pending", !.owner = NoSession,
                               !.lease = "none", !.attempts = @ + 1]
              ELSE job
    /\ UNCHANGED <<workflow, request>>

ClaimMatches(v, attempts) ==
    /\ job.version = v
    /\ job.status \in {"failed", "terminal_failed"}
    /\ job.attempts = attempts

ClaimFailedJob(v, attempts) ==
    /\ job' = IF ClaimMatches(v, attempts)
              THEN [job EXCEPT !.status = "terminal_failed"] ELSE job
    /\ UNCHANGED <<workflow, request>>

\* Mutation: a job is taken for orphaned whatever its lease.
MarkAllJobsFailed ==
    /\ job.status \in {"dispatched", "running"}
    /\ job' = [job EXCEPT !.status = "failed"]
    /\ UNCHANGED <<workflow, request>>

MarkOrphanedJobsFailed ==
    /\ job.status \in {"dispatched", "running"}
    /\ job.owner = NoSession \/ job.lease = "lapsed"
    /\ job' = [job EXCEPT !.status = "failed"]
    /\ UNCHANGED <<workflow, request>>

\* ResolveApproval, ResolveInput and the two timeout sweeps: the gate a parked
\* job waits on is decided, and the workflow shows as invoking again.
ResolveGate(g, parked, status) ==
    /\ job.gate = g
    /\ job.status = parked
    /\ job' = [job EXCEPT !.status = status]
    /\ workflow' = [workflow EXCEPT !.lifecycle = "invoking"]
    /\ UNCHANGED request

MarkAbandonRequested(id) ==
    /\ job' = IF JobExists /\ job.status \notin {"completed", "failed"}
                 /\ workflow.suspension = id
              THEN [job EXCEPT !.abandon = TRUE] ELSE job
    /\ UNCHANGED <<workflow, request>>

\* Flagged runs nobody holds are finished on the worker's behalf.
SweepAbandonedJobs ==
    /\ JobExists /\ job.abandon /\ Unheld
    /\ job.status \notin {"completed", "failed", "dispatched", "running"}
    /\ job' = [job EXCEPT !.status = "completed"]
    /\ UNCHANGED <<workflow, request>>

-----------------------------------------------------------------------------
(* workflow.go and lifecycle_resolver.go                                   *)

\* Mutation: an older run's end is applied over a newer one's.
ApplyAlways(v) == TRUE

ApplyMatches(v) == workflow.current < v

\* Mutation: current_version runs one ahead.
ApplyOffByOne(v) ==
    /\ workflow' = IF ApplyMatches(v)
                   THEN [workflow EXCEPT !.current = v + 1] ELSE workflow
    /\ UNCHANGED <<request, job>>

\* lifecycle_state only goes back to active when no newer run was asked for.
ApplyCompletedJob(v) ==
    /\ workflow' = IF ApplyMatches(v)
                   THEN [workflow EXCEPT !.current = v,
                           !.lifecycle =
                             IF workflow.target = v THEN "active" ELSE @]
                   ELSE workflow
    /\ UNCHANGED <<request, job>>

\* The columns of a suspension, cleared.
WithoutSuspension(w) ==
    [w EXCEPT !.suspension = NoSuspension, !.stopCurrent = FALSE,
              !.finalized = FALSE]

\* An interruption disables the workflow, tears a suspension down and releases
\* the requests it froze.
ApplyFailedJob(v) ==
    IF ApplyMatches(v)
    THEN /\ workflow' = [WithoutSuspension(workflow) EXCEPT
                           !.current = v, !.interrupted = v,
                           !.lifecycle = "interrupted", !.state = "disabled"]
         /\ request' = MoveRequests({"paused"}, "unscheduled")
         /\ UNCHANGED job
    ELSE UNCHANGED store

\* Mutation: a resolution of a run that is resolved already is written again.
ResolveAgain(resolved) == workflow.state \notin {"disabled", "suspended"}

\* The resolver writes only over a state the policy may move.
ResolutionMatches(resolved) ==
    /\ workflow.resolved < resolved
    /\ workflow.state \notin {"disabled", "suspended"}

\* Mutation: the state is written, the resolution not recorded.
ResolveWithoutRecord(resolved, state, v) ==
    /\ workflow' = IF ResolutionMatches(resolved)
                   THEN [workflow EXCEPT !.state = state, !.decided = v]
                   ELSE workflow
    /\ UNCHANGED <<request, job>>

TryApplyStateResolution(resolved, state, v) ==
    /\ workflow' = IF ResolutionMatches(resolved)
                   THEN [workflow EXCEPT !.resolved = resolved,
                                         !.state = state, !.decided = v]
                   ELSE workflow
    /\ UNCHANGED <<request, job>>

TryApplyVersionResolution(resolved, expected, config, v) ==
    /\ workflow' = IF ResolutionMatches(resolved)
                      /\ workflow.config = expected
                   THEN [workflow EXCEPT !.resolved = resolved,
                                         !.config = config, !.decided = v]
                   ELSE workflow
    /\ UNCHANGED <<request, job>>

ExpireCooldowns ==
    /\ workflow.state = "cooldown"
    /\ workflow' = [workflow EXCEPT !.state = "active"]
    /\ UNCHANGED <<request, job>>

\* Mutation: any workflow can be activated, also a disabled one.
ActivateAnyState(v) ==
    /\ workflow.decided = v
    /\ workflow' = [workflow EXCEPT !.state = "active"]
    /\ UNCHANGED <<request, job>>

TryActivateWorkflow(v) ==
    /\ workflow.state \in {"paused", "cooldown"}
    /\ workflow.decided = v
    /\ workflow' = [workflow EXCEPT !.state = "active"]
    /\ UNCHANGED <<request, job>>

ResolveInterruptedWorkflow(v) ==
    /\ workflow.lifecycle = "interrupted"
    /\ workflow.interrupted = v
    /\ workflow' = [workflow EXCEPT !.lifecycle = "active", !.state = "active",
                                    !.resolved = workflow.current]
    /\ UNCHANGED <<request, job>>

UpdateConfig(config, mode, resumable) ==
    /\ workflow' = [workflow EXCEPT !.config = config, !.mode = mode,
                                    !.resumable = resumable]
    /\ UNCHANGED <<request, job>>

MarkDeletionRequested ==
    /\ ~workflow.deleting
    /\ workflow' = [workflow EXCEPT !.state = "disabled", !.deleting = TRUE]
    /\ UNCHANGED <<request, job>>

\* Guarded only on not having happened yet: the caller checks for running work.
FinalizeDeleted ==
    /\ workflow' = [workflow EXCEPT !.lifecycle = "deleted"]
    /\ UNCHANGED <<request, job>>

\* Mutation: the suspension does not freeze what is queued.
SuspendWithoutFreeze(id, stop) ==
    /\ workflow.state # "disabled"
    /\ ~workflow.finalized
    /\ workflow.suspension \in {NoSuspension, id}
    /\ workflow' = [workflow EXCEPT !.state = "suspended", !.suspension = id,
                                    !.stopCurrent = stop]
    /\ UNCHANGED <<request, job>>

\* Records the suspension, freezes queued requests and, when the current run is
\* not to be stopped, takes back an earlier order to stop it.
MarkSuspensionRequested(id, stop) ==
    /\ workflow.state # "disabled"
    /\ ~workflow.finalized
    /\ workflow.suspension \in {NoSuspension, id}
    /\ workflow' = [workflow EXCEPT !.state = "suspended", !.suspension = id,
                                    !.stopCurrent = stop]
    /\ request' = MoveRequests({"unscheduled"}, "paused")
    /\ job' = IF stop \/ ~JobExists THEN job
              ELSE [job EXCEPT !.abandon = FALSE]

FinalizeMatches(id) ==
    /\ workflow.suspension = id
    /\ workflow.state = "suspended"
    /\ ~workflow.finalized

FinalizeSuspended(id) ==
    /\ workflow' = IF FinalizeMatches(id)
                   THEN [workflow EXCEPT !.lifecycle = "halted",
                                         !.finalized = TRUE]
                   ELSE workflow
    /\ UNCHANGED <<request, job>>

AbortSuspension(id) ==
    IF workflow.suspension = id /\ workflow.state # "suspended"
    THEN /\ workflow' = WithoutSuspension(workflow)
         /\ request' = MoveRequests({"paused"}, "unscheduled")
         /\ UNCHANGED job
    ELSE UNCHANGED store

RestoreMatches(id) ==
    /\ workflow.suspension = id
    /\ workflow.state = "suspended"
    /\ workflow.finalized

RestoreFromSuspension(id, state, config) ==
    IF RestoreMatches(id)
    THEN /\ workflow' = [WithoutSuspension(workflow) EXCEPT
                           !.state = state, !.config = config,
                           !.lifecycle = "active",
                           !.resolved = workflow.current]
         /\ request' = MoveRequests({"paused"}, "unscheduled")
         /\ UNCHANGED job
    ELSE UNCHANGED store

=============================================================================
