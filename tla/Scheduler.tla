------------------------------ MODULE Scheduler ------------------------------
(***************************************************************************)
(* internal/scheduler: the multi-statement operations that move a run      *)
(* from request to job and from job back to request.                       *)
(*                                                                         *)
(*   ScheduleRequest  get workflow, validate, upsert the job, supercede    *)
(*                    older requests, mark the workflow scheduled          *)
(*   CompleteRequest  advance current_version, read the workflow, resolve  *)
(*                    its policy, delete the job, complete the request     *)
(*   FailRequest      read the workflow, requeue the job or claim the      *)
(*                    failure, interrupt the workflow, delete the job,     *)
(*                    fail the request                                     *)
(*                                                                         *)
(* Several goroutines run these at once: the tick of the scheduler that    *)
(* owns the partition, InvokeWorkflow in the server (which schedules       *)
(* immediately), the periodic handler, and the worker sessions, which      *)
(* complete and fail their own runs.  task[p] is the operation goroutine p *)
(* is in; each of its statements is a step, and anything may happen        *)
(* between two of them.  What an operation read earlier stays in its task  *)
(* and may be stale when used.  The metrics statements of the two teardown *)
(* operations write columns that no guard of this module reads and are not *)
(* modelled here.                                                          *)
(***************************************************************************)
EXTENDS Store, FiniteSets

CONSTANTS
    Runners,      \* goroutines of scheduler and server processes
    MaxAttempts,  \* maxJobAttempts
    MaxFaults,    \* bound on crashes and failed statements
    MaxQueueDepth,\* max_queue_depth
    PolicyGoals,  \* outcomes of the policy engine that are explored
    Periodic      \* whether repeat_every_seconds > 0

ASSUME SchedulerAssumption ==
    /\ Runners \cap Sessions = {}
    /\ MaxAttempts \in Nat
    /\ MaxFaults \in Nat
    /\ MaxQueueDepth \in Nat \ {0}
    /\ PolicyGoals # {}
    /\ PolicyGoals \subseteq {"none", "paused", "cooldown", "version"}
    /\ Periodic \in BOOLEAN

VARIABLES
    task,     \* what each goroutine is doing
    faults,   \* faults that have happened
    applied   \* history: versions whose end current_version was advanced for

schedulerVars == <<task, faults, applied>>

Tasks == Runners \cup Sessions

SchedulePcs == {"schedule_get", "schedule_upsert", "schedule_supercede",
                "schedule_mark"}

CompletePcs == {"complete_apply", "complete_get", "complete_resolve",
                "complete_delete", "complete_finish"}

FailPcs == {"fail_get", "fail_requeue", "fail_claim", "fail_apply",
            "fail_delete", "fail_finish"}

Task ==
    [pc : {"idle", "invoke_create"} \cup SchedulePcs \cup CompletePcs \cup FailPcs,
     version : 0 .. MaxRequests,    \* the run worked on
     attempts : Nat,                \* attempts of the failure worked on
     current : 0 .. MaxRequests,    \* the columns of the workflow that were read
     state : WorkflowStates,
     config : ConfigVersions,
     mode : InvokeModes]

\* A task that has read nothing yet.
NewTask(pc, v, attempts) ==
    [pc |-> pc, version |-> v, attempts |-> attempts, current |-> 0,
     state |-> "active", config |-> CHOOSE c \in ConfigVersions : TRUE,
     mode |-> CHOOSE m \in InvokeModes : TRUE]

Idle == NewTask("idle", 0, 0)

\* Goroutine p goes on to pc, keeping what it has read.
Goto(p, pc) == task' = [task EXCEPT ![p].pc = pc]

Done(p) == task' = [task EXCEPT ![p] = Idle]

Begin(p, pc, v, attempts) ==
    task' = [task EXCEPT ![p] = NewTask(pc, v, attempts)]

At(p, pc) == task[p].pc = pc

SchedulerTypeOK ==
    /\ task \in [Tasks -> Task]
    /\ faults \in 0 .. MaxFaults
    /\ applied \subseteq Versions

SchedulerInit ==
    /\ task = [p \in Tasks |-> Idle]
    /\ faults = 0
    /\ applied = {}

-----------------------------------------------------------------------------
(* Creating requests: InvokeWorkflow and the periodic handler.             *)

\* Mutation: one request more than the cap is admitted.
QueueOverfull ==
    /\ workflow.mode = "queue"
    /\ Cardinality({v \in Versions : request[v] = "unscheduled"})
         > MaxQueueDepth

QueueFull ==
    /\ workflow.mode = "queue"
    /\ Cardinality({v \in Versions : request[v] = "unscheduled"})
         >= MaxQueueDepth

\* The admission checks, made on reads that precede the insert.
InvokeAdmit(p) ==
    /\ At(p, "idle")
    /\ workflow.state = "active"
    /\ ~QueueFull
    /\ Begin(p, "invoke_create", 0, 0)
    /\ UNCHANGED <<store, faults, applied>>

\* The insert checks the state again; a created request is scheduled at once.
InvokeCreate(p) ==
    /\ At(p, "invoke_create")
    /\ \/ /\ CreateInvocationRequest
          /\ Begin(p, "schedule_get", workflow.target + 1, 0)
       \/ /\ ~CreateMatches
          /\ Done(p)
          /\ UNCHANGED store
    /\ UNCHANGED <<faults, applied>>

CreatePeriodicRequest(p) ==
    /\ Periodic
    /\ At(p, "idle")
    /\ CreateDuePeriodicRequest
    /\ Begin(p, "schedule_get", workflow.target + 1, 0)
    /\ UNCHANGED <<faults, applied>>

-----------------------------------------------------------------------------
(* ScheduleRequest                                                         *)

ScheduleTop(p) ==
    /\ At(p, "idle")
    /\ \E v \in Versions :
         /\ TopUnscheduled(v)
         /\ Begin(p, "schedule_get", v, 0)
    /\ UNCHANGED <<store, faults, applied>>

\* validateWorkflowState: runnable, and the last run's policy resolved.
Schedulable ==
    /\ workflow.state = "active"
    /\ workflow.resolved = workflow.current

ScheduleGet(p) ==
    /\ At(p, "schedule_get")
    /\ \/ /\ Schedulable
          /\ task' = [task EXCEPT ![p].pc = "schedule_upsert",
                                  ![p].current = workflow.current,
                                  ![p].mode = workflow.mode]
       \/ ~Schedulable /\ Done(p)
    /\ UNCHANGED <<store, faults, applied>>

ScheduleUpsert(p) ==
    LET t == task[p] IN
    /\ At(p, "schedule_upsert")
    /\ UpsertJobAndSchedule(t.version, t.current, t.mode)
    /\ IF ~UpsertMatches(t.version, t.current, t.mode) THEN Done(p)
       ELSE IF t.mode = "queue" THEN Goto(p, "schedule_mark")
       ELSE Goto(p, "schedule_supercede")
    /\ UNCHANGED <<faults, applied>>

ScheduleSupercede(p) ==
    /\ At(p, "schedule_supercede")
    /\ SupercedeOlderRequests(task[p].version)
    /\ Goto(p, "schedule_mark")
    /\ UNCHANGED <<faults, applied>>

ScheduleMark(p) ==
    /\ At(p, "schedule_mark")
    /\ MarkLifecycle("scheduled")
    /\ Done(p)
    /\ UNCHANGED <<faults, applied>>

-----------------------------------------------------------------------------
(* CompleteRequest                                                         *)

\* completeJobs: the sweep over completed jobs.
CompleteSweep(p) ==
    /\ At(p, "idle")
    /\ job.status = "completed"
    /\ Begin(p, "complete_apply", job.version, 0)
    /\ UNCHANGED <<store, faults, applied>>

Applied(v) == applied' = IF ApplyMatches(v) THEN applied \cup {v} ELSE applied

CompleteApply(p) ==
    /\ At(p, "complete_apply")
    /\ ApplyCompletedJob(task[p].version)
    /\ Applied(task[p].version)
    /\ Goto(p, "complete_get")
    /\ UNCHANGED faults

CompleteGet(p) ==
    /\ At(p, "complete_get")
    /\ task' = [task EXCEPT ![p].pc = "complete_resolve",
                            ![p].current = workflow.current,
                            ![p].state = workflow.state,
                            ![p].config = workflow.config]
    /\ UNCHANGED <<store, faults, applied>>

\* ResolveLifecyclePolicy on the row as read.  Which rule fires depends on
\* metrics; every goal is possible.  Without a rule the state read is written.
CompleteResolve(p) ==
    LET t == task[p] IN
    /\ At(p, "complete_resolve")
    /\ \E goal \in PolicyGoals :
         CASE goal = "none" ->
                TryApplyStateResolution(t.current, t.state, t.version)
           [] goal \in {"paused", "cooldown"} ->
                TryApplyStateResolution(t.current, goal, t.version)
           [] goal = "version" ->
                \E c \in ConfigVersions :
                  TryApplyVersionResolution(t.current, t.config, c, t.version)
    /\ Goto(p, "complete_delete")
    /\ UNCHANGED <<faults, applied>>

CompleteDelete(p) ==
    /\ At(p, "complete_delete")
    /\ DeleteTerminalJob(task[p].version)
    /\ Goto(p, "complete_finish")
    /\ UNCHANGED <<faults, applied>>

CompleteFinish(p) ==
    /\ At(p, "complete_finish")
    /\ CompleteRequestRow(task[p].version)
    /\ Done(p)
    /\ UNCHANGED <<faults, applied>>

-----------------------------------------------------------------------------
(* FailRequest                                                             *)

\* Mutation: a teardown that was claimed and then lost is not swept again.
FailSweepUnclaimed(p) ==
    /\ At(p, "idle")
    /\ job.status = "failed"
    /\ Begin(p, "fail_get", job.version, job.attempts)
    /\ UNCHANGED <<store, faults, applied>>

\* failJobs: the sweep over failed and half torn down jobs.
FailSweep(p) ==
    /\ At(p, "idle")
    /\ job.status \in {"failed", "terminal_failed"}
    /\ Begin(p, "fail_get", job.version, job.attempts)
    /\ UNCHANGED <<store, faults, applied>>

\* Mutation: one attempt more than the limit.
FailGetOffByOne(p) ==
    /\ At(p, "fail_get")
    /\ Goto(p, IF workflow.resumable /\ task[p].attempts <= MaxAttempts
               THEN "fail_requeue" ELSE "fail_claim")
    /\ UNCHANGED <<store, faults, applied>>

FailGet(p) ==
    /\ At(p, "fail_get")
    /\ Goto(p, IF workflow.resumable /\ task[p].attempts < MaxAttempts
               THEN "fail_requeue" ELSE "fail_claim")
    /\ UNCHANGED <<store, faults, applied>>

FailRequeue(p) ==
    LET t == task[p] IN
    /\ At(p, "fail_requeue")
    /\ RequeueJob(t.version, t.attempts)
    /\ IF RequeueMatches(t.version, t.attempts) THEN Done(p)
       ELSE Goto(p, "fail_claim")
    /\ UNCHANGED <<faults, applied>>

FailClaim(p) ==
    LET t == task[p] IN
    /\ At(p, "fail_claim")
    /\ ClaimFailedJob(t.version, t.attempts)
    /\ IF ClaimMatches(t.version, t.attempts) THEN Goto(p, "fail_apply")
       ELSE Done(p)
    /\ UNCHANGED <<faults, applied>>

FailApply(p) ==
    /\ At(p, "fail_apply")
    /\ ApplyFailedJob(task[p].version)
    /\ Applied(task[p].version)
    /\ Goto(p, "fail_delete")
    /\ UNCHANGED faults

FailDelete(p) ==
    /\ At(p, "fail_delete")
    /\ DeleteTerminalJob(task[p].version)
    /\ Goto(p, "fail_finish")
    /\ UNCHANGED <<faults, applied>>

FailFinish(p) ==
    /\ At(p, "fail_finish")
    /\ FailRequestRow(task[p].version)
    /\ Done(p)
    /\ UNCHANGED <<faults, applied>>

-----------------------------------------------------------------------------
(* Sweeps of one statement, and faults.                                    *)

Sweep ==
    /\ \/ ReconcileWorkflowLifecycles
       \/ MarkOrphanedJobsFailed
       \/ SweepRequestsInProgress
       \/ ExpireCooldowns
    /\ UNCHANGED schedulerVars

\* The goroutine dies between two statements, or a statement returns an error
\* and the operation returns.
TaskFault(p) ==
    /\ faults < MaxFaults
    /\ ~At(p, "idle")
    /\ faults' = faults + 1
    /\ Done(p)
    /\ UNCHANGED <<store, applied>>

\* An error deleting the job is only logged: the request is finished anyway.
DeleteFault(p) ==
    /\ faults < MaxFaults
    /\ faults' = faults + 1
    /\ \/ At(p, "complete_delete") /\ Goto(p, "complete_finish")
       \/ At(p, "fail_delete") /\ Goto(p, "fail_finish")
    /\ UNCHANGED <<store, applied>>

\* The steps of an operation in progress, whichever process runs it.
TaskStep(p) ==
    \/ InvokeCreate(p)
    \/ ScheduleGet(p) \/ ScheduleUpsert(p) \/ ScheduleSupercede(p)
    \/ ScheduleMark(p)
    \/ CompleteApply(p) \/ CompleteGet(p) \/ CompleteResolve(p)
    \/ CompleteDelete(p) \/ CompleteFinish(p)
    \/ FailGet(p) \/ FailRequeue(p) \/ FailClaim(p) \/ FailApply(p)
    \/ FailDelete(p) \/ FailFinish(p)

\* What a scheduler or server goroutine may begin.
RunnerStep(p) ==
    \/ InvokeAdmit(p) \/ CreatePeriodicRequest(p)
    \/ ScheduleTop(p) \/ CompleteSweep(p) \/ FailSweep(p)

SchedulerNext ==
    \/ \E p \in Runners : RunnerStep(p)
    \/ \E p \in Tasks : TaskStep(p) \/ TaskFault(p) \/ DeleteFault(p)
    \/ Sweep

=============================================================================
