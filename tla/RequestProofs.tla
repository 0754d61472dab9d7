---------------------------- MODULE RequestProofs ----------------------------
(***************************************************************************)
(* Requests and the job that stands for them.  A request that shows as     *)
(* running has a job, or a teardown that is about to end it; a workflow    *)
(* held back by the policy has no run left to resolve; a deleted workflow  *)
(* has nothing left that could act on it.  All three relate a row that one *)
(* statement writes to rows that other operations read before it and write *)
(* after it.                                                               *)
(***************************************************************************)
EXTENDS LedgerProofs, HoldProofs

\* The requests that wait for the job slot.
Queued == {"unscheduled", "paused"}

\* How a statement changes the request of run v: it is created, leaves the queue or
\* moves within it, gets the job slot, is begun, is superceded by a newer one, or is
\* ended by a teardown.
RequestMoved(v) ==
    \/ request'[v] = request[v]
    \/ CreateInvocationRequest /\ v = workflow.target + 1 /\ request'[v] = "unscheduled"
    \/ request[v] \in Queued /\ request'[v] \in Queued \cup {"abandoned"}
    \/ \E p \in Tasks :
         /\ At(p, "schedule_upsert") /\ task[p].version = v
         /\ UpsertMatches(v, task[p].current, task[p].mode)
         /\ UpsertJobAndSchedule(v, task[p].current, task[p].mode)
         /\ request'[v] = "scheduled" /\ job'.version = v
    \/ request[v] = "scheduled" /\ request'[v] = "in_progress" /\ UNCHANGED workflow
    \/ /\ request'[v] = "superceded"
       /\ \E p \in Tasks : At(p, "schedule_supercede")
    \/ /\ request'[v] \in {"completed", "failed"} /\ UNCHANGED <<workflow, job>>
       /\ \E p \in Tasks :
            (At(p, "complete_finish") \/ At(p, "fail_finish")) /\ task[p].version = v

\* Statements that leave the requests alone, and those that move the queue.
LEMMA QueueMoves ==
    ASSUME TypeOK, NEW v \in Versions,
           \/ UNCHANGED request
           \/ CreateInvocationRequest
           \/ request' = MoveRequests({"paused"}, "unscheduled")
           \/ request' = MoveRequests({"unscheduled"}, "paused")
           \/ \E vs : AbandonQueuedRequests(vs)
           \/ \E w : MarkRequestInProgress(w)
    PROVE  RequestMoved(v)
  <1>1. request \in [Versions -> RequestStatuses \cup {"absent"}]
    BY Zenon DEF TypeOK, StoreTypeOK
  <1>2. CASE UNCHANGED request
    BY <1>2, Zenon DEF RequestMoved
  <1>3. CASE CreateInvocationRequest
    <2>1. request' = [request EXCEPT ![workflow.target + 1] = "unscheduled"]
      BY <1>3, Zenon DEF CreateInvocationRequest
    <2>2. \/ request'[v] = request[v]
          \/ v = workflow.target + 1 /\ request'[v] = "unscheduled"
      BY <1>1, <2>1, Zenon
    <2> QED BY <1>3, <2>2, Zenon DEF RequestMoved
  <1>4. CASE \/ request' = MoveRequests({"paused"}, "unscheduled")
             \/ request' = MoveRequests({"unscheduled"}, "paused")
    BY <1>4, Zenon DEF MoveRequests, RequestMoved, Queued
  <1>5. ASSUME NEW vs, AbandonQueuedRequests(vs) PROVE RequestMoved(v)
    BY <1>5, Zenon DEF AbandonQueuedRequests, RequestMoved, Queued
  <1>6. ASSUME NEW w, MarkRequestInProgress(w) PROVE RequestMoved(v)
    <2>1. /\ workflow' = workflow
          /\ request' = [request EXCEPT ![w] = IF @ = "scheduled" THEN "in_progress" ELSE @]
      BY <1>6, Zenon DEF MarkRequestInProgress
    <2>2. CASE v = w
      BY <1>1, <2>1, <2>2, Zenon DEF RequestMoved
    <2>3. CASE v # w
      BY <1>1, <2>1, <2>3, Zenon DEF RequestMoved
    <2> QED BY <2>2, <2>3
  <1> QED BY <1>2, <1>3, <1>4, <1>5, <1>6, Zenon

\* Goroutines of the scheduler and the server.
LEMMA SchedulerRequests ==
    ASSUME TypeOK, SchedulerNext, NEW v \in Versions PROVE RequestMoved(v)
  <1>1. request \in [Versions -> RequestStatuses \cup {"absent"}]
    BY Zenon DEF TypeOK, StoreTypeOK
  <1>2. ASSUME NEW p \in Runners, RunnerStep(p) PROVE RequestMoved(v)
    <2>1. UNCHANGED request \/ CreateInvocationRequest
      BY <1>2, Zenon DEF RunnerStep, InvokeAdmit, CreatePeriodicRequest, ScheduleTop,
         CompleteSweep, FailSweep, CreateDuePeriodicRequest, store
    <2> QED BY <2>1, QueueMoves, Zenon
  <1>3. ASSUME NEW p \in Tasks, TaskStep(p) PROVE RequestMoved(v)
    <2>1. CASE InvokeCreate(p)
      BY <2>1, QueueMoves, Zenon DEF InvokeCreate, store
    <2>2. CASE \/ ScheduleGet(p) \/ ScheduleMark(p) \/ CompleteApply(p) \/ CompleteGet(p)
               \/ CompleteDelete(p) \/ FailGet(p) \/ FailRequeue(p) \/ FailClaim(p)
               \/ FailDelete(p)
      <3>1. UNCHANGED request
        BY <2>2, Zenon DEF ScheduleGet, ScheduleMark, CompleteApply, CompleteGet,
           CompleteDelete, FailGet, FailRequeue, FailClaim, FailDelete, MarkLifecycle,
           ApplyCompletedJob, DeleteTerminalJob, RequeueJob, ClaimFailedJob, store
      <3> QED BY <3>1, QueueMoves, Zenon
    <2>3. CASE CompleteResolve(p)
      <3>1. UNCHANGED request
        BY <2>3, SchedulerAssumption, Zenon
        DEF CompleteResolve, TryApplyStateResolution, TryApplyVersionResolution
      <3> QED BY <3>1, QueueMoves, Zenon
    <2>4. CASE FailApply(p)
      BY <2>4, QueueMoves, Zenon DEF FailApply, ApplyFailedJob, store
    <2>5. CASE ScheduleUpsert(p)
      <3> DEFINE w == task[p].version
      <3>1. At(p, "schedule_upsert") /\ UpsertJobAndSchedule(w, task[p].current, task[p].mode)
        BY <2>5, Zenon DEF ScheduleUpsert
      <3>2. CASE ~UpsertMatches(w, task[p].current, task[p].mode)
        BY <3>1, <3>2, QueueMoves, Zenon DEF UpsertJobAndSchedule, store
      <3>3. CASE UpsertMatches(w, task[p].current, task[p].mode)
        <4>1. /\ request' = [request EXCEPT ![w] = "scheduled"]
              /\ job' = [NoJob EXCEPT !.version = w, !.status = "pending",
                                      !.due = job.due, !.gate = job.gate]
          BY <3>1, <3>3, Zenon DEF UpsertJobAndSchedule
        <4>2. job'.version = w
          BY <4>1, Zenon DEF NoJob
        <4>3. CASE v = w
          <5>1. request'[v] = "scheduled"
            BY <1>1, <4>1, <4>3, Zenon
          <5> QED BY <1>3, <3>1, <3>3, <4>2, <4>3, <5>1, Zenon DEF RequestMoved
        <4>4. CASE v # w
          BY <1>1, <4>1, <4>4, Zenon DEF RequestMoved
        <4> QED BY <4>3, <4>4
      <3> QED BY <3>2, <3>3
    <2>6. CASE ScheduleSupercede(p)
      BY <1>3, <2>6, Zenon DEF ScheduleSupercede, SupercedeOlderRequests, RequestMoved
    <2>7. CASE CompleteFinish(p) \/ FailFinish(p)
      <3>1. /\ At(p, "complete_finish") \/ At(p, "fail_finish")
            /\ UNCHANGED <<workflow, job>>
            /\ \E st \in {"completed", "failed"} :
                 request' = [request EXCEPT ![task[p].version] = st]
        BY <2>7, Zenon DEF CompleteFinish, FailFinish, CompleteRequestRow, FailRequestRow
      <3>2. \/ request'[v] = request[v]
            \/ v = task[p].version /\ request'[v] \in {"completed", "failed"}
        BY <1>1, <3>1, Zenon
      <3> QED BY <1>3, <3>1, <3>2, Zenon DEF RequestMoved
    <2> QED BY <1>3, <2>1, <2>2, <2>3, <2>4, <2>5, <2>6, <2>7, Zenon DEF TaskStep
  <1>4. CASE \E p \in Tasks : TaskFault(p) \/ DeleteFault(p)
    BY <1>4, QueueMoves, Zenon DEF TaskFault, DeleteFault, store
  <1>5. CASE Sweep
    BY <1>5, QueueMoves, Zenon DEF Sweep, ReconcileWorkflowLifecycles,
       MarkOrphanedJobsFailed, SweepRequestsInProgress, ExpireCooldowns
  <1> QED BY <1>2, <1>3, <1>4, <1>5, Zenon DEF SchedulerNext

\* Sessions mark a request begun at most.
LEMMA SessionRequests ==
    ASSUME TypeOK, NEW s \in Sessions, SessionStep(s), NEW v \in Versions
    PROVE  RequestMoved(v)
  <1>1. UNCHANGED request \/ MarkInProgress(s)
    BY ZenonT(40)
    DEF SessionStep, Acquire, CompleteAcquired, Dispatch, MarkInvoking, MarkParked, Launch,
        LaunchFails, Acknowledge, AcknowledgeTimeout, OperationCompletes,
        OperationHasNext, OperationOpensGate, OperationFails, SessionBreaks, TakeSignal,
        OperationTimeout, Finish, Renew, LoseLease, Release, Reconnect, SessionCrash,
        SessionFault, CompleteOperation, FailOperation, store, AcquireJob, DispatchJob,
        UpdateJobStatus, UpdateJobWithMetrics, ParkJob, RenewJobLease, ReleaseJob,
        MarkLifecycle, MarkAwaiting
  <1> QED BY <1>1, QueueMoves, Zenon DEF MarkInProgress

\* Time, gates, operators and reconcilers.
LEMMA OperatorRequests ==
    ASSUME TypeOK, LeaseAges \/ DelayPasses \/ DecideGate \/ LifecycleNext,
           NEW v \in Versions
    PROVE  RequestMoved(v)
  <1>1. CASE \/ LeaseAges \/ DelayPasses \/ DecideGate \/ ActivateWorkflow
             \/ AcknowledgeInterruption \/ SetWorkflowConfig \/ SweepAbandoned
    <2>1. UNCHANGED request
      BY <1>1, Zenon DEF LeaseAges, DelayPasses, DecideGate, ActivateWorkflow,
         AcknowledgeInterruption, SetWorkflowConfig, SweepAbandoned, ResolveGate,
         TryActivateWorkflow, ResolveInterruptedWorkflow, UpdateConfig, SweepAbandonedJobs
    <2> QED BY <2>1, QueueMoves, Zenon
  <1>2. CASE AbandonQueued \/ \E a \in Admins : DeleteAbandon(a)
    BY <1>2, QueueMoves, Zenon DEF AbandonQueued, DeleteAbandon
  <1>3. ASSUME NEW a \in Admins, \/ SuspendWorkflow(a) \/ SuspendAbort(a) \/ ResumeRestore(a)
        PROVE  RequestMoved(v)
    BY <1>3, QueueMoves, Zenon DEF SuspendWorkflow, SuspendAbort, ResumeRestore,
       MarkSuspensionRequested, AbortSuspension, RestoreFromSuspension, store
  <1>4. ASSUME NEW a \in Admins,
               \/ SuspendFinalize(a) \/ DeleteWorkflow(a) \/ DeleteFinalize(a)
               \/ ReconcileSuspension(a) \/ SuspendAbandon(a) \/ SuspendCheck(a)
               \/ ResumeWorkflow(a) \/ ReconcileDeletion(a) \/ DeleteCheck(a)
               \/ AdminFault(a)
        PROVE  RequestMoved(v)
    <2>1. UNCHANGED request
      BY <1>4, Zenon DEF SuspendFinalize, DeleteWorkflow, DeleteFinalize,
         ReconcileSuspension, SuspendAbandon, SuspendCheck, ResumeWorkflow,
         ReconcileDeletion, DeleteCheck, AdminFault, FinalizeSuspended,
         MarkDeletionRequested, FinalizeDeleted, MarkAbandonRequested, store
    <2> QED BY <2>1, QueueMoves, Zenon
  <1> QED BY <1>1, <1>2, <1>3, <1>4, Zenon DEF LifecycleNext, AdminStep

\* Every step.
LEMMA NextRequests ==
    ASSUME TypeOK, [Next]_vars, NEW v \in Versions PROVE RequestMoved(v)
  <1>1. CASE UNCHANGED vars
    BY <1>1, QueueMoves, Zenon DEF vars, store
  <1> QED BY <1>1, SchedulerRequests, SessionRequests, OperatorRequests, Zenon
          DEF Next, Scheduling, SessionNext

-----------------------------------------------------------------------------
(* Requests that show as running.                                          *)

\* A session runs an operation of the scheduler only while it waits for it.
SessionWaits ==
    \A s \in Sessions : ~At(s, "idle") => session[s].pc \in {"finishing", "leaving"}

FinishPcs == {"complete_finish", "fail_finish"}

\* In queue mode: a run that shows as running has the job, or a teardown that deleted
\* it and ends the request next.
RunningInv ==
    \A v \in Versions :
      Running(v) =>
        \/ job.version = v
        \/ \E p \in Tasks : task[p].version = v /\ task[p].pc \in FinishPcs

StrandedInv == SessionWaits /\ RunningInv
\* An operation moves its own task only, and an idle goroutine has none.
LEMMA OwnTask ==
    ASSUME TypeOK, NEW p \in Tasks, NEW q \in Tasks,
           RunnerStep(p) \/ TaskStep(p) \/ TaskFault(p) \/ DeleteFault(p)
    PROVE  /\ q # p => task'[q] = task[q]
           /\ TaskStep(p) \/ TaskFault(p) \/ DeleteFault(p) => ~At(p, "idle")
  <1>1. CASE ScheduleGet(p) \/ CompleteGet(p)
    <2>1. q # p => task'[q] = task[q]
      <3>1. task \in [Tasks -> Task]
        BY Zenon DEF TypeOK, SchedulerTypeOK
      <3>2. CASE \E x : task' = [task EXCEPT ![p] = x]
        BY <3>1, <3>2, Zenon
      <3> QED BY <1>1, <3>2, Zenon DEF ScheduleGet, CompleteGet, Done
    <2>2. ~At(p, "idle")
      BY <1>1, Zenon DEF ScheduleGet, CompleteGet, At
    <2> QED BY <2>1, <2>2
  <1>2. CASE ~(ScheduleGet(p) \/ CompleteGet(p))
    <2>1. \/ Done(p) \/ \E pc : Goto(p, pc)
          \/ \E pc, v, n : Begin(p, pc, v, n)
      BY <1>2, ZenonT(40) DEF RunnerStep, InvokeAdmit, CreatePeriodicRequest, ScheduleTop,
         CompleteSweep, FailSweep, TaskStep, InvokeCreate, ScheduleUpsert,
         ScheduleSupercede, ScheduleMark, CompleteApply, CompleteResolve, CompleteDelete,
         CompleteFinish, FailGet, FailRequeue, FailClaim, FailApply, FailDelete,
         FailFinish, TaskFault, DeleteFault
    <2>2. q # p => task'[q] = task[q]
      BY <2>1, TaskFields, Zenon
    <2>3. TaskStep(p) \/ TaskFault(p) \/ DeleteFault(p) => ~At(p, "idle")
      BY <1>2, ZenonT(40) DEF TaskStep, InvokeCreate, ScheduleUpsert,
         ScheduleSupercede, ScheduleMark, CompleteApply, CompleteResolve, CompleteDelete,
         CompleteFinish, FailGet, FailRequeue, FailClaim, FailApply, FailDelete,
         FailFinish, TaskFault, DeleteFault, At
    <2> QED BY <2>2, <2>3
  <1> QED BY <1>1, <1>2

\* How a step of a session changes its task: the session begins the teardown of the
\* run it ends, or loses what it was at when its process dies.
LEMMA SessionTask ==
    ASSUME TypeOK, NEW s \in Sessions, SessionStep(s), NEW q \in Tasks
    PROVE  /\ q # s => task'[q] = task[q]
           /\ \/ task' = task
              \/ faults < MaxFaults /\ At(s, "idle")'
              \/ /\ session[s].pc \in ActivePcs
                 /\ session'[s].pc \in {"finishing", "leaving"}
  <1>1. s \in Tasks
    BY SessionTasks
  <1>2. CASE SessionCrash(s)
    BY <1>1, <1>2, TaskFields, Zenon DEF SessionCrash, At
  <1>3. CASE \/ CompleteAcquired(s) \/ OperationCompletes(s)
             \/ OperationFails(s) \/ SessionBreaks(s)
    <2>1. /\ session[s].pc \in ActivePcs
          /\ \/ UNCHANGED task
             \/ \E pc, v, n : /\ Begin(s, pc, v, n)
                              /\ \E to \in {"finishing", "leaving"} : SessionGoto(s, to)
      BY <1>3, Zenon DEF CompleteAcquired, OperationCompletes, OperationFails, SessionBreaks,
         CompleteOperation, FailOperation, In, ActivePcs
    <2>2. q # s => task'[q] = task[q]
      BY <1>1, <2>1, TaskFields, Zenon
    <2>3. UNCHANGED task \/ session'[s].pc \in {"finishing", "leaving"}
      BY <2>1, SessionFields, Zenon
    <2> QED BY <2>1, <2>2, <2>3, Zenon
  <1>4. CASE ~(\/ CompleteAcquired(s) \/ OperationCompletes(s) \/ OperationFails(s)
               \/ SessionBreaks(s) \/ SessionCrash(s))
    BY <1>4, Zenon DEF SessionStep, Acquire, Dispatch, MarkInvoking, MarkInProgress, Launch,
       LaunchFails, Acknowledge, AcknowledgeTimeout, OperationHasNext, OperationOpensGate,
       MarkParked, TakeSignal, OperationTimeout, Finish, Renew, LoseLease, Release,
       Reconnect, SessionFault, NoTask, schedulerVars
  <1> QED BY <1>2, <1>3, <1>4

\* A session that waits for its teardown goes on when the teardown has returned.
LEMMA SessionFinishes ==
    ASSUME TypeOK, NEW s \in Sessions, SessionStep(s),
           session[s].pc \in {"finishing", "leaving"}
    PROVE  session'[s].pc = session[s].pc \/ At(s, "idle")'
  <1>1. Finish(s) \/ Release(s) \/ SessionCrash(s)
    BY Zenon DEF SessionStep, Acquire, CompleteAcquired, Dispatch, MarkInvoking,
       MarkInProgress, Launch, LaunchFails, Acknowledge, AcknowledgeTimeout,
       OperationCompletes, OperationHasNext, OperationOpensGate, MarkParked,
       OperationFails, SessionBreaks, TakeSignal, OperationTimeout, Renew, LoseLease,
       Reconnect, SessionFault, In, ActivePcs
  <1>2. CASE Finish(s)
    BY <1>2, Zenon DEF Finish, NoTask, schedulerVars, At
  <1>3. CASE Release(s)
    BY <1>3 DEF Release, TypeOK, SessionTypeOK, Session
  <1>4. CASE SessionCrash(s)
    BY <1>4, SessionTasks, TaskFields, Zenon DEF SessionCrash, At
  <1> QED BY <1>1, <1>2, <1>3, <1>4

\* Every step keeps what sessions wait for.
LEMMA NextWaits ==
    ASSUME TypeOK, SessionWaits, [Next]_vars PROVE SessionWaits'
  <1> SUFFICES ASSUME NEW s \in Sessions, ~At(s, "idle")'
               PROVE  session'[s].pc \in {"finishing", "leaving"}
    BY Zenon DEF SessionWaits
  <1>1. s \in Tasks /\ s \notin Runners
    BY SessionTasks, SchedulerAssumption, Zenon
  <1>2. CASE Scheduling(SchedulerNext)
    <2>1. session' = session
      BY <1>2, Zenon DEF Scheduling, sessionVars
    <2>2. ~At(s, "idle")
      <3>1. ASSUME NEW p \in Runners, RunnerStep(p) PROVE task'[s] = task[s]
        BY <1>1, <3>1, OwnTask, Zenon DEF Tasks
      <3>2. ASSUME NEW p \in Tasks, TaskStep(p) \/ TaskFault(p) \/ DeleteFault(p)
            PROVE  ~At(s, "idle")
        <4>1. CASE p = s
          BY <3>2, <4>1, OwnTask, Zenon
        <4>2. CASE p # s
          BY <1>1, <3>2, <4>2, OwnTask, Zenon DEF At
        <4> QED BY <4>1, <4>2
      <3>3. CASE Sweep
        BY <3>3, Zenon DEF Sweep, schedulerVars, At
      <3> QED BY <1>2, <3>1, <3>2, <3>3, Zenon DEF Scheduling, SchedulerNext, At
    <2> QED BY <2>1, <2>2, Zenon DEF SessionWaits
  <1>3. ASSUME NEW t \in Sessions, SessionStep(t), t # s
        PROVE  session'[s].pc \in {"finishing", "leaving"}
    <2>1. session'[s] = session[s]
      BY <1>3, SessionSteps, Zenon DEF SessionMoved
    <2>2. task'[s] = task[s]
      BY <1>1, <1>3, SessionTask, Zenon
    <2> QED BY <1>3, <2>1, <2>2, Zenon DEF SessionWaits, At
  <1>4. CASE SessionStep(s)
    BY <1>1, <1>4, SessionTask, SessionFinishes, Zenon DEF SessionWaits, At
  <1>5. CASE LeaseAges \/ DelayPasses \/ DecideGate \/ LifecycleNext
    BY <1>5, OperatorsLeaveProcesses, Zenon DEF SessionWaits, At
  <1>6. CASE UNCHANGED vars
    BY <1>6, Zenon DEF vars, schedulerVars, sessionVars, SessionWaits, At
  <1> QED BY <1>2, <1>3, <1>4, <1>5, <1>6, Zenon DEF Next, SessionNext

\* Without faults a teardown at its last statement stays there until it has ended the
\* request.
LEMMA FinishKept ==
    ASSUME TypeOK, SessionWaits, MaxFaults = 0, [Next]_vars,
           NEW p \in Tasks, task[p].pc \in FinishPcs, task[p].version \in Versions
    PROVE  task'[p] = task[p] \/ request'[task[p].version] \in TerminalRequest
  <1> USE DEF FinishPcs
  <1>1. ~(faults < MaxFaults)
    BY SMT DEF TypeOK, SchedulerTypeOK
  <1>2. ASSUME NEW q \in Tasks, RunnerStep(q) \/ TaskStep(q) \/ TaskFault(q) \/ DeleteFault(q)
        PROVE  task'[p] = task[p] \/ request'[task[p].version] \in TerminalRequest
    <2>1. CASE q # p
      BY <1>2, <2>1, OwnTask, Zenon
    <2>2. CASE q = p
      <3>1. CompleteFinish(p) \/ FailFinish(p)
        BY <1>1, <1>2, <2>2, ZenonT(40)
        DEF RunnerStep, InvokeAdmit, CreatePeriodicRequest, ScheduleTop, CompleteSweep,
            FailSweep, TaskStep, InvokeCreate, ScheduleGet, CompleteGet, ScheduleUpsert,
            ScheduleSupercede, ScheduleMark, CompleteApply, CompleteResolve,
            CompleteDelete, FailGet, FailRequeue, FailClaim, FailApply,
            FailDelete, TaskFault, DeleteFault, At
      <3>2. \E st \in {"completed", "failed"} :
              request' = [request EXCEPT ![task[p].version] = st]
        BY <3>1, Zenon DEF CompleteFinish, FailFinish, CompleteRequestRow, FailRequestRow
      <3>3. request \in [Versions -> RequestStatuses \cup {"absent"}]
        BY Zenon DEF TypeOK, StoreTypeOK
      <3> QED BY <3>2, <3>3, Zenon DEF TerminalRequest
    <2> QED BY <2>1, <2>2
  <1>3. CASE Sweep
    BY <1>3, Zenon DEF Sweep, schedulerVars
  <1>4. CASE SchedulerNext
    BY <1>2, <1>3, <1>4, Zenon DEF SchedulerNext, Tasks
  <1>5. ASSUME NEW s \in Sessions, SessionStep(s) PROVE task'[p] = task[p]
    <2>1. CASE s # p
      BY <1>5, <2>1, SessionTask, Zenon
    <2>2. CASE s = p
      <3>1. session[s].pc \notin ActivePcs
        BY <2>2, Zenon DEF SessionWaits, At, ActivePcs
      <3> QED BY <1>1, <1>5, <3>1, SessionTask, Zenon
    <2> QED BY <2>1, <2>2
  <1>6. CASE LeaseAges \/ DelayPasses \/ DecideGate \/ LifecycleNext
    BY <1>6, OperatorsLeaveProcesses, Zenon
  <1>7. CASE UNCHANGED vars
    BY <1>7, Zenon DEF vars, schedulerVars
  <1> QED BY <1>4, <1>5, <1>6, <1>7, Zenon DEF Next, Scheduling, SessionNext

\* In queue mode the slot of a run is cleared by its teardown only, which then is
\* at its last statement.
LEMMA SlotCleared ==
    ASSUME TypeOK, JobInv, InvokeModes = {"queue"}, [Next]_vars,
           job.version # 0, job'.version # job.version
    PROVE  \E p \in Tasks : task'[p].pc \in FinishPcs /\ task'[p].version = job.version
  <1>1. PICK p \in Tasks :
          \/ /\ At(p, "schedule_upsert")
             /\ UpsertJobAndSchedule(task[p].version, task[p].current, task[p].mode)
          \/ /\ \/ At(p, "complete_delete") /\ Goto(p, "complete_finish")
                \/ At(p, "fail_delete") /\ Goto(p, "fail_finish")
             /\ DeleteTerminalJob(task[p].version)
    BY SlotStatement, Zenon
  <1>2. CASE UpsertJobAndSchedule(task[p].version, task[p].current, task[p].mode)
    <2>1. task[p].mode = "queue"
      BY Zenon DEF TypeOK, SchedulerTypeOK, Task
    <2>2. ~UpsertMatches(task[p].version, task[p].current, task[p].mode)
      BY <2>1, Zenon DEF UpsertMatches, SlotOpen, JobExists
    <2> QED BY <1>2, <2>2, Zenon DEF UpsertJobAndSchedule, store
  <1>3. CASE /\ Goto(p, "complete_finish") \/ Goto(p, "fail_finish")
             /\ DeleteTerminalJob(task[p].version)
    <2>1. task[p].version = job.version
      BY <1>3, Zenon DEF DeleteTerminalJob
    <2>2. /\ task'[p].pc \in FinishPcs /\ task'[p].version = task[p].version
      BY <1>3, TaskFields, Zenon DEF FinishPcs
    <2> QED BY <2>1, <2>2
  <1> QED BY <1>1, <1>2, <1>3, Zenon

\* The invariant is inductive.
LEMMA NextRunning ==
    ASSUME TypeOK, TypeOK', JobInv, StrandedInv, MaxFaults = 0, InvokeModes = {"queue"},
           [Next]_vars
    PROVE  StrandedInv'
  <1>1. SessionWaits'
    BY NextWaits, Zenon DEF StrandedInv
  <1>2. ASSUME NEW v \in Versions, Running(v)'
        PROVE  \/ job'.version = v
               \/ \E p \in Tasks : task'[p].version = v /\ task'[p].pc \in FinishPcs
    <2>1. v # 0
      BY SMT DEF Versions
    <2>2. CASE Running(v) /\ job.version = v
      BY <2>1, <2>2, SlotCleared, Zenon
    <2>3. ASSUME NEW p \in Tasks, task[p].version = v, task[p].pc \in FinishPcs
          PROVE  task'[p] = task[p]
      <3>1. request'[v] \notin TerminalRequest
        BY <1>2, Zenon DEF Running, TerminalRequest
      <3> QED BY <2>3, <3>1, FinishKept, Zenon DEF StrandedInv
    <2>4. CASE ~Running(v)
      <3>1. RequestMoved(v)
        BY NextRequests, Zenon
      <3> QED BY <1>2, <2>4, <3>1, Zenon DEF RequestMoved, Running, Queued
    <2> QED BY <2>2, <2>3, <2>4, Zenon DEF StrandedInv, RunningInv
  <1> QED BY <1>1, <1>2, Zenon DEF StrandedInv, RunningInv

\* Nothing runs at first.
LEMMA InitRunning == ASSUME Init PROVE StrandedInv
  <1>1. \A p \in Tasks : At(p, "idle")
    <2>1. Idle.pc = "idle"
      BY Zenon DEF Idle, NewTask
    <2> QED BY <2>1, Zenon DEF Init, SchedulerInit, At
  <1>2. SessionWaits
    BY <1>1, SessionTasks, Zenon DEF SessionWaits
  <1>3. RunningInv
    BY Zenon DEF Init, StoreInit, RunningInv, Running
  <1> QED BY <1>2, <1>3, Zenon DEF StrandedInv

\* A queued workflow on which no statement fails and no process dies strands no
\* request: one that shows as scheduled or in progress has its job, or a teardown that
\* ends it (UpsertJobAndSchedule, DeleteTerminalJob, CompleteRequestRow).
THEOREM NoRequestStranded ==
    ASSUME MaxFaults = 0, InvokeModes = {"queue"}
    PROVE  Spec => []NoStrandedRequest
  <1>1. Init => StrandedInv
    BY InitRunning
  <1>2. TypeOK /\ TypeOK' /\ JobInv /\ StrandedInv /\ [Next]_vars => StrandedInv'
    BY NextRunning
  <1>3. StrandedInv => NoStrandedRequest
    BY Zenon DEF StrandedInv, RunningInv, NoStrandedRequest, TearingDown, FinishPcs,
       CompletePcs, FailPcs
  <1> QED BY <1>1, <1>2, <1>3, JobInvariant, PTL DEF Spec

-----------------------------------------------------------------------------
(* Workflows the policy holds back.                                        *)

Cool == {"paused", "cooldown"}

\* Nobody suspends the workflow, or no rule holds it back.  When both happen a resume
\* may put the workflow on hold while an operation that validated it earlier is about
\* to schedule a run.
OneHold == SuspensionIds = {} \/ PolicyGoals \cap Cool = {}

\* A workflow nobody may suspend is not, and no completion read that it was.
NeverSuspended ==
    SuspensionIds = {} =>
      /\ workflow.state # "suspended"
      /\ \A p \in Tasks : At(p, "complete_resolve") => task[p].state # "suspended"

\* A workflow that is held back has no run to resolve, none in the job slot that is
\* still to end, and none that is about to take the slot.
CoolInv ==
    workflow.state \in Cool =>
      /\ workflow.resolved = workflow.current
      /\ job.version <= workflow.current
      /\ \A p \in Tasks :
           At(p, "schedule_upsert") => task[p].current # workflow.current

\* Nothing suspends the workflow.
LEMMA NextUnsuspended ==
    ASSUME TypeOK, NeverSuspended, [Next]_vars PROVE NeverSuspended'
  <1> SUFFICES ASSUME SuspensionIds = {}
               PROVE  /\ workflow'.state # "suspended"
                      /\ \A p \in Tasks :
                           At(p, "complete_resolve")' => task'[p].state # "suspended"
    BY Zenon DEF NeverSuspended
  <1>1. /\ workflow.state # "suspended" /\ HoldStatement
        /\ \A p \in Tasks : At(p, "complete_resolve") => task[p].state # "suspended"
    BY NextHolds, Zenon DEF NeverSuspended
  <1>2. ASSUME NEW r, NEW st, NEW v, TryApplyStateResolution(r, st, v)
        PROVE  workflow'.state \in {workflow.state, st}
    BY <1>2, Zenon DEF TryApplyStateResolution, TypeOK, StoreTypeOK, WorkflowRow
  <1>3. workflow'.state # "suspended"
    BY <1>1, <1>2, Zenon DEF HoldStatement
  <1>4. ASSUME NEW q \in Tasks, task'[q].pc = "complete_resolve"
        PROVE  task'[q].state # "suspended"
    <2>1. TaskMoved(q)
      BY NextStatements, Zenon
    <2>2. CASE task'[q] = task[q]
      BY <1>1, <1>4, <2>2, Zenon DEF At
    <2>3. CASE task'[q] # task[q]
      BY <1>1, <1>4, <2>1, <2>3, Zenon DEF TaskMoved
    <2> QED BY <2>2, <2>3
  <1> QED BY <1>3, <1>4, Zenon DEF At

\* How a workflow comes to be held back: by a resolution that matched, unless it was
\* already.
LEMMA CoolStatement ==
    ASSUME TypeOK, NeverSuspended, OneHold, [Next]_vars, workflow'.state \in Cool
    PROVE  \/ workflow.state \in Cool
           \/ \E p \in Tasks : \E st, v :
                /\ At(p, "complete_resolve") /\ ResolutionMatches(task[p].current)
                /\ TryApplyStateResolution(task[p].current, st, v)
  <1> USE DEF Cool
  <1>1. HoldStatement
    BY NextHolds
  <1>2. ASSUME NEW id, NEW stop, MarkSuspensionRequested(id, stop)
        PROVE  workflow'.state = "suspended"
    BY <1>2, Zenon DEF MarkSuspensionRequested, TypeOK, StoreTypeOK, WorkflowRow
  <1>3. ASSUME NEW r, NEW st, NEW v, TryApplyStateResolution(r, st, v)
        PROVE  ResolutionMatches(r) \/ workflow' = workflow
    BY <1>3, Zenon DEF TryApplyStateResolution
  <1>4. ~(workflow'.state \in PolicyGoals \cap {"paused", "cooldown"} /\ workflow.state = "suspended")
    BY Zenon DEF OneHold, NeverSuspended
  <1> QED BY <1>1, <1>2, <1>3, <1>4, Zenon DEF HoldStatement

\* A workflow that is held back stays resolved, with nothing to run.
LEMMA CoolKept ==
    ASSUME Holds, CoolInv, workflow.state \in Cool
    PROVE  /\ workflow'.resolved = workflow'.current
           /\ job'.version <= workflow'.current
           /\ \A p \in Tasks :
                At(p, "schedule_upsert")' => task'[p].current # workflow'.current
  <1>1. /\ workflow.current \in Nat /\ workflow'.current \in Nat
        /\ workflow.resolved \in Nat /\ workflow'.resolved \in Nat
        /\ job.version \in Nat /\ job'.version \in Nat
    BY VersionNumbers, VersionNumbersNext, Zenon DEF Holds
  <1>2. workflow'.current = workflow.current
    BY <1>1, RecordsSlot, SMT DEF CoolInv
  <1>3. workflow'.resolved = workflow'.current
    BY <1>1, <1>2, SMT DEF Holds, RowsAdvance, VersionOrder, CoolInv
  <1>4. job'.version <= workflow'.current
    <2>1. ASSUME NEW p \in Tasks, At(p, "schedule_upsert"),
                 UpsertJobAndSchedule(task[p].version, task[p].current, task[p].mode)
          PROVE  job' = job
      BY <2>1, Zenon DEF UpsertJobAndSchedule, UpsertMatches, CoolInv, store
    <2>2. ASSUME NEW v, DeleteTerminalJob(v) PROVE job'.version \in {0, job.version}
      BY <2>2, Zenon DEF DeleteTerminalJob, NoJob
    <2>3. job'.version \in {0, job.version}
      BY <2>1, <2>2, SlotStatement, Zenon DEF Holds
    <2> QED BY <1>1, <1>2, <2>3, SMT DEF CoolInv
  <1>5. ASSUME NEW q \in Tasks, task'[q].pc = "schedule_upsert"
        PROVE  task'[q].current # workflow'.current
    <2>1. TaskMoved(q)
      BY NextStatements, Zenon DEF Holds
    <2>2. task'[q] = task[q]
      BY <1>5, <2>1, Zenon DEF TaskMoved, Schedulable, Cool
    <2> QED BY <1>2, <1>5, <2>2, Zenon DEF CoolInv, At
  <1> QED BY <1>3, <1>4, <1>5, Zenon DEF At

\* A resolution that holds the workflow back resolves the run that ended last, which
\* is why nothing can be about to run.
LEMMA CoolBegins ==
    ASSUME Holds, NEW p \in Tasks, NEW st, NEW v, At(p, "complete_resolve"),
           ResolutionMatches(task[p].current),
           TryApplyStateResolution(task[p].current, st, v)
    PROVE  /\ workflow'.resolved = workflow'.current
           /\ job'.version <= workflow'.current
           /\ \A q \in Tasks :
                At(q, "schedule_upsert")' => task'[q].current # workflow'.current
  <1>1. /\ workflow.current \in Nat /\ workflow.resolved \in Nat
        /\ job.version \in Nat /\ task[p].current \in Nat
    BY VersionNumbers, Zenon DEF Holds
  <1>2. /\ workflow' = [workflow EXCEPT !.resolved = task[p].current, !.state = st,
                                        !.decided = v]
        /\ job' = job
    BY Zenon DEF TryApplyStateResolution
  <1>3. /\ workflow'.resolved = task[p].current
        /\ workflow'.current = workflow.current
    BY <1>2, Zenon DEF Holds, TypeOK, StoreTypeOK, WorkflowRow
  <1>4. workflow.resolved < task[p].current
    BY Zenon DEF ResolutionMatches
  <1>5. task[p].current = workflow.current /\ workflow.resolved # workflow.current
    <2>1. task[p].current = workflow.current \/ task[p].current <= workflow.resolved
      BY Zenon DEF Holds, LedgerInv, TeardownOK
    <2> QED BY <1>1, <1>4, <2>1, SMT
  <1>6. job.version <= workflow.current
    BY <1>1, <1>5, SMT DEF Holds, LedgerInv, SlotResolved
  <1>7. ASSUME NEW q \in Tasks, task'[q].pc = "schedule_upsert"
        PROVE  task'[q].current # workflow'.current
    <2>1. TaskMoved(q)
      BY NextStatements, Zenon DEF Holds
    <2>2. task'[q] = task[q]
      BY <1>5, <1>7, <2>1, Zenon DEF TaskMoved, Schedulable
    <2> QED BY <1>3, <1>5, <1>7, <2>2, Zenon DEF Holds, VersionInv, UpsertValidated, At
  <1> QED BY <1>2, <1>3, <1>5, <1>6, <1>7, Zenon DEF At

\* The invariant is inductive.
LEMMA NextCool ==
    ASSUME Holds, OneHold, NeverSuspended, CoolInv PROVE CoolInv'
  <1> SUFFICES ASSUME workflow'.state \in Cool
               PROVE  /\ workflow'.resolved = workflow'.current
                      /\ job'.version <= workflow'.current
                      /\ \A q \in Tasks :
                           At(q, "schedule_upsert")' => task'[q].current # workflow'.current
    BY Zenon DEF CoolInv
  <1>1. TypeOK /\ [Next]_vars
    BY Zenon DEF Holds
  <1>2. CASE workflow.state \in Cool
    BY <1>2, CoolKept, Zenon
  <1>3. CASE workflow.state \notin Cool
    <2>1. PICK p \in Tasks : \E st, v :
            /\ At(p, "complete_resolve") /\ ResolutionMatches(task[p].current)
            /\ TryApplyStateResolution(task[p].current, st, v)
      BY <1>1, <1>3, CoolStatement, Zenon
    <2> QED BY <2>1, CoolBegins, Zenon
  <1> QED BY <1>2, <1>3

\* A workflow shown as paused or cooling down has no run left to resolve, so what
\* wakes it up cannot be undone by the resolution of an older run
\* (TryApplyStateResolution, validateWorkflowState against UpsertJobAndSchedule).
THEOREM HeldAreResolved ==
    ASSUME ~Stalls, OneHold PROVE Spec => []HeldIsResolved
  <1>1. Init => NeverSuspended /\ CoolInv
    <2>1. Idle.pc = "idle"
      BY Zenon DEF Idle, NewTask
    <2>2. Init => /\ workflow.state = "paused" /\ workflow.resolved = workflow.current
                  /\ job.version = 0 /\ workflow.current = 0
      BY SMT DEF Init, StoreInit, NoJob
    <2>3. Init => \A p \in Tasks : task[p].pc = "idle"
      BY <2>1, Zenon DEF Init, SchedulerInit
    <2> QED BY <2>2, <2>3 DEF NeverSuspended, CoolInv, At
  <1>2. /\ TypeOK /\ VersionInv /\ JobInv /\ SessionsOK /\ LedgerInv
        /\ TypeOK' /\ VersionInv' /\ [Next]_vars /\ NeverSuspended /\ CoolInv
        => NeverSuspended' /\ CoolInv'
    BY NextVersions, NextUnsuspended, NextCool, Zenon DEF Holds
  <1>3. CoolInv => HeldIsResolved
    BY Zenon DEF CoolInv, HeldIsResolved, Cool
  <1> QED BY <1>1, <1>2, <1>3, LedgerInvariant, PTL DEF Spec

-----------------------------------------------------------------------------
(* The job of a run and the status of its request.                         *)

\* A request that has had the job slot.
Taken(v) == request[v] \notin Queued \cup {"absent"}

\* The operations that work on a run that is over.
OverPcs == CompletePcs \cup {"fail_apply", "fail_delete", "fail_finish"}

\* Run v was begun, and is over if it still has the slot.
RunIsOver(v) ==
    /\ v \in Versions
    /\ Taken(v)
    /\ job.version = v => job.status \in Over

\* A job whose run is not over, or whose end is not recorded, belongs to a request
\* that shows as running.
SlotRuns ==
    JobExists =>
      /\ Taken(job.version)
      /\ job.status \notin Over \/ job.version > workflow.current => Running(job.version)

\* The same from the side of the teardowns, for workflows that queue.
SlotInv ==
    /\ SlotRuns
    /\ \A p \in Tasks : task[p].pc \in OverPcs => RunIsOver(task[p].version)
    /\ \A p \in Tasks : ~At(p, "schedule_supercede")

\* A request that had the slot does not return to the queue.
LEMMA TakenStays ==
    ASSUME Holds, NEW v \in Versions, Taken(v) PROVE request'[v] \notin Queued \cup {"absent"}
  <1>1. RequestMoved(v)
    BY NextRequests, Zenon DEF Holds
  <1>2. ~(v = workflow.target + 1)
    <2>1. request[v] # "absent"
      BY Zenon DEF Taken
    <2>2. v <= workflow.target
      BY <2>1, Zenon DEF Holds, VersionInv, VersionsAllocated
    <2> QED BY <2>2, RowTypes, SMT DEF Holds, TypeOK, Versions
  <1> QED BY <1>1, <1>2, Zenon DEF RequestMoved, Taken, Queued

\* The slot goes to another run only together with the request of that run, out of
\* the queue.
LEMMA SlotTaken ==
    ASSUME Holds, job'.version # job.version, job'.version # 0
    PROVE  /\ job'.version \in Versions
           /\ request[job'.version] = "unscheduled"
           /\ request'[job'.version] = "scheduled"
  <1>1. ASSUME NEW w, DeleteTerminalJob(w) PROVE job'.version \in {0, job.version}
    BY <1>1, Zenon DEF DeleteTerminalJob, NoJob
  <1>2. PICK p \in Tasks :
          /\ At(p, "schedule_upsert")
          /\ UpsertJobAndSchedule(task[p].version, task[p].current, task[p].mode)
    BY <1>1, SlotStatement, Zenon DEF Holds
  <1>3. task[p].version \in Versions
    BY <1>2, Zenon DEF Holds, JobInv, SchedulesRequest
  <1>4. UpsertMatches(task[p].version, task[p].current, task[p].mode)
    BY <1>2, Zenon DEF UpsertJobAndSchedule, store
  <1>5. /\ job'.version = task[p].version
        /\ request' = [request EXCEPT ![task[p].version] = "scheduled"]
    BY <1>2, <1>4, Zenon DEF UpsertJobAndSchedule, NoJob
  <1>6. request[task[p].version] = "unscheduled"
    BY <1>4, Zenon DEF UpsertMatches
  <1> QED BY <1>3, <1>5, <1>6, Zenon DEF Holds, TypeOK, StoreTypeOK

\* A run that is over stays over.
LEMMA OverRunStays ==
    ASSUME Holds, NEW v, RunIsOver(v)
    PROVE  /\ v \in Versions
           /\ request'[v] \notin Queued \cup {"absent"}
           /\ job'.version = v => job'.status \in Over
  <1>1. v \in Versions /\ Taken(v) /\ v # 0 /\ NoJob.version = 0
    <2>1. v \in Versions /\ Taken(v) /\ NoJob.version = 0
      BY Zenon DEF RunIsOver, NoJob
    <2> QED BY <2>1, SMT DEF Versions
  <1>2. request'[v] \notin Queued \cup {"absent"}
    BY <1>1, TakenStays, Zenon
  <1>3. ASSUME job'.version = v PROVE job'.status \in Over
    <2>1. CASE job.version = v
      BY <1>1, <1>3, <2>1, OverStays, Zenon DEF RunIsOver
    <2>2. CASE job.version # v
      BY <1>1, <1>3, <2>2, SlotTaken, Zenon DEF Taken, Queued
    <2> QED BY <2>1, <2>2
  <1> QED BY <1>1, <1>2, <1>3, Zenon

\* The slot keeps a request that shows as running.
LEMMA SlotRunsKept ==
    ASSUME Holds, SlotInv PROVE SlotRuns'
  <1> SUFFICES ASSUME job'.version # 0
               PROVE  /\ request'[job'.version] \notin Queued \cup {"absent"}
                      /\ job'.status \notin Over \/ job'.version > workflow'.current
                           => request'[job'.version] \in {"scheduled", "in_progress"}
    BY Zenon DEF SlotRuns, JobExists, Taken, Running
  <1>1. CASE job'.version # job.version
    BY <1>1, SlotTaken, Zenon DEF Taken, Running, Queued
  <1>2. CASE job'.version = job.version
    <2> DEFINE v == job.version
    <2>1. /\ v \in Nat /\ workflow.current \in Nat /\ workflow'.current \in Nat
          /\ workflow.current <= workflow'.current
      BY VersionNumbers, VersionNumbersNext, Zenon DEF Holds, RowsAdvance
    <2>2. v \in Versions /\ JobExists /\ NoJob.version = 0
      <3>1. v \in 0 .. MaxRequests /\ v # 0
        BY <1>2, Zenon DEF Holds, TypeOK, StoreTypeOK, JobRow
      <3> QED BY <3>1, SMT DEF Versions, JobExists, NoJob
    <2>3. request'[v] \notin Queued \cup {"absent"}
      BY <2>2, TakenStays, Zenon DEF SlotInv, SlotRuns
    <2>4. ASSUME job'.status \notin Over \/ v > workflow'.current
          PROVE  request'[v] \in {"scheduled", "in_progress"}
      <3>1. job.status \notin Over \/ v > workflow.current
        <4>1. job.status \in Over => job'.status \in Over
          BY <1>2, <2>2, OverStays, Zenon DEF JobExists
        <4> QED BY <2>1, <2>4, <4>1, SMT
      <3>2. Running(v)
        BY <2>2, <3>1, Zenon DEF SlotInv, SlotRuns
      <3>3. RequestMoved(v)
        BY <2>2, NextRequests, Zenon DEF Holds
      <3>4. ASSUME NEW p \in Tasks, At(p, "complete_finish") \/ At(p, "fail_finish"),
                   task[p].version = v
            PROVE  FALSE
        <4>1. v <= workflow.current
          BY <3>4, Zenon DEF Holds, LedgerInv, TeardownOK, At
        <4>2. job.status \in Over
          BY <3>4, Zenon DEF SlotInv, RunIsOver, OverPcs, CompletePcs, At
        <4> QED BY <2>1, <3>1, <4>1, <4>2, SMT
      <3> QED BY <2>3, <3>2, <3>3, <3>4, Zenon DEF RequestMoved, Running, Queued, SlotInv
    <2> QED BY <1>2, <2>3, <2>4, SMT
  <1> QED BY <1>1, <1>2

\* The invariant is inductive.
LEMMA NextSlot ==
    ASSUME Holds, SlotInv, InvokeModes = {"queue"} PROVE SlotInv'
  <1>1. SlotRuns'
    BY SlotRunsKept
  <1>2. TypeOK /\ TypeOK' /\ job \in JobRow
    BY Zenon DEF Holds, TypeOK, StoreTypeOK
  <1>3. ASSUME job.status \in Over \cup {"failed"} PROVE job.version \in Versions /\ Taken(job.version)
    <2>1. JobExists
      <3>1. NoJob.status \notin Over \cup {"failed"}
        BY SMT DEF NoJob, Over
      <3> QED BY <1>3, <3>1, Zenon DEF Holds, JobInv, NoHalfJob
    <2>2. job.version \in 0 .. MaxRequests /\ job.version # 0
      BY <1>2, <2>1, Zenon DEF JobRow, JobExists
    <2> QED BY <2>1, <2>2, SMT DEF SlotInv, SlotRuns, Versions
  <1>4. ASSUME NEW q \in Tasks, task'[q].pc \in OverPcs
        PROVE  /\ task'[q].version \in Versions
               /\ request'[task'[q].version] \notin Queued \cup {"absent"}
               /\ job'.version = task'[q].version => job'.status \in Over
    <2>1. TaskMoved(q)
      BY NextStatements, Zenon DEF Holds
    <2>2. CASE task[q].pc \in OverPcs /\ task'[q].version = task[q].version
      BY <2>2, OverRunStays, Zenon DEF SlotInv
    <2>3. CASE /\ task'[q].pc = "complete_apply" /\ job' = job
               /\ task'[q].version = job.version /\ job.status = "completed"
      <3>1. RunIsOver(job.version)
        BY <1>3, <2>3, Zenon DEF RunIsOver, Over
      <3> QED BY <2>3, <3>1, OverRunStays, Zenon
    <2>4. CASE EndedBySession(q, "completed")
      <3>1. /\ task'[q].version = job.version /\ job'.version = job.version
            /\ job'.status = "completed" /\ JobExists
        <4>1. /\ q \in Sessions /\ session[q].pc \in ActivePcs /\ Owns(q)
              /\ task'[q].version = session[q].version /\ UpdateJobStatus(q, "completed")
          BY <2>4, Zenon DEF EndedBySession
        <4>2. job.version = session[q].version
          BY <4>1, Zenon DEF Holds, SessionsOK, SessionOK
        <4>3. job'.version = job.version /\ job'.status = "completed"
          BY <1>2, <4>1, Zenon DEF UpdateJobStatus, JobRow
        <4>4. JobExists
          BY <4>1, StoreAssumption, SMT DEF Holds, JobInv, NoHalfJob, NoJob, Owns
        <4> QED BY <4>1, <4>2, <4>3, <4>4, Zenon
      <3>2. job.version \in Versions /\ Taken(job.version)
        <4>1. job.version \in 0 .. MaxRequests /\ job.version # 0
          BY <1>2, <3>1, Zenon DEF JobRow, JobExists
        <4> QED BY <3>1, <4>1, SMT DEF SlotInv, SlotRuns, Versions
      <3>3. request'[job.version] \notin Queued \cup {"absent"}
        BY <3>2, TakenStays, Zenon
      <3> QED BY <3>1, <3>2, <3>3, Zenon DEF Over
    <2>5. CASE /\ task'[q].version = task[q].version
               /\ ClaimMatches(task[q].version, task[q].attempts)
               /\ ClaimFailedJob(task[q].version, task[q].attempts)
      <3>1. /\ task'[q].version = job.version /\ job'.version = job.version
            /\ job'.status = "terminal_failed" /\ job.status \in {"failed", "terminal_failed"}
        BY <1>2, <2>5, Zenon DEF ClaimMatches, ClaimFailedJob, JobRow
      <3>2. job.version \in Versions /\ Taken(job.version)
        BY <1>3, <3>1, Zenon DEF Over
      <3>3. request'[job.version] \notin Queued \cup {"absent"}
        BY <3>2, TakenStays, Zenon
      <3> QED BY <3>1, <3>2, <3>3, Zenon DEF Over
    <2>6. CASE task'[q] = task[q]
      BY <1>4, <2>2, <2>6, Zenon
    <2> QED BY <1>4, <2>1, <2>2, <2>3, <2>4, <2>5, <2>6, Zenon
            DEF TaskMoved, OverPcs, CompletePcs, At
  <1>5. ASSUME NEW q \in Tasks PROVE ~At(q, "schedule_supercede")'
    <2>1. TaskMoved(q)
      BY NextStatements, Zenon DEF Holds
    <2>2. task[q].mode = "queue" /\ ~At(q, "schedule_supercede")
      BY <1>2, Zenon DEF TypeOK, SchedulerTypeOK, Task, SlotInv
    <2> QED BY <2>1, <2>2, Zenon DEF TaskMoved, At
  <1>6. \A p \in Tasks : (task[p].pc \in OverPcs => RunIsOver(task[p].version))'
    BY <1>4, Zenon DEF RunIsOver, Taken
  <1> QED BY <1>1, <1>5, <1>6, Zenon DEF SlotInv

\* There is no job at first.
LEMMA InitSlot == ASSUME Init PROVE SlotInv
  <1>1. \A p \in Tasks : task[p].pc = "idle"
    <2>1. Idle.pc = "idle"
      BY Zenon DEF Idle, NewTask
    <2> QED BY <2>1, Zenon DEF Init, SchedulerInit
  <1>2. ~JobExists
    BY Zenon DEF Init, StoreInit, NoJob, JobExists
  <1> QED BY <1>1, <1>2, Zenon DEF SlotInv, SlotRuns, OverPcs, CompletePcs, At

-----------------------------------------------------------------------------
(* Deleted workflows.                                                      *)

DeletePcs == {"delete_abandon", "delete_check", "delete_finalize"}

\* What one step does to an operator's goroutine, as far as it concerns deletion.
AdminMoved(a) ==
    \/ admin'[a] = admin[a]
    \/ admin'[a].pc \notin DeletePcs
    \/ admin'[a].pc = "delete_abandon" /\ workflow'.deleting
    \/ /\ AdminAt(a, "delete_abandon") /\ admin'[a].pc = "delete_check"
       /\ AbandonQueuedRequests(Versions)
    \/ /\ AdminAt(a, "delete_check") /\ admin'[a].pc = "delete_finalize"
       /\ ~HasRunningRequest /\ UNCHANGED store

\* A goroutine that begins, goes on with or ends a tail.
LEMMA AdminFields ==
    ASSUME LifecycleTypeOK, NEW a \in Admins, NEW b \in Admins
    PROVE  /\ b # a => /\ \A pc : AdminGoto(a, pc) => admin'[b] = admin[b]
                       /\ \A pc, id : AdminBegin(a, pc, id) => admin'[b] = admin[b]
                       /\ AdminDone(a) => admin'[b] = admin[b]
           /\ \A pc : AdminGoto(a, pc) => admin'[a].pc = pc
           /\ \A pc, id : AdminBegin(a, pc, id) => admin'[a].pc = pc
           /\ AdminDone(a) => admin'[a].pc = "idle"
  <1>1. IdleAdmin.pc = "idle"
    BY Zenon DEF IdleAdmin
  <1>2. \A pc, id : [IdleAdmin EXCEPT !.pc = pc, !.hold = id].pc = pc
    BY SMT DEF IdleAdmin
  <1>3. \A pc : AdminGoto(a, pc) => admin'[a].pc = pc /\ (b # a => admin'[b] = admin[b])
    BY Zenon DEF AdminGoto, LifecycleTypeOK, Admin
  <1>4. \A pc, id : AdminBegin(a, pc, id)
          => admin'[a].pc = pc /\ (b # a => admin'[b] = admin[b])
    BY <1>2, Zenon DEF AdminBegin, LifecycleTypeOK
  <1>5. AdminDone(a) => admin'[a].pc = "idle" /\ (b # a => admin'[b] = admin[b])
    BY <1>1, Zenon DEF AdminDone, LifecycleTypeOK
  <1> QED BY <1>3, <1>4, <1>5, Zenon

\* Only the two ways into a deletion and its own steps lead to its tail.
LEMMA AdminsMove ==
    ASSUME TypeOK, [Next]_vars, NEW b \in Admins PROVE AdminMoved(b)
  <1> USE DEF DeletePcs
  <1>1. CASE UNCHANGED admin
    BY <1>1, Zenon DEF AdminMoved
  <1>2. ASSUME NEW a \in Admins, AdminStep(a) PROVE AdminMoved(b)
    <2>1. LifecycleTypeOK /\ workflow \in WorkflowRow
      BY Zenon DEF TypeOK, StoreTypeOK
    <2>2. CASE \/ SuspendWorkflow(a) \/ ReconcileSuspension(a)
               \/ SuspendAbandon(a) \/ SuspendCheck(a) \/ SuspendFinalize(a) \/ SuspendAbort(a)
               \/ ResumeRestore(a) \/ DeleteFinalize(a) \/ AdminFault(a)
      <3>1. \/ \E pc \in {"suspend_abandon", "suspend_check", "suspend_finalize",
                          "suspend_abort"} :
                 AdminGoto(a, pc) \/ \E id : AdminBegin(a, pc, id)
            \/ AdminDone(a)
        BY <2>2, Zenon DEF SuspendWorkflow, ReconcileSuspension, SuspendAbandon, SuspendCheck,
           SuspendFinalize, SuspendAbort, ResumeRestore, DeleteFinalize, AdminFault
      <3> QED BY <2>1, <3>1, AdminFields, Zenon DEF AdminMoved
    <2>3. CASE ResumeWorkflow(a)
      <3>1. PICK id, c : admin' = [admin EXCEPT ![a] = [pc |-> "resume_restore", hold |-> id,
                                                        config |-> c]]
        BY <2>3, Zenon DEF ResumeWorkflow
      <3>2. admin'[b] = admin[b] \/ admin'[b].pc = "resume_restore"
        BY <2>1, <3>1, Zenon DEF LifecycleTypeOK
      <3> QED BY <3>2, Zenon DEF AdminMoved
    <2>4. CASE DeleteWorkflow(a) \/ ReconcileDeletion(a)
      <3>1. workflow'.deleting
        BY <2>1, <2>4, Zenon
        DEF DeleteWorkflow, ReconcileDeletion, MarkDeletionRequested, WorkflowRow, store
      <3>2. AdminBegin(a, "delete_abandon", NoSuspension)
        BY <2>4, Zenon DEF DeleteWorkflow, ReconcileDeletion
      <3> QED BY <2>1, <3>1, <3>2, AdminFields, Zenon DEF AdminMoved
    <2>5. CASE DeleteAbandon(a)
      BY <2>1, <2>5, AdminFields, Zenon DEF DeleteAbandon, AdminMoved
    <2>6. CASE DeleteCheck(a)
      BY <2>1, <2>6, AdminFields, Zenon DEF DeleteCheck, AdminMoved
    <2> QED BY <1>2, <2>2, <2>3, <2>4, <2>5, <2>6, Zenon DEF AdminStep
  <1>3. UNCHANGED admin \/ \E a \in Admins : AdminStep(a)
    BY Zenon DEF Next, Scheduling, SessionNext, LifecycleNext, ActivateWorkflow,
       AcknowledgeInterruption, SetWorkflowConfig, AbandonQueued, SweepAbandoned, vars
  <1> QED BY <1>1, <1>2, <1>3

\* What may take a workflow out of the lifecycle state "deleted", and into it.
LifecycleMoved ==
    \/ workflow'.lifecycle = workflow.lifecycle
    \/ /\ workflow'.lifecycle # "deleted"
       /\ \/ workflow.lifecycle # "deleted"
          \/ job.status \in {"awaiting_approval", "awaiting_input"}
          \/ workflow.state = "suspended"
          \/ \E p \in Tasks : /\ At(p, "complete_apply") \/ At(p, "fail_apply")
                              /\ workflow.current < task[p].version
    \/ /\ workflow'.lifecycle = "deleted"
       /\ \E a \in Admins : AdminAt(a, "delete_finalize")

\* The statements that leave lifecycle_state alone.
LEMMA LifecycleKept ==
    ASSUME workflow \in WorkflowRow
    PROVE  /\ CreateInvocationRequest => workflow'.lifecycle = workflow.lifecycle
           /\ \A r, st, v : TryApplyStateResolution(r, st, v)
                => workflow'.lifecycle = workflow.lifecycle
           /\ \A r, e, c, v : TryApplyVersionResolution(r, e, c, v)
                => workflow'.lifecycle = workflow.lifecycle
           /\ ExpireCooldowns => workflow'.lifecycle = workflow.lifecycle
           /\ \A v : TryActivateWorkflow(v) => workflow'.lifecycle = workflow.lifecycle
           /\ \A c, m, r : UpdateConfig(c, m, r) => workflow'.lifecycle = workflow.lifecycle
           /\ MarkDeletionRequested => workflow'.lifecycle = workflow.lifecycle
           /\ \A id, stop : MarkSuspensionRequested(id, stop)
                => workflow'.lifecycle = workflow.lifecycle
           /\ \A id : AbortSuspension(id) => workflow'.lifecycle = workflow.lifecycle
  <1> USE DEF WorkflowRow
  <1>1. CreateInvocationRequest => workflow'.lifecycle = workflow.lifecycle
    BY Zenon DEF CreateInvocationRequest
  <1>2. \A r, st, v : TryApplyStateResolution(r, st, v)
          => workflow'.lifecycle = workflow.lifecycle
    BY Zenon DEF TryApplyStateResolution
  <1>3. \A r, e, c, v : TryApplyVersionResolution(r, e, c, v)
          => workflow'.lifecycle = workflow.lifecycle
    BY Zenon DEF TryApplyVersionResolution
  <1>4. ExpireCooldowns => workflow'.lifecycle = workflow.lifecycle
    BY Zenon DEF ExpireCooldowns
  <1>5. \A v : TryActivateWorkflow(v) => workflow'.lifecycle = workflow.lifecycle
    BY Zenon DEF TryActivateWorkflow
  <1>6. \A c, m, r : UpdateConfig(c, m, r) => workflow'.lifecycle = workflow.lifecycle
    BY Zenon DEF UpdateConfig
  <1>7. MarkDeletionRequested => workflow'.lifecycle = workflow.lifecycle
    BY Zenon DEF MarkDeletionRequested
  <1>8. \A id, stop : MarkSuspensionRequested(id, stop)
          => workflow'.lifecycle = workflow.lifecycle
    BY Zenon DEF MarkSuspensionRequested
  <1>9. \A id : AbortSuspension(id) => workflow'.lifecycle = workflow.lifecycle
    BY Zenon DEF AbortSuspension, WithoutSuspension, store
  <1> QED BY <1>1, <1>2, <1>3, <1>4, <1>5, <1>6, <1>7, <1>8, <1>9, Zenon

\* The statements that write it.
LEMMA LifecycleWritten ==
    ASSUME workflow \in WorkflowRow
    PROVE  /\ \A l \in {"scheduled", "invoking"} : MarkLifecycle(l) => LifecycleMoved
           /\ \A st \in {"awaiting_approval", "awaiting_input"} :
                MarkAwaiting(st) => LifecycleMoved
           /\ ReconcileWorkflowLifecycles => LifecycleMoved
           /\ \A g, st : \A parked \in {"awaiting_approval", "awaiting_input"} :
                ResolveGate(g, parked, st) => LifecycleMoved
           /\ \A p \in Tasks : At(p, "complete_apply") /\ ApplyCompletedJob(task[p].version)
                => LifecycleMoved
           /\ \A p \in Tasks : At(p, "fail_apply") /\ ApplyFailedJob(task[p].version)
                => LifecycleMoved
           /\ \A v : ResolveInterruptedWorkflow(v) => LifecycleMoved
           /\ \A id : FinalizeSuspended(id) => LifecycleMoved
           /\ \A id, st, c : RestoreFromSuspension(id, st, c) => LifecycleMoved
           /\ \A a \in Admins : AdminAt(a, "delete_finalize") /\ FinalizeDeleted
                => LifecycleMoved
  <1> USE DEF WorkflowRow, LifecycleMoved
  <1>1. \A l \in {"scheduled", "invoking"} : MarkLifecycle(l) => LifecycleMoved
    BY Zenon DEF MarkLifecycle, ProtectedLifecycle
  <1>2. \A st \in {"awaiting_approval", "awaiting_input"} : MarkAwaiting(st) => LifecycleMoved
    BY Zenon DEF MarkAwaiting
  <1>3. ReconcileWorkflowLifecycles => LifecycleMoved
    <2> SUFFICES ASSUME ReconcileWorkflowLifecycles PROVE LifecycleMoved
      OBVIOUS
    <2>1. PICK old \in BOOLEAN :
            workflow' = [workflow EXCEPT !.lifecycle = ReconciledLifecycle(old)]
      BY Zenon DEF ReconcileWorkflowLifecycles
    <2>2. workflow'.lifecycle = ReconciledLifecycle(old)
      BY <2>1, Zenon
    <2>3. workflow.lifecycle # "deleted"
      BY Zenon DEF ReconcileWorkflowLifecycles, ProtectedLifecycle
    <2>4. ReconciledLifecycle(old) # "deleted"
      BY <2>3, SMT DEF ReconciledLifecycle
    <2> QED BY <2>2, <2>3, <2>4, Zenon
  <1>4. \A g, st : \A parked \in {"awaiting_approval", "awaiting_input"} :
          ResolveGate(g, parked, st) => LifecycleMoved
    BY Zenon DEF ResolveGate
  <1>5. ASSUME NEW p \in Tasks, At(p, "complete_apply"), ApplyCompletedJob(task[p].version)
        PROVE  LifecycleMoved
    <2>1. CASE ApplyMatches(task[p].version) /\ workflow.target = task[p].version
      <3>1. workflow'.lifecycle = "active"
        BY <1>5, <2>1, Zenon DEF ApplyCompletedJob
      <3> QED BY <1>5, <2>1, <3>1, Zenon DEF ApplyMatches
    <2>2. CASE ~(ApplyMatches(task[p].version) /\ workflow.target = task[p].version)
      <3>1. workflow'.lifecycle = workflow.lifecycle
        BY <1>5, <2>2, Zenon DEF ApplyCompletedJob
      <3> QED BY <3>1
    <2> QED BY <2>1, <2>2
  <1>6. ASSUME NEW p \in Tasks, At(p, "fail_apply"), ApplyFailedJob(task[p].version)
        PROVE  LifecycleMoved
    <2>1. CASE ApplyMatches(task[p].version)
      <3>1. workflow'.lifecycle = "interrupted"
        BY <1>6, <2>1, Zenon DEF ApplyFailedJob, WithoutSuspension
      <3> QED BY <1>6, <2>1, <3>1, Zenon DEF ApplyMatches
    <2>2. CASE ~ApplyMatches(task[p].version)
      BY <1>6, <2>2, Zenon DEF ApplyFailedJob, store
    <2> QED BY <2>1, <2>2
  <1>7. \A v : ResolveInterruptedWorkflow(v) => LifecycleMoved
    BY Zenon DEF ResolveInterruptedWorkflow
  <1>8. \A id : FinalizeSuspended(id) => LifecycleMoved
    BY Zenon DEF FinalizeSuspended, FinalizeMatches
  <1>9. \A id, st, c : RestoreFromSuspension(id, st, c) => LifecycleMoved
    BY Zenon DEF RestoreFromSuspension, RestoreMatches, WithoutSuspension, store
  <1>10. \A a \in Admins : AdminAt(a, "delete_finalize") /\ FinalizeDeleted => LifecycleMoved
    BY Zenon DEF FinalizeDeleted
  <1> QED BY <1>1, <1>2, <1>3, <1>4, <1>5, <1>6, <1>7, <1>8, <1>9, <1>10, Zenon

\* Goroutines of the scheduler and the server.
LEMMA SchedulerLifecycle ==
    ASSUME TypeOK, SchedulerNext PROVE LifecycleMoved
  <1>1. workflow \in WorkflowRow
    BY Zenon DEF TypeOK, StoreTypeOK
  <1>2. CASE \E p \in Runners : RunnerStep(p)
    <2>1. UNCHANGED workflow \/ CreateInvocationRequest
      BY <1>2, Zenon DEF RunnerStep, InvokeAdmit, CreatePeriodicRequest, ScheduleTop,
         CompleteSweep, FailSweep, CreateDuePeriodicRequest, store
    <2> QED BY <1>1, <2>1, LifecycleKept, Zenon DEF LifecycleMoved
  <1>3. ASSUME NEW p \in Tasks, TaskStep(p) PROVE LifecycleMoved
    <2>1. CASE InvokeCreate(p)
      <3>1. UNCHANGED workflow \/ CreateInvocationRequest
        BY <2>1, Zenon DEF InvokeCreate, store
      <3> QED BY <1>1, <3>1, LifecycleKept, Zenon DEF LifecycleMoved
    <2>2. CASE \/ ScheduleGet(p) \/ CompleteGet(p) \/ CompleteDelete(p) \/ FailGet(p)
               \/ FailRequeue(p) \/ FailClaim(p) \/ FailDelete(p)
               \/ ScheduleUpsert(p) \/ ScheduleSupercede(p) \/ CompleteFinish(p)
               \/ FailFinish(p)
      <3>1. UNCHANGED workflow
        BY <2>2, Zenon DEF ScheduleGet, CompleteGet, CompleteDelete, FailGet, FailRequeue,
           FailClaim, FailDelete, DeleteTerminalJob, RequeueJob, ClaimFailedJob, store,
           ScheduleUpsert, ScheduleSupercede, CompleteFinish, FailFinish,
           UpsertJobAndSchedule, SupercedeOlderRequests, CompleteRequestRow, FailRequestRow
      <3> QED BY <3>1, Zenon DEF LifecycleMoved
    <2>3. CASE ScheduleMark(p) \/ CompleteApply(p) \/ FailApply(p)
      BY <1>1, <1>3, <2>3, LifecycleWritten, Zenon DEF ScheduleMark, CompleteApply, FailApply
    <2>4. CASE CompleteResolve(p)
      <3>1. \/ \E r, st, v : TryApplyStateResolution(r, st, v)
            \/ \E r, e, c, v : TryApplyVersionResolution(r, e, c, v)
        BY <2>4, SchedulerAssumption, ZenonT(40) DEF CompleteResolve
      <3> QED BY <1>1, <3>1, LifecycleKept, Zenon DEF LifecycleMoved
    <2> QED BY <1>3, <2>1, <2>2, <2>3, <2>4, Zenon DEF TaskStep
  <1>4. CASE \E p \in Tasks : TaskFault(p) \/ DeleteFault(p)
    <2>1. UNCHANGED workflow
      BY <1>4, Zenon DEF TaskFault, DeleteFault, store
    <2> QED BY <2>1, Zenon DEF LifecycleMoved
  <1>5. CASE Sweep
    <2>1. CASE MarkOrphanedJobsFailed \/ SweepRequestsInProgress
      <3>1. UNCHANGED workflow
        BY <2>1, Zenon
        DEF MarkOrphanedJobsFailed, SweepRequestsInProgress, MarkRequestInProgress
      <3> QED BY <3>1, Zenon DEF LifecycleMoved
    <2>2. CASE ReconcileWorkflowLifecycles \/ ExpireCooldowns
      BY <1>1, <2>2, LifecycleKept, LifecycleWritten, Zenon DEF LifecycleMoved
    <2> QED BY <1>5, <2>1, <2>2, Zenon DEF Sweep
  <1> QED BY <1>2, <1>3, <1>4, <1>5, Zenon DEF SchedulerNext

\* Operators and reconcilers.
LEMMA AdminLifecycle ==
    ASSUME TypeOK, NEW a \in Admins, AdminStep(a) PROVE LifecycleMoved
  <1>1. workflow \in WorkflowRow
    BY Zenon DEF TypeOK, StoreTypeOK
  <1>2. CASE \/ SuspendAbandon(a) \/ ReconcileSuspension(a) \/ SuspendCheck(a)
             \/ ResumeWorkflow(a) \/ ReconcileDeletion(a) \/ DeleteAbandon(a)
             \/ DeleteCheck(a) \/ AdminFault(a)
    <2>1. UNCHANGED workflow
      BY <1>2, Zenon DEF SuspendAbandon, MarkAbandonRequested, ReconcileSuspension, SuspendCheck,
         ResumeWorkflow, ReconcileDeletion, DeleteAbandon, AbandonQueuedRequests,
         DeleteCheck, AdminFault, store
    <2> QED BY <2>1, Zenon DEF LifecycleMoved
  <1>3. CASE SuspendWorkflow(a) \/ SuspendAbort(a) \/ DeleteWorkflow(a)
    BY <1>1, <1>3, LifecycleKept, Zenon
    DEF SuspendWorkflow, SuspendAbort, DeleteWorkflow, LifecycleMoved
  <1>4. CASE SuspendFinalize(a) \/ ResumeRestore(a) \/ DeleteFinalize(a)
    BY <1>1, <1>4, LifecycleWritten, Zenon DEF SuspendFinalize, ResumeRestore, DeleteFinalize
  <1> QED BY <1>2, <1>3, <1>4, Zenon DEF AdminStep

\* Every step.
LEMMA NextLifecycle ==
    ASSUME TypeOK, ParkedOnGate, [Next]_vars PROVE LifecycleMoved
  <1>1. workflow \in WorkflowRow
    BY Zenon DEF TypeOK, StoreTypeOK
  <1>2. ASSUME NEW s \in Sessions, SessionStep(s) PROVE LifecycleMoved
    <2>1. CASE MarkInvoking(s) \/ MarkParked(s)
      BY <1>1, <2>1, LifecycleWritten, Zenon DEF MarkInvoking, MarkParked, ParkedOnGate
    <2>2. CASE ~(MarkInvoking(s) \/ MarkParked(s))
      <3>1. UNCHANGED workflow
        BY <1>2, <2>2, ZenonT(40)
        DEF SessionStep, MarkInProgress, MarkRequestInProgress, Acquire, CompleteAcquired,
            Dispatch, Launch, LaunchFails, Acknowledge, AcknowledgeTimeout, OperationCompletes,
            OperationHasNext, OperationOpensGate, OperationFails, SessionBreaks, TakeSignal,
            OperationTimeout, Finish, Renew, LoseLease, Release, Reconnect, SessionCrash,
            SessionFault, CompleteOperation, FailOperation, store, AcquireJob, DispatchJob,
            UpdateJobStatus, UpdateJobWithMetrics, ParkJob, RenewJobLease, ReleaseJob
      <3> QED BY <3>1, Zenon DEF LifecycleMoved
    <2> QED BY <2>1, <2>2
  <1>3. CASE LeaseAges \/ DelayPasses \/ AbandonQueued \/ SweepAbandoned \/ UNCHANGED vars
    <2>1. UNCHANGED workflow
      BY <1>3, Zenon DEF LeaseAges, DelayPasses, AbandonQueued, AbandonQueuedRequests,
         SweepAbandoned, SweepAbandonedJobs, vars, store
    <2> QED BY <2>1, Zenon DEF LifecycleMoved
  <1>4. CASE DecideGate \/ AcknowledgeInterruption
    BY <1>1, <1>4, LifecycleWritten, Zenon DEF DecideGate, AcknowledgeInterruption
  <1>5. CASE ActivateWorkflow \/ SetWorkflowConfig
    BY <1>1, <1>5, LifecycleKept, Zenon DEF ActivateWorkflow, SetWorkflowConfig, LifecycleMoved
  <1> QED BY <1>2, <1>3, <1>4, <1>5, SchedulerLifecycle, AdminLifecycle, Zenon
          DEF Next, Scheduling, SessionNext, LifecycleNext

NothingQueued == \A v \in Versions : request[v] \notin Queued

\* A deletion under way has disabled the workflow; behind its first statement
\* nothing is queued, and behind its check nothing runs.
DeleteInv ==
    /\ DeletingIsDisabled
    /\ \A a \in Admins :
         /\ admin[a].pc \in DeletePcs => workflow.deleting
         /\ AdminAt(a, "delete_check") \/ AdminAt(a, "delete_finalize") => NothingQueued
         /\ AdminAt(a, "delete_finalize") => ~HasRunningRequest
    /\ workflow.lifecycle = "deleted" =>
         workflow.deleting /\ NothingQueued /\ ~HasRunningRequest

\* A workflow being deleted stays so, is asked for no more runs, and starts none
\* that is not queued.
LEMMA DeletingQuiet ==
    ASSUME Holds, DeletingIsDisabled, ~MayAcknowledge, workflow.deleting
    PROVE  /\ workflow'.deleting /\ DeletingIsDisabled'
           /\ NothingQueued => NothingQueued'
           /\ NothingQueued /\ ~HasRunningRequest => ~HasRunningRequest'
  <1>1. workflow'.deleting /\ DeletingIsDisabled' /\ workflow'.target = workflow.target
    <2>1. HoldStatement
      BY NextHolds, Zenon DEF Holds
    <2>2. DeletingIsDisabled' /\ workflow'.target = workflow.target
      BY NextDeleting, Zenon DEF Holds
    <2> QED BY <2>1, <2>2, Zenon DEF HoldStatement
  <1>2. ~CreateInvocationRequest
    <2> SUFFICES ASSUME CreateInvocationRequest PROVE FALSE
      OBVIOUS
    <2>1. workflow \in WorkflowRow /\ workflow.target \in Nat
      BY VersionNumbers, Zenon DEF Holds, TypeOK, StoreTypeOK
    <2>2. workflow'.target = workflow.target + 1
      BY <2>1, Zenon DEF CreateInvocationRequest, WorkflowRow
    <2> QED BY <1>1, <2>1, <2>2, SMT
  <1>3. \A v \in Versions : RequestMoved(v)
    BY NextRequests, Zenon DEF Holds
  <1>4. ASSUME NothingQueued PROVE NothingQueued'
    <2> SUFFICES ASSUME NEW v \in Versions PROVE request'[v] \notin Queued
      BY Zenon DEF NothingQueued
    <2>1. request[v] \notin Queued /\ RequestMoved(v)
      BY <1>3, <1>4, Zenon DEF NothingQueued
    <2> QED BY <1>2, <2>1, Zenon DEF RequestMoved, Queued
  <1>5. ASSUME NothingQueued, ~HasRunningRequest PROVE ~HasRunningRequest'
    <2> SUFFICES ASSUME NEW v \in Versions
                 PROVE  request'[v] \notin {"scheduled", "in_progress"}
      BY Zenon DEF HasRunningRequest, Running
    <2>1. /\ request[v] \notin Queued /\ RequestMoved(v)
          /\ request[v] \notin {"scheduled", "in_progress"}
      BY <1>3, <1>5, Zenon DEF NothingQueued, HasRunningRequest, Running
    <2> QED BY <1>2, <2>1, Zenon DEF RequestMoved, Queued, UpsertMatches
  <1> QED BY <1>1, <1>4, <1>5

\* A deleted workflow has no run: nothing holds the slot with a run to go on with
\* or to record, and nobody executes one.
LEMMA DeletedIdle ==
    ASSUME Holds, SlotInv, DeleteInv, ParkedOnGate, workflow.lifecycle = "deleted"
    PROVE  /\ workflow'.lifecycle = "deleted"
           /\ \A s \in Sessions : session[s].pc \notin Executing
  <1>1. ~HasRunningRequest /\ workflow.deleting /\ workflow.state = "disabled"
    BY Zenon DEF DeleteInv, DeletingIsDisabled
  <1>2. ASSUME JobExists PROVE job.status \in Over /\ ~(job.version > workflow.current)
    <2>1. job.version \in Versions
      <3>1. job.version \in 0 .. MaxRequests /\ job.version # 0
        BY <1>2, Zenon DEF Holds, TypeOK, StoreTypeOK, JobRow, JobExists
      <3> QED BY <3>1, SMT DEF Versions
    <2> QED BY <1>1, <1>2, <2>1, Zenon DEF SlotInv, SlotRuns, HasRunningRequest
  <1>3. NoJob.status \notin Launched \cup {"awaiting_approval", "awaiting_input"}
    BY SMT DEF NoJob, Launched
  <1>4. job.status \notin Launched \cup {"awaiting_approval", "awaiting_input"}
    BY <1>2, <1>3, Zenon DEF Holds, JobInv, NoHalfJob, Over, Launched
  <1>5. \A s \in Sessions : session[s].pc \notin Executing
    BY <1>4, Zenon DEF Holds, SessionsOK, SessionOK, Executing, ActivePcs
  <1>6. ASSUME NEW p \in Tasks, At(p, "complete_apply") \/ At(p, "fail_apply"),
               workflow.current < task[p].version
        PROVE  FALSE
    <2>1. task[p].version \in Versions
      BY <1>6, Zenon DEF SlotInv, RunIsOver, OverPcs, CompletePcs, At
    <2>2. task[p].version <= workflow.current \/ task[p].version = job.version
      BY <1>6, Zenon DEF Holds, LedgerInv, TeardownOK
    <2>3. workflow.current \in Nat
      BY VersionNumbers, Zenon DEF Holds
    <2> QED BY <1>2, <1>6, <2>1, <2>2, <2>3, SMT DEF JobExists, Versions
  <1>7. LifecycleMoved
    BY NextLifecycle, Zenon DEF Holds
  <1> QED BY <1>1, <1>4, <1>5, <1>6, <1>7, Zenon DEF LifecycleMoved

\* The invariant is inductive.
LEMMA NextDelete ==
    ASSUME Holds, SlotInv, DeleteInv, ParkedOnGate, ~MayAcknowledge PROVE DeleteInv'
  <1>1. DeletingIsDisabled /\ DeletingIsDisabled'
    BY NextDeleting, Zenon DEF Holds, DeleteInv
  <1>2. /\ workflow.deleting => workflow'.deleting
        /\ workflow.deleting /\ NothingQueued => NothingQueued'
        /\ workflow.deleting /\ NothingQueued /\ ~HasRunningRequest => ~HasRunningRequest'
    BY <1>1, DeletingQuiet, Zenon
  <1>3. ASSUME NEW a \in Admins
        PROVE  /\ admin'[a].pc \in DeletePcs => workflow'.deleting
               /\ admin'[a].pc \in {"delete_check", "delete_finalize"} => NothingQueued'
               /\ admin'[a].pc = "delete_finalize" => ~HasRunningRequest'
    <2>1. AdminMoved(a)
      BY AdminsMove, Zenon DEF Holds
    <2>2. /\ admin[a].pc \in DeletePcs => workflow.deleting
          /\ admin[a].pc \in {"delete_check", "delete_finalize"} => NothingQueued
          /\ admin[a].pc = "delete_finalize" => ~HasRunningRequest
      BY Zenon DEF DeleteInv, AdminAt
    <2>3. CASE admin'[a] = admin[a]
      BY <1>2, <2>2, <2>3, Zenon DEF DeletePcs
    <2>4. CASE admin'[a].pc \notin DeletePcs
      BY <2>4, Zenon DEF DeletePcs
    <2>5. CASE admin'[a].pc = "delete_abandon" /\ workflow'.deleting
      BY <2>5, Zenon
    <2>6. CASE /\ AdminAt(a, "delete_abandon") /\ admin'[a].pc = "delete_check"
               /\ AbandonQueuedRequests(Versions)
      <3>1. workflow'.deleting
        BY <1>2, <2>2, <2>6, Zenon DEF AdminAt, DeletePcs
      <3>2. NothingQueued'
        BY <2>6, SMT DEF AbandonQueuedRequests, NothingQueued, Queued
      <3> QED BY <2>6, <3>1, <3>2, Zenon
    <2>7. CASE /\ AdminAt(a, "delete_check") /\ admin'[a].pc = "delete_finalize"
               /\ ~HasRunningRequest /\ UNCHANGED store
      <3>1. workflow.deleting /\ NothingQueued
        BY <2>2, <2>7, Zenon DEF AdminAt, DeletePcs
      <3> QED BY <1>2, <2>7, <3>1, Zenon
    <2> QED BY <2>1, <2>3, <2>4, <2>5, <2>6, <2>7, Zenon DEF AdminMoved
  <1>4. ASSUME workflow'.lifecycle = "deleted"
        PROVE  workflow'.deleting /\ NothingQueued' /\ ~HasRunningRequest'
    <2>1. LifecycleMoved
      BY NextLifecycle, Zenon DEF Holds
    <2>2. workflow.lifecycle = "deleted" \/ \E a \in Admins : AdminAt(a, "delete_finalize")
      BY <1>4, <2>1, Zenon DEF LifecycleMoved
    <2>3. workflow.deleting /\ NothingQueued /\ ~HasRunningRequest
      BY <2>2, Zenon DEF DeleteInv, AdminAt, DeletePcs
    <2> QED BY <1>2, <2>3, Zenon
  <1> QED BY <1>1, <1>3, <1>4, Zenon DEF DeleteInv, AdminAt

\* At first nothing is being deleted.
LEMMA InitDelete == ASSUME Init PROVE DeleteInv
  <1>1. \A a \in Admins : admin[a].pc = "idle"
    <2>1. IdleAdmin.pc = "idle"
      BY Zenon DEF IdleAdmin
    <2> QED BY <2>1, Zenon DEF Init, LifecycleInit
  <1>2. ~workflow.deleting /\ workflow.lifecycle = "active"
    BY SMT DEF Init, StoreInit
  <1> QED BY <1>1, <1>2, Zenon DEF DeleteInv, DeletingIsDisabled, DeletePcs, AdminAt

\* A deletion is final: lifecycle_state never leaves "deleted", no request of a
\* deleted workflow shows as running, and no worker executes a run of it
\* (DeleteWorkflow, the deletion reconciler, FinalizeDeleted and everything that
\* writes lifecycle_state).  It rests on HasRunningRequest telling the truth, which
\* it does as long as no live run is superceded: for workflows that queue.
THEOREM DeletionsAreFinal ==
    ASSUME ~Stalls, ~MayAcknowledge, InvokeModes = {"queue"}
    PROVE  Spec => DeletedIsFinal
  <1>1. /\ TypeOK /\ VersionInv /\ JobInv /\ SessionsOK /\ LedgerInv
        /\ TypeOK' /\ VersionInv' /\ [Next]_vars /\ ParkedOnGate /\ SlotInv /\ DeleteInv
        => SlotInv' /\ DeleteInv'
    BY NextVersions, NextSlot, NextDelete, Zenon DEF Holds
  <1>2. /\ TypeOK /\ VersionInv /\ JobInv /\ SessionsOK /\ LedgerInv
        /\ TypeOK' /\ VersionInv' /\ [Next]_vars /\ ParkedOnGate /\ SlotInv /\ DeleteInv
        => [workflow.lifecycle = "deleted" =>
              /\ workflow'.lifecycle = "deleted"
              /\ ~HasRunningRequest
              /\ \A s \in Sessions : session[s].pc \notin Executing]_vars
    <2>1. DeleteInv /\ workflow.lifecycle = "deleted" => ~HasRunningRequest
      BY Zenon DEF DeleteInv
    <2> QED BY <2>1, NextVersions, DeletedIdle, Zenon DEF Holds
  <1>3. Init => SlotInv /\ DeleteInv
    BY InitSlot, InitDelete
  <1> QED BY <1>1, <1>2, <1>3, LedgerInvariant, TypeCorrect, PTL DEF Spec, DeletedIsFinal
=============================================================================
