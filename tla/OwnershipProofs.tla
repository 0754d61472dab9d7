--------------------------- MODULE OwnershipProofs ---------------------------
(***************************************************************************)
(* Who may write the job: the owner column fences a session that is held   *)
(* up, and a session whose lease is kept alive keeps its job.  Each step   *)
(* of the system runs at most one statement on the job row, so the steps   *)
(* are first sorted by the statement they run; what a statement does to a  *)
(* job that somebody else holds is then shown once.                        *)
(***************************************************************************)
EXTENDS TypeProofs

Ended == {"completed", "failed", "terminal_failed"}

Launched == {"dispatched", "running"}

\* The statements on the job that goroutines, operators and the clock run.
SharedStatement ==
    \/ UNCHANGED job
    \/ \E p \in Tasks :
         \/ /\ \/ At(p, "complete_delete") /\ Goto(p, "complete_finish")
               \/ At(p, "fail_delete") /\ Goto(p, "fail_finish")
            /\ DeleteTerminalJob(task[p].version)
         \/ At(p, "fail_requeue") /\ RequeueJob(task[p].version, task[p].attempts)
         \/ At(p, "fail_claim") /\ ClaimFailedJob(task[p].version, task[p].attempts)
         \/ /\ At(p, "schedule_upsert")
            /\ UpsertJobAndSchedule(task[p].version, task[p].current, task[p].mode)
    \/ MarkOrphanedJobsFailed \/ SweepAbandonedJobs
    \/ \E id : MarkAbandonRequested(id)
    \/ \E id, stop : MarkSuspensionRequested(id, stop)
    \/ \E g : \E parked \in {"awaiting_approval", "awaiting_input"}, st \in Acquirable :
         ResolveGate(g, parked, st)
    \/ LeaseAges \/ DelayPasses

\* The statements on the job that session s runs under its own name; those that
\* write the status it runs while it follows a run.
OwnStatement(s) ==
    \/ UNCHANGED job
    \/ AcquireJob(s) \/ RenewJobLease(s) \/ ReleaseJob(s)
    \/ /\ session[s].pc \in ActivePcs
       /\ \/ DispatchJob(s)
          \/ \E st : UpdateJobStatus(s, st)
          \/ \E d : UpdateJobWithMetrics(s, d)
          \/ \E st, g : ParkJob(s, st, g)


\* Every step that is not a session's runs a shared statement.
LEMMA SchedulerStatements ==
    ASSUME SchedulerNext PROVE SharedStatement
  <1>1. CASE \E p \in Runners : RunnerStep(p)
    <2>1. UNCHANGED job
      BY <1>1, SMTT(30) DEF RunnerStep, InvokeAdmit, CreatePeriodicRequest, ScheduleTop,
                  CompleteSweep, FailSweep, CreateDuePeriodicRequest,
                  CreateInvocationRequest, store
    <2> QED BY <2>1, SMTT(30) DEF SharedStatement
  <1>2. ASSUME NEW p \in Tasks, TaskStep(p) PROVE SharedStatement
    <2>1. CASE ScheduleUpsert(p)
      BY <2>1, SMTT(30) DEF ScheduleUpsert, SharedStatement
    <2>2. CASE CompleteDelete(p) \/ FailDelete(p)
      BY <1>2, <2>2, SMTT(30) DEF CompleteDelete, FailDelete, SharedStatement
    <2>3. CASE FailRequeue(p) \/ FailClaim(p)
      BY <1>2, <2>3, SMTT(30) DEF FailRequeue, FailClaim, SharedStatement
    <2>4. CASE \/ InvokeCreate(p) \/ ScheduleGet(p) \/ ScheduleSupercede(p)
               \/ ScheduleMark(p)
      <3>1. UNCHANGED job
        BY <2>4, SMTT(30) DEF InvokeCreate, ScheduleGet, ScheduleSupercede, ScheduleMark,
             CreateInvocationRequest, SupercedeOlderRequests, MarkLifecycle, store
      <3> QED BY <3>1, SMTT(30) DEF SharedStatement
    <2>5. CASE \/ CompleteApply(p) \/ CompleteGet(p) \/ CompleteFinish(p)
               \/ FailGet(p) \/ FailApply(p) \/ FailFinish(p)
      <3>1. UNCHANGED job
        BY <2>5, SMTT(30) DEF CompleteApply, CompleteGet, CompleteFinish, FailGet, FailApply,
             FailFinish, ApplyCompletedJob, ApplyFailedJob, CompleteRequestRow,
             FailRequestRow, store
      <3> QED BY <3>1 DEF SharedStatement
    <2>6. CASE CompleteResolve(p)
      <3>1. UNCHANGED job
        BY <2>6, SchedulerAssumption, Zenon
        DEF CompleteResolve, TryApplyStateResolution, TryApplyVersionResolution
      <3> QED BY <3>1 DEF SharedStatement
    <2> QED BY <1>2, <2>1, <2>2, <2>3, <2>4, <2>5, <2>6, SMTT(30) DEF TaskStep
  <1>3. CASE \E p \in Tasks : TaskFault(p) \/ DeleteFault(p)
    <2>1. UNCHANGED job
      BY <1>3, SMTT(30) DEF TaskFault, DeleteFault, store
    <2> QED BY <2>1 DEF SharedStatement
  <1>4. CASE Sweep
    <2>1. CASE MarkOrphanedJobsFailed
      BY <2>1, SMTT(30) DEF SharedStatement
    <2>2. CASE ReconcileWorkflowLifecycles \/ SweepRequestsInProgress \/ ExpireCooldowns
      <3>1. UNCHANGED job
        BY <2>2, SMTT(30) DEF ReconcileWorkflowLifecycles, SweepRequestsInProgress,
             MarkRequestInProgress, ExpireCooldowns
      <3> QED BY <3>1 DEF SharedStatement
    <2> QED BY <1>4, <2>1, <2>2, SMTT(30) DEF Sweep
  <1> QED BY <1>1, <1>2, <1>3, <1>4, SMTT(30) DEF SchedulerNext

\* Time, the decision of a gate, operators and reconcilers.
LEMMA OperatorStatements ==
    ASSUME LeaseAges \/ DelayPasses \/ DecideGate \/ LifecycleNext
    PROVE  SharedStatement
  <1>1. CASE LeaseAges \/ DelayPasses
    BY <1>1, SMTT(30) DEF SharedStatement
  <1>2. CASE DecideGate
    <2>1. PICK g \in 1 .. MaxGates :
            \/ \E verdict \in {"approved", "rejected"} :
                 ResolveGate(g, "awaiting_approval", verdict)
            \/ \E verdict \in {"answered", "input_timed_out"} :
                 ResolveGate(g, "awaiting_input", verdict)
      BY <1>2, SMTT(30) DEF DecideGate
    <2>2. {"approved", "rejected", "answered", "input_timed_out"} \subseteq Acquirable
      BY SMTT(30) DEF Acquirable
    <2>3. \E parked \in {"awaiting_approval", "awaiting_input"}, st \in Acquirable :
            ResolveGate(g, parked, st)
      BY <2>1, <2>2, SMTT(30)
    <2> QED BY <2>3, SMTT(30) DEF SharedStatement
  <1>3. CASE ActivateWorkflow \/ AcknowledgeInterruption \/ SetWorkflowConfig \/ AbandonQueued
    <2>1. UNCHANGED job
      BY <1>3, Zenon DEF ActivateWorkflow, AcknowledgeInterruption, SetWorkflowConfig,
           AbandonQueued, TryActivateWorkflow, ResolveInterruptedWorkflow, UpdateConfig,
           AbandonQueuedRequests
    <2> QED BY <2>1, SMTT(30) DEF SharedStatement
  <1>4. CASE SweepAbandoned
    BY <1>4, SMTT(30) DEF SweepAbandoned, SharedStatement
  <1>5. ASSUME NEW a \in Admins, SuspendAbandon(a) PROVE SharedStatement
    BY <1>5, SMTT(30) DEF SuspendAbandon, SharedStatement
  <1>6. ASSUME NEW a \in Admins, SuspendWorkflow(a) PROVE SharedStatement
    BY <1>6, SMTT(30) DEF SuspendWorkflow, SharedStatement
  <1>7. ASSUME NEW a \in Admins,
               \/ ReconcileSuspension(a) \/ SuspendCheck(a) \/ SuspendFinalize(a)
               \/ SuspendAbort(a) \/ ResumeWorkflow(a) \/ ResumeRestore(a)
               \/ DeleteWorkflow(a) \/ ReconcileDeletion(a) \/ DeleteAbandon(a)
               \/ DeleteCheck(a) \/ DeleteFinalize(a) \/ AdminFault(a)
        PROVE  SharedStatement
    <2>1. UNCHANGED job
      BY <1>7, Zenon DEF ReconcileSuspension, SuspendCheck, SuspendFinalize, SuspendAbort,
           ResumeWorkflow, ResumeRestore, DeleteWorkflow, ReconcileDeletion,
           DeleteAbandon, DeleteCheck, DeleteFinalize, AdminFault, FinalizeSuspended,
           AbortSuspension, RestoreFromSuspension, MarkDeletionRequested,
           AbandonQueuedRequests, FinalizeDeleted, store
    <2> QED BY <2>1, SMTT(30) DEF SharedStatement
  <1> QED BY <1>1, <1>2, <1>3, <1>4, <1>5, <1>6, <1>7, SMTT(30) DEF LifecycleNext, AdminStep

\* A session's step runs a statement of its own.
LEMMA SessionStatements ==
    ASSUME NEW s \in Sessions, SessionStep(s) PROVE OwnStatement(s)
  <1>1. CASE \/ CompleteAcquired(s) \/ LaunchFails(s) \/ Acknowledge(s)
             \/ OperationCompletes(s) \/ OperationFails(s) \/ SessionBreaks(s)
    <2>1. session[s].pc \in ActivePcs /\ \E st : UpdateJobStatus(s, st)
      BY <1>1, Zenon DEF CompleteAcquired, LaunchFails, Acknowledge, OperationCompletes,
           OperationFails, SessionBreaks, CompleteOperation, FailOperation, In, ActivePcs
    <2> QED BY <2>1, SMTT(30) DEF OwnStatement
  <1>2. CASE Acquire(s) \/ Renew(s) \/ Release(s)
    BY <1>2, SMTT(30) DEF Acquire, Renew, Release, OwnStatement
  <1>3. CASE Dispatch(s) \/ OperationHasNext(s) \/ OperationOpensGate(s)
    BY <1>3, SMTT(30) DEF Dispatch, OperationHasNext, OperationOpensGate, OwnStatement, In, ActivePcs
  <1>4. CASE \/ MarkInvoking(s) \/ MarkInProgress(s) \/ Launch(s)
             \/ AcknowledgeTimeout(s) \/ MarkParked(s) \/ TakeSignal(s)
             \/ OperationTimeout(s) \/ Finish(s) \/ LoseLease(s) \/ Reconnect(s)
             \/ SessionCrash(s) \/ SessionFault(s)
    <2>1. UNCHANGED job
      BY <1>4, Zenon DEF MarkInvoking, MarkInProgress, Launch, AcknowledgeTimeout, MarkParked,
           TakeSignal, OperationTimeout, Finish, LoseLease, Reconnect, SessionCrash,
           SessionFault, MarkLifecycle, MarkRequestInProgress, MarkAwaiting, store
    <2> QED BY <2>1, SMTT(30) DEF OwnStatement
  <1> QED BY <1>1, <1>2, <1>3, <1>4, SMTT(30) DEF SessionStep

-----------------------------------------------------------------------------
(* Tasks.                                                                  *)

\* The fields of a task that goes on, ends or begins.
LEMMA TaskFields ==
    ASSUME TypeOK, NEW p \in Tasks, NEW q \in Tasks
    PROVE  /\ \A pc : Goto(p, pc) =>
                /\ q # p => task'[q] = task[q]
                /\ task'[p].pc = pc
                /\ task'[p].version = task[p].version
                /\ task'[p].attempts = task[p].attempts
           /\ Done(p) => (q # p => task'[q] = task[q]) /\ task'[p].pc = "idle"
           /\ \A pc, v, n : Begin(p, pc, v, n) =>
                /\ q # p => task'[q] = task[q]
                /\ task'[p].pc = pc /\ task'[p].version = v /\ task'[p].attempts = n
  <1>1. ASSUME NEW pc, Goto(p, pc)
        PROVE  /\ q # p => task'[q] = task[q]
               /\ task'[p].pc = pc
               /\ task'[p].version = task[p].version
               /\ task'[p].attempts = task[p].attempts
    BY <1>1, SMTT(30) DEF Goto, TypeOK, SchedulerTypeOK, Task
  <1>2. ASSUME Done(p) PROVE (q # p => task'[q] = task[q]) /\ task'[p].pc = "idle"
    <2>1. Idle.pc = "idle"
      BY SMTT(30) DEF Idle, NewTask
    <2> QED BY <1>2, <2>1, SMTT(30) DEF Done, TypeOK, SchedulerTypeOK
  <1>3. ASSUME NEW pc, NEW v, NEW n, Begin(p, pc, v, n)
        PROVE  /\ q # p => task'[q] = task[q]
               /\ task'[p].pc = pc /\ task'[p].version = v /\ task'[p].attempts = n
    <2>1. /\ NewTask(pc, v, n).pc = pc /\ NewTask(pc, v, n).version = v
          /\ NewTask(pc, v, n).attempts = n
      BY SMTT(30) DEF NewTask
    <2>2. /\ q # p => task'[q] = task[q]
          /\ task'[p] = NewTask(pc, v, n)
      BY <1>3, SMTT(30) DEF Begin, TypeOK, SchedulerTypeOK
    <2> QED BY <2>1, <2>2, SMTT(30)
  <1> QED BY <1>1, <1>2, <1>3, SMTT(30)

\* The session that ended a run itself goes on to tear it down.
EndedBySession(q, st) ==
    /\ q \in Sessions /\ session[q].pc \in ActivePcs /\ Owns(q)
    /\ task'[q].version = session[q].version
    /\ UpdateJobStatus(q, st)

\* How a task may come to where a step leaves it.
TaskMoved(q) ==
    \/ task'[q] = task[q]
    \/ task'[q].pc \in {"idle", "invoke_create", "schedule_mark", "fail_get",
                        "fail_claim"}
    \/ task'[q].pc = "schedule_get" /\ task'[q].version \in Versions
    \/ /\ task'[q].pc = "schedule_upsert"
       /\ At(q, "schedule_get") /\ task'[q].version = task[q].version
       /\ Schedulable /\ UNCHANGED store
    \/ task'[q].pc = "schedule_supercede" /\ task[q].mode # "queue"
    \/ /\ task'[q].pc = "complete_apply"
       /\ \/ job' = job /\ task'[q].version = job.version /\ job.status = "completed"
          \/ EndedBySession(q, "completed")
    \/ /\ task'[q].version = task[q].version
       /\ \/ /\ At(q, "complete_apply") /\ task'[q].pc = "complete_get"
             /\ ApplyCompletedJob(task[q].version)
          \/ /\ At(q, "complete_get") /\ task'[q].pc = "complete_resolve"
             /\ task'[q].current = workflow.current
             /\ task'[q].state = workflow.state /\ UNCHANGED store
          \/ At(q, "complete_resolve") /\ task'[q].pc = "complete_delete"
          \/ At(q, "complete_delete") /\ task'[q].pc = "complete_finish"
          \/ /\ At(q, "fail_get") /\ task'[q].pc = "fail_requeue"
             /\ task[q].attempts < MaxAttempts /\ task'[q].attempts = task[q].attempts
          \/ /\ At(q, "fail_claim") /\ task'[q].pc = "fail_apply"
             /\ ClaimMatches(task[q].version, task[q].attempts)
             /\ ClaimFailedJob(task[q].version, task[q].attempts)
          \/ /\ At(q, "fail_apply") /\ task'[q].pc = "fail_delete"
             /\ ApplyFailedJob(task[q].version)
          \/ At(q, "fail_delete") /\ task'[q].pc = "fail_finish"

\* What goes on, ends or begins in one of these ways has moved so, and so has every
\* other task.
LEMMA MovedBy ==
    ASSUME TypeOK, NEW p \in Tasks, NEW q \in Tasks
    PROVE  /\ Done(p) => TaskMoved(q)
           /\ \A pc \in {"schedule_mark", "fail_claim"} : Goto(p, pc) => TaskMoved(q)
           /\ Goto(p, "schedule_supercede") /\ task[p].mode # "queue" => TaskMoved(q)
           /\ \A pc \in {"invoke_create", "fail_get"} : \A v, n :
                Begin(p, pc, v, n) => TaskMoved(q)
           /\ \A v \in Versions : \A n : Begin(p, "schedule_get", v, n) => TaskMoved(q)
           /\ \A n : Begin(p, "complete_apply", job.version, n) /\ job' = job
                     /\ job.status = "completed" => TaskMoved(q)
           /\ At(p, "complete_apply") /\ Goto(p, "complete_get")
              /\ ApplyCompletedJob(task[p].version) => TaskMoved(q)
           /\ At(p, "complete_resolve") /\ Goto(p, "complete_delete") => TaskMoved(q)
           /\ At(p, "complete_delete") /\ Goto(p, "complete_finish") => TaskMoved(q)
           /\ At(p, "fail_get") /\ Goto(p, "fail_requeue")
              /\ task[p].attempts < MaxAttempts => TaskMoved(q)
           /\ At(p, "fail_claim") /\ Goto(p, "fail_apply")
              /\ ClaimMatches(task[p].version, task[p].attempts)
              /\ ClaimFailedJob(task[p].version, task[p].attempts) => TaskMoved(q)
           /\ At(p, "fail_apply") /\ Goto(p, "fail_delete")
              /\ ApplyFailedJob(task[p].version) => TaskMoved(q)
           /\ At(p, "fail_delete") /\ Goto(p, "fail_finish") => TaskMoved(q)
  <1>1. CASE q # p
    <2>1. ASSUME NEW pc, NEW v, NEW n, Done(p) \/ Goto(p, pc) \/ Begin(p, pc, v, n)
          PROVE  TaskMoved(q)
      <3>1. task'[q] = task[q]
        BY <1>1, <2>1, TaskFields
      <3> QED BY <3>1, Zenon DEF TaskMoved
    <2> QED BY <2>1, Zenon
  <1>2. CASE q = p
    <2>1. /\ \A pc : Goto(p, pc) =>
               /\ task'[q].pc = pc /\ task'[q].version = task[p].version
               /\ task'[q].attempts = task[p].attempts
          /\ Done(p) => task'[q].pc = "idle"
          /\ \A pc, v, n : Begin(p, pc, v, n) =>
               task'[q].pc = pc /\ task'[q].version = v
      BY <1>2, TaskFields, SMTT(30)
    <2>2. Done(p) => TaskMoved(q)
      BY <1>2, <2>1, Zenon DEF TaskMoved
    <2>3. /\ \A pc \in {"schedule_mark", "fail_claim"} : Goto(p, pc) => TaskMoved(q)
          /\ Goto(p, "schedule_supercede") /\ task[p].mode # "queue" => TaskMoved(q)
      BY <1>2, <2>1, Zenon DEF TaskMoved
    <2>4. \A pc \in {"invoke_create", "fail_get"} : \A v, n :
            Begin(p, pc, v, n) => TaskMoved(q)
      BY <1>2, <2>1, Zenon DEF TaskMoved
    <2>5. \A v \in Versions : \A n : Begin(p, "schedule_get", v, n) => TaskMoved(q)
      BY <1>2, <2>1, Zenon DEF TaskMoved
    <2>6. \A n : Begin(p, "complete_apply", job.version, n) /\ job' = job
                 /\ job.status = "completed" => TaskMoved(q)
      BY <1>2, <2>1, Zenon DEF TaskMoved
    <2>7. At(p, "complete_apply") /\ Goto(p, "complete_get")
          /\ ApplyCompletedJob(task[p].version) => TaskMoved(q)
      BY <1>2, <2>1, Zenon DEF TaskMoved
    <2>8. /\ At(p, "complete_resolve") /\ Goto(p, "complete_delete") => TaskMoved(q)
          /\ At(p, "complete_delete") /\ Goto(p, "complete_finish") => TaskMoved(q)
          /\ At(p, "fail_delete") /\ Goto(p, "fail_finish") => TaskMoved(q)
      BY <1>2, <2>1, Zenon DEF TaskMoved
    <2>9. At(p, "fail_get") /\ Goto(p, "fail_requeue")
          /\ task[p].attempts < MaxAttempts => TaskMoved(q)
      BY <1>2, <2>1, Zenon DEF TaskMoved
    <2>10. At(p, "fail_claim") /\ Goto(p, "fail_apply")
           /\ ClaimMatches(task[p].version, task[p].attempts)
           /\ ClaimFailedJob(task[p].version, task[p].attempts) => TaskMoved(q)
      BY <1>2, <2>1, Zenon DEF TaskMoved
    <2>11. At(p, "fail_apply") /\ Goto(p, "fail_delete")
           /\ ApplyFailedJob(task[p].version) => TaskMoved(q)
      BY <1>2, <2>1, Zenon DEF TaskMoved
    <2> QED BY <2>2, <2>3, <2>4, <2>5, <2>6, <2>7, <2>8, <2>9, <2>10, <2>11, Zenon
  <1> QED BY <1>1, <1>2, Zenon

\* The operations of scheduler and server goroutines.
LEMMA SchedulerMoves ==
    ASSUME TypeOK, SchedulerNext, NEW q \in Tasks PROVE TaskMoved(q)
  <1>1. ASSUME NEW p \in Runners, RunnerStep(p) PROVE TaskMoved(q)
    <2>1. p \in Tasks
      BY SMTT(30) DEF Tasks
    <2>2. CASE InvokeAdmit(p)
      BY <2>1, <2>2, MovedBy, Zenon DEF InvokeAdmit
    <2>3. CASE CreatePeriodicRequest(p)
      <3>1. workflow.target + 1 \in Versions
        BY <2>3, RowTypes, StoreAssumption, SMTT(30)
        DEF CreatePeriodicRequest, CreateDuePeriodicRequest, CreateInvocationRequest,
            CreateMatches, Versions
      <3> QED BY <2>1, <2>3, <3>1, MovedBy, Zenon DEF CreatePeriodicRequest
    <2>4. CASE ScheduleTop(p)
      BY <2>1, <2>4, MovedBy, Zenon DEF ScheduleTop
    <2>5. CASE CompleteSweep(p)
      BY <2>1, <2>5, MovedBy, Zenon DEF CompleteSweep, store
    <2>6. CASE FailSweep(p)
      BY <2>1, <2>6, MovedBy, Zenon DEF FailSweep
    <2> QED BY <1>1, <2>2, <2>3, <2>4, <2>5, <2>6, SMTT(30) DEF RunnerStep
  <1>2. ASSUME NEW p \in Tasks, TaskStep(p) PROVE TaskMoved(q)
    <2>1. CASE InvokeCreate(p)
      <3>1. CreateInvocationRequest => workflow.target + 1 \in Versions
        BY RowTypes, StoreAssumption, SMTT(30) DEF CreateInvocationRequest, CreateMatches, Versions
      <3> QED BY <2>1, <3>1, MovedBy, Zenon DEF InvokeCreate
    <2>2. CASE ScheduleGet(p)
      <3>1. CASE Done(p)
        BY <3>1, MovedBy, Zenon
      <3>2. CASE /\ task' = [task EXCEPT ![p].pc = "schedule_upsert",
                                         ![p].current = workflow.current,
                                         ![p].mode = workflow.mode]
                 /\ Schedulable
        <4>1. /\ q # p => task'[q] = task[q]
              /\ task'[p].pc = "schedule_upsert" /\ task'[p].version = task[p].version
          BY <3>2, SMTT(30) DEF TypeOK, SchedulerTypeOK, Task
        <4> QED BY <2>2, <3>2, <4>1, Zenon DEF ScheduleGet, TaskMoved
      <3> QED BY <2>2, <3>1, <3>2, SMTT(30) DEF ScheduleGet
    <2>3. CASE ScheduleUpsert(p) \/ ScheduleSupercede(p) \/ ScheduleMark(p)
      <3>1. \/ Done(p) \/ Goto(p, "schedule_mark")
            \/ Goto(p, "schedule_supercede") /\ task[p].mode # "queue"
        BY <2>3, Zenon DEF ScheduleUpsert, ScheduleSupercede, ScheduleMark
      <3> QED BY <3>1, MovedBy, Zenon
    <2>4. CASE CompleteApply(p)
      BY <2>4, MovedBy, Zenon DEF CompleteApply
    <2>5. CASE CompleteGet(p)
      <3>1. /\ q # p => task'[q] = task[q]
            /\ task'[p].pc = "complete_resolve" /\ task'[p].version = task[p].version
            /\ task'[p].current = workflow.current
            /\ task'[p].state = workflow.state
        BY <2>5 DEF CompleteGet, TypeOK, SchedulerTypeOK, Task
      <3> QED BY <2>5, <3>1, Zenon DEF CompleteGet, TaskMoved
    <2>6. CASE CompleteResolve(p) \/ CompleteDelete(p) \/ CompleteFinish(p)
      <3>1. \/ Done(p)
            \/ At(p, "complete_resolve") /\ Goto(p, "complete_delete")
            \/ At(p, "complete_delete") /\ Goto(p, "complete_finish")
        BY <2>6, ZenonT(40) DEF CompleteResolve, CompleteDelete, CompleteFinish
      <3> QED BY <3>1, MovedBy, Zenon
    <2>7. CASE FailGet(p)
      <3>1. \/ Goto(p, "fail_claim")
            \/ task[p].attempts < MaxAttempts /\ Goto(p, "fail_requeue")
        BY <2>7, Zenon DEF FailGet
      <3> QED BY <2>7, <3>1, MovedBy, Zenon DEF FailGet
    <2>8. CASE FailRequeue(p)
      <3>1. Done(p) \/ Goto(p, "fail_claim")
        BY <2>8, SMTT(30) DEF FailRequeue
      <3> QED BY <3>1, MovedBy, Zenon
    <2>9. CASE FailClaim(p)
      <3>1. \/ Done(p)
            \/ /\ At(p, "fail_claim") /\ Goto(p, "fail_apply")
               /\ ClaimMatches(task[p].version, task[p].attempts)
               /\ ClaimFailedJob(task[p].version, task[p].attempts)
        BY <2>9, SMTT(30) DEF FailClaim
      <3> QED BY <3>1, MovedBy, Zenon
    <2>10. CASE FailApply(p)
      BY <2>10, MovedBy, Zenon DEF FailApply
    <2>11. CASE FailDelete(p) \/ FailFinish(p)
      <3>1. Done(p) \/ (At(p, "fail_delete") /\ Goto(p, "fail_finish"))
        BY <2>11, SMTT(30) DEF FailDelete, FailFinish
      <3> QED BY <3>1, MovedBy, Zenon
    <2> QED BY <1>2, <2>1, <2>2, <2>3, <2>4, <2>5, <2>6, <2>7, <2>8, <2>9, <2>10, <2>11, SMTT(30)
            DEF TaskStep
  <1>3. ASSUME NEW p \in Tasks, TaskFault(p) \/ DeleteFault(p) PROVE TaskMoved(q)
    <2>1. \/ Done(p)
          \/ At(p, "complete_delete") /\ Goto(p, "complete_finish")
          \/ At(p, "fail_delete") /\ Goto(p, "fail_finish")
      BY <1>3, SMTT(30) DEF TaskFault, DeleteFault
    <2> QED BY <2>1, MovedBy, Zenon
  <1>4. CASE Sweep
    BY <1>4, Zenon DEF Sweep, schedulerVars, TaskMoved
  <1> QED BY <1>1, <1>2, <1>3, <1>4, SMTT(30) DEF SchedulerNext

\* A session runs the teardown of its own run.
LEMMA SessionTasks == Sessions \subseteq Tasks
  BY SMTT(30) DEF Tasks

\* The teardown a session begins for the run it ended.
LEMMA SessionTeardowns ==
    ASSUME TypeOK, NEW s \in Sessions, SessionStep(s), NEW q \in Tasks
    PROVE  TaskMoved(q)
  <1>1. ASSUME CompleteOperation(s), session[s].pc \in ActivePcs PROVE TaskMoved(q)
    <2>1. CASE Owns(s)
      <3>1. Begin(s, "complete_apply", session[s].version, 0)
        BY <1>1, <2>1, SMTT(30) DEF CompleteOperation
      <3>2. UpdateJobStatus(s, "completed")
        BY <1>1, SMTT(30) DEF CompleteOperation
      <3>3. /\ q # s => task'[q] = task[q]
            /\ task'[s].pc = "complete_apply" /\ task'[s].version = session[s].version
        BY SessionTasks, <3>1, TaskFields, SMTT(30)
      <3> QED BY <1>1, <2>1, <3>2, <3>3, Zenon DEF TaskMoved, EndedBySession
    <2>2. CASE ~Owns(s)
      BY <1>1, <2>2, Zenon DEF CompleteOperation, TaskMoved
    <2> QED BY <2>1, <2>2, SMTT(30)
  <1>2. ASSUME NEW pc, FailOperation(s, pc) PROVE TaskMoved(q)
    <2>1. \/ Begin(s, "fail_get", session[s].version, session[s].attempts)
          \/ UNCHANGED task
      BY <1>2, SMTT(30) DEF FailOperation
    <2> QED
      <3>1. s \in Tasks
        BY SessionTasks
      <3> QED BY <2>1, <3>1, MovedBy, Zenon DEF TaskMoved
  <1>3. CASE CompleteAcquired(s) \/ OperationCompletes(s)
    BY <1>1, <1>3, SMTT(30) DEF CompleteAcquired, OperationCompletes, In, ActivePcs
  <1>4. CASE OperationFails(s) \/ SessionBreaks(s)
    BY <1>2, <1>4, SMTT(30) DEF OperationFails, SessionBreaks
  <1>5. CASE SessionCrash(s)
    <2>1. s \in Tasks
      BY SessionTasks
    <2> QED BY <1>5, <2>1, MovedBy, Zenon DEF SessionCrash, TaskMoved
  <1>6. CASE \/ Acquire(s) \/ Dispatch(s) \/ MarkInvoking(s) \/ MarkInProgress(s)
             \/ Launch(s) \/ LaunchFails(s) \/ Acknowledge(s) \/ AcknowledgeTimeout(s)
             \/ OperationHasNext(s) \/ OperationOpensGate(s) \/ MarkParked(s)
             \/ TakeSignal(s) \/ OperationTimeout(s) \/ Finish(s) \/ Renew(s)
             \/ LoseLease(s) \/ Release(s) \/ Reconnect(s) \/ SessionFault(s)
    <2>1. UNCHANGED task
      BY <1>6, Zenon DEF Acquire, Dispatch, MarkInvoking, MarkInProgress, Launch, LaunchFails,
           Acknowledge, AcknowledgeTimeout, OperationHasNext, OperationOpensGate,
           MarkParked, TakeSignal, OperationTimeout, Finish, Renew, LoseLease, Release,
           Reconnect, SessionFault, NoTask, schedulerVars
    <2> QED BY <2>1, Zenon DEF TaskMoved
  <1> QED BY <1>3, <1>4, <1>5, <1>6, SMTT(30) DEF SessionStep

\* Everybody else leaves the tasks alone.
LEMMA OperatorsLeaveProcesses ==
    ASSUME LeaseAges \/ DelayPasses \/ DecideGate \/ LifecycleNext
    PROVE  UNCHANGED <<task, session>>
  BY ZenonT(40) DEF LeaseAges, DelayPasses, DecideGate, NoTask, LifecycleNext, AdminStep,
     ActivateWorkflow, AcknowledgeInterruption, SetWorkflowConfig, AbandonQueued,
     SweepAbandoned, SuspendWorkflow, ReconcileSuspension, SuspendAbandon,
     SuspendCheck, SuspendFinalize, SuspendAbort, ResumeWorkflow, ResumeRestore,
     DeleteWorkflow, ReconcileDeletion, DeleteAbandon, DeleteCheck, DeleteFinalize,
     AdminFault, processes, sessionVars, schedulerVars

\* A step is one of shared statements that leaves sessions alone, or a session's.
LEMMA NextStatements ==
    ASSUME TypeOK, [Next]_vars
    PROVE  /\ \/ SharedStatement /\ UNCHANGED session
              \/ \E s \in Sessions : SessionStep(s) /\ OwnStatement(s)
           /\ \A q \in Tasks : TaskMoved(q)
  <1>1. CASE Scheduling(SchedulerNext)
    BY <1>1, SchedulerStatements, SchedulerMoves, SMTT(30) DEF Scheduling, sessionVars
  <1>2. ASSUME NEW s \in Sessions, SessionStep(s)
        PROVE  OwnStatement(s) /\ \A q \in Tasks : TaskMoved(q)
    BY <1>2, SessionStatements, SessionTeardowns, SMTT(30)
  <1>3. CASE LeaseAges \/ DelayPasses \/ DecideGate \/ LifecycleNext
    <2>1. SharedStatement /\ UNCHANGED <<task, session>>
      BY <1>3, OperatorStatements, OperatorsLeaveProcesses, SMTT(30)
    <2> QED BY <2>1, Zenon DEF TaskMoved
  <1>4. CASE UNCHANGED vars
    BY <1>4, Zenon DEF vars, store, schedulerVars, sessionVars, SharedStatement, TaskMoved
  <1> QED BY <1>1, <1>2, <1>3, <1>4, SMTT(30) DEF Next, SessionNext

-----------------------------------------------------------------------------
(* Rows of the table jobs.                                                 *)

\* There is no job, or it is a job of some run.
NoHalfJob == JobExists \/ job = NoJob

\* What is being scheduled is a request.
SchedulesRequest ==
    \A p \in Tasks : At(p, "schedule_get") \/ At(p, "schedule_upsert")
                       => task[p].version \in Versions

\* A goroutine about to requeue a job read that it had attempts left.
RequeuesWithinLimit ==
    \A p \in Tasks : At(p, "fail_requeue") => task[p].attempts < MaxAttempts

JobInv == NoHalfJob /\ SchedulesRequest /\ RequeuesWithinLimit /\ AttemptsBounded

\* What any statement may do to a job, whoever runs it.
LEMMA SharedKeepsJob ==
    ASSUME TypeOK, JobInv, SharedStatement
    PROVE  NoHalfJob' /\ AttemptsBounded'
  <1> USE DEF NoHalfJob, JobExists, AttemptsBounded, JobInv
  <1>1. /\ job \in JobRow /\ NoJob.version = 0 /\ NoJob.attempts = 0
        /\ NoJob.status = "none" /\ NoJob.owner = NoSession /\ NoJob.due = TRUE
        /\ MaxAttempts \in Nat
    BY SchedulerAssumption, Zenon DEF TypeOK, StoreTypeOK, NoJob
  <1>2. CASE UNCHANGED job
    BY <1>2, SMTT(30)
  <1>3. ASSUME NEW v, DeleteTerminalJob(v) PROVE NoHalfJob' /\ AttemptsBounded'
    BY <1>1, <1>3, SMTT(30) DEF DeleteTerminalJob
  <1>4. ASSUME NEW p \in Tasks, At(p, "fail_requeue"),
               RequeueJob(task[p].version, task[p].attempts)
        PROVE  NoHalfJob' /\ AttemptsBounded'
    <2>1. CASE RequeueMatches(task[p].version, task[p].attempts)
      <3>1. job.attempts < MaxAttempts /\ job # NoJob
        BY <1>1, <1>4, <2>1, Zenon DEF RequeueMatches, RequeuesWithinLimit
      <3> QED BY <1>1, <1>4, <2>1, <3>1, SMTT(30) DEF RequeueJob, JobRow
    <2>2. CASE ~RequeueMatches(task[p].version, task[p].attempts)
      BY <1>4, <2>2, SMTT(30) DEF RequeueJob
    <2> QED BY <2>1, <2>2, SMTT(30)
  <1>5. ASSUME NEW v, NEW n, ClaimFailedJob(v, n) PROVE NoHalfJob' /\ AttemptsBounded'
    BY <1>1, <1>5, SMTT(30) DEF ClaimFailedJob, ClaimMatches, JobRow
  <1>6. ASSUME NEW p \in Tasks, At(p, "schedule_upsert"),
               UpsertJobAndSchedule(task[p].version, task[p].current, task[p].mode)
        PROVE  NoHalfJob' /\ AttemptsBounded'
    <2>1. task[p].version # 0
      BY <1>6, SMTT(30) DEF SchedulesRequest, Versions
    <2>2. job' = job \/ (job'.version = task[p].version /\ job'.attempts = 0)
      BY <1>6, Zenon DEF UpsertJobAndSchedule, store, NoJob
    <2> QED BY <1>1, <2>1, <2>2, SMTT(30)
  <1>7. CASE MarkOrphanedJobsFailed \/ SweepAbandonedJobs \/ LeaseAges \/ DelayPasses
    <2>1. job # NoJob
      BY <1>1, <1>7, StoreAssumption
      DEF MarkOrphanedJobsFailed, SweepAbandonedJobs, LeaseAges, DelayPasses
    <2>2. job'.version = job.version /\ job'.attempts = job.attempts
      BY <1>1, <1>7
      DEF MarkOrphanedJobsFailed, SweepAbandonedJobs, LeaseAges, DelayPasses, JobRow
    <2> QED BY <2>1, <2>2
  <1>8. ASSUME \/ \E id : MarkAbandonRequested(id)
               \/ \E id, stop : MarkSuspensionRequested(id, stop)
        PROVE  NoHalfJob' /\ AttemptsBounded'
    BY <1>1, <1>8, ZenonT(40) DEF MarkAbandonRequested, MarkSuspensionRequested, JobRow
  <1>9. ASSUME NEW g, NEW parked \in {"awaiting_approval", "awaiting_input"},
               NEW st, ResolveGate(g, parked, st)
        PROVE  NoHalfJob' /\ AttemptsBounded'
    <2>1. job # NoJob
      BY <1>1, <1>9, SMTT(30) DEF ResolveGate
    <2> QED BY <1>1, <1>9, <2>1 DEF ResolveGate, JobRow
  <1> QED BY <1>2, <1>3, <1>4, <1>5, <1>6, <1>7, <1>8, <1>9, Zenon DEF SharedStatement

\* A session writes only a job that is there, and neither its version nor its
\* attempts.
LEMMA OwnKeepsJob ==
    ASSUME TypeOK, NoHalfJob, NEW s \in Sessions, OwnStatement(s)
    PROVE  /\ NoHalfJob'
           /\ job'.version = job.version /\ job'.attempts = job.attempts
  <1>1. /\ job \in JobRow /\ NoJob.status = "none" /\ NoJob.owner # s
        /\ "none" \notin Acquirable
    BY StoreAssumption, Zenon DEF TypeOK, StoreTypeOK, NoJob, Acquirable
  <1>2. job' # job => job # NoJob
    BY <1>1, Zenon DEF OwnStatement, AcquireJob, AcquireMatches, RenewJobLease, DispatchJob,
       DispatchMatches, ReleaseJob, UpdateJobStatus, UpdateJobWithMetrics, ParkJob, Owns
  <1>3. job'.version = job.version /\ job'.attempts = job.attempts
    <2>1. CASE AcquireJob(s) \/ RenewJobLease(s) \/ ReleaseJob(s)
      BY <1>1, <2>1, ZenonT(40) DEF AcquireJob, RenewJobLease, ReleaseJob, JobRow
    <2>2. CASE DispatchJob(s) \/ \E st : UpdateJobStatus(s, st)
      BY <1>1, <2>2, ZenonT(40) DEF DispatchJob, UpdateJobStatus, JobRow
    <2>3. CASE (\E d : UpdateJobWithMetrics(s, d)) \/ \E st, g : ParkJob(s, st, g)
      BY <1>1, <2>3, ZenonT(40) DEF UpdateJobWithMetrics, ParkJob, JobRow
    <2> QED BY <2>1, <2>2, <2>3, Zenon DEF OwnStatement
  <1> QED BY <1>2, <1>3, SMTT(30) DEF NoHalfJob, JobExists

\* JobInv is inductive.
LEMMA NextJob == ASSUME TypeOK, JobInv, [Next]_vars PROVE JobInv'
  <1>1. NoHalfJob' /\ AttemptsBounded'
    BY NextStatements, SharedKeepsJob, OwnKeepsJob, Zenon DEF JobInv, AttemptsBounded
  <1>2. SchedulesRequest'
    <2> SUFFICES ASSUME NEW p \in Tasks,
                        task'[p].pc = "schedule_get" \/ task'[p].pc = "schedule_upsert"
                 PROVE  task'[p].version \in Versions
      BY SMTT(30) DEF SchedulesRequest, At, Versions
    <2>1. TaskMoved(p)
      BY NextStatements, Zenon
    <2> QED BY <2>1, Zenon DEF TaskMoved, JobInv, SchedulesRequest, At
  <1>3. RequeuesWithinLimit'
    <2> SUFFICES ASSUME NEW p \in Tasks, task'[p].pc = "fail_requeue"
                 PROVE  task'[p].attempts < MaxAttempts
      BY Zenon DEF RequeuesWithinLimit, At
    <2>1. TaskMoved(p)
      BY NextStatements, SMTT(30)
    <2> QED BY <2>1, Zenon DEF TaskMoved, JobInv, RequeuesWithinLimit, At
  <1> QED BY <1>1, <1>2, <1>3 DEF JobInv

\* There is no job and no task at first.
LEMMA InitJob == Init => JobInv
  <1> SUFFICES ASSUME Init PROVE JobInv
    BY SMTT(30)
  <1>1. job = NoJob /\ NoJob.attempts <= MaxAttempts
    BY SchedulerAssumption, SMTT(30) DEF Init, StoreInit, NoJob
  <1>2. \A p \in Tasks : task[p].pc = "idle"
    BY DEF Init, SchedulerInit, Idle, NewTask
  <1> QED BY <1>1, <1>2, SMTT(30)
          DEF JobInv, NoHalfJob, SchedulesRequest, RequeuesWithinLimit, AttemptsBounded, At

\* JobInv holds of every behaviour.
THEOREM JobInvariant == Spec => [](TypeOK /\ JobInv)
  <1>1. TypeOK /\ JobInv /\ [Next]_vars => JobInv'
    BY NextJob, SMTT(30)
  <1> QED BY <1>1, InitJob, TypeCorrect, PTL DEF Spec

\* A run is requeued for another worker at most maxJobAttempts times, however many
\* goroutines sweep the same failure at once: the requeue compares the attempts
\* that were read with the row.
THEOREM AttemptsStayBounded == Spec => []AttemptsBounded
  <1>1. JobInv => AttemptsBounded
    BY SMTT(30) DEF JobInv
  <1> QED BY <1>1, JobInvariant, PTL

-----------------------------------------------------------------------------
(* What the owner column fences off.                                       *)

\* No statement makes a session the owner but its own acquisition, and a job held
\* under a live lease whose run is not over keeps its owner while it is launched.
LEMMA SharedSpares ==
    ASSUME TypeOK, NoHalfJob, SharedStatement, NEW s \in Sessions
    PROVE  /\ job'.owner = s => Owns(s)
           /\ Owns(s) /\ job.lease = "live" /\ job.status \notin Ended =>
                /\ job'.owner = s => /\ job'.version = job.version
                                     /\ job'.status \notin Ended
                                     /\ job'.lease = job.lease \/ LeaseAges
                /\ job.status \in Launched =>
                     job'.owner = s /\ job'.status = job.status
  <1> USE DEF Owns, Ended, Launched
  <1> DEFINE Spared ==
        /\ job'.owner = s => job.owner = s
        /\ job.owner = s /\ job.lease = "live" /\ job.status \notin Ended =>
             /\ job'.owner = s => /\ job'.version = job.version
                                  /\ job'.status \notin Ended
                                  /\ job'.lease = job.lease \/ LeaseAges
             /\ job.status \in Launched =>
                  job'.owner = s /\ job'.status = job.status
  <1>1. job \in JobRow /\ NoJob.owner = NoSession /\ s # NoSession
    BY StoreAssumption, Zenon DEF TypeOK, StoreTypeOK, NoJob
  <1>2. CASE UNCHANGED job
    BY <1>2, SMTT(30)
  <1>3. ASSUME NEW v, DeleteTerminalJob(v) PROVE Spared
    BY <1>1, <1>3, Zenon DEF DeleteTerminalJob
  <1>4. ASSUME NEW v, NEW n, RequeueJob(v, n) \/ ClaimFailedJob(v, n) PROVE Spared
    BY <1>1, <1>4, Zenon DEF RequeueJob, ClaimFailedJob, RequeueMatches, ClaimMatches, JobRow
  <1>5. ASSUME NEW v, NEW c, NEW m, UpsertJobAndSchedule(v, c, m) PROVE Spared
    <2>1. CASE UNCHANGED job
      BY <2>1
    <2>2. CASE UpsertMatches(v, c, m)
      <3>1. job'.owner = NoSession
        BY <1>5, <2>2, ZenonT(40) DEF UpsertJobAndSchedule, NoJob
      <3>2. job.status \notin Launched \/ job.owner # s
        BY <1>1, <2>2 DEF UpsertMatches, SlotOpen, NoHalfJob
      <3> QED BY <1>1, <3>1, <3>2
    <2> QED BY <1>5, <2>1, <2>2 DEF UpsertJobAndSchedule, store
  <1>6. CASE MarkOrphanedJobsFailed \/ SweepAbandonedJobs
    BY <1>1, <1>6 DEF MarkOrphanedJobsFailed, SweepAbandonedJobs, Unheld, JobRow
  <1>7. ASSUME \/ \E id : MarkAbandonRequested(id)
               \/ \E id, stop : MarkSuspensionRequested(id, stop)
        PROVE  Spared
    BY <1>1, <1>7, ZenonT(40) DEF MarkAbandonRequested, MarkSuspensionRequested, JobRow
  <1>8. ASSUME NEW g, NEW parked \in {"awaiting_approval", "awaiting_input"},
               NEW st \in Acquirable, ResolveGate(g, parked, st)
        PROVE  Spared
    BY <1>1, <1>8 DEF ResolveGate, Acquirable, JobRow
  <1>9. CASE LeaseAges
    <2>1. /\ job'.owner = job.owner /\ job'.status = job.status
          /\ job'.version = job.version
      BY <1>1, <1>9, SMTT(30) DEF LeaseAges, JobRow
    <2> QED BY <1>9, <2>1, Zenon
  <1>10. CASE DelayPasses
    BY <1>1, <1>10, SMTT(30) DEF DelayPasses, JobRow
  <1>11. Spared
    BY <1>2, <1>3, <1>4, <1>5, <1>6, <1>7, <1>8, <1>9, <1>10, Zenon DEF SharedStatement
  <1> QED BY <1>11, Zenon

\* Another session's statements do not touch a job held under a live lease.
LEMMA OthersSpare ==
    ASSUME TypeOK, NEW s \in Sessions, NEW t \in Sessions, t # s, OwnStatement(t)
    PROVE  /\ job'.owner = s => Owns(s)
           /\ Owns(s) /\ job.lease = "live" => job' = job
  <1>1. job \in JobRow /\ s # NoSession
    BY StoreAssumption, SMTT(30) DEF TypeOK, StoreTypeOK
  <1>2. CASE Owns(t)
    <2>1. job'.owner \in {t, NoSession}
      BY <1>1, <1>2, ZenonT(40) DEF OwnStatement, AcquireJob, RenewJobLease, DispatchJob, ReleaseJob,
         UpdateJobStatus, UpdateJobWithMetrics, ParkJob, Owns, JobRow
    <2> QED BY <1>1, <1>2, <2>1, SMTT(30) DEF Owns
  <1>3. CASE ~Owns(t)
    <2>1. job' = job \/ AcquireJob(t)
      BY <1>3 DEF OwnStatement, RenewJobLease, DispatchJob, DispatchMatches, ReleaseJob,
         UpdateJobStatus, UpdateJobWithMetrics, ParkJob
    <2>2. CASE AcquireJob(t)
      BY <1>1, <2>2, SMTT(30) DEF AcquireJob, AcquireMatches, Unheld, Owns, JobRow
    <2> QED BY <2>1, <2>2 DEF Owns
  <1> QED BY <1>2, <1>3, SMTT(30)

\* The pc of a session that goes on, or lets go of its job.
LEMMA SessionFields ==
    ASSUME TypeOK, NEW s \in Sessions
    PROVE  /\ \A pc : SessionGoto(s, pc) =>
                /\ \A t \in Sessions \ {s} : session'[t] = session[t]
                /\ session'[s].pc = pc
                /\ session'[s].version = session[s].version
                /\ session'[s].release = session[s].release
           /\ \A pc : Forget(s, pc) =>
                /\ \A t \in Sessions \ {s} : session'[t] = session[t]
                /\ session'[s].pc = pc
  <1>1. ASSUME NEW pc, SessionGoto(s, pc)
        PROVE  /\ \A t \in Sessions \ {s} : session'[t] = session[t]
               /\ session'[s].pc = pc
               /\ session'[s].version = session[s].version
               /\ session'[s].release = session[s].release
    BY <1>1, SMTT(30) DEF SessionGoto, TypeOK, SessionTypeOK, Session
  <1>2. ASSUME NEW pc, Forget(s, pc)
        PROVE  /\ \A t \in Sessions \ {s} : session'[t] = session[t]
               /\ session'[s].pc = pc
    <2>1. PICK release \in BOOLEAN :
            session' = [session EXCEPT ![s] =
              [NewSession EXCEPT !.pc = pc, !.signal = session[s].signal,
                                 !.release = release]]
      BY <1>2, Zenon DEF Forget
    <2>2. [NewSession EXCEPT !.pc = pc, !.signal = session[s].signal,
                             !.release = release].pc = pc
      BY SMTT(30) DEF NewSession
    <2> QED BY <2>1, <2>2, SMTT(30) DEF TypeOK, SessionTypeOK
  <1> QED BY <1>1, <1>2, Zenon

\* How a session may come to where its own step leaves it.
SessionMoved(s) ==
    /\ \A t \in Sessions \ {s} : session'[t] = session[t]
    /\ \/ /\ session'[s].pc \notin ActivePcs
          /\ session[s].pc \in ActivePcs \/ UNCHANGED job
       \/ /\ In(s, "idle") /\ session'[s].pc = "acquired"
          /\ session'[s].version = job.version
          /\ ~session'[s].release \/ Stalls
          /\ AcquireJob(s)
       \/ /\ session'[s].version = session[s].version
          /\ session'[s].release = session[s].release
          /\ \/ /\ In(s, "acquired") /\ session'[s].pc = "dispatched"
                /\ DispatchMatches(s) /\ DispatchJob(s)
             \/ /\ In(s, "waiting") /\ session'[s].pc = "busy"
                /\ Owns(s) /\ UpdateJobStatus(s, "running")
             \/ /\ session[s].pc \in Executing /\ session'[s].pc \in Executing
                /\ UNCHANGED job
             \/ /\ session[s].pc \in ActivePcs /\ session'[s].pc = session[s].pc
                /\ RenewJobLease(s)
       \/ /\ session'[s].pc = session[s].pc
          /\ session[s].release /\ ~session'[s].release

\* Every step of a session moves it in one of these ways.
LEMMA SessionSteps ==
    ASSUME TypeOK, NEW s \in Sessions, SessionStep(s)
    PROVE  SessionMoved(s)
  <1> USE DEF ActivePcs, Executing
  <1>1. ASSUME CompleteOperation(s) \/ \E pc \in {"idle", "gone"} : FailOperation(s, pc),
               session[s].pc \in ActivePcs
        PROVE  SessionMoved(s)
    <2>1. \E pc \in {"finishing", "leaving", "idle", "gone"} :
            SessionGoto(s, pc) \/ Forget(s, pc)
      BY <1>1, Zenon DEF CompleteOperation, FailOperation
    <2> QED BY <1>1, <2>1, SessionFields, Zenon DEF SessionMoved
  <1>2. CASE CompleteAcquired(s) \/ OperationCompletes(s) \/ OperationFails(s) \/ SessionBreaks(s)
    BY <1>1, <1>2, Zenon
    DEF CompleteAcquired, OperationCompletes, OperationFails, SessionBreaks, In
  <1>3. CASE Acquire(s)
    <2> DEFINE t == [session[s] EXCEPT !.pc = "acquired", !.version = job.version,
                       !.attempts = job.attempts, !.status = job.status,
                       !.abandon = job.abandon, !.signalled = FALSE]
    <2>1. session' = [session EXCEPT ![s] = t]
      BY <1>3, SMTT(30) DEF Acquire
    <2>2. /\ t.pc = "acquired" /\ t.version = job.version
          /\ t.release = session[s].release
      BY SMTT(30) DEF TypeOK, SessionTypeOK, Session
    <2> HIDE DEF t
    <2>3. /\ \A u \in Sessions \ {s} : session'[u] = session[u]
          /\ session'[s] = t
      BY <2>1, SMTT(30) DEF TypeOK, SessionTypeOK
    <2> QED BY <1>3, <2>2, <2>3, SMTT(30) DEF Acquire, SessionMoved
  <1>4. CASE Dispatch(s)
    <2>1. CASE DispatchMatches(s)
      <3>1. In(s, "acquired") /\ DispatchJob(s) /\ SessionGoto(s, "dispatched")
        BY <1>4, <2>1, Zenon DEF Dispatch
      <3> QED BY <2>1, <3>1, SessionFields, Zenon DEF SessionMoved
    <2>2. CASE ~DispatchMatches(s)
      <3>1. session[s].pc \in ActivePcs /\ Forget(s, "idle")
        BY <1>4, <2>2, Zenon DEF Dispatch, In
      <3>2. "idle" \notin ActivePcs
        BY SMTT(30)
      <3> QED BY <3>1, <3>2, SessionFields, Zenon DEF SessionMoved
    <2> QED BY <2>1, <2>2
  <1>5. CASE Acknowledge(s)
    <2>1. CASE Owns(s)
      <3>1. In(s, "waiting") /\ UpdateJobStatus(s, "running") /\ SessionGoto(s, "busy")
        BY <1>5, <2>1, Zenon DEF Acknowledge
      <3> QED BY <2>1, <3>1, SessionFields, Zenon DEF SessionMoved
    <2>2. CASE ~Owns(s)
      <3>1. session[s].pc \in ActivePcs /\ Forget(s, "gone")
        BY <1>5, <2>2, Zenon DEF Acknowledge, In
      <3>2. "gone" \notin ActivePcs
        BY SMTT(30)
      <3> QED BY <3>1, <3>2, SessionFields, Zenon DEF SessionMoved
    <2> QED BY <2>1, <2>2
  <1>6. CASE MarkInvoking(s) \/ MarkInProgress(s) \/ Launch(s) \/ OperationTimeout(s)
    <2>1. /\ UNCHANGED job /\ session[s].pc \in Executing
          /\ \E pc \in Executing : SessionGoto(s, pc)
      BY <1>6, SMTT(30) DEF MarkInvoking, MarkInProgress, Launch, OperationTimeout, In,
                  MarkLifecycle, MarkRequestInProgress, store
    <2> QED BY <2>1, SessionFields, ZenonT(40) DEF SessionMoved
  <1>7. CASE TakeSignal(s)
    <2>1. /\ \A t \in Sessions \ {s} : session'[t] = session[t]
          /\ session'[s].version = session[s].version
          /\ session'[s].release = session[s].release
          /\ session'[s].pc \in {"busy", "cancelling"}
      BY <1>7 DEF TakeSignal, In, TypeOK, SessionTypeOK, Session
    <2> QED BY <1>7, <2>1, Zenon DEF TakeSignal, In, SessionMoved, store
  <1>8. CASE Renew(s)
    <2>1. /\ \A t \in Sessions \ {s} : session'[t] = session[t]
          /\ session'[s].version = session[s].version
          /\ session'[s].release = session[s].release
          /\ session'[s].pc = session[s].pc
      BY <1>8 DEF Renew, TypeOK, SessionTypeOK, Session
    <2> QED BY <1>8, <2>1, Zenon DEF Renew, SessionMoved
  <1>9. CASE Release(s)
    <2>1. /\ \A t \in Sessions \ {s} : session'[t] = session[t]
          /\ session'[s].pc = session[s].pc /\ ~session'[s].release
      BY <1>9 DEF Release, TypeOK, SessionTypeOK, Session
    <2> QED BY <1>9, <2>1, ZenonT(40) DEF Release, SessionMoved
  <1>10. CASE LaunchFails(s) \/ OperationHasNext(s) \/ AcknowledgeTimeout(s) \/ SessionFault(s)
    <2>1. /\ session[s].pc \in ActivePcs
          /\ \E pc \in {"idle", "gone"} : Forget(s, pc)
      BY <1>10, Zenon DEF LaunchFails, OperationHasNext, AcknowledgeTimeout, SessionFault, In
    <2> QED BY <2>1, SessionFields, Zenon DEF SessionMoved
  <1>11. CASE OperationOpensGate(s)
    <2>1. /\ \A t \in Sessions \ {s} : session'[t] = session[t]
          /\ session'[s].pc = "parked"
      BY <1>11 DEF OperationOpensGate, TypeOK, SessionTypeOK, Session
    <2> QED BY <1>11, <2>1, Zenon DEF OperationOpensGate, SessionMoved
  <1>12. CASE MarkParked(s) \/ Finish(s)
    <2>1. UNCHANGED job /\ \E pc \in {"idle", "gone"} : Forget(s, pc)
      BY <1>12, SMTT(30) DEF MarkParked, Finish, MarkAwaiting, store
    <2> QED BY <2>1, SessionFields, Zenon DEF SessionMoved
  <1>13. CASE LoseLease(s) \/ Reconnect(s) \/ SessionCrash(s)
    <2>1. UNCHANGED job
      BY <1>13, SMTT(30) DEF LoseLease, Reconnect, SessionCrash, store
    <2>2. /\ \A u \in Sessions \ {s} : session'[u] = session[u]
          /\ \/ session'[s] = NewSession
             \/ session'[s] = [NewSession EXCEPT !.pc = "gone"]
             \/ session'[s] = [NewSession EXCEPT !.pc = "gone",
                                                !.release = session[s].release]
      BY <1>13, SMTT(30) DEF LoseLease, Reconnect, SessionCrash, TypeOK, SessionTypeOK
    <2>3. /\ NewSession.pc = "idle" /\ [NewSession EXCEPT !.pc = "gone"].pc = "gone"
          /\ [NewSession EXCEPT !.pc = "gone", !.release = session[s].release].pc = "gone"
      BY SMTT(30) DEF NewSession
    <2>4. session'[s].pc \in {"idle", "gone"}
      BY <2>2, <2>3, ZenonT(40)
    <2> QED BY <2>1, <2>2, <2>4, SMTT(30) DEF SessionMoved
  <1> QED BY <1>2, <1>3, <1>4, <1>5, <1>6, <1>7, <1>8, <1>9, <1>10, <1>11, <1>12, <1>13, Zenon
          DEF SessionStep

\* Under a live lease nothing but the session itself ends, requeues or takes the
\* job it executes: what sweeps, goroutines with stale reads, operators and other
\* sessions - also one held up until its lease lapsed - still write matches no
\* row, or leaves version, owner and status alone.
THEOREM OwnerFenced == Spec => OwnerFence
  <1>1. TypeOK /\ JobInv /\ [Next]_vars
          => [\A s \in Sessions :
                /\ Owns(s) /\ job.lease = "live" /\ job.status \in {"dispatched", "running"}
                /\ session'[s] = session[s]
                => /\ Owns(s)' /\ job'.version = job.version
                   /\ job'.status = job.status]_vars
    <2> SUFFICES ASSUME TypeOK, JobInv, [Next]_vars, NEW s \in Sessions,
                        Owns(s), job.lease = "live", job.status \in Launched,
                        session'[s] = session[s]
                 PROVE  /\ job'.owner = s /\ job'.version = job.version
                        /\ job'.status = job.status
      BY Zenon DEF Owns, Launched
    <2>1. job.status \notin Ended /\ NoHalfJob /\ job \in JobRow
      BY Zenon DEF Ended, Launched, JobInv, TypeOK, StoreTypeOK
    <2>2. CASE SharedStatement
      BY <2>1, <2>2, SharedSpares, Zenon
    <2>3. ASSUME NEW t \in Sessions, SessionStep(t), OwnStatement(t), t # s
          PROVE  job' = job
      BY <2>3, OthersSpare, Zenon
    <2>4. CASE SessionStep(s)
      <3>1. SessionMoved(s)
        BY <2>4, SessionSteps, Zenon
      <3>2. UNCHANGED job \/ RenewJobLease(s)
        BY <3>1, Zenon DEF SessionMoved, In, ActivePcs, Executing
      <3> QED BY <2>1, <3>2, SMTT(30) DEF RenewJobLease, Owns, JobRow
    <2> QED BY <2>2, <2>3, <2>4, NextStatements, Zenon DEF Owns
  <1> QED BY <1>1, JobInvariant, PTL DEF Spec, OwnerFence

-----------------------------------------------------------------------------
(* Sessions that keep to their timing.                                     *)

\* A session at work has no release outstanding; a job it still owns is the one it
\* acquired, under a live lease and not over; from the dispatch on it owns it.
SessionOK(s) ==
    session[s].pc \in ActivePcs =>
      /\ ~session[s].release
      /\ Owns(s) => /\ job.version = session[s].version
                    /\ job.status \notin Ended /\ job.lease = "live"
      /\ session[s].pc \in Executing => Owns(s) /\ job.status \in Launched

SessionsOK == \A s \in Sessions : SessionOK(s)

\* Time takes the lease of a silent session only.
LEMMA LeaseOfActive ==
    ASSUME ~Stalls, NEW s \in Sessions, Owns(s), session[s].pc \in ActivePcs
    PROVE  ~LeaseAges
  BY SMTT(30) DEF LeaseAges, Silent, Owns, ActivePcs

\* A session that is left alone keeps its job.
LEMMA SessionKept ==
    ASSUME TypeOK, NoHalfJob, ~Stalls, NEW s \in Sessions, SessionOK(s),
           session'[s] = session[s],
           SharedStatement \/ \E t \in Sessions : t # s /\ OwnStatement(t)
    PROVE  SessionOK(s)'
  <1> SUFFICES ASSUME session[s].pc \in ActivePcs
               PROVE  /\ job'.owner = s =>
                           /\ job'.version = session[s].version
                           /\ job'.status \notin Ended /\ job'.lease = "live"
                      /\ session[s].pc \in Executing =>
                           job'.owner = s /\ job'.status \in Launched
    BY Zenon DEF SessionOK, Owns
  <1>1. /\ Owns(s) => /\ job.version = session[s].version
                      /\ job.status \notin Ended /\ job.lease = "live"
        /\ session[s].pc \in Executing => Owns(s) /\ job.status \in Launched
    BY Zenon DEF SessionOK
  <1>2. CASE SharedStatement
    <2>1. CASE Owns(s)
      BY <1>1, <1>2, <2>1, SharedSpares, LeaseOfActive, Zenon
    <2>2. CASE ~Owns(s)
      BY <1>1, <1>2, <2>2, SharedSpares, Zenon
    <2> QED BY <2>1, <2>2, Zenon
  <1>3. ASSUME NEW t \in Sessions, t # s, OwnStatement(t)
        PROVE  /\ job'.owner = s =>
                    /\ job'.version = session[s].version
                    /\ job'.status \notin Ended /\ job'.lease = "live"
               /\ session[s].pc \in Executing =>
                    job'.owner = s /\ job'.status \in Launched
    <2>1. /\ job'.owner = s => Owns(s)
          /\ Owns(s) /\ job.lease = "live" => job' = job
      BY <1>3, OthersSpare, Zenon
    <2> QED BY <1>1, <2>1, Zenon DEF Owns
  <1> QED BY <1>2, <1>3, Zenon

\* A session's own step keeps to it.
LEMMA SessionGoesOn ==
    ASSUME TypeOK, ~Stalls, NEW s \in Sessions, SessionOK(s), SessionStep(s)
    PROVE  SessionOK(s)'
  <1>1. job \in JobRow
    BY SMTT(30) DEF TypeOK, StoreTypeOK
  <1>2. SessionMoved(s)
    BY SessionSteps, SMTT(30)
  <1>3. CASE session'[s].pc \notin ActivePcs
    BY <1>3, Zenon DEF SessionOK
  <1>4. CASE /\ In(s, "idle") /\ session'[s].pc = "acquired"
             /\ session'[s].version = job.version
             /\ ~session'[s].release
             /\ AcquireJob(s)
    <2>1. /\ job'.version = job.version /\ job'.status = job.status
          /\ job'.lease = "live" /\ job.status \in Acquirable
      BY <1>1, <1>4, SMTT(30) DEF AcquireJob, AcquireMatches, JobRow
    <2> QED BY <1>4, <2>1, Zenon DEF SessionOK, Executing, Acquirable, Ended
  <1>5. ASSUME session'[s].version = session[s].version,
               session'[s].release = session[s].release,
               In(s, "acquired"), session'[s].pc = "dispatched",
               DispatchMatches(s), DispatchJob(s)
        PROVE  SessionOK(s)'
    <2>1. /\ job'.version = job.version /\ job'.owner = s
          /\ job'.lease = job.lease /\ job'.status = "dispatched"
      BY <1>1, <1>5, SMTT(30) DEF DispatchJob, DispatchMatches, Owns, JobRow
    <2>2. /\ ~session[s].release /\ job.version = session[s].version
          /\ job.lease = "live"
      BY <1>5, Zenon DEF SessionOK, In, ActivePcs, DispatchMatches
    <2> QED BY <1>5, <2>1, <2>2, Zenon DEF SessionOK, Owns, Ended, Launched
  <1>6. ASSUME session'[s].version = session[s].version,
               session'[s].release = session[s].release,
               In(s, "waiting"), session'[s].pc = "busy", Owns(s),
               UpdateJobStatus(s, "running")
        PROVE  SessionOK(s)'
    <2>1. /\ job'.version = job.version /\ job'.owner = s
          /\ job'.lease = job.lease /\ job'.status = "running"
      BY <1>1, <1>6, SMTT(30) DEF UpdateJobStatus, Owns, JobRow
    <2>2. /\ ~session[s].release /\ job.version = session[s].version
          /\ job.lease = "live"
      BY <1>6, Zenon DEF SessionOK, In, ActivePcs
    <2> QED BY <1>6, <2>1, <2>2, Zenon DEF SessionOK, Owns, Ended, Launched
  <1>7. ASSUME session'[s].version = session[s].version,
               session'[s].release = session[s].release,
               session[s].pc \in Executing /\ session'[s].pc \in Executing,
               UNCHANGED job
        PROVE  SessionOK(s)'
    BY <1>7, Zenon DEF SessionOK, Executing, ActivePcs, Owns
  <1>8. ASSUME session'[s].version = session[s].version,
               session'[s].release = session[s].release,
               session[s].pc \in ActivePcs, session'[s].pc = session[s].pc,
               RenewJobLease(s)
        PROVE  SessionOK(s)'
    <2>1. /\ job'.version = job.version /\ job'.owner = job.owner
          /\ job'.status = job.status /\ (Owns(s) => job'.lease = "live")
      BY <1>1, <1>8, SMTT(30) DEF RenewJobLease, Owns, JobRow
    <2> QED BY <1>8, <2>1, Zenon DEF SessionOK, Owns
  <1>9. CASE session'[s].pc = session[s].pc /\ session[s].release
    BY <1>9, Zenon DEF SessionOK
  <1> QED BY <1>2, <1>3, <1>4, <1>5, <1>6, <1>7, <1>8, <1>9, ZenonT(40) DEF SessionMoved

\* Every step keeps every session's.
LEMMA NextSessions ==
    ASSUME TypeOK, JobInv, ~Stalls, SessionsOK, [Next]_vars
    PROVE  SessionsOK'
  <1> SUFFICES ASSUME NEW s \in Sessions PROVE SessionOK(s)'
    BY SMTT(30) DEF SessionsOK
  <1>1. SessionOK(s) /\ NoHalfJob
    BY SMTT(30) DEF SessionsOK, JobInv
  <1>2. CASE SharedStatement /\ UNCHANGED session
    BY <1>1, <1>2, SessionKept, SMTT(30)
  <1>3. ASSUME NEW t \in Sessions, SessionStep(t), OwnStatement(t), t # s
        PROVE  SessionOK(s)'
    <2>1. session'[s] = session[s]
      BY <1>3, SessionSteps, Zenon DEF SessionMoved
    <2> QED BY <1>1, <1>3, <2>1, SessionKept, Zenon
  <1>4. CASE SessionStep(s)
    BY <1>1, <1>4, SessionGoesOn, SMTT(30)
  <1> QED BY <1>2, <1>3, <1>4, NextStatements, SMTT(30)

\* When no session is held up for longer than its timing allows, SessionsOK holds
\* of every behaviour.
THEOREM SessionsInvariant ==
    ASSUME ~Stalls PROVE Spec => [](TypeOK /\ JobInv /\ SessionsOK)
  <1>1. Init => SessionsOK
    BY SMTT(30) DEF Init, SessionInit, NewSession, SessionsOK, SessionOK, ActivePcs
  <1>2. TypeOK /\ JobInv /\ SessionsOK /\ [Next]_vars => SessionsOK'
    BY NextSessions, SMTT(30)
  <1> QED BY <1>1, <1>2, JobInvariant, PTL DEF Spec

\* A session that has dispatched a run keeps the job until it lets go itself: no
\* requeue, sweep or upsert takes the job away from a worker that renews its lease.
THEOREM LiveRunsKeepJobs == ASSUME ~Stalls PROVE Spec => []LiveRunKeepsJob
  <1>1. SessionsOK => LiveRunKeepsJob
    BY Zenon DEF SessionsOK, SessionOK, LiveRunKeepsJob, Executing, ActivePcs
  <1> QED BY <1>1, SessionsInvariant, PTL

\* A run is executed by one session at a time, also when it was requeued.
THEOREM OneExecutorAtATime == ASSUME ~Stalls PROVE Spec => []OneExecutor
  <1>1. SessionsOK => OneExecutor
    BY ZenonT(40) DEF SessionsOK, SessionOK, OneExecutor, Owns, Executing, ActivePcs
  <1> QED BY <1>1, SessionsInvariant, PTL

=============================================================================
