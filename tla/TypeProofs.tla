----------------------------- MODULE TypeProofs -----------------------------
(***************************************************************************)
(* Type correctness of the control plane, for any number of goroutines,    *)
(* sessions, requests and faults.  Each process is taken in turn: first    *)
(* how its own record may move, then what its actions do to the rows.      *)
(***************************************************************************)
EXTENDS ControlPlane, StoreProofs

TaskPcs == {"idle", "invoke_create"} \cup SchedulePcs \cup CompletePcs \cup FailPcs

\* The initial state is well typed.
LEMMA InitTypeOK == Init => TypeOK
  <1> SUFFICES ASSUME Init PROVE TypeOK BY SMTT(30)
  <1> USE StoreAssumption
  <1>1. StoreTypeOK
    BY NoJobType, SMTT(30) DEF Init, StoreInit, StoreTypeOK, WorkflowRow, WorkflowStates,
                     LifecycleStates, Versions
  <1>2. SchedulerTypeOK
    BY SchedulerAssumption
    DEF Init, SchedulerInit, SchedulerTypeOK, Task, Idle, NewTask, WorkflowStates
  <1>3. SessionTypeOK
    BY DEF Init, SessionInit, SessionTypeOK, Session, NewSession
  <1>4. LifecycleTypeOK
    BY DEF Init, LifecycleInit, LifecycleTypeOK, Admin, IdleAdmin
  <1> QED BY <1>1, <1>2, <1>3, <1>4, SMTT(30) DEF TypeOK

-----------------------------------------------------------------------------
(* Goroutines of the scheduler and the server.                             *)

\* A new task is a task.
LEMMA NewTaskType ==
    ASSUME NEW pc \in TaskPcs, NEW v \in 0 .. MaxRequests, NEW n \in Nat
    PROVE  NewTask(pc, v, n) \in Task
  BY StoreAssumption DEF NewTask, Task, TaskPcs, WorkflowStates

\* Moving on, ending and beginning an operation.
LEMMA TaskMoves ==
    ASSUME SchedulerTypeOK, NEW p,
           \/ \E pc \in TaskPcs : Goto(p, pc)
           \/ Done(p)
           \/ \E pc \in TaskPcs, v \in 0 .. MaxRequests, n \in Nat : Begin(p, pc, v, n)
    PROVE  task' \in [Tasks -> Task]
  <1> USE DEF SchedulerTypeOK
  <1>1. ASSUME NEW pc \in TaskPcs, Goto(p, pc) PROVE task' \in [Tasks -> Task]
    BY <1>1, ZenonT(120) DEF Goto, Task, TaskPcs
  <1>2. CASE Done(p)
    <2>1. Idle \in Task
      BY NewTaskType, ZeroInRange DEF Idle, TaskPcs
    <2> QED BY <1>2, <2>1, Zenon DEF Done
  <1>3. ASSUME NEW pc \in TaskPcs, NEW v \in 0 .. MaxRequests, NEW n \in Nat,
               Begin(p, pc, v, n)
        PROVE  task' \in [Tasks -> Task]
    BY <1>3, NewTaskType, Zenon DEF Begin
  <1> QED BY <1>1, <1>2, <1>3

\* The columns of typed rows.
LEMMA RowTypes ==
    ASSUME TypeOK
    PROVE  /\ workflow.current \in 0 .. MaxRequests
           /\ workflow.target \in 0 .. MaxRequests
           /\ workflow.resolved \in 0 .. MaxRequests
           /\ workflow.state \in WorkflowStates
           /\ workflow.config \in ConfigVersions
           /\ workflow.mode \in InvokeModes
           /\ job.version \in 0 .. MaxRequests
           /\ job.attempts \in Nat
           /\ job.status \in JobStatuses \cup {"none"}
           /\ job.abandon \in BOOLEAN
  BY DEF TypeOK, StoreTypeOK, WorkflowRow, JobRow

\* The fields of a task.
LEMMA TaskTypes ==
    ASSUME TypeOK, NEW p \in Tasks
    PROVE  /\ task[p].version \in 0 .. MaxRequests
           /\ task[p].attempts \in Nat
           /\ task[p].current \in 0 .. MaxRequests
           /\ task[p].state \in WorkflowStates
           /\ task[p].config \in ConfigVersions
           /\ task[p].mode \in InvokeModes
           /\ task[p].pc \in TaskPcs
  BY DEF TypeOK, SchedulerTypeOK, Task, TaskPcs

\* The pcs a task moves to.
LEMMA TaskPcValues ==
    {"idle", "invoke_create", "schedule_get", "schedule_upsert", "schedule_supercede",
     "schedule_mark", "complete_apply", "complete_get", "complete_resolve",
     "complete_delete", "complete_finish", "fail_get", "fail_requeue", "fail_claim",
     "fail_apply", "fail_delete", "fail_finish"} \subseteq TaskPcs
  BY DEF TaskPcs, SchedulePcs, CompletePcs, FailPcs

\* Rows that do not change stay typed.
LEMMA StoreUnchanged == ASSUME StoreTypeOK, UNCHANGED store PROVE StoreTypeOK'
  BY DEF StoreTypeOK, store

\* A version that may be allocated is in range.
LEMMA NextVersion ==
    ASSUME TypeOK, CreateMatches PROVE workflow.target + 1 \in 0 .. MaxRequests
  <1>1. workflow.target \in 0 .. MaxRequests
    BY RowTypes
  <1> QED BY <1>1, StoreAssumption DEF CreateMatches

\* A goroutine of the scheduler or the server begins an operation.
LEMMA RunnerStepType ==
    ASSUME TypeOK, NEW p \in Runners, RunnerStep(p)
    PROVE  StoreTypeOK' /\ SchedulerTypeOK'
  <1> USE TaskMoves, TaskPcValues, ZeroInRange, RowTypes, StoreUnchanged DEF TypeOK
  <1>1. CASE InvokeAdmit(p)
    BY <1>1, Zenon DEF InvokeAdmit, SchedulerTypeOK
  <1>2. CASE CreatePeriodicRequest(p)
    <2>1. workflow.target + 1 \in 0 .. MaxRequests
      BY <1>2, NextVersion DEF CreatePeriodicRequest, CreateDuePeriodicRequest,
                               CreateInvocationRequest
    <2>2. StoreTypeOK'
      BY <1>2, RequestStatementsType DEF CreatePeriodicRequest, CreateDuePeriodicRequest
    <2> QED BY <1>2, <2>1, <2>2, Zenon DEF CreatePeriodicRequest, SchedulerTypeOK
  <1>3. CASE ScheduleTop(p)
    <2>1. Versions \subseteq 0 .. MaxRequests
      BY DEF Versions
    <2> QED BY <1>3, <2>1, Zenon DEF ScheduleTop, SchedulerTypeOK
  <1>4. CASE CompleteSweep(p)
    BY <1>4, Zenon DEF CompleteSweep, SchedulerTypeOK
  <1>5. CASE FailSweep(p)
    BY <1>5, ZenonT(40) DEF FailSweep, SchedulerTypeOK
  <1> QED BY <1>1, <1>2, <1>3, <1>4, <1>5 DEF RunnerStep

\* applied stays a set of versions.
LEMMA AppliedType ==
    ASSUME TypeOK, NEW p \in Tasks, Applied(task[p].version)
    PROVE  applied' \subseteq Versions
  <1>1. applied \subseteq Versions
    BY DEF TypeOK, SchedulerTypeOK
  <1>2. ApplyMatches(task[p].version) => task[p].version \in Versions
    <2>1. task[p].version \in 0 .. MaxRequests /\ workflow.current \in 0 .. MaxRequests
      BY TaskTypes, RowTypes
    <2> QED BY <2>1, StoreAssumption DEF ApplyMatches, Versions
  <1> QED BY <1>1, <1>2 DEF Applied

\* ScheduleRequest, from the insert of the request on.
LEMMA ScheduleStepType ==
    ASSUME TypeOK, NEW p \in Tasks,
           \/ InvokeCreate(p) \/ ScheduleGet(p) \/ ScheduleUpsert(p)
           \/ ScheduleSupercede(p) \/ ScheduleMark(p)
    PROVE  StoreTypeOK' /\ SchedulerTypeOK'
  <1> USE TaskMoves, TaskPcValues, RowTypes, TaskTypes, StoreUnchanged DEF TypeOK
  <1>1. CASE InvokeCreate(p)
    <2>1. CASE CreateInvocationRequest /\ Begin(p, "schedule_get", workflow.target + 1, 0)
      <3>1. workflow.target + 1 \in 0 .. MaxRequests
        BY <2>1, NextVersion DEF CreateInvocationRequest
      <3> QED BY <1>1, <2>1, <3>1, RequestStatementsType, Zenon DEF InvokeCreate, SchedulerTypeOK
    <2>2. CASE Done(p) /\ UNCHANGED store
      BY <1>1, <2>2, Zenon DEF InvokeCreate, SchedulerTypeOK
    <2> QED BY <1>1, <2>1, <2>2 DEF InvokeCreate
  <1>2. CASE ScheduleGet(p)
    <2>1. CASE Done(p)
      BY <1>2, <2>1 DEF ScheduleGet, SchedulerTypeOK
    <2>2. CASE task' = [task EXCEPT ![p].pc = "schedule_upsert",
                                    ![p].current = workflow.current,
                                    ![p].mode = workflow.mode]
      <3>1. task' = [task EXCEPT ![p] = [task[p] EXCEPT !.pc = "schedule_upsert",
                       !.current = workflow.current, !.mode = workflow.mode]]
        BY <2>2, Zenon DEF SchedulerTypeOK
      <3>2. [task[p] EXCEPT !.pc = "schedule_upsert", !.current = workflow.current,
                            !.mode = workflow.mode] \in Task
        BY ZenonT(120) DEF Task, SchedulerTypeOK, SchedulePcs
      <3> QED BY <1>2, <3>1, <3>2, SMTT(30) DEF ScheduleGet, SchedulerTypeOK
    <2> QED BY <1>2, <2>1, <2>2, Zenon DEF ScheduleGet
  <1>3. CASE ScheduleUpsert(p)
    <2>1. StoreTypeOK'
      BY <1>3, UpsertType, Zenon DEF ScheduleUpsert
    <2> QED BY <1>3, <2>1, Zenon DEF ScheduleUpsert, SchedulerTypeOK
  <1>4. CASE ScheduleSupercede(p)
    BY <1>4, RequestStatementsType, ZenonT(40) DEF ScheduleSupercede, SchedulerTypeOK
  <1>5. CASE ScheduleMark(p)
    <2>1. StoreTypeOK'
      BY <1>5, LifecycleStatementsType DEF ScheduleMark, LifecycleStates
    <2> QED BY <1>5, <2>1, Zenon DEF ScheduleMark, SchedulerTypeOK
  <1> QED BY <1>1, <1>2, <1>3, <1>4, <1>5, Zenon

\* CompleteRequest.
LEMMA CompleteStepType ==
    ASSUME TypeOK, NEW p \in Tasks,
           \/ CompleteApply(p) \/ CompleteGet(p) \/ CompleteResolve(p)
           \/ CompleteDelete(p) \/ CompleteFinish(p)
    PROVE  StoreTypeOK' /\ SchedulerTypeOK'
  <1> USE TaskMoves, TaskPcValues, RowTypes, TaskTypes, StoreUnchanged DEF TypeOK
  <1>1. CASE CompleteApply(p)
    BY <1>1, AppliedType, ResolutionStatementsType, Zenon DEF CompleteApply, SchedulerTypeOK
  <1>2. CASE CompleteGet(p)
    <2> DEFINE t == [task[p] EXCEPT !.pc = "complete_resolve",
                       !.current = workflow.current, !.state = workflow.state,
                       !.config = workflow.config]
    <2>1. task' = [task EXCEPT ![p] = t]
      BY <1>2, Zenon DEF CompleteGet, SchedulerTypeOK
    <2>2. t \in Task
      BY ZenonT(120) DEF Task, SchedulerTypeOK, CompletePcs
    <2> QED BY <1>2, <2>1, <2>2 DEF CompleteGet, SchedulerTypeOK
  <1>3. CASE CompleteResolve(p)
    <2>1. PICK goal \in PolicyGoals :
            CASE goal = "none" ->
                   TryApplyStateResolution(task[p].current, task[p].state, task[p].version)
              [] goal \in {"paused", "cooldown"} ->
                   TryApplyStateResolution(task[p].current, goal, task[p].version)
              [] goal = "version" ->
                   \E c \in ConfigVersions :
                     TryApplyVersionResolution(task[p].current, task[p].config, c,
                                               task[p].version)
      BY <1>3, Zenon DEF CompleteResolve
    <2>2. goal \in {"none", "paused", "cooldown", "version"}
      BY SchedulerAssumption
    <2>3. \/ \E st \in WorkflowStates :
                TryApplyStateResolution(task[p].current, st, task[p].version)
          \/ \E e, c \in ConfigVersions :
                TryApplyVersionResolution(task[p].current, e, c, task[p].version)
      BY <2>1, <2>2, Zenon DEF WorkflowStates
    <2>4. StoreTypeOK'
      BY <2>3, ResolutionStatementsType, Zenon
    <2> QED BY <1>3, <2>4, Zenon DEF CompleteResolve, SchedulerTypeOK
  <1>4. CASE CompleteDelete(p)
    BY <1>4, JobStatementsType, Zenon DEF CompleteDelete, SchedulerTypeOK
  <1>5. CASE CompleteFinish(p)
    BY <1>5, RequestStatementsType, Zenon DEF CompleteFinish, SchedulerTypeOK
  <1> QED BY <1>1, <1>2, <1>3, <1>4, <1>5

\* FailRequest.
LEMMA FailStepType ==
    ASSUME TypeOK, NEW p \in Tasks,
           \/ FailGet(p) \/ FailRequeue(p) \/ FailClaim(p) \/ FailApply(p)
           \/ FailDelete(p) \/ FailFinish(p)
    PROVE  StoreTypeOK' /\ SchedulerTypeOK'
  <1> USE TaskMoves, TaskPcValues, TaskTypes, StoreUnchanged DEF TypeOK
  <1>1. CASE FailGet(p)
    BY <1>1, Zenon DEF FailGet, SchedulerTypeOK
  <1>2. CASE FailRequeue(p)
    BY <1>2, JobStatementsType, Zenon DEF FailRequeue, SchedulerTypeOK
  <1>3. CASE FailClaim(p)
    BY <1>3, JobStatementsType, Zenon DEF FailClaim, SchedulerTypeOK
  <1>4. CASE FailApply(p)
    BY <1>4, AppliedType, ResolutionStatementsType, Zenon DEF FailApply, SchedulerTypeOK
  <1>5. CASE FailDelete(p)
    BY <1>5, JobStatementsType, Zenon DEF FailDelete, SchedulerTypeOK
  <1>6. CASE FailFinish(p)
    BY <1>6, RequestStatementsType DEF FailFinish, SchedulerTypeOK
  <1> QED BY <1>1, <1>2, <1>3, <1>4, <1>5, <1>6, Zenon

\* The count of faults stays within its bound.
LEMMA FaultType ==
    ASSUME SchedulerTypeOK, faults < MaxFaults, faults' = faults + 1
    PROVE  faults' \in 0 .. MaxFaults
  BY SchedulerAssumption DEF SchedulerTypeOK

\* Every step of the scheduler keeps the rows and its own state typed.
LEMMA SchedulerNextType ==
    ASSUME TypeOK, SchedulerNext
    PROVE  StoreTypeOK' /\ SchedulerTypeOK'
  <1> USE DEF TypeOK
  <1>1. CASE \E p \in Runners : RunnerStep(p)
    BY <1>1, RunnerStepType
  <1>2. CASE \E p \in Tasks : TaskStep(p)
    BY <1>2, ScheduleStepType, CompleteStepType, FailStepType DEF TaskStep
  <1>3. CASE \E p \in Tasks : TaskFault(p)
    BY <1>3, TaskMoves, FaultType, StoreUnchanged DEF TaskFault, SchedulerTypeOK
  <1>4. CASE \E p \in Tasks : DeleteFault(p)
    BY <1>4, TaskMoves, TaskPcValues, FaultType, StoreUnchanged, Zenon
    DEF DeleteFault, SchedulerTypeOK
  <1>5. CASE Sweep
    <2>1. StoreTypeOK'
      <3>1. CASE ReconcileWorkflowLifecycles
        BY <3>1, LifecycleStatementsType, SMTT(30)
      <3>2. CASE MarkOrphanedJobsFailed
        BY <3>2, JobStatementsType, SMTT(30)
      <3>3. CASE SweepRequestsInProgress
        BY <3>3, RequestStatementsType, RowTypes, SMTT(30) DEF SweepRequestsInProgress
      <3>4. CASE ExpireCooldowns
        BY <3>4, OperatorStatementsType, SMTT(30)
      <3> QED BY <1>5, <3>1, <3>2, <3>3, <3>4, SMTT(30) DEF Sweep
    <2> QED BY <1>5, <2>1 DEF Sweep, schedulerVars, SchedulerTypeOK
  <1> QED BY <1>1, <1>2, <1>3, <1>4, <1>5 DEF SchedulerNext

-----------------------------------------------------------------------------
(* Worker sessions.                                                        *)

\* A session that is marking its workflow as parked knows on which kind of gate.
\* Without this, MarkParked would write a job's status into lifecycle_state.
ParkedOnGate ==
    \A s \in Sessions :
      In(s, "parked") => session[s].status \in {"awaiting_approval", "awaiting_input"}

SessionPcs == {"idle", "parked", "finishing", "leaving", "gone"} \cup ActivePcs

\* The fields of a session.
LEMMA SessionTypes ==
    ASSUME SessionTypeOK, NEW s \in Sessions
    PROVE  /\ session[s] \in Session
           /\ session[s].pc \in SessionPcs
           /\ session[s].version \in 0 .. MaxRequests
           /\ session[s].attempts \in Nat
           /\ session[s].status \in JobStatuses \cup {"none"}
           /\ session[s].signal \in 0 .. MaxRequests
           /\ session[s].signalled \in BOOLEAN
           /\ session[s].release \in BOOLEAN
  BY DEF SessionTypeOK, Session, SessionPcs

\* The pcs a session moves to.
LEMMA SessionPcValues ==
    {"idle", "parked", "finishing", "leaving", "gone", "acquired", "dispatched",
     "marked", "started", "waiting", "busy", "cancelling"} \subseteq SessionPcs
  BY DEF SessionPcs, ActivePcs

\* A session as it is after it lost or forgot its job.
LEMMA FreshSessionType ==
    ASSUME NEW pc \in SessionPcs, NEW signal \in 0 .. MaxRequests,
           NEW release \in BOOLEAN
    PROVE  /\ [NewSession EXCEPT !.pc = pc, !.signal = signal, !.release = release]
                \in Session
           /\ [NewSession EXCEPT !.pc = pc, !.release = release] \in Session
           /\ [NewSession EXCEPT !.pc = pc] \in Session
           /\ NewSession \in Session
  BY ZeroInRange, SessionPcValues, ZenonT(40) DEF NewSession, Session, SessionPcs

\* Moving on, and being through with a job.
LEMMA SessionMoves ==
    ASSUME SessionTypeOK, NEW s \in Sessions,
           \/ \E pc \in SessionPcs : SessionGoto(s, pc)
           \/ \E pc \in SessionPcs : Forget(s, pc)
    PROVE  session' \in [Sessions -> Session]
  <1>1. ASSUME NEW pc \in SessionPcs, SessionGoto(s, pc)
        PROVE  session' \in [Sessions -> Session]
    BY <1>1, ZenonT(120) DEF SessionGoto, SessionTypeOK, Session, SessionPcs
  <1>2. ASSUME NEW pc \in SessionPcs, Forget(s, pc)
        PROVE  session' \in [Sessions -> Session]
    <2>1. PICK release \in BOOLEAN :
            session' = [session EXCEPT ![s] =
              [NewSession EXCEPT !.pc = pc, !.signal = session[s].signal,
                                 !.release = release]]
      BY <1>2, Zenon DEF Forget
    <2> QED BY <2>1, FreshSessionType, SessionTypes, ZenonT(40) DEF SessionTypeOK
  <1> QED BY <1>1, <1>2

\* What a step leaves alone stays typed.
LEMMA ProcessUnchanged ==
    /\ SchedulerTypeOK /\ UNCHANGED schedulerVars => SchedulerTypeOK'
    /\ SessionTypeOK /\ UNCHANGED sessionVars => SessionTypeOK'
    /\ SchedulerTypeOK /\ SessionTypeOK /\ UNCHANGED processes
         => SchedulerTypeOK' /\ SessionTypeOK'
    /\ LifecycleTypeOK /\ UNCHANGED admin => LifecycleTypeOK'
    /\ SchedulerTypeOK /\ SessionTypeOK /\ NoTask
         => SchedulerTypeOK' /\ gates' \in 0 .. MaxGates
  BY SMTT(30) DEF SchedulerTypeOK, SessionTypeOK, LifecycleTypeOK, schedulerVars, sessionVars,
         processes, NoTask

\* The ends of an operation.
LEMMA OperationEndType ==
    ASSUME TypeOK, NEW s \in Sessions,
           \/ CompleteOperation(s)
           \/ \E pc \in {"idle", "gone"} : FailOperation(s, pc)
    PROVE  StoreTypeOK' /\ SchedulerTypeOK' /\ SessionTypeOK'
  <1> USE TaskMoves, TaskPcValues, SessionMoves, SessionPcValues, SessionTypes,
          ZeroInRange, WrittenStatuses
  <1>1. CASE CompleteOperation(s)
    <2>1. StoreTypeOK'
      BY <1>1, JobStatementsType, Zenon DEF CompleteOperation, TypeOK
    <2>2. CASE Owns(s)
      <3>1. task' \in [Tasks -> Task]
        BY <1>1, <2>2, ZenonT(40) DEF CompleteOperation, TypeOK
      <3>2. session' \in [Sessions -> Session]
        BY <1>1, <2>2, Zenon DEF CompleteOperation, TypeOK
      <3> QED BY <1>1, <2>1, <3>1, <3>2, Zenon
              DEF CompleteOperation, TypeOK, SchedulerTypeOK, SessionTypeOK
    <2>3. CASE ~Owns(s)
      <3>1. session' \in [Sessions -> Session]
        BY <1>1, <2>3, Zenon DEF CompleteOperation, TypeOK
      <3> QED BY <1>1, <2>1, <2>3, <3>1
              DEF CompleteOperation, TypeOK, SchedulerTypeOK, SessionTypeOK
    <2> QED BY <2>2, <2>3, SMTT(30)
  <1>2. ASSUME NEW pc \in {"idle", "gone"}, FailOperation(s, pc)
        PROVE  StoreTypeOK' /\ SchedulerTypeOK' /\ SessionTypeOK'
    <2>1. StoreTypeOK'
      BY <1>2, JobStatementsType, Zenon DEF FailOperation, TypeOK
    <2>2. CASE Owns(s)
      <3>1. task' \in [Tasks -> Task]
        BY <1>2, <2>2, ZenonT(40) DEF FailOperation, TypeOK
      <3>2. session' \in [Sessions -> Session]
        BY <1>2, <2>2, Zenon DEF FailOperation, TypeOK
      <3> QED BY <1>2, <2>1, <3>1, <3>2, Zenon
              DEF FailOperation, TypeOK, SchedulerTypeOK, SessionTypeOK
    <2>3. CASE ~Owns(s)
      <3>1. session' \in [Sessions -> Session]
        BY <1>2, <2>3, Zenon DEF FailOperation, TypeOK
      <3> QED BY <1>2, <2>1, <2>3, <3>1, Zenon
              DEF FailOperation, TypeOK, SchedulerTypeOK, SessionTypeOK
    <2> QED BY <2>2, <2>3, Zenon
  <1> QED BY <1>1, <1>2, SMTT(30)

\* From acquiring the job to launching the operation.
LEMMA LaunchStepType ==
    ASSUME TypeOK, NEW s \in Sessions,
           \/ Acquire(s) \/ CompleteAcquired(s) \/ Dispatch(s) \/ MarkInvoking(s)
           \/ MarkInProgress(s) \/ Launch(s) \/ LaunchFails(s)
    PROVE  StoreTypeOK' /\ SchedulerTypeOK' /\ SessionTypeOK'
  <1> USE SessionMoves, SessionPcValues, SessionTypes, StoreUnchanged,
          ProcessUnchanged DEF TypeOK
  <1>1. CASE Acquire(s)
    <2> DEFINE t == [session[s] EXCEPT !.pc = "acquired", !.version = job.version,
                       !.attempts = job.attempts, !.status = job.status,
                       !.abandon = job.abandon, !.signalled = FALSE]
    <2>1. session' = [session EXCEPT ![s] = t]
      BY <1>1, SMTT(30) DEF Acquire
    <2>2. t \in Session
      BY RowTypes, ZenonT(120) DEF Session, ActivePcs
    <2>3. session' \in [Sessions -> Session]
      BY <2>1, <2>2 DEF SessionTypeOK
    <2>4. StoreTypeOK'
      BY <1>1, JobStatementsType DEF Acquire
    <2> QED BY <1>1, <2>3, <2>4, SMTT(30) DEF Acquire, SessionTypeOK
  <1>2. CASE CompleteAcquired(s)
    BY <1>2, OperationEndType, ZenonT(40) DEF CompleteAcquired
  <1>3. CASE Dispatch(s)
    <2>1. StoreTypeOK'
      BY <1>3, JobStatementsType, ZenonT(40) DEF Dispatch
    <2> QED BY <1>3, <2>1, Zenon DEF Dispatch, SessionTypeOK
  <1>4. CASE MarkInvoking(s)
    <2>1. StoreTypeOK'
      BY <1>4, LifecycleStatementsType, ZenonT(40) DEF MarkInvoking, LifecycleStates
    <2> QED BY <1>4, <2>1, Zenon DEF MarkInvoking, SessionTypeOK
  <1>5. CASE MarkInProgress(s)
    <2>1. StoreTypeOK'
      BY <1>5, RequestStatementsType, ZenonT(40) DEF MarkInProgress
    <2> QED BY <1>5, <2>1, Zenon DEF MarkInProgress, SessionTypeOK
  <1>6. CASE Launch(s)
    BY <1>6, Zenon DEF Launch, SessionTypeOK
  <1>7. CASE LaunchFails(s)
    <2>1. StoreTypeOK'
      BY <1>7, JobStatementsType, WrittenStatuses, ZenonT(40) DEF LaunchFails
    <2> QED BY <1>7, <2>1, Zenon DEF LaunchFails, SessionTypeOK
  <1> QED BY <1>1, <1>2, <1>3, <1>4, <1>5, <1>6, <1>7, Zenon

\* Following the operation.
LEMMA FollowStepType ==
    ASSUME TypeOK, ParkedOnGate, NEW s \in Sessions,
           \/ Acknowledge(s) \/ AcknowledgeTimeout(s) \/ OperationCompletes(s)
           \/ OperationHasNext(s) \/ OperationOpensGate(s) \/ MarkParked(s)
           \/ OperationFails(s) \/ SessionBreaks(s) \/ TakeSignal(s)
           \/ OperationTimeout(s) \/ Finish(s)
    PROVE  StoreTypeOK' /\ SchedulerTypeOK' /\ SessionTypeOK'
  <1> USE SessionMoves, SessionPcValues, SessionTypes, StoreUnchanged,
          ProcessUnchanged DEF TypeOK
  <1>1. CASE Acknowledge(s)
    <2>1. StoreTypeOK'
      BY <1>1, JobStatementsType, WrittenStatuses, ZenonT(40) DEF Acknowledge
    <2> QED BY <1>1, <2>1, Zenon DEF Acknowledge, SessionTypeOK
  <1>2. CASE AcknowledgeTimeout(s)
    BY <1>2, Zenon DEF AcknowledgeTimeout, SessionTypeOK
  <1>3. CASE OperationCompletes(s)
    BY <1>3, OperationEndType, Zenon DEF OperationCompletes
  <1>4. CASE OperationHasNext(s)
    <2>1. StoreTypeOK'
      BY <1>4, JobStatementsType, Zenon DEF OperationHasNext
    <2> QED BY <1>4, <2>1, Zenon DEF OperationHasNext, SessionTypeOK
  <1>5. CASE OperationOpensGate(s)
    <2>1. gates + 1 \in 0 .. MaxGates
      BY <1>5, StoreAssumption, SMTT(30) DEF OperationOpensGate, SessionTypeOK
    <2>2. PICK status \in {"awaiting_approval", "awaiting_input"} :
            /\ ParkJob(s, status, gates + 1)
            /\ session' = [session EXCEPT ![s].pc = "parked", ![s].status = status]
      BY <1>5, Zenon DEF OperationOpensGate
    <2>3. status \in JobStatuses
      BY WrittenStatuses, Zenon
    <2>4. StoreTypeOK'
      BY <2>1, <2>2, <2>3, JobStatementsType, SMTT(30)
    <2>5. session' = [session EXCEPT ![s] =
                        [session[s] EXCEPT !.pc = "parked", !.status = status]]
      BY <2>2, Zenon DEF SessionTypeOK
    <2>6. [session[s] EXCEPT !.pc = "parked", !.status = status] \in Session
      BY <2>3, ZenonT(40) DEF Session
    <2>7. SessionTypeOK'
      BY <1>5, <2>1, <2>5, <2>6, ZenonT(40) DEF OperationOpensGate, SessionTypeOK
    <2> QED BY <1>5, <2>4, <2>7, Zenon DEF OperationOpensGate
  <1>6. CASE MarkParked(s)
    <2>1. StoreTypeOK'
      <3>1. MarkAwaiting(session[s].status)
        BY <1>6, ZenonT(40) DEF MarkParked
      <3>2. session[s].status \in LifecycleStates
        BY <1>6, ZenonT(40) DEF MarkParked, In, ParkedOnGate, LifecycleStates
      <3> QED BY <3>1, <3>2, LifecycleStatementsType, ZenonT(40)
    <2> QED BY <1>6, <2>1, Zenon DEF MarkParked, SessionTypeOK
  <1>7. CASE OperationFails(s)
    BY <1>7, OperationEndType, ZenonT(40) DEF OperationFails
  <1>8. CASE SessionBreaks(s)
    BY <1>8, OperationEndType, Zenon DEF SessionBreaks
  <1>9. CASE TakeSignal(s)
    <2>1. PICK pc \in SessionPcs :
            session' = [session EXCEPT ![s] = [session[s] EXCEPT !.signal = 0, !.pc = pc]]
      BY <1>9, Zenon DEF TakeSignal, SessionTypeOK
    <2>2. [session[s] EXCEPT !.signal = 0, !.pc = pc] \in Session
      BY ZeroInRange, ZenonT(40) DEF Session, SessionPcs
    <2> QED BY <1>9, <2>1, <2>2, ZenonT(120) DEF TakeSignal, SessionTypeOK
  <1>10. CASE OperationTimeout(s)
    BY <1>10, Zenon DEF OperationTimeout, SessionTypeOK
  <1>11. CASE Finish(s)
    BY <1>11, Zenon DEF Finish, SessionTypeOK
  <1> QED BY <1>1, <1>2, <1>3, <1>4, <1>5, <1>6, <1>7, <1>8, <1>9, <1>10, <1>11, Zenon

\* The lease goroutine, connections and crashes.
LEMMA LeaseStepType ==
    ASSUME TypeOK, NEW s \in Sessions,
           \/ Renew(s) \/ LoseLease(s) \/ Release(s) \/ Reconnect(s)
           \/ SessionCrash(s) \/ SessionFault(s)
    PROVE  StoreTypeOK' /\ SchedulerTypeOK' /\ SessionTypeOK'
  <1> USE StoreUnchanged, ProcessUnchanged DEF TypeOK
  <1>1. CASE Renew(s)
    <2>1. StoreTypeOK'
      BY <1>1, JobStatementsType DEF Renew
    <2>2. PICK signalled \in BOOLEAN, signal \in 0 .. MaxRequests :
            session' = [session EXCEPT ![s] = [session[s] EXCEPT
                          !.signalled = signalled, !.signal = signal]]
      BY <1>1, RowTypes, SessionTypes, ZenonT(120) DEF Renew, SessionTypeOK
    <2>3. [session[s] EXCEPT !.signalled = signalled, !.signal = signal] \in Session
      BY ZenonT(120) DEF SessionTypeOK, Session
    <2> QED BY <1>1, <2>1, <2>2, <2>3, ZenonT(120) DEF Renew, SessionTypeOK
  <1>2. CASE LoseLease(s)
    BY <1>2, FreshSessionType, SessionPcValues, SessionTypes, Zenon DEF LoseLease, SessionTypeOK
  <1>3. CASE Release(s)
    <2>1. StoreTypeOK'
      BY <1>3, JobStatementsType, SMTT(30) DEF Release
    <2>2. session' = [session EXCEPT ![s] = [session[s] EXCEPT !.release = FALSE]]
      BY <1>3, SMTT(30) DEF Release
    <2>3. [session[s] EXCEPT !.release = FALSE] \in Session
      BY ZenonT(120) DEF SessionTypeOK, Session
    <2>4. session' \in [Sessions -> Session]
      BY <2>2, <2>3 DEF SessionTypeOK
    <2> QED BY <1>3, <2>1, <2>4, SMTT(30) DEF Release, SessionTypeOK
  <1>4. CASE Reconnect(s)
    BY <1>4, FreshSessionType, SessionPcValues, SessionTypes, ZenonT(40) DEF Reconnect, SessionTypeOK
  <1>5. CASE SessionCrash(s)
    <2>1. SchedulerTypeOK'
      BY <1>5, TaskMoves, FaultType, SMTT(30) DEF SessionCrash, SchedulerTypeOK
    <2> QED BY <1>5, <2>1, FreshSessionType, SessionPcValues, SessionTypes, Zenon
            DEF SessionCrash, SessionTypeOK
  <1>6. CASE SessionFault(s)
    <2>1. session' \in [Sessions -> Session]
      BY <1>6, SessionMoves, SessionPcValues, Zenon DEF SessionFault
    <2>2. SchedulerTypeOK'
      BY <1>6, FaultType, Zenon DEF SessionFault, SchedulerTypeOK
    <2> QED BY <1>6, <2>1, <2>2, SMTT(30) DEF SessionFault, SessionTypeOK
  <1> QED BY <1>1, <1>2, <1>3, <1>4, <1>5, <1>6

\* Time, and the deciding of gates.
LEMMA ClockStepType ==
    ASSUME TypeOK, LeaseAges \/ DelayPasses \/ DecideGate
    PROVE  StoreTypeOK' /\ SchedulerTypeOK' /\ SessionTypeOK'
  <1> USE ProcessUnchanged DEF TypeOK
  <1>1. CASE LeaseAges
    <2>1. job' \in JobRow
      BY <1>1, SMTT(30) DEF LeaseAges, StoreTypeOK, JobRow
    <2> QED BY <1>1, <2>1, SMTT(30) DEF LeaseAges, StoreTypeOK, SessionTypeOK
  <1>2. CASE DelayPasses
    <2>1. job' \in JobRow
      BY <1>2, Zenon DEF DelayPasses, StoreTypeOK, JobRow
    <2> QED BY <1>2, <2>1, SMTT(30) DEF DelayPasses, StoreTypeOK, SessionTypeOK
  <1>3. CASE DecideGate
    <2>1. \E g, parked : \E st \in JobStatuses : ResolveGate(g, parked, st)
      <3>1. CASE \E g \in 1 .. MaxGates, verdict \in {"approved", "rejected"} :
                   ResolveGate(g, "awaiting_approval", verdict)
        <4>1. PICK g \in 1 .. MaxGates, verdict \in {"approved", "rejected"} :
                ResolveGate(g, "awaiting_approval", verdict)
          BY <3>1
        <4>2. verdict \in JobStatuses
          BY WrittenStatuses, SMTT(30)
        <4> QED BY <4>1, <4>2
      <3>2. CASE \E g \in 1 .. MaxGates, verdict \in {"answered", "input_timed_out"} :
                   ResolveGate(g, "awaiting_input", verdict)
        <4>1. PICK g \in 1 .. MaxGates, verdict \in {"answered", "input_timed_out"} :
                ResolveGate(g, "awaiting_input", verdict)
          BY <3>2, SMTT(30)
        <4>2. verdict \in JobStatuses
          BY WrittenStatuses, SMTT(30)
        <4> QED BY <4>1, <4>2, SMTT(30)
      <3> QED BY <1>3, <3>1, <3>2 DEF DecideGate
    <2>2. StoreTypeOK'
      BY <2>1, LifecycleStatementsType, SMTT(30)
    <2> QED BY <1>3, <2>2, Zenon DEF DecideGate, SessionTypeOK
  <1> QED BY <1>1, <1>2, <1>3, SMTT(30)

-----------------------------------------------------------------------------
(* Operators and reconcilers.                                              *)

AdminPcs == {"idle", "suspend_abandon", "suspend_check", "suspend_finalize",
             "suspend_abort", "resume_restore", "delete_abandon", "delete_check",
             "delete_finalize"}

\* Moving on, beginning and ending a tail.
LEMMA AdminMoves ==
    ASSUME LifecycleTypeOK, NEW a \in Admins,
           \/ \E pc \in AdminPcs : AdminGoto(a, pc)
           \/ \E pc \in AdminPcs, id \in SuspensionIds \cup {NoSuspension} :
                AdminBegin(a, pc, id)
           \/ AdminDone(a)
    PROVE  LifecycleTypeOK'
  <1>1. ASSUME NEW pc \in AdminPcs, AdminGoto(a, pc) PROVE LifecycleTypeOK'
    BY <1>1, Zenon DEF AdminGoto, LifecycleTypeOK, Admin, AdminPcs
  <1>2. ASSUME NEW pc \in AdminPcs, NEW id \in SuspensionIds \cup {NoSuspension},
               AdminBegin(a, pc, id)
        PROVE  LifecycleTypeOK'
    BY <1>2, StoreAssumption, ZenonT(40) DEF AdminBegin, IdleAdmin, LifecycleTypeOK, Admin, AdminPcs
  <1>3. CASE AdminDone(a)
    BY <1>3, StoreAssumption, Zenon DEF AdminDone, IdleAdmin, LifecycleTypeOK, Admin
  <1> QED BY <1>1, <1>2, <1>3, SMTT(30)

\* Calls of one statement, and the abandoned-job resolver.
LEMMA OperatorStepType ==
    ASSUME TypeOK,
           \/ ActivateWorkflow \/ AcknowledgeInterruption \/ SetWorkflowConfig
           \/ AbandonQueued \/ SweepAbandoned
    PROVE  TypeOK'
  <1> USE ProcessUnchanged, OperatorStatementsType DEF TypeOK
  <1>1. CASE ActivateWorkflow
    BY <1>1, SMTT(30) DEF ActivateWorkflow
  <1>2. CASE AcknowledgeInterruption
    BY <1>2, SMTT(30) DEF AcknowledgeInterruption
  <1>3. CASE SetWorkflowConfig
    BY <1>3, Zenon DEF SetWorkflowConfig
  <1>4. CASE AbandonQueued
    BY <1>4, RequestStatementsType, Zenon DEF AbandonQueued
  <1>5. CASE SweepAbandoned
    BY <1>5, JobStatementsType, Zenon DEF SweepAbandoned
  <1> QED BY <1>1, <1>2, <1>3, <1>4, <1>5, Zenon

\* Suspending and resuming.
LEMMA SuspendStepType ==
    ASSUME TypeOK, NEW a \in Admins,
           \/ SuspendWorkflow(a) \/ ReconcileSuspension(a) \/ SuspendAbandon(a)
           \/ SuspendCheck(a) \/ SuspendFinalize(a) \/ SuspendAbort(a)
           \/ ResumeWorkflow(a) \/ ResumeRestore(a)
    PROVE  TypeOK'
  <1> USE ProcessUnchanged, AdminMoves, StoreUnchanged DEF TypeOK, AdminPcs
  <1>1. CASE SuspendWorkflow(a)
    <2>1. StoreTypeOK'
      BY <1>1, SuspensionStatementsType, Zenon DEF SuspendWorkflow
    <2> QED BY <1>1, <2>1, Zenon DEF SuspendWorkflow
  <1>2. CASE ReconcileSuspension(a)
    <2>1. workflow.suspension \in SuspensionIds \cup {NoSuspension}
      BY Zenon DEF StoreTypeOK, WorkflowRow
    <2> QED BY <1>2, <2>1, SMTT(30) DEF ReconcileSuspension
  <1>3. CASE SuspendAbandon(a)
    BY <1>3, JobStatementsType, Zenon DEF SuspendAbandon
  <1>4. CASE SuspendCheck(a)
    BY <1>4, Zenon DEF SuspendCheck
  <1>5. CASE SuspendFinalize(a)
    BY <1>5, LifecycleStatementsType, Zenon DEF SuspendFinalize
  <1>6. CASE SuspendAbort(a)
    BY <1>6, SuspensionStatementsType, Zenon DEF SuspendAbort
  <1>7. CASE ResumeWorkflow(a)
    <2>1. PICK id \in SuspensionIds, c \in ConfigVersions :
            admin' = [admin EXCEPT ![a] = [pc |-> "resume_restore", hold |-> id,
                                           config |-> c]]
      BY <1>7, ZenonT(40) DEF ResumeWorkflow
    <2>2. [pc |-> "resume_restore", hold |-> id, config |-> c] \in Admin
      BY Zenon DEF Admin
    <2>3. LifecycleTypeOK'
      BY <2>1, <2>2, Zenon DEF LifecycleTypeOK
    <2> QED BY <1>7, <2>3, Zenon DEF ResumeWorkflow
  <1>8. CASE ResumeRestore(a)
    <2>1. admin[a].config \in ConfigVersions
      BY Zenon DEF LifecycleTypeOK, Admin
    <2>2. StoreTypeOK'
      BY <1>8, <2>1, SuspensionStatementsType, Zenon DEF ResumeRestore, WorkflowStates
    <2> QED BY <1>8, <2>2, Zenon DEF ResumeRestore
  <1> QED BY <1>1, <1>2, <1>3, <1>4, <1>5, <1>6, <1>7, <1>8, Zenon

\* Deleting, and faults of operators' goroutines.
LEMMA DeleteStepType ==
    ASSUME TypeOK, NEW a \in Admins,
           \/ DeleteWorkflow(a) \/ ReconcileDeletion(a) \/ DeleteAbandon(a)
           \/ DeleteCheck(a) \/ DeleteFinalize(a) \/ AdminFault(a)
    PROVE  TypeOK'
  <1> USE ProcessUnchanged, AdminMoves, StoreUnchanged DEF TypeOK, AdminPcs
  <1>1. CASE DeleteWorkflow(a)
    BY <1>1, OperatorStatementsType, Zenon DEF DeleteWorkflow
  <1>2. CASE ReconcileDeletion(a)
    BY <1>2, Zenon DEF ReconcileDeletion
  <1>3. CASE DeleteAbandon(a)
    BY <1>3, RequestStatementsType, Zenon DEF DeleteAbandon
  <1>4. CASE DeleteCheck(a)
    BY <1>4, Zenon DEF DeleteCheck
  <1>5. CASE DeleteFinalize(a)
    BY <1>5, LifecycleStatementsType, Zenon DEF DeleteFinalize
  <1>6. CASE AdminFault(a)
    <2>1. SchedulerTypeOK'
      BY <1>6, FaultType, Zenon DEF AdminFault, SchedulerTypeOK
    <2> QED BY <1>6, <2>1, Zenon DEF AdminFault
  <1> QED BY <1>1, <1>2, <1>3, <1>4, <1>5, <1>6, Zenon


-----------------------------------------------------------------------------
(* The theorem.                                                            *)

\* A session that moves elsewhere than to "parked" keeps ParkedOnGate.
LEMMA ParkedMoves ==
    ASSUME SessionTypeOK, ParkedOnGate, NEW s \in Sessions,
           \/ \E pc \in SessionPcs \ {"parked"} : SessionGoto(s, pc) \/ Forget(s, pc)
           \/ \E t \in Session : t.pc # "parked" /\ session' = [session EXCEPT ![s] = t]
           \/ UNCHANGED session
    PROVE  ParkedOnGate'
  <1> USE DEF ParkedOnGate, In, SessionTypeOK
  <1>1. ASSUME NEW pc \in SessionPcs \ {"parked"}, SessionGoto(s, pc)
        PROVE  ParkedOnGate'
    BY <1>1, SMTT(30) DEF SessionGoto, Session
  <1>2. ASSUME NEW pc \in SessionPcs \ {"parked"}, Forget(s, pc)
        PROVE  ParkedOnGate'
    <2>1. PICK release \in BOOLEAN :
            session' = [session EXCEPT ![s] =
              [NewSession EXCEPT !.pc = pc, !.signal = session[s].signal,
                                 !.release = release]]
      BY <1>2, Zenon DEF Forget
    <2> DEFINE t == [NewSession EXCEPT !.pc = pc, !.signal = session[s].signal,
                                       !.release = release]
    <2>2. t.pc = pc
      BY SMTT(30) DEF NewSession
    <2> HIDE DEF t
    <2> QED BY <2>1, <2>2, SMTT(30) DEF t
  <1>3. ASSUME NEW t \in Session, t.pc # "parked", session' = [session EXCEPT ![s] = t]
        PROVE  ParkedOnGate'
    BY <1>3, SMTT(30)
  <1>4. CASE UNCHANGED session
    BY <1>4, SMTT(30)
  <1> QED BY <1>1, <1>2, <1>3, <1>4, Zenon


\* Every step of a session keeps ParkedOnGate.
LEMMA ParkedStep ==
    ASSUME TypeOK, ParkedOnGate, NEW s \in Sessions, SessionStep(s)
    PROVE  ParkedOnGate'
  <1>1. SessionTypeOK
    BY SMTT(30) DEF TypeOK
  <1>2. "idle" \in SessionPcs \ {"parked"} /\ "gone" \in SessionPcs \ {"parked"}
    BY SessionPcValues, SMTT(30)
  <1>3. CASE CompleteAcquired(s) \/ OperationCompletes(s)
    <2>1. SessionGoto(s, "finishing") \/ Forget(s, "idle")
      BY <1>3, ZenonT(40) DEF CompleteAcquired, OperationCompletes, CompleteOperation
    <2> QED BY <1>1, <1>2, <2>1, SessionPcValues, ParkedMoves, SMTT(30)
  <1>4. CASE OperationFails(s) \/ SessionBreaks(s)
    <2>1. \/ SessionGoto(s, "finishing") \/ SessionGoto(s, "leaving")
          \/ Forget(s, "idle") \/ Forget(s, "gone")
      BY <1>4, Zenon DEF OperationFails, SessionBreaks, FailOperation
    <2> QED BY <1>1, <1>2, <2>1, SessionPcValues, ParkedMoves, SMTT(30)
  <1>5. CASE \/ Dispatch(s) \/ MarkInvoking(s) \/ MarkInProgress(s) \/ Launch(s)
             \/ LaunchFails(s)
    <2>1. \/ \E pc \in {"dispatched", "marked", "started", "waiting"} : SessionGoto(s, pc)
          \/ Forget(s, "idle") \/ Forget(s, "gone")
      BY <1>5, Zenon DEF Dispatch, MarkInvoking, MarkInProgress, Launch, LaunchFails
    <2> QED BY <1>1, <1>2, <2>1, SessionPcValues, ParkedMoves, SMTT(30)
  <1>6. CASE \/ Acknowledge(s) \/ AcknowledgeTimeout(s) \/ OperationHasNext(s)
             \/ MarkParked(s) \/ OperationTimeout(s) \/ Finish(s) \/ SessionFault(s)
    <2>1. \/ \E pc \in {"busy", "cancelling"} : SessionGoto(s, pc)
          \/ Forget(s, "idle") \/ Forget(s, "gone")
      BY <1>6, Zenon DEF Acknowledge, AcknowledgeTimeout, OperationHasNext, MarkParked,
                  OperationTimeout, Finish, SessionFault
    <2> QED BY <1>1, <1>2, <2>1, SessionPcValues, ParkedMoves, SMTT(30)
  <1>7. CASE Acquire(s)
    BY <1>7, SMTT(30) DEF Acquire, In, ParkedOnGate, TypeOK, SessionTypeOK, Session
  <1>8. CASE OperationOpensGate(s)
    BY <1>8, SMTT(30) DEF OperationOpensGate, In, ParkedOnGate, TypeOK, SessionTypeOK, Session
  <1>9. CASE TakeSignal(s) \/ Renew(s) \/ Release(s)
    BY <1>9, SMTT(30) DEF TakeSignal, Renew, Release, In, ParkedOnGate, TypeOK, SessionTypeOK, Session
  <1>10. CASE LoseLease(s) \/ Reconnect(s) \/ SessionCrash(s)
    <2>1. \E t \in Session : t.pc # "parked" /\ session' = [session EXCEPT ![s] = t]
      <3>1. CASE LoseLease(s)
        <4>1. session[s].release \in BOOLEAN /\ 0 \in 0 .. MaxRequests
          BY <1>1, SessionTypes, ZeroInRange
        <4>2. [NewSession EXCEPT !.pc = "gone", !.release = session[s].release] \in Session
          BY <1>2, <4>1, FreshSessionType, Zenon
        <4>3. [NewSession EXCEPT !.pc = "gone", !.release = session[s].release].pc = "gone"
          BY SMTT(30) DEF NewSession
        <4> QED BY <3>1, <4>2, <4>3, ZenonT(40) DEF LoseLease
      <3>2. CASE Reconnect(s)
        <4>1. NewSession \in Session /\ NewSession.pc = "idle"
          BY ZeroInRange, Zenon DEF NewSession, Session
        <4> QED BY <3>2, <4>1, Zenon DEF Reconnect
      <3>3. CASE SessionCrash(s)
        <4>1. [NewSession EXCEPT !.pc = "gone"] \in Session
          BY ZeroInRange, ZenonT(40) DEF NewSession, Session
        <4>2. [NewSession EXCEPT !.pc = "gone"].pc = "gone"
          BY DEF NewSession
        <4> QED BY <3>3, <4>1, <4>2, Zenon DEF SessionCrash
      <3> QED BY <1>10, <3>1, <3>2, <3>3
    <2> QED BY <1>1, <2>1, ParkedMoves, Zenon
  <1> QED BY <1>3, <1>4, <1>5, <1>6, <1>7, <1>8, <1>9, <1>10, Zenon DEF SessionStep

\* Every step of the control plane, or stutter, keeps every variable in its type,
\* together with the fact that makes that inductive.
LEMMA NextTypeOK ==
    ASSUME TypeOK, ParkedOnGate, [Next]_vars
    PROVE  TypeOK' /\ ParkedOnGate'
  <1>1. CASE Scheduling(SchedulerNext)
    BY <1>1, SchedulerNextType, ProcessUnchanged, Zenon
    DEF Scheduling, TypeOK, sessionVars, ParkedOnGate, In
  <1>2. CASE SessionNext /\ UNCHANGED admin
    <2>1. CASE \E s \in Sessions : SessionStep(s)
      <3>1. PICK s \in Sessions : SessionStep(s)
        BY <2>1, SMTT(30)
      <3>2. StoreTypeOK' /\ SchedulerTypeOK' /\ SessionTypeOK'
        BY <3>1, LaunchStepType, FollowStepType, LeaseStepType, Zenon DEF SessionStep
      <3>3. LifecycleTypeOK'
        BY <1>2, ProcessUnchanged, SMTT(30) DEF TypeOK
      <3> QED BY <3>1, <3>2, <3>3, ParkedStep, SMTT(30) DEF TypeOK
    <2>2. CASE LeaseAges \/ DelayPasses \/ DecideGate
      <3>1. StoreTypeOK' /\ SchedulerTypeOK' /\ SessionTypeOK'
        BY <2>2, ClockStepType, SMTT(30)
      <3>2. LifecycleTypeOK'
        BY <1>2, ProcessUnchanged, SMTT(30) DEF TypeOK
      <3>3. UNCHANGED session
        BY <2>2, SMTT(30) DEF LeaseAges, DelayPasses, DecideGate
      <3> QED BY <3>1, <3>2, <3>3, Zenon DEF TypeOK, ParkedOnGate, In
    <2> QED BY <1>2, <2>1, <2>2, SMTT(30) DEF SessionNext
  <1>3. CASE LifecycleNext
    <2>1. TypeOK'
      BY <1>3, OperatorStepType, SuspendStepType, DeleteStepType, Zenon
      DEF LifecycleNext, AdminStep
    <2>2. UNCHANGED session
      BY <1>3, Zenon DEF LifecycleNext, AdminStep, ActivateWorkflow, AcknowledgeInterruption,
           SetWorkflowConfig, AbandonQueued, SweepAbandoned, SuspendWorkflow,
           ReconcileSuspension, SuspendAbandon, SuspendCheck, SuspendFinalize,
           SuspendAbort, ResumeWorkflow, ResumeRestore, DeleteWorkflow,
           ReconcileDeletion, DeleteAbandon, DeleteCheck, DeleteFinalize, AdminFault,
           processes, sessionVars
    <2> QED BY <2>1, <2>2, Zenon DEF ParkedOnGate, In
  <1>4. CASE UNCHANGED vars
    BY <1>4, StoreUnchanged, ProcessUnchanged, Zenon
    DEF vars, TypeOK, ParkedOnGate, In, sessionVars
  <1> QED BY <1>1, <1>2, <1>3, <1>4 DEF Next

\* Every row and every process of the control plane always holds a value of its
\* type, whatever the numbers of requests, sessions, goroutines and faults.
THEOREM TypeCorrect == Spec => [](TypeOK /\ ParkedOnGate)
  <1>1. Init => TypeOK /\ ParkedOnGate
    <2>1. Init => ParkedOnGate
      <3>1. NewSession.pc = "idle"
        BY Zenon DEF NewSession
      <3>2. Init => \A s \in Sessions : session[s] = NewSession
        BY Zenon DEF Init, SessionInit
      <3> QED BY <3>1, <3>2, Zenon DEF ParkedOnGate, In
    <2> QED BY <2>1, InitTypeOK, SMTT(30)
  <1> QED BY <1>1, NextTypeOK, PTL DEF Spec

=============================================================================
