---------------------------- MODULE LedgerProofs ----------------------------
(***************************************************************************)
(* One run at a time, each resolved before the next: the control plane     *)
(* implements the ledger of runs, and the runs that ended are resolved but *)
(* for the last.  Both rest on the job of a run staying where it is, over, *)
(* until a teardown has recorded its end, which in turn rests on sessions  *)
(* that keep to their timing (module OwnershipProofs).                     *)
(***************************************************************************)
EXTENDS VersionProofs, OwnershipProofs

\* The statements that allocate, record and resolve runs; all others leave the
\* version columns alone.
RowStatement ==
    \/ \E p \in Tasks :
         /\ Applied(task[p].version)
         /\ \/ At(p, "complete_apply") /\ ApplyCompletedJob(task[p].version)
            \/ At(p, "fail_apply") /\ ApplyFailedJob(task[p].version)
    \/ /\ UNCHANGED applied
       /\ \/ /\ workflow'.target = workflow.target
             /\ workflow'.current = workflow.current
             /\ workflow'.resolved = workflow.resolved
          \/ CreateInvocationRequest
          \/ \E p \in Tasks :
               /\ At(p, "complete_resolve")
               /\ \/ \E st, v : TryApplyStateResolution(task[p].current, st, v)
                  \/ \E e, c, v : TryApplyVersionResolution(task[p].current, e, c, v)
          \/ \E v : ResolveInterruptedWorkflow(v)
          \/ \E id, st, c : RestoreFromSuspension(id, st, c)

\* A statement that leaves the row alone, or is quiet.
LEMMA QuietStatement ==
    ASSUME UNCHANGED applied, UNCHANGED workflow \/ QuietRows PROVE RowStatement
  BY SMTT(30) DEF RowStatement, QuietRows

\* Goroutines of the scheduler and the server.
LEMMA SchedulerRows ==
    ASSUME TypeOK, SchedulerNext PROVE RowStatement
  <1>1. CASE \E p \in Runners : RunnerStep(p)
    <2>1. UNCHANGED applied /\ (UNCHANGED workflow \/ CreateInvocationRequest)
      BY <1>1, SMTT(30) DEF RunnerStep, InvokeAdmit, CreatePeriodicRequest, ScheduleTop,
         CompleteSweep, FailSweep, CreateDuePeriodicRequest, store
    <2> QED BY <2>1, SMTT(30) DEF RowStatement
  <1>2. ASSUME NEW p \in Tasks, TaskStep(p) PROVE RowStatement
    <2>1. CASE InvokeCreate(p)
      BY <2>1, SMTT(30) DEF InvokeCreate, RowStatement, store
    <2>2. CASE \/ ScheduleGet(p) \/ ScheduleSupercede(p) \/ CompleteGet(p)
               \/ CompleteDelete(p) \/ CompleteFinish(p) \/ FailGet(p)
               \/ FailRequeue(p) \/ FailClaim(p) \/ FailDelete(p) \/ FailFinish(p)
      <3>1. UNCHANGED <<applied, workflow>>
        BY <2>2, Zenon DEF ScheduleGet, ScheduleSupercede, CompleteGet, CompleteDelete,
           CompleteFinish, FailGet, FailRequeue, FailClaim, FailDelete, FailFinish,
           SupercedeOlderRequests, DeleteTerminalJob, CompleteRequestRow, RequeueJob,
           ClaimFailedJob, FailRequestRow, store
      <3> QED BY <3>1, QuietStatement, SMTT(30)
    <2>3. CASE ScheduleUpsert(p)
      <3>1. UNCHANGED <<applied, workflow>>
        BY <2>3, SMTT(30) DEF ScheduleUpsert, UpsertJobAndSchedule, store
      <3> QED BY <3>1, QuietStatement
    <2>4. CASE ScheduleMark(p)
      <3>1. QuietRows /\ UNCHANGED applied
        BY <2>4, QuietWorkflow, SMTT(30) DEF ScheduleMark, TypeOK
      <3> QED BY <3>1, QuietStatement, SMTT(30)
    <2>5. CASE CompleteApply(p) \/ FailApply(p)
      BY <1>2, <2>5, SMTT(30) DEF CompleteApply, FailApply, RowStatement
    <2>6. CASE CompleteResolve(p)
      <3>1. /\ At(p, "complete_resolve") /\ UNCHANGED applied
            /\ \/ \E st, v : TryApplyStateResolution(task[p].current, st, v)
               \/ \E e, c, v : TryApplyVersionResolution(task[p].current, e, c, v)
        BY <2>6, SchedulerAssumption, ZenonT(40) DEF CompleteResolve
      <3> QED BY <1>2, <3>1, SMTT(30) DEF RowStatement
    <2> QED BY <1>2, <2>1, <2>2, <2>3, <2>4, <2>5, <2>6, SMTT(30) DEF TaskStep
  <1>3. CASE \E p \in Tasks : TaskFault(p) \/ DeleteFault(p)
    BY <1>3, QuietStatement DEF TaskFault, DeleteFault, store
  <1>4. CASE Sweep
    <2>1. UNCHANGED applied
      BY <1>4 DEF Sweep, schedulerVars
    <2>2. UNCHANGED workflow \/ QuietRows
      BY <1>4, QuietWorkflow
      DEF Sweep, MarkOrphanedJobsFailed, SweepRequestsInProgress,
          MarkRequestInProgress, TypeOK
    <2> QED BY <2>1, <2>2, QuietStatement
  <1> QED BY <1>1, <1>2, <1>3, <1>4, SMTT(30) DEF SchedulerNext

\* Sessions write the workflow's lifecycle at most.
LEMMA SessionRows ==
    ASSUME TypeOK, NEW s \in Sessions, SessionStep(s) PROVE RowStatement
  <1>1. UNCHANGED applied
    BY Zenon DEF SessionStep, Acquire, CompleteAcquired, Dispatch, MarkInvoking, MarkInProgress,
       Launch, LaunchFails, Acknowledge, AcknowledgeTimeout, OperationCompletes,
       OperationHasNext, OperationOpensGate, MarkParked, OperationFails, SessionBreaks,
       TakeSignal, OperationTimeout, Finish, Renew, LoseLease, Release, Reconnect,
       SessionCrash, SessionFault, CompleteOperation, FailOperation, NoTask, schedulerVars
  <1>2. CASE MarkInvoking(s) \/ MarkParked(s)
    <2>1. QuietRows
      BY <1>2, QuietWorkflow, SMTT(30) DEF MarkInvoking, MarkParked, TypeOK
    <2> QED BY <1>1, <2>1, QuietStatement, SMTT(30)
  <1>3. CASE ~(MarkInvoking(s) \/ MarkParked(s))
    <2>1. UNCHANGED workflow
      BY <1>3, ZenonT(40)
      DEF SessionStep, Acquire, CompleteAcquired, Dispatch, MarkInProgress, Launch,
          LaunchFails, Acknowledge, AcknowledgeTimeout, OperationCompletes,
          OperationHasNext, OperationOpensGate, OperationFails, SessionBreaks, TakeSignal,
          OperationTimeout, Finish, Renew, LoseLease, Release, Reconnect, SessionCrash,
          SessionFault, CompleteOperation, FailOperation, store, AcquireJob, DispatchJob,
          MarkRequestInProgress, UpdateJobStatus, UpdateJobWithMetrics, ParkJob,
          RenewJobLease, ReleaseJob
    <2> QED BY <1>1, <2>1, QuietStatement, SMTT(30)
  <1> QED BY <1>2, <1>3, SMTT(30)

\* Time, gates, operators and reconcilers.
LEMMA OperatorRows ==
    ASSUME TypeOK, LeaseAges \/ DelayPasses \/ DecideGate \/ LifecycleNext
    PROVE  RowStatement
  <1>1. UNCHANGED applied
    BY Zenon DEF LeaseAges, DelayPasses, DecideGate, NoTask, LifecycleNext, AdminStep,
     ActivateWorkflow, AcknowledgeInterruption, SetWorkflowConfig, AbandonQueued,
     SweepAbandoned, SuspendWorkflow, ReconcileSuspension, SuspendAbandon,
     SuspendCheck, SuspendFinalize, SuspendAbort, ResumeWorkflow, ResumeRestore,
     DeleteWorkflow, ReconcileDeletion, DeleteAbandon, DeleteCheck, DeleteFinalize,
     AdminFault, processes, sessionVars, schedulerVars
  <1>2. CASE AcknowledgeInterruption \/ \E a \in Admins : ResumeRestore(a)
    BY <1>1, <1>2, SMTT(30) DEF AcknowledgeInterruption, ResumeRestore, RowStatement
  <1>3. CASE LeaseAges \/ DelayPasses \/ DecideGate \/ ActivateWorkflow \/ SetWorkflowConfig
    <2>1. UNCHANGED workflow \/ QuietRows
      BY <1>3, QuietWorkflow, Zenon DEF LeaseAges, DelayPasses, DecideGate, ActivateWorkflow,
         SetWorkflowConfig, TypeOK
    <2> QED BY <1>1, <2>1, QuietStatement, SMTT(30)
  <1>4. ASSUME \/ AbandonQueued \/ SweepAbandoned
               \/ \E a \in Admins : DeleteAbandon(a) \/ SuspendAbandon(a)
        PROVE  RowStatement
    <2>1. UNCHANGED workflow
      BY <1>4, SMTT(30) DEF AbandonQueued, SweepAbandoned, DeleteAbandon, SuspendAbandon,
         AbandonQueuedRequests, SweepAbandonedJobs, MarkAbandonRequested
    <2> QED BY <1>1, <2>1, QuietStatement, SMTT(30)
  <1>5. ASSUME NEW a \in Admins,
               \/ SuspendWorkflow(a) \/ SuspendFinalize(a) \/ SuspendAbort(a)
               \/ DeleteWorkflow(a) \/ DeleteFinalize(a)
               \/ ReconcileSuspension(a) \/ SuspendCheck(a) \/ ResumeWorkflow(a)
               \/ ReconcileDeletion(a) \/ DeleteCheck(a) \/ AdminFault(a)
        PROVE  RowStatement
    <2>1. QuietRows
      BY <1>5, QuietWorkflow, Zenon
      DEF SuspendWorkflow, SuspendFinalize, SuspendAbort, DeleteWorkflow,
          DeleteFinalize, ReconcileSuspension, SuspendCheck, ResumeWorkflow,
          ReconcileDeletion, DeleteCheck, AdminFault, TypeOK
    <2> QED BY <1>1, <2>1, QuietStatement, SMTT(30)
  <1> QED BY <1>2, <1>3, <1>4, <1>5, SMTT(30) DEF LifecycleNext, AdminStep

\* Every step.
LEMMA NextRows == ASSUME TypeOK, [Next]_vars PROVE RowStatement
  <1>1. CASE Scheduling(SchedulerNext)
    BY <1>1, SchedulerRows, SMTT(30) DEF Scheduling
  <1>2. CASE SessionNext
    BY <1>2, SessionRows, OperatorRows, SMTT(30) DEF SessionNext
  <1>3. CASE LifecycleNext
    BY <1>3, OperatorRows, SMTT(30)
  <1>4. CASE UNCHANGED vars
    BY <1>4, QuietStatement, SMTT(30) DEF vars, store, schedulerVars
  <1> QED BY <1>1, <1>2, <1>3, <1>4, SMTT(30) DEF Next

-----------------------------------------------------------------------------
(* A run that is over, until its end is recorded.                          *)

Over == {"completed", "terminal_failed"}

\* A teardown works on a run whose end is recorded, or that is over and still has
\* the job slot; past the record the first is the case.  What a completion read of
\* current_version before it resolves is the latest, or resolved.
TeardownOK(p) ==
    /\ At(p, "complete_apply") \/ At(p, "fail_apply") =>
         \/ task[p].version <= workflow.current
         \/ task[p].version = job.version /\ job.status \in Over
    /\ task[p].pc \in {"complete_get", "complete_resolve", "complete_delete",
                       "complete_finish", "fail_delete", "fail_finish"}
         => task[p].version <= workflow.current
    /\ At(p, "complete_resolve") =>
         task[p].current = workflow.current \/ task[p].current <= workflow.resolved

\* The run that has the job slot was taken up after the last one was resolved.
SlotResolved ==
    job.version > workflow.current => workflow.resolved = workflow.current

\* A run whose end was recorded is the latest, or resolved.
AppliedResolved ==
    \A v \in applied : v <= workflow.resolved \/ v = workflow.current

LedgerInv ==
    /\ \A p \in Tasks : TeardownOK(p)
    /\ SlotResolved
    /\ AppliedResolved

\* What the steps of a behaviour may assume.
Holds ==
    /\ TypeOK /\ TypeOK' /\ ~Stalls
    /\ VersionInv /\ VersionInv' /\ RowsAdvance
    /\ JobInv /\ SessionsOK /\ LedgerInv
    /\ [Next]_vars

\* How a step changes the job slot: it fills it, clears it or leaves it.
LEMMA SlotStatement ==
    ASSUME TypeOK, JobInv, [Next]_vars
    PROVE  \/ job'.version = job.version
           \/ \E p \in Tasks :
                \/ /\ At(p, "schedule_upsert")
                   /\ UpsertJobAndSchedule(task[p].version, task[p].current, task[p].mode)
                \/ /\ \/ At(p, "complete_delete") /\ Goto(p, "complete_finish")
                      \/ At(p, "fail_delete") /\ Goto(p, "fail_finish")
                   /\ DeleteTerminalJob(task[p].version)
  <1>1. job \in JobRow
    BY SMTT(30) DEF TypeOK, StoreTypeOK
  <1>2. ASSUME NEW s \in Sessions, OwnStatement(s) PROVE job'.version = job.version
    BY <1>2, OwnKeepsJob, SMTT(30) DEF JobInv
  <1>3. ASSUME \/ \E v, n : RequeueJob(v, n) \/ ClaimFailedJob(v, n)
               \/ MarkOrphanedJobsFailed \/ SweepAbandonedJobs
               \/ \E id : MarkAbandonRequested(id)
               \/ \E id, stop : MarkSuspensionRequested(id, stop)
        PROVE  job'.version = job.version
    <2>1. CASE \E v, n : RequeueJob(v, n) \/ ClaimFailedJob(v, n)
      BY <1>1, <2>1, ZenonT(40) DEF RequeueJob, ClaimFailedJob, JobRow
    <2>2. CASE MarkOrphanedJobsFailed \/ SweepAbandonedJobs
      BY <1>1, <2>2 DEF MarkOrphanedJobsFailed, SweepAbandonedJobs, JobRow
    <2>3. CASE \/ \E id : MarkAbandonRequested(id)
               \/ \E id, stop : MarkSuspensionRequested(id, stop)
      BY <1>1, <2>3, Zenon DEF MarkAbandonRequested, MarkSuspensionRequested, JobRow
    <2> QED BY <1>3, <2>1, <2>2, <2>3, SMTT(30)
  <1>4. CASE \/ \E g : \E parked \in {"awaiting_approval", "awaiting_input"},
                         st \in Acquirable : ResolveGate(g, parked, st)
             \/ LeaseAges \/ DelayPasses
    BY <1>1, <1>4, SMTT(30) DEF ResolveGate, LeaseAges, DelayPasses, JobRow
  <1> QED BY <1>2, <1>3, <1>4, NextStatements, Zenon DEF SharedStatement

\* A job whose run is over stays so until it is deleted, which is after the end of
\* the run was recorded: no requeue, late session or upsert replaces it before.
LEMMA OverStays ==
    ASSUME Holds, job.status \in Over
    PROVE  \/ job'.version = job.version /\ job'.status \in Over
           \/ job' = NoJob /\ job.version <= workflow.current
  <1> USE DEF Over
  <1>1. job \in JobRow /\ NoJob.status = "none"
    BY Zenon DEF Holds, TypeOK, StoreTypeOK, NoJob
  <1>2. ASSUME NEW p \in Tasks, At(p, "complete_delete") \/ At(p, "fail_delete"),
               DeleteTerminalJob(task[p].version)
        PROVE  job' = job \/ (job' = NoJob /\ job.version <= workflow.current)
    <2>1. task[p].version <= workflow.current
      BY <1>2, Zenon DEF Holds, LedgerInv, TeardownOK, At
    <2> QED BY <1>2, <2>1, SMTT(30) DEF DeleteTerminalJob
  <1>3. ASSUME NEW v, NEW n, RequeueJob(v, n) \/ ClaimFailedJob(v, n)
        PROVE  job'.version = job.version /\ job'.status \in Over
    BY <1>1, <1>3, SMTT(30) DEF RequeueJob, ClaimFailedJob, RequeueMatches, ClaimMatches, JobRow
  <1>4. ASSUME NEW v, NEW c, NEW m, UpsertJobAndSchedule(v, c, m) PROVE job' = job
    BY <1>1, <1>4, SMTT(30)
    DEF UpsertJobAndSchedule, UpsertMatches, SlotOpen, store, Holds, JobInv, NoHalfJob
  <1>5. CASE \/ MarkOrphanedJobsFailed \/ SweepAbandonedJobs
             \/ \E id : MarkAbandonRequested(id)
             \/ \E id, stop : MarkSuspensionRequested(id, stop)
    BY <1>1, <1>5, ZenonT(40) DEF MarkOrphanedJobsFailed, SweepAbandonedJobs, MarkAbandonRequested,
       MarkSuspensionRequested, JobRow
  <1>6. CASE \/ \E g : \E parked \in {"awaiting_approval", "awaiting_input"},
                         st \in Acquirable : ResolveGate(g, parked, st)
             \/ LeaseAges \/ DelayPasses
    BY <1>1, <1>6, SMTT(30) DEF ResolveGate, LeaseAges, DelayPasses, JobRow
  <1>7. ASSUME NEW s \in Sessions, OwnStatement(s)
        PROVE  job'.version = job.version /\ job'.status \in Over
    <2>1. session[s].pc \in ActivePcs => ~Owns(s)
      BY Zenon DEF Holds, SessionsOK, SessionOK, Ended
    <2>2. CASE job' = job
      BY <2>2, SMTT(30)
    <2>3. CASE AcquireJob(s) \/ RenewJobLease(s) \/ ReleaseJob(s)
      BY <1>1, <2>3, ZenonT(40)
      DEF AcquireJob, AcquireMatches, Acquirable, RenewJobLease, ReleaseJob, JobRow
    <2>4. CASE ~Owns(s) /\ \/ DispatchJob(s)
                           \/ \E st : UpdateJobStatus(s, st)
                           \/ \E d : UpdateJobWithMetrics(s, d)
                           \/ \E st, g : ParkJob(s, st, g)
      BY <2>4 DEF DispatchJob, DispatchMatches, UpdateJobStatus, UpdateJobWithMetrics,
         ParkJob
    <2> QED BY <1>7, <2>1, <2>2, <2>3, <2>4, SMTT(30) DEF OwnStatement
  <1>8. SharedStatement \/ \E s \in Sessions : OwnStatement(s)
    BY NextStatements DEF Holds
  <1> QED BY <1>1, <1>2, <1>3, <1>4, <1>5, <1>6, <1>7, <1>8, Zenon DEF SharedStatement

\* current_version moves only to the run that has the slot and is over, and only
\* when all runs before it are resolved.
LEMMA RecordsSlot ==
    ASSUME Holds, workflow'.current # workflow.current
    PROVE  /\ job' = job /\ job.status \in Over
           /\ workflow.current < job.version /\ workflow'.current = job.version
           /\ workflow'.target = workflow.target
           /\ workflow'.resolved = workflow.resolved
           /\ workflow.resolved = workflow.current
  <1>1. PICK p \in Tasks :
          \/ At(p, "complete_apply") /\ ApplyCompletedJob(task[p].version)
          \/ At(p, "fail_apply") /\ ApplyFailedJob(task[p].version)
    <2>1. RowStatement
      BY NextRows DEF Holds
    <2>2. ASSUME CreateInvocationRequest PROVE workflow'.current = workflow.current
      BY <2>2, SMTT(30) DEF CreateInvocationRequest, Holds, TypeOK, StoreTypeOK, WorkflowRow
    <2>3. ASSUME NEW p \in Tasks,
                 \/ \E st, v : TryApplyStateResolution(task[p].current, st, v)
                 \/ \E e, c, v : TryApplyVersionResolution(task[p].current, e, c, v)
          PROVE  workflow'.current = workflow.current
      BY <2>3, ZenonT(40) DEF TryApplyStateResolution, TryApplyVersionResolution, Holds, TypeOK,
                  StoreTypeOK, WorkflowRow
    <2>4. ASSUME \/ \E v : ResolveInterruptedWorkflow(v)
                 \/ \E id, st, c : RestoreFromSuspension(id, st, c)
          PROVE  workflow'.current = workflow.current
      BY <2>4, SettleAdvance, SMTT(30) DEF Holds
    <2> QED BY <2>1, <2>2, <2>3, <2>4, Zenon DEF RowStatement
  <1>2. /\ task[p].version \in Nat /\ task[p].version <= workflow.target
    BY VersionNumbers, Zenon DEF Holds, VersionInv, VersionsAllocated
  <1>3. /\ job' = job /\ workflow'.resolved = workflow.resolved
        /\ workflow'.current = IF ApplyMatches(task[p].version) THEN task[p].version
                               ELSE workflow.current
    BY <1>1, <1>2, ApplyAdvance, Zenon DEF Holds
  <1>4. workflow'.target = workflow.target
    BY <1>1, ZenonT(120) DEF ApplyCompletedJob, ApplyFailedJob, WithoutSuspension, store,
       Holds, TypeOK, StoreTypeOK, WorkflowRow
  <1>5. workflow.current < task[p].version /\ workflow'.current = task[p].version
    BY <1>3 DEF ApplyMatches
  <1>6. ~(task[p].version <= workflow.current)
    BY <1>2, <1>5, VersionNumbers DEF Holds
  <1>7. task[p].version = job.version /\ job.status \in Over
    BY <1>1, <1>6, Zenon DEF Holds, LedgerInv, TeardownOK
  <1>8. workflow.resolved = workflow.current
    BY <1>5, <1>7, VersionNumbers, SMTT(30) DEF Holds, LedgerInv, SlotResolved
  <1> QED BY <1>3, <1>4, <1>5, <1>7, <1>8, Zenon

\* A teardown keeps its run recorded, or over in the slot, wherever a step takes it.
LEMMA TeardownKept ==
    ASSUME Holds, NEW q \in Tasks PROVE TeardownOK(q)'
  <1> USE DEF At
  <1>1. /\ TeardownOK(q) /\ TaskMoved(q) /\ job \in JobRow
        /\ task[q].version \in Nat /\ task[q].version <= workflow.target
    BY NextStatements, VersionNumbers, Zenon
    DEF Holds, LedgerInv, TypeOK, StoreTypeOK, VersionInv, VersionsAllocated
  <1>2. /\ workflow.current \in Nat /\ workflow'.current \in Nat
        /\ workflow.resolved \in Nat /\ workflow'.resolved \in Nat
        /\ workflow.current <= workflow'.current
        /\ workflow.resolved <= workflow'.resolved
        /\ job.version \in Nat /\ task[q].current \in Nat
    BY VersionNumbers, VersionNumbersNext, Zenon DEF Holds, RowsAdvance
  <1>3. task[q].version <= workflow.current => task[q].version <= workflow'.current
    BY <1>1, <1>2, SMTT(30)
  <1>4. CASE task'[q] = task[q]
    <2>1. ASSUME task[q].version = job.version, job.status \in Over
          PROVE  \/ task[q].version <= workflow'.current
                 \/ task[q].version = job'.version /\ job'.status \in Over
      BY <1>2, <2>1, OverStays, SMTT(30)
    <2>2. ASSUME task[q].current = workflow.current \/ task[q].current <= workflow.resolved
          PROVE  task[q].current = workflow'.current \/ task[q].current <= workflow'.resolved
      BY <1>2, <2>2, RecordsSlot, SMTT(30)
    <2> QED BY <1>1, <1>3, <1>4, <2>1, <2>2, Zenon DEF TeardownOK
  <1>5. ASSUME EndedBySession(q, "completed")
        PROVE  task'[q].version = job'.version /\ job'.status = "completed"
    BY <1>1, <1>5, Zenon
    DEF EndedBySession, UpdateJobStatus, JobRow, Holds, SessionsOK, SessionOK
  <1>6. CASE task'[q].pc = "complete_apply" /\ task'[q] # task[q]
    BY <1>1, <1>5, <1>6, Zenon DEF TaskMoved, TeardownOK, Over
  <1>7. CASE task'[q].pc = "complete_resolve" /\ task'[q] # task[q]
    <2>1. /\ task'[q].version = task[q].version /\ task[q].pc = "complete_get"
          /\ task'[q].current = workflow.current /\ workflow' = workflow
      BY <1>1, <1>7, Zenon DEF TaskMoved, store
    <2> QED BY <1>1, <1>7, <2>1, Zenon DEF TeardownOK
  <1>8. CASE task'[q].pc = "fail_apply" /\ task'[q] # task[q]
    <2>1. /\ task'[q].version = task[q].version
          /\ ClaimMatches(task[q].version, task[q].attempts)
          /\ ClaimFailedJob(task[q].version, task[q].attempts)
      BY <1>1, <1>8, Zenon DEF TaskMoved
    <2>2. task'[q].version = job'.version /\ job'.status = "terminal_failed"
      BY <1>1, <2>1, SMTT(30) DEF ClaimMatches, ClaimFailedJob, JobRow
    <2> QED BY <1>8, <2>2, Zenon DEF TeardownOK, Over
  <1>9. CASE task'[q].pc \in {"complete_get", "fail_delete"} /\ task'[q] # task[q]
    <2>1. /\ task'[q].version = task[q].version
          /\ ApplyCompletedJob(task[q].version) \/ ApplyFailedJob(task[q].version)
      BY <1>1, <1>9, Zenon DEF TaskMoved
    <2>2. task'[q].version <= workflow'.current
      BY <1>1, <2>1, ApplyAdvance, Zenon DEF Holds
    <2> QED BY <1>9, <2>2, Zenon DEF TeardownOK
  <1>10. CASE /\ task'[q].pc \in {"complete_delete", "complete_finish", "fail_finish"}
              /\ task'[q] # task[q]
    <2>1. task'[q].version = task[q].version /\ task[q].version <= workflow.current
      BY <1>1, <1>10, Zenon DEF TaskMoved, TeardownOK
    <2> QED BY <1>3, <1>10, <2>1, Zenon DEF TeardownOK
  <1> QED BY <1>4, <1>6, <1>7, <1>8, <1>9, <1>10, Zenon DEF TeardownOK

\* The slot is filled while the last run is resolved, and a run that ends while it
\* has the slot is the last.
LEMMA SlotKept ==
    ASSUME Holds PROVE SlotResolved'
  <1> SUFFICES ASSUME job'.version > workflow'.current
               PROVE  workflow'.resolved = workflow'.current
    BY SMTT(30) DEF SlotResolved
  <1>1. /\ workflow.current \in Nat /\ workflow'.current \in Nat
        /\ job.version \in Nat /\ job'.version \in Nat
        /\ workflow.current <= workflow'.current
    BY VersionNumbers, VersionNumbersNext, Zenon DEF Holds, RowsAdvance
  <1>2. workflow'.current = workflow.current
    BY <1>1, RecordsSlot, SMTT(30)
  <1>3. workflow.resolved = workflow.current
    <2>1. CASE job'.version = job.version
      BY <1>1, <2>1, SMTT(30) DEF Holds, LedgerInv, SlotResolved
    <2>2. CASE job'.version # job.version
      BY <1>1, <2>2, SMTT(30) DEF Holds, RowsAdvance
    <2> QED BY <2>1, <2>2, SMTT(30)
  <1> QED BY <1>2, <1>3, SMTT(30) DEF Holds, RowsAdvance

\* Before another run is recorded the last one is resolved.
LEMMA AppliedKept ==
    ASSUME Holds PROVE AppliedResolved'
  <1> SUFFICES ASSUME NEW v \in applied'
               PROVE  v <= workflow'.resolved \/ v = workflow'.current
    BY SMTT(30) DEF AppliedResolved
  <1>1. /\ workflow.current \in Nat /\ workflow'.current \in Nat
        /\ workflow.resolved \in Nat /\ workflow'.resolved \in Nat
        /\ workflow.resolved <= workflow'.resolved
    BY VersionNumbers, VersionNumbersNext, Zenon DEF Holds, RowsAdvance
  <1>2. v \in Nat
    BY SMTT(30) DEF Holds, TypeOK, SchedulerTypeOK, Versions
  <1>3. CASE v \in applied
    <2>1. v <= workflow.resolved \/ v = workflow.current
      BY <1>3, SMTT(30) DEF Holds, LedgerInv, AppliedResolved
    <2>2. workflow'.current = workflow.current \/ workflow.resolved = workflow.current
      BY RecordsSlot, SMTT(30)
    <2> QED BY <1>1, <1>2, <2>1, <2>2, SMTT(30)
  <1>4. CASE v \notin applied
    <2>1. PICK p \in Tasks :
            /\ v = task[p].version /\ ApplyMatches(v)
            /\ ApplyCompletedJob(v) \/ ApplyFailedJob(v)
      <3>1. RowStatement
        BY NextRows, SMTT(30) DEF Holds
      <3> QED BY <1>4, <3>1, Zenon DEF RowStatement, Applied
    <2>2. v <= workflow.target
      BY <2>1, Zenon DEF Holds, VersionInv, VersionsAllocated
    <2> QED BY <1>2, <2>1, <2>2, ApplyAdvance, Zenon DEF Holds
  <1> QED BY <1>3, <1>4, SMTT(30)

\* The invariant is inductive.
LEMMA NextLedger ==
    ASSUME Holds PROVE LedgerInv'
  BY TeardownKept, SlotKept, AppliedKept, SMTT(30) DEF LedgerInv

\* Nothing has run at first.
LEMMA InitLedger ==
    ASSUME Init PROVE LedgerInv
  <1>1. \A p \in Tasks : task[p].pc = "idle"
    <2>1. Idle.pc = "idle"
      BY DEF Idle, NewTask
    <2> QED BY <2>1, Zenon DEF Init, SchedulerInit
  <1>2. job.version = 0 /\ workflow.current = 0 /\ applied = {}
    BY SMTT(30) DEF Init, StoreInit, SchedulerInit, NoJob
  <1>3. \A p \in Tasks : TeardownOK(p)
    BY <1>1, Zenon DEF TeardownOK, At
  <1>4. SlotResolved /\ AppliedResolved
    BY <1>2 DEF SlotResolved, AppliedResolved
  <1> QED BY <1>3, <1>4, Zenon DEF LedgerInv

\* The invariant of the teardowns, with what it rests on.
THEOREM LedgerInvariant ==
    ASSUME ~Stalls
    PROVE  Spec => [](TypeOK /\ VersionInv /\ JobInv /\ SessionsOK /\ LedgerInv)
  <1>1. /\ TypeOK /\ VersionInv /\ JobInv /\ SessionsOK /\ LedgerInv
        /\ TypeOK' /\ [Next]_vars
        => LedgerInv'
    BY NextVersions, NextLedger, SMTT(30) DEF Holds
  <1>2. Init => LedgerInv
    BY InitLedger, SMTT(30)
  <1> QED BY <1>1, <1>2, VersionsInvariant, SessionsInvariant, PTL DEF Spec

\* Of the runs whose end the workflow has recorded all but the latest are resolved,
\* which ResolveLifecyclePolicy calls its one very critical invariant.
THEOREM PriorRunsAreResolved == ASSUME ~Stalls PROVE Spec => []PriorRunsResolved
  <1>1. TypeOK /\ LedgerInv => PriorRunsResolved
    <2> SUFFICES ASSUME TypeOK, LedgerInv, NEW v \in applied, NEW w \in applied,
                        v > workflow.resolved, w > workflow.resolved
                 PROVE  v = w
      BY SMTT(30) DEF PriorRunsResolved
    <2>1. v \in Nat /\ w \in Nat /\ workflow.resolved \in Nat
      <3>1. applied \subseteq Versions
        BY Zenon DEF TypeOK, SchedulerTypeOK
      <3>2. workflow.resolved \in Nat
        BY VersionNumbers, Zenon
      <3> QED BY <3>1, <3>2, SMTT(30) DEF Versions
    <2> QED BY <2>1, SMTT(30) DEF LedgerInv, AppliedResolved
  <1> QED BY <1>1, LedgerInvariant, PTL

-----------------------------------------------------------------------------
(* The refinement.                                                         *)

\* The job of a run, as the ledger sees it: handed to a worker, or over.
Begun == JobExists /\ (job.status # "pending" \/ job.attempts > 0)

\* A step that leaves the slot and all version columns alone begins the run, gives
\* it back, or is no step of the ledger.
LEMMA QuietStep ==
    ASSUME job'.version = job.version, workflow'.target = workflow.target,
           workflow'.current = workflow.current, workflow'.resolved = workflow.resolved
    PROVE  [Runs!LedgerNext]_(Runs!ledger)
  <1>1. CASE ~Begun /\ Begun'
    BY <1>1, Zenon DEF Begun, JobExists, Runs!LedgerNext, Runs!Begin
  <1>2. CASE Begun /\ ~Begun'
    BY <1>2, Zenon DEF Begun, JobExists, Runs!LedgerNext, Runs!GiveBack
  <1>3. CASE Begun' = Begun
    BY <1>3, Zenon DEF Begun, JobExists, Runs!ledger
  <1>4. Begun \in BOOLEAN /\ Begun' \in BOOLEAN
    BY Zenon DEF Begun
  <1> QED BY <1>1, <1>2, <1>3, <1>4, SMTT(30)

\* ApplyCompletedJob and ApplyFailedJob record the end of the run in the slot.
LEMMA RecordStep ==
    ASSUME Holds, workflow'.current # workflow.current
    PROVE  Runs!End
  <1>1. job.version # 0
    BY RecordsSlot, VersionNumbers, SMTT(30) DEF Holds
  <1> QED BY <1>1, RecordsSlot, Zenon DEF Over, JobExists, Runs!End

\* UpsertJobAndSchedule takes a run up, DeleteTerminalJob makes room.
LEMMA SlotStep ==
    ASSUME Holds, job'.version # job.version
    PROVE  Runs!Take \/ Runs!Clear
  <1>1. PICK p \in Tasks :
          \/ /\ At(p, "schedule_upsert")
             /\ UpsertJobAndSchedule(task[p].version, task[p].current, task[p].mode)
          \/ /\ At(p, "complete_delete") \/ At(p, "fail_delete")
             /\ DeleteTerminalJob(task[p].version)
    BY SlotStatement, Zenon DEF Holds
  <1>2. /\ NoJob.version = 0 /\ NoJob.attempts = 0 /\ NoJob.status = "none"
        /\ job \in JobRow
    BY Zenon DEF NoJob, Holds, TypeOK, StoreTypeOK
  <1>3. CASE At(p, "schedule_upsert")
             /\ UpsertJobAndSchedule(task[p].version, task[p].current, task[p].mode)
    <2> DEFINE v == task[p].version
    <2>1. /\ UpsertMatches(v, task[p].current, task[p].mode)
          /\ workflow' = workflow
          /\ job'.version = v /\ job'.status = "pending" /\ job'.attempts = 0
      BY <1>3, ZenonT(40) DEF UpsertJobAndSchedule, store, NoJob
    <2>2. v \in Nat /\ 1 <= v /\ v <= workflow.target
      <3>1. v \in Versions /\ VersionInv
        BY <1>3, Zenon DEF Holds, JobInv, SchedulesRequest
      <3> QED BY <1>3, <3>1, SMTT(30) DEF VersionInv, VersionsAllocated, Versions
    <2>3. workflow.resolved = workflow.current
      BY <2>1, <2>2, SMTT(30) DEF Holds, RowsAdvance
    <2>4. /\ job.version < v
          /\ ~(JobExists /\ (job.status # "pending" \/ job.attempts > 0))
      BY <1>2, <2>1, <2>2, SMTT(30) DEF UpsertMatches, SlotOpen, JobExists
    <2>5. v \in 1 .. workflow.target
      BY <2>2, VersionNumbers, SMTT(30) DEF Holds
    <2> QED BY <2>1, <2>3, <2>4, <2>5, SMTT(30) DEF JobExists, Runs!Take
  <1>4. CASE (At(p, "complete_delete") \/ At(p, "fail_delete"))
             /\ DeleteTerminalJob(task[p].version)
    <2>1. /\ job' = NoJob /\ workflow' = workflow /\ job.version = task[p].version
          /\ job.status \in {"completed", "failed", "terminal_failed"}
      BY <1>4, Zenon DEF DeleteTerminalJob
    <2>2. job.version <= workflow.current
      BY <1>4, <2>1, Zenon DEF Holds, LedgerInv, TeardownOK, At
    <2> QED BY <1>2, <2>1, <2>2, Zenon DEF JobExists, Runs!Clear
  <1> QED BY <1>1, <1>3, <1>4, Zenon

\* Creating a request asks for a run; a resolution, an acknowledged interruption and
\* a resume resolve the run that ended last, or do nothing.
LEMMA RowStep ==
    ASSUME Holds, job'.version = job.version, workflow'.current = workflow.current
    PROVE  [Runs!LedgerNext]_(Runs!ledger)
  <1>1. workflow \in WorkflowRow
    BY Zenon DEF Holds, TypeOK, StoreTypeOK
  <1>2. /\ workflow.current \in Nat /\ workflow.resolved \in Nat
        /\ workflow.resolved <= workflow.current
    BY VersionNumbers, Zenon DEF Holds, VersionInv, VersionOrder
  <1>3. CASE CreateInvocationRequest
    <2>1. /\ workflow'.target = workflow.target + 1 /\ job' = job
          /\ workflow'.resolved = workflow.resolved
      BY <1>1, <1>3, SMTT(30) DEF CreateInvocationRequest, WorkflowRow
    <2> QED BY <2>1, Zenon DEF JobExists, Runs!LedgerNext, Runs!Ask
  <1>4. ASSUME job' = job, workflow'.target = workflow.target,
               workflow'.resolved \in {workflow.resolved, workflow.current}
        PROVE  [Runs!LedgerNext]_(Runs!ledger)
    <2>1. CASE workflow'.resolved = workflow.resolved
      BY <1>4, <2>1, QuietStep, Zenon
    <2>2. CASE workflow'.resolved # workflow.resolved
      BY <1>2, <1>4, <2>2, SMTT(30) DEF JobExists, Runs!LedgerNext, Runs!Resolve
    <2> QED BY <2>1, <2>2, Zenon
  <1>5. ASSUME NEW p \in Tasks, At(p, "complete_resolve"),
               \/ \E st, v : TryApplyStateResolution(task[p].current, st, v)
               \/ \E e, c, v : TryApplyVersionResolution(task[p].current, e, c, v)
        PROVE  [Runs!LedgerNext]_(Runs!ledger)
    <2>1. /\ job' = job /\ workflow'.target = workflow.target
          /\ \/ workflow'.resolved = workflow.resolved
             \/ workflow'.resolved = task[p].current /\ workflow.resolved < task[p].current
      BY <1>1, <1>5, ZenonT(40) DEF TryApplyStateResolution, TryApplyVersionResolution,
         ResolutionMatches, WorkflowRow
    <2>2. /\ task[p].current = workflow.current \/ task[p].current <= workflow.resolved
          /\ task[p].current \in Nat
      BY <1>5, VersionNumbers, Zenon DEF Holds, LedgerInv, TeardownOK
    <2> QED BY <1>2, <1>4, <2>1, <2>2, SMTT(30)
  <1>6. ASSUME \/ \E v : ResolveInterruptedWorkflow(v)
               \/ \E id, st, c : RestoreFromSuspension(id, st, c)
        PROVE  [Runs!LedgerNext]_(Runs!ledger)
    <2>1. /\ job' = job /\ workflow'.target = workflow.target
          /\ workflow'.resolved \in {workflow.resolved, workflow.current}
      BY <1>1, <1>6, ZenonT(120) DEF ResolveInterruptedWorkflow, RestoreFromSuspension,
         WithoutSuspension, store, WorkflowRow
    <2> QED BY <1>4, <2>1, Zenon
  <1>7. ASSUME NEW p \in Tasks, \/ ApplyCompletedJob(task[p].version)
                                \/ ApplyFailedJob(task[p].version)
        PROVE  /\ workflow'.target = workflow.target
               /\ workflow'.resolved = workflow.resolved
    BY <1>1, <1>7, ZenonT(120) DEF ApplyCompletedJob, ApplyFailedJob, WithoutSuspension,
       store, WorkflowRow
  <1>8. RowStatement
    BY NextRows, Zenon DEF Holds
  <1> QED BY <1>3, <1>5, <1>6, <1>7, <1>8, QuietStep, Zenon DEF RowStatement

\* The control plane implements the ledger: every step of every goroutine, session
\* and operator is one of the ledger's steps, or changes nothing the ledger shows.
THEOREM OneRunAtATimeHolds == ASSUME ~Stalls PROVE Spec => OneRunAtATime
  <1>1. Init => Runs!LedgerInit
    <2>1. Init => /\ job.version = 0 /\ job.status = "none" /\ job.attempts = 0
                  /\ workflow.target = 0 /\ workflow.current = 0 /\ workflow.resolved = 0
      BY SMTT(30) DEF Init, StoreInit, NoJob
    <2> QED BY <2>1, SMTT(30) DEF JobExists, Runs!LedgerInit
  <1>2. /\ TypeOK /\ VersionInv /\ JobInv /\ SessionsOK /\ LedgerInv
        /\ TypeOK' /\ VersionInv' /\ [Next]_vars
        => [Runs!LedgerNext]_(Runs!ledger)
    <2> SUFFICES ASSUME Holds PROVE [Runs!LedgerNext]_(Runs!ledger)
      BY NextVersions, Zenon DEF Holds
    <2>1. CASE workflow'.current # workflow.current
      BY <2>1, RecordStep, SMTT(30) DEF Runs!LedgerNext
    <2>2. CASE job'.version # job.version
      BY <2>2, SlotStep, SMTT(30) DEF Runs!LedgerNext
    <2>3. CASE workflow'.current = workflow.current /\ job'.version = job.version
      BY <2>3, RowStep, Zenon
    <2> QED BY <2>1, <2>2, <2>3, Zenon
  <1> QED BY <1>1, <1>2, LedgerInvariant, PTL DEF Spec, OneRunAtATime, Runs!LedgerSpec

=============================================================================
