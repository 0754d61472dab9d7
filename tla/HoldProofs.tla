----------------------------- MODULE HoldProofs -----------------------------
(***************************************************************************)
(* What keeps a workflow from running stays in force, in every             *)
(* interleaving and with sessions that are held up.  A suspended workflow  *)
(* has nothing that could be scheduled; the danger is a completion that    *)
(* read the state before it resolves and writes suspended over a workflow  *)
(* that was resumed since.  It does not, because whatever lifts a hold     *)
(* also resolves the run the completion is about.  A workflow to be        *)
(* deleted admits no request: nothing but an acknowledged interruption     *)
(* leads out of disabled.                                                  *)
(***************************************************************************)
EXTENDS VersionProofs, OwnershipProofs

\* The states in which no resolution is written.
Held == {"suspended", "disabled"}

\* No request becomes schedulable.
NoThaw == \A v \in Versions : request'[v] = "unscheduled" => request[v] = "unscheduled"

\* How a statement changes workflow_state, deletion, the versions asked for and the
\* queued requests: requests are created in an active workflow only, and a deletion
\* disables.  The state is kept, with no request thawed under a hold; it becomes
\* suspended together with a freeze; a resolution writes it; or it is changed
\* otherwise: to active or disabled, or by a resume, and out of a hold only with the
\* run that ended last resolved.
HoldStatement ==
    /\ workflow'.target = workflow.target \/ workflow.state = "active"
    /\ workflow.deleting => workflow'.deleting
    /\ workflow'.deleting => workflow.deleting \/ workflow'.state = "disabled"
    /\ \/ workflow'.state = workflow.state /\ (workflow.state = "suspended" => NoThaw)
       \/ /\ workflow.state # "disabled"
          /\ \E id \in SuspensionIds : \E stop : MarkSuspensionRequested(id, stop)
       \/ \E p \in Tasks :
            \E st \in {task[p].state, "paused", "cooldown"}, v \in 0 .. MaxRequests :
              At(p, "complete_resolve") /\ TryApplyStateResolution(task[p].current, st, v)
       \/ /\ \/ workflow'.state \in {"active", "disabled"}
             \/ /\ workflow'.state \in PolicyGoals \cap {"paused", "cooldown"}
                /\ workflow.state = "suspended"
          /\ \/ workflow.state \notin Held
             \/ workflow'.state = "disabled"
             \/ /\ workflow'.resolved = workflow'.current
                /\ workflow.state = "disabled" => MayAcknowledge

\* Statements that write neither these columns nor the requests.
LEMMA StateKept ==
    ASSUME workflow'.state = workflow.state, workflow'.target = workflow.target,
           workflow'.deleting = workflow.deleting, request' = request
    PROVE  HoldStatement
  BY SMTT(30) DEF HoldStatement, NoThaw

\* Statements on the requests alone.
LEMMA RequestsFrozen ==
    ASSUME TypeOK,
           \/ \E v : \/ SupercedeOlderRequests(v) \/ CompleteRequestRow(v)
                     \/ FailRequestRow(v) \/ MarkRequestInProgress(v)
           \/ \E v, c, m : UpsertJobAndSchedule(v, c, m)
           \/ \E vs : AbandonQueuedRequests(vs)
    PROVE  HoldStatement
  <1>1. workflow' = workflow
    BY Zenon DEF SupercedeOlderRequests, CompleteRequestRow, FailRequestRow,
       MarkRequestInProgress, UpsertJobAndSchedule, AbandonQueuedRequests, store
  <1>2. request \in [Versions -> RequestStatuses \cup {"absent"}]
    BY SMTT(30) DEF TypeOK, StoreTypeOK
  <1>3. NoThaw
    <2>1. ASSUME NEW v, SupercedeOlderRequests(v) PROVE NoThaw
      BY <2>1, SMTT(30) DEF SupercedeOlderRequests, NoThaw
    <2>2. ASSUME NEW v, \/ CompleteRequestRow(v) \/ FailRequestRow(v)
                        \/ MarkRequestInProgress(v)
          PROVE  NoThaw
      BY <1>2, <2>2, SMTT(30) DEF CompleteRequestRow, FailRequestRow, MarkRequestInProgress, NoThaw
    <2>3. ASSUME NEW v, NEW c, NEW m, UpsertJobAndSchedule(v, c, m) PROVE NoThaw
      BY <1>2, <2>3, ZenonT(40) DEF UpsertJobAndSchedule, store, NoThaw
    <2>4. ASSUME NEW vs, AbandonQueuedRequests(vs) PROVE NoThaw
      BY <2>4, SMTT(30) DEF AbandonQueuedRequests, NoThaw
    <2> QED BY <2>1, <2>2, <2>3, <2>4, SMTT(30)
  <1> QED BY <1>1, <1>3, SMTT(30) DEF HoldStatement

\* Statements on the row of the workflow.
LEMMA RowsHeld ==
    ASSUME TypeOK,
           \/ CreateInvocationRequest \/ ReconcileWorkflowLifecycles \/ ExpireCooldowns
           \/ MarkDeletionRequested \/ FinalizeDeleted
           \/ MayAcknowledge /\ \E v : ResolveInterruptedWorkflow(v)
           \/ \E v : \/ ApplyCompletedJob(v) \/ ApplyFailedJob(v) \/ TryActivateWorkflow(v)
                     \/ FinalizeSuspended(v) \/ AbortSuspension(v) \/ MarkLifecycle(v)
                     \/ MarkAwaiting(v)
           \/ \E c, m, r : UpdateConfig(c, m, r) \/ ResolveGate(c, m, r)
           \/ \E r, e, c, v : TryApplyVersionResolution(r, e, c, v)
           \/ \E id, c : \E st \in {"active"} \cup (PolicyGoals \cap {"paused", "cooldown"}) :
                RestoreFromSuspension(id, st, c)
    PROVE  HoldStatement
  <1>1. workflow \in WorkflowRow /\ request \in [Versions -> RequestStatuses \cup {"absent"}]
    BY SMTT(30) DEF TypeOK, StoreTypeOK
  <1>2. CASE CreateInvocationRequest
    BY <1>1, <1>2, SMTT(30) DEF CreateInvocationRequest, CreateMatches, WorkflowRow, HoldStatement
  <1>3. CASE \/ ReconcileWorkflowLifecycles \/ FinalizeDeleted
             \/ \E v : \/ ApplyCompletedJob(v) \/ FinalizeSuspended(v)
                       \/ MarkLifecycle(v) \/ MarkAwaiting(v)
    <2>1. /\ workflow'.state = workflow.state /\ workflow'.target = workflow.target
          /\ workflow'.deleting = workflow.deleting /\ request' = request
      BY <1>1, <1>3, ZenonT(120) DEF ReconcileWorkflowLifecycles, FinalizeDeleted, ApplyCompletedJob,
         FinalizeSuspended, MarkLifecycle, MarkAwaiting, WorkflowRow
    <2> QED BY <2>1, StateKept, SMTT(30)
  <1>4. CASE \/ \E c, m, r : UpdateConfig(c, m, r) \/ ResolveGate(c, m, r)
             \/ \E r, e, c, v : TryApplyVersionResolution(r, e, c, v)
    <2>1. /\ workflow'.state = workflow.state /\ workflow'.target = workflow.target
          /\ workflow'.deleting = workflow.deleting /\ request' = request
      BY <1>1, <1>4, ZenonT(40) DEF UpdateConfig, ResolveGate, TryApplyVersionResolution, WorkflowRow
    <2> QED BY <2>1, StateKept
  <1>5. CASE \/ ExpireCooldowns \/ MarkDeletionRequested
             \/ \E v : TryActivateWorkflow(v)
    BY <1>1, <1>5, ZenonT(40) DEF ExpireCooldowns, MarkDeletionRequested, TryActivateWorkflow, Held,
       WorkflowRow, HoldStatement
  <1>6. ASSUME MayAcknowledge, NEW v, ResolveInterruptedWorkflow(v) PROVE HoldStatement
    BY <1>1, <1>6 DEF ResolveInterruptedWorkflow, WorkflowRow, HoldStatement
  <1>7. ASSUME NEW v, ApplyFailedJob(v) PROVE HoldStatement
    <2>1. \/ /\ workflow'.state = "disabled" /\ workflow'.target = workflow.target
             /\ workflow'.deleting = workflow.deleting
          \/ workflow' = workflow /\ request' = request
      BY <1>1, <1>7, ZenonT(40) DEF ApplyFailedJob, WithoutSuspension, store, WorkflowRow
    <2> QED BY <2>1, StateKept DEF HoldStatement
  <1>8. ASSUME NEW v, AbortSuspension(v) PROVE HoldStatement
    <2>1. /\ workflow'.state = workflow.state /\ workflow'.target = workflow.target
          /\ workflow'.deleting = workflow.deleting
          /\ workflow.state # "suspended" \/ request' = request
      BY <1>1, <1>8, ZenonT(40) DEF AbortSuspension, WithoutSuspension, store, WorkflowRow
    <2> QED BY <2>1 DEF HoldStatement, NoThaw
  <1>9. ASSUME NEW id, NEW c,
               NEW st \in {"active"} \cup (PolicyGoals \cap {"paused", "cooldown"}),
               RestoreFromSuspension(id, st, c)
        PROVE  HoldStatement
    <2>1. CASE ~RestoreMatches(id)
      BY <1>9, <2>1, StateKept, Zenon DEF RestoreFromSuspension, store
    <2>2. CASE RestoreMatches(id)
      <3>1. workflow' = [WithoutSuspension(workflow) EXCEPT
                           !.state = st, !.config = c, !.lifecycle = "active",
                           !.resolved = workflow.current]
        BY <1>9, <2>2, Zenon DEF RestoreFromSuspension
      <3>2. workflow'.state = st /\ workflow'.resolved = workflow.current
        BY <1>1, <3>1, ZenonT(40) DEF WithoutSuspension, WorkflowRow
      <3>3. workflow'.current = workflow.current
        BY <1>1, <3>1, ZenonT(40) DEF WithoutSuspension, WorkflowRow
      <3>4. workflow'.target = workflow.target /\ workflow'.deleting = workflow.deleting
        BY <1>1, <3>1, Zenon DEF WithoutSuspension, WorkflowRow
      <3>5. workflow.state = "suspended"
        BY <2>2, SMTT(30) DEF RestoreMatches
      <3> QED BY <3>2, <3>3, <3>4, <3>5, Zenon DEF HoldStatement
    <2> QED BY <2>1, <2>2
  <1> QED BY <1>2, <1>3, <1>4, <1>5, <1>6, <1>7, <1>8, <1>9, SMTT(30)

\* Goroutines of the scheduler and the server.
LEMMA SchedulerHolds ==
    ASSUME TypeOK, SchedulerNext PROVE HoldStatement
  <1>1. CASE \E p \in Runners : RunnerStep(p)
    <2>1. (UNCHANGED workflow /\ UNCHANGED request) \/ CreateInvocationRequest
      BY <1>1, SMTT(30) DEF RunnerStep, InvokeAdmit, CreatePeriodicRequest, ScheduleTop,
         CompleteSweep, FailSweep, CreateDuePeriodicRequest, store
    <2> QED BY <2>1, StateKept, RowsHeld, SMTT(30)
  <1>2. ASSUME NEW p \in Tasks, TaskStep(p) PROVE HoldStatement
    <2>1. CASE InvokeCreate(p)
      BY <2>1, StateKept, RowsHeld, SMTT(30) DEF InvokeCreate, store
    <2>2. CASE \/ ScheduleGet(p) \/ CompleteGet(p) \/ CompleteDelete(p) \/ FailGet(p)
               \/ FailRequeue(p) \/ FailClaim(p) \/ FailDelete(p)
      <3>1. UNCHANGED workflow /\ UNCHANGED request
        BY <2>2, Zenon DEF ScheduleGet, CompleteGet, CompleteDelete, FailGet, FailRequeue,
           FailClaim, FailDelete, DeleteTerminalJob, RequeueJob, ClaimFailedJob, store
      <3> QED BY <3>1, StateKept, SMTT(30)
    <2>3. CASE \/ ScheduleUpsert(p) \/ ScheduleSupercede(p) \/ CompleteFinish(p)
               \/ FailFinish(p)
      BY <2>3, RequestsFrozen, Zenon
      DEF ScheduleUpsert, ScheduleSupercede, CompleteFinish, FailFinish
    <2>4. CASE ScheduleMark(p) \/ CompleteApply(p) \/ FailApply(p)
      BY <2>4, RowsHeld, Zenon DEF ScheduleMark, CompleteApply, FailApply
    <2>5. CASE CompleteResolve(p)
      <3>1. \/ \E st \in {task[p].state, "paused", "cooldown"} :
                 TryApplyStateResolution(task[p].current, st, task[p].version)
            \/ \E r, e, c, v : TryApplyVersionResolution(r, e, c, v)
        BY <2>5, SchedulerAssumption, ZenonT(40) DEF CompleteResolve
      <3>2. At(p, "complete_resolve") /\ task[p].version \in 0 .. MaxRequests
        BY <2>5, TaskTypes DEF CompleteResolve
      <3>3. ASSUME NEW st, TryApplyStateResolution(task[p].current, st, task[p].version)
            PROVE  workflow'.target = workflow.target /\ workflow'.deleting = workflow.deleting
        BY <3>3, Zenon DEF TryApplyStateResolution, TypeOK, StoreTypeOK, WorkflowRow
      <3> QED BY <1>2, <3>1, <3>2, <3>3, RowsHeld, Zenon DEF HoldStatement
    <2> QED BY <1>2, <2>1, <2>2, <2>3, <2>4, <2>5, SMTT(30) DEF TaskStep
  <1>3. CASE \E p \in Tasks : TaskFault(p) \/ DeleteFault(p)
    BY <1>3, StateKept DEF TaskFault, DeleteFault, store
  <1>4. CASE Sweep
    BY <1>4, StateKept, RowsHeld, RequestsFrozen
    DEF Sweep, MarkOrphanedJobsFailed, SweepRequestsInProgress
  <1> QED BY <1>1, <1>2, <1>3, <1>4, SMTT(30) DEF SchedulerNext

\* Sessions.
LEMMA SessionHolds ==
    ASSUME TypeOK, NEW s \in Sessions, SessionStep(s) PROVE HoldStatement
  <1>1. CASE MarkInvoking(s) \/ MarkParked(s)
    BY <1>1, RowsHeld, Zenon DEF MarkInvoking, MarkParked
  <1>2. CASE MarkInProgress(s)
    BY <1>2, RequestsFrozen, SMTT(30) DEF MarkInProgress
  <1>3. CASE ~(MarkInvoking(s) \/ MarkParked(s) \/ MarkInProgress(s))
    <2>1. UNCHANGED workflow /\ UNCHANGED request
      BY <1>3, ZenonT(40)
      DEF SessionStep, Acquire, CompleteAcquired, Dispatch, Launch,
          LaunchFails, Acknowledge, AcknowledgeTimeout, OperationCompletes,
          OperationHasNext, OperationOpensGate, OperationFails, SessionBreaks, TakeSignal,
          OperationTimeout, Finish, Renew, LoseLease, Release, Reconnect, SessionCrash,
          SessionFault, CompleteOperation, FailOperation, store, AcquireJob, DispatchJob,
          UpdateJobStatus, UpdateJobWithMetrics, ParkJob, RenewJobLease, ReleaseJob
    <2> QED BY <2>1, StateKept, SMTT(30)
  <1> QED BY <1>1, <1>2, <1>3, SMTT(30)

\* Time, gates, operators and reconcilers.
LEMMA OperatorHolds ==
    ASSUME TypeOK, LeaseAges \/ DelayPasses \/ DecideGate \/ LifecycleNext
    PROVE  HoldStatement
  <1>1. CASE LeaseAges \/ DelayPasses
    BY <1>1, StateKept, SMTT(30) DEF LeaseAges, DelayPasses
  <1>2. CASE DecideGate \/ ActivateWorkflow \/ AcknowledgeInterruption \/ SetWorkflowConfig
    BY <1>2, RowsHeld, SMTT(30) DEF DecideGate, ActivateWorkflow, AcknowledgeInterruption,
       SetWorkflowConfig
  <1>3. CASE AbandonQueued \/ \E a \in Admins : DeleteAbandon(a)
    BY <1>3, RequestsFrozen, SMTT(30) DEF AbandonQueued, DeleteAbandon
  <1>4. ASSUME \/ SweepAbandoned
               \/ \E a \in Admins : \/ SuspendAbandon(a) \/ ReconcileSuspension(a)
                                    \/ SuspendCheck(a) \/ ResumeWorkflow(a)
                                    \/ ReconcileDeletion(a) \/ DeleteCheck(a)
                                    \/ AdminFault(a)
        PROVE  HoldStatement
    <2>1. UNCHANGED workflow /\ UNCHANGED request
      BY <1>4, SMTT(30) DEF SweepAbandoned, SuspendAbandon, SweepAbandonedJobs, MarkAbandonRequested,
         ReconcileSuspension, SuspendCheck, ResumeWorkflow, ReconcileDeletion,
         DeleteCheck, AdminFault, store
    <2> QED BY <2>1, StateKept, SMTT(30)
  <1>5. ASSUME NEW a \in Admins, SuspendWorkflow(a) PROVE HoldStatement
    <2>1. PICK id \in SuspensionIds, stop \in BOOLEAN : MarkSuspensionRequested(id, stop)
      BY <1>5, SMTT(30) DEF SuspendWorkflow
    <2>2. /\ workflow'.target = workflow.target /\ workflow'.deleting = workflow.deleting
          /\ workflow.state # "disabled"
      BY <2>1, SMTT(30) DEF MarkSuspensionRequested, TypeOK, StoreTypeOK, WorkflowRow
    <2> QED BY <2>1, <2>2, SMTT(30) DEF HoldStatement
  <1>6. ASSUME NEW a \in Admins, \/ SuspendFinalize(a) \/ SuspendAbort(a)
                                 \/ DeleteWorkflow(a) \/ DeleteFinalize(a)
        PROVE  HoldStatement
    BY <1>6, RowsHeld, SMTT(30) DEF SuspendFinalize, SuspendAbort, DeleteWorkflow, DeleteFinalize
  <1>7. ASSUME NEW a \in Admins, ResumeRestore(a) PROVE HoldStatement
    BY <1>7, RowsHeld, SMTT(30) DEF ResumeRestore
  <1> QED BY <1>1, <1>2, <1>3, <1>4, <1>5, <1>6, <1>7, SMTT(30) DEF LifecycleNext, AdminStep

\* Every step.
LEMMA NextHolds == ASSUME TypeOK, [Next]_vars PROVE HoldStatement
  <1>1. CASE UNCHANGED vars
    BY <1>1, StateKept, SMTT(30) DEF vars, store
  <1> QED BY <1>1, SchedulerHolds, SessionHolds, OperatorHolds, SMTT(30)
          DEF Next, Scheduling, SessionNext

-----------------------------------------------------------------------------
(* The invariant.                                                          *)

\* A completion that read a suspended row still finds a hold, or its run resolved.
NoLateHold ==
    \A p \in Tasks :
      At(p, "complete_resolve") /\ task[p].state = "suspended"
        => workflow.state \in Held \/ task[p].current <= workflow.resolved

FrozenInv == SuspendedIsFrozen /\ NoLateHold

\* The invariant is inductive.
LEMMA NextFrozen ==
    ASSUME TypeOK, TypeOK', VersionInv, FrozenInv, [Next]_vars PROVE FrozenInv'
  <1> USE DEF Held
  <1>1. RowsAdvance /\ HoldStatement
    BY NextVersions, NextHolds, SMTT(30)
  <1>2. /\ workflow.current \in Nat /\ workflow'.current \in Nat
        /\ workflow.resolved \in Nat /\ workflow'.resolved \in Nat
        /\ workflow.current <= workflow'.current
        /\ workflow.resolved <= workflow'.resolved
        /\ \A p \in Tasks : task[p].current \in Nat /\ task[p].current <= workflow.current
    BY <1>1, VersionNumbers, VersionNumbersNext, Zenon DEF RowsAdvance, VersionInv, VersionsAllocated
  <1>3. /\ workflow \in WorkflowRow
        /\ request \in [Versions -> RequestStatuses \cup {"absent"}]
    BY SMTT(30) DEF TypeOK, StoreTypeOK
  <1>4. ASSUME NEW p \in Tasks, At(p, "complete_resolve"), task[p].state = "suspended",
               NEW v, TryApplyStateResolution(task[p].current, "suspended", v)
        PROVE  workflow' = workflow /\ request' = request
    <2>1. ~ResolutionMatches(task[p].current)
      BY <1>2, <1>4, SMTT(30) DEF ResolutionMatches, FrozenInv, NoLateHold
    <2> QED BY <1>4, <2>1, SMTT(30) DEF TryApplyStateResolution
  <1>5. ASSUME NEW id, NEW stop, MarkSuspensionRequested(id, stop)
        PROVE  workflow'.state = "suspended" /\ \A v \in Versions : request'[v] # "unscheduled"
    BY <1>3, <1>5, SMTT(30) DEF MarkSuspensionRequested, MoveRequests, WorkflowRow
  <1>6. ASSUME NEW p \in Tasks, At(p, "complete_resolve"), NEW v,
               NEW st \in {task[p].state, "paused", "cooldown"},
               TryApplyStateResolution(task[p].current, st, v)
        PROVE  \/ workflow' = workflow /\ request' = request
               \/ workflow'.state # "suspended" /\ workflow.state \notin Held
    <2>1. CASE st = "suspended"
      BY <1>4, <1>6, <2>1, Zenon
    <2>2. CASE st # "suspended"
      BY <1>3, <1>6, <2>2, SMTT(30) DEF TryApplyStateResolution, ResolutionMatches, WorkflowRow
    <2> QED BY <2>1, <2>2, SMTT(30)
  <1>7. SuspendedIsFrozen'
    <2>1. \/ workflow'.state = workflow.state /\ (workflow.state = "suspended" => NoThaw)
          \/ \A v \in Versions : request'[v] # "unscheduled"
          \/ workflow'.state # "suspended"
      BY <1>1, <1>5, <1>6, Zenon DEF HoldStatement, NoThaw
    <2> QED BY <2>1, SMTT(30) DEF FrozenInv, SuspendedIsFrozen, NoThaw
  <1>8. \/ workflow.state \in Held => workflow'.state \in Held
        \/ workflow'.resolved = workflow'.current
    BY <1>1, <1>5, <1>6, Zenon DEF HoldStatement
  <1>9. ASSUME NEW q \in Tasks, task'[q].pc = "complete_resolve",
               task'[q].state = "suspended"
        PROVE  workflow'.state \in Held \/ task'[q].current <= workflow'.resolved
    <2>1. CASE task'[q] = task[q]
      BY <1>2, <1>8, <1>9, <2>1, SMTT(30) DEF FrozenInv, NoLateHold, At
    <2>2. CASE task'[q] # task[q]
      <3>1. TaskMoved(q)
        BY NextStatements, SMTT(30)
      <3>2. task'[q].state = workflow.state /\ workflow' = workflow
        BY <1>9, <2>2, <3>1, Zenon DEF TaskMoved, store
      <3> QED BY <1>9, <3>2, SMTT(30)
    <2> QED BY <2>1, <2>2, SMTT(30)
  <1> QED BY <1>7, <1>9, SMTT(30) DEF FrozenInv, NoLateHold, At

\* A workflow starts unsuspended.
LEMMA InitFrozen == ASSUME Init PROVE FrozenInv
  BY Zenon DEF Init, StoreInit, SchedulerInit, Idle, NewTask, FrozenInv, SuspendedIsFrozen,
     NoLateHold, At

\* While a workflow is suspended no request waits to be scheduled: the freeze caught
\* them all and nothing thaws one (MarkSuspensionRequested, TryApplyStateResolution).
THEOREM SuspensionFreezes == Spec => []SuspendedIsFrozen
  <1>1. TypeOK /\ TypeOK' /\ VersionInv /\ FrozenInv /\ [Next]_vars => FrozenInv'
    BY NextFrozen, SMTT(30)
  <1>2. Init => FrozenInv
    BY InitFrozen, SMTT(30)
  <1>3. FrozenInv => SuspendedIsFrozen
    BY SMTT(30) DEF FrozenInv
  <1> QED BY <1>1, <1>2, <1>3, VersionsInvariant, PTL DEF Spec

-----------------------------------------------------------------------------
(* Deletion.                                                               *)

\* A workflow to be deleted stays disabled.
DeletingIsDisabled == workflow.deleting => workflow.state = "disabled"

\* Nothing leads out of disabled when no interruption is acknowledged.
LEMMA NextDeleting ==
    ASSUME TypeOK, TypeOK', ~MayAcknowledge, DeletingIsDisabled, [Next]_vars
    PROVE  /\ DeletingIsDisabled'
           /\ workflow.deleting => /\ workflow'.target = workflow.target
                                   /\ workflow'.state = "disabled"
  <1>1. HoldStatement
    BY NextHolds, SMTT(30)
  <1>2. ASSUME workflow.state = "disabled" PROVE workflow'.state = "disabled"
    <2>1. ASSUME NEW r, NEW st, NEW v, TryApplyStateResolution(r, st, v)
          PROVE  workflow' = workflow
      BY <1>2, <2>1, SMTT(30) DEF TryApplyStateResolution, ResolutionMatches
    <2> QED BY <1>1, <1>2, <2>1, Zenon DEF HoldStatement, Held
  <1> QED BY <1>1, <1>2, Zenon DEF HoldStatement, DeletingIsDisabled

\* Once its deletion is requested a workflow admits no request and is not made
\* active again, unless an operator acknowledges an interruption
\* (MarkDeletionRequested against everything that writes workflow_state).
THEOREM DeletionsCloseAdmission == ASSUME ~MayAcknowledge PROVE Spec => DeletionClosesAdmission
  <1>1. Init => DeletingIsDisabled
    BY SMTT(30) DEF Init, StoreInit, DeletingIsDisabled
  <1>2. TypeOK /\ TypeOK' /\ DeletingIsDisabled /\ [Next]_vars => DeletingIsDisabled'
    BY NextDeleting, SMTT(30)
  <1>3. TypeOK /\ TypeOK' /\ DeletingIsDisabled /\ [Next]_vars
          => [workflow.deleting =>
                /\ workflow'.target = workflow.target
                /\ workflow'.state # "active"]_vars
    BY NextDeleting, SMTT(30)
  <1> QED BY <1>1, <1>2, <1>3, TypeCorrect, PTL DEF Spec, DeletionClosesAdmission

=============================================================================
