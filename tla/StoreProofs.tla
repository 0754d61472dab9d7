----------------------------- MODULE StoreProofs -----------------------------
(***************************************************************************)
(* Every statement of Store keeps the rows well typed.                     *)
(***************************************************************************)
EXTENDS Store, TLAPS

RequestTable == [Versions -> RequestStatuses \cup {"absent"}]

\* NoJob is a job row, and the columns of rows have their types.
LEMMA NoJobType == NoJob \in JobRow
  BY StoreAssumption DEF NoJob, JobRow

\* The statuses the statements write.
LEMMA WrittenStatuses ==
    /\ {"pending", "dispatched", "running", "awaiting_next", "awaiting_approval",
        "awaiting_input", "approved", "rejected", "answered", "input_timed_out",
        "completed", "failed", "terminal_failed"} \subseteq JobStatuses
    /\ {"unscheduled", "scheduled", "in_progress", "failed", "completed",
        "superceded", "abandoned", "paused"} \subseteq RequestStatuses
  BY DEF JobStatuses, RequestStatuses

\* Zero, the NULL of version and gate columns, is in their range.
LEMMA ZeroInRange == 0 \in 0 .. MaxGates /\ 0 \in 0 .. MaxRequests
  BY StoreAssumption

\* MoveRequests moves requests between statuses.
LEMMA MoveRequestsType ==
    ASSUME StoreTypeOK, NEW from, NEW to \in RequestStatuses
    PROVE  MoveRequests(from, to) \in RequestTable
  BY DEF StoreTypeOK, MoveRequests, RequestTable

\* The statements of customer_request.go and of the scheduler on requests.
LEMMA RequestStatementsType ==
    ASSUME StoreTypeOK,
           \/ CreateInvocationRequest
           \/ \E vs \in SUBSET Versions : AbandonQueuedRequests(vs)
           \/ \E v \in 0 .. MaxRequests :
                \/ CompleteRequestRow(v) \/ FailRequestRow(v)
                \/ SupercedeOlderRequests(v) \/ MarkRequestInProgress(v)
    PROVE  StoreTypeOK'
  <1>1. CASE CreateInvocationRequest
    <2>1. workflow' \in WorkflowRow
      BY <1>1, StoreAssumption
      DEF StoreTypeOK, CreateInvocationRequest, CreateMatches, WorkflowRow
    <2>2. request' \in RequestTable
      BY <1>1, Zenon DEF StoreTypeOK, CreateInvocationRequest, RequestTable, RequestStatuses
    <2> QED BY <1>1, <2>1, <2>2 DEF CreateInvocationRequest, StoreTypeOK, RequestTable
  <1>2. CASE \E vs \in SUBSET Versions : AbandonQueuedRequests(vs)
    BY <1>2 DEF AbandonQueuedRequests, StoreTypeOK, RequestStatuses
  <1>3. ASSUME NEW v \in 0 .. MaxRequests,
               \/ CompleteRequestRow(v) \/ FailRequestRow(v)
               \/ SupercedeOlderRequests(v) \/ MarkRequestInProgress(v)
        PROVE  StoreTypeOK'
    <2>1. request' \in RequestTable
      BY <1>3 DEF CompleteRequestRow, FailRequestRow, SupercedeOlderRequests,
                  MarkRequestInProgress, StoreTypeOK, RequestStatuses, RequestTable
    <2> QED BY <1>3, <2>1 DEF CompleteRequestRow, FailRequestRow,
              SupercedeOlderRequests, MarkRequestInProgress, StoreTypeOK, RequestTable
  <1> QED BY <1>1, <1>2, <1>3

\* UpsertJobAndSchedule.
LEMMA UpsertType ==
    ASSUME StoreTypeOK, NEW v \in 0 .. MaxRequests, NEW current, NEW mode,
           UpsertJobAndSchedule(v, current, mode)
    PROVE  StoreTypeOK'
  <1>1. CASE UpsertMatches(v, current, mode)
    <2>1. job' = [version |-> v, status |-> "pending", owner |-> NoSession,
                  lease |-> "none", attempts |-> 0, abandon |-> FALSE,
                  due |-> job.due, gate |-> job.gate]
      BY <1>1, Zenon DEF UpsertJobAndSchedule, NoJob
    <2>2. job.due \in BOOLEAN /\ job.gate \in 0 .. MaxGates
      BY DEF StoreTypeOK, JobRow
    <2>3. job' \in JobRow
      BY <2>1, <2>2 DEF JobRow, JobStatuses
    <2>4. request' \in RequestTable
      BY <1>1 DEF UpsertJobAndSchedule, StoreTypeOK, RequestTable, RequestStatuses
    <2> QED BY <1>1, <2>3, <2>4 DEF UpsertJobAndSchedule, StoreTypeOK, RequestTable
  <1>2. CASE ~UpsertMatches(v, current, mode)
    BY <1>2 DEF UpsertJobAndSchedule, StoreTypeOK, store
  <1> QED BY <1>1, <1>2

\* The statements that only write the job row.
LEMMA JobStatementsType ==
    ASSUME StoreTypeOK,
           \/ \E v \in 0 .. MaxRequests : DeleteTerminalJob(v)
           \/ \E v, n : RequeueJob(v, n) \/ ClaimFailedJob(v, n)
           \/ \E s \in Sessions :
                \/ AcquireJob(s) \/ RenewJobLease(s) \/ DispatchJob(s) \/ ReleaseJob(s)
                \/ \E st \in JobStatuses : UpdateJobStatus(s, st)
                \/ \E d \in BOOLEAN : UpdateJobWithMetrics(s, d)
                \/ \E st \in JobStatuses, g \in 0 .. MaxGates : ParkJob(s, st, g)
           \/ MarkOrphanedJobsFailed \/ SweepAbandonedJobs
           \/ \E id : MarkAbandonRequested(id)
    PROVE  StoreTypeOK'
  <1> USE DEF StoreTypeOK
  <1>1. CASE \E v \in 0 .. MaxRequests : DeleteTerminalJob(v)
    BY <1>1, NoJobType DEF DeleteTerminalJob
  <1>2. ASSUME NEW v, NEW n, RequeueJob(v, n) PROVE StoreTypeOK'
    <2>1. job.attempts + 1 \in Nat
      BY DEF JobRow
    <2>2. job' \in JobRow
      BY <1>2, <2>1, WrittenStatuses, Zenon DEF RequeueJob, JobRow
    <2> QED BY <1>2, <2>2 DEF RequeueJob
  <1>3. ASSUME NEW v, NEW n, ClaimFailedJob(v, n) PROVE StoreTypeOK'
    <2>1. job' \in JobRow
      BY <1>3 DEF ClaimFailedJob, JobRow, JobStatuses
    <2> QED BY <1>3, <2>1 DEF ClaimFailedJob
  <1>4. ASSUME NEW s \in Sessions,
               AcquireJob(s) \/ RenewJobLease(s) \/ DispatchJob(s) \/ ReleaseJob(s)
        PROVE  StoreTypeOK'
    <2>1. CASE AcquireJob(s)
      BY <1>4, <2>1, Zenon DEF AcquireJob, JobRow
    <2>2. CASE RenewJobLease(s)
      BY <1>4, <2>2 DEF RenewJobLease, JobRow
    <2>3. CASE DispatchJob(s)
      BY <1>4, <2>3, ZeroInRange, WrittenStatuses, Zenon DEF DispatchJob, JobRow
    <2>4. CASE ReleaseJob(s)
      BY <1>4, <2>4, Zenon DEF ReleaseJob, JobRow
    <2> QED BY <1>4, <2>1, <2>2, <2>3, <2>4
  <1>7. ASSUME NEW s \in Sessions,
               \/ \E st \in JobStatuses : UpdateJobStatus(s, st)
               \/ \E d \in BOOLEAN : UpdateJobWithMetrics(s, d)
               \/ \E st \in JobStatuses, g \in 0 .. MaxGates : ParkJob(s, st, g)
        PROVE  StoreTypeOK'
    <2>1. CASE \E st \in JobStatuses : UpdateJobStatus(s, st)
      BY <2>1, SMTT(30) DEF UpdateJobStatus, JobRow
    <2>2. ASSUME NEW d \in BOOLEAN, UpdateJobWithMetrics(s, d) PROVE StoreTypeOK'
      BY <2>2, ZeroInRange, WrittenStatuses, ZenonT(40) DEF UpdateJobWithMetrics, JobRow
    <2>3. ASSUME NEW st \in JobStatuses, NEW g \in 0 .. MaxGates, ParkJob(s, st, g)
          PROVE  StoreTypeOK'
      BY <2>3, Zenon DEF ParkJob, JobRow
    <2> QED BY <1>7, <2>1, <2>2, <2>3
  <1>5. CASE MarkOrphanedJobsFailed \/ SweepAbandonedJobs
    <2>1. job' \in JobRow
      BY <1>5 DEF MarkOrphanedJobsFailed, SweepAbandonedJobs, JobRow, JobStatuses
    <2> QED BY <1>5, <2>1 DEF MarkOrphanedJobsFailed, SweepAbandonedJobs
  <1>6. CASE \E id : MarkAbandonRequested(id)
    <2>1. job' \in JobRow
      BY <1>6, ZenonT(40) DEF MarkAbandonRequested, JobRow
    <2> QED BY <1>6, <2>1 DEF MarkAbandonRequested
  <1> QED BY <1>1, <1>2, <1>3, <1>4, <1>5, <1>6, <1>7

\* The lifecycle_state written by marks and by the reconciling sweep.
LEMMA LifecycleStatementsType ==
    ASSUME StoreTypeOK,
           \/ \E l \in LifecycleStates : MarkLifecycle(l) \/ MarkAwaiting(l)
           \/ ReconcileWorkflowLifecycles
           \/ \E g, parked : \E st \in JobStatuses : ResolveGate(g, parked, st)
           \/ FinalizeDeleted
           \/ \E id : FinalizeSuspended(id)
    PROVE  StoreTypeOK'
  <1> USE DEF StoreTypeOK
  <1>1. ASSUME NEW l \in LifecycleStates, MarkLifecycle(l) \/ MarkAwaiting(l)
        PROVE  StoreTypeOK'
    BY <1>1 DEF MarkLifecycle, MarkAwaiting, WorkflowRow
  <1>2. CASE ReconcileWorkflowLifecycles
    <2>1. PICK old \in BOOLEAN :
            workflow' = [workflow EXCEPT !.lifecycle = ReconciledLifecycle(old)]
      BY <1>2 DEF ReconcileWorkflowLifecycles
    <2>2. workflow.lifecycle \in LifecycleStates
      BY DEF WorkflowRow
    <2>3. ReconciledLifecycle(old) \in LifecycleStates
      BY <2>2 DEF ReconciledLifecycle, LifecycleStates
    <2>4. workflow' \in WorkflowRow
      BY <2>1, <2>3 DEF WorkflowRow
    <2> QED BY <1>2, <2>4 DEF ReconcileWorkflowLifecycles
  <1>3. ASSUME NEW g, NEW parked, NEW st \in JobStatuses, ResolveGate(g, parked, st)
        PROVE  StoreTypeOK'
    <2>1. workflow' \in WorkflowRow
      BY <1>3 DEF ResolveGate, WorkflowRow, LifecycleStates
    <2>2. job' \in JobRow
      BY <1>3 DEF ResolveGate, JobRow
    <2> QED BY <1>3, <2>1, <2>2 DEF ResolveGate
  <1>4. CASE FinalizeDeleted
    BY <1>4 DEF FinalizeDeleted, WorkflowRow, LifecycleStates
  <1>5. ASSUME NEW id, FinalizeSuspended(id) PROVE StoreTypeOK'
    BY <1>5, ZenonT(40) DEF FinalizeSuspended, WorkflowRow, LifecycleStates
  <1> QED BY <1>1, <1>2, <1>3, <1>4, <1>5

\* A row whose suspension is cleared is a row.
LEMMA WithoutSuspensionType ==
    ASSUME StoreTypeOK
    PROVE  WithoutSuspension(workflow) \in WorkflowRow
  BY Zenon DEF StoreTypeOK, WithoutSuspension, WorkflowRow

\* The end of a run, and the resolution of its policy.
LEMMA ResolutionStatementsType ==
    ASSUME StoreTypeOK, NEW v \in 0 .. MaxRequests, NEW r \in 0 .. MaxRequests,
           \/ ApplyCompletedJob(v) \/ ApplyFailedJob(v)
           \/ \E st \in WorkflowStates : TryApplyStateResolution(r, st, v)
           \/ \E e, c \in ConfigVersions : TryApplyVersionResolution(r, e, c, v)
    PROVE  StoreTypeOK'
  <1> USE DEF StoreTypeOK
  <1>1. CASE ApplyCompletedJob(v)
    BY <1>1, Zenon DEF ApplyCompletedJob, WorkflowRow, LifecycleStates
  <1>2. CASE ApplyFailedJob(v)
    <2>1. CASE ApplyMatches(v)
      <3> DEFINE w == WithoutSuspension(workflow)
      <3>1. w \in WorkflowRow
        BY WithoutSuspensionType
      <3>2. workflow' = [w EXCEPT !.current = v, !.interrupted = v,
                                  !.lifecycle = "interrupted", !.state = "disabled"]
        BY <1>2, <2>1 DEF ApplyFailedJob
      <3> HIDE DEF w
      <3>3. workflow' \in WorkflowRow
        BY <3>1, <3>2, ZenonT(40) DEF WorkflowRow, LifecycleStates, WorkflowStates
      <3>4. request' \in RequestTable
        BY <1>2, <2>1, MoveRequestsType, WrittenStatuses DEF ApplyFailedJob
      <3> QED BY <1>2, <2>1, <3>3, <3>4 DEF ApplyFailedJob, RequestTable
    <2>2. CASE ~ApplyMatches(v)
      BY <1>2, <2>2 DEF ApplyFailedJob, store
    <2> QED BY <2>1, <2>2
  <1>3. ASSUME NEW st \in WorkflowStates, TryApplyStateResolution(r, st, v)
        PROVE  StoreTypeOK'
    BY <1>3, Zenon DEF TryApplyStateResolution, WorkflowRow
  <1>4. ASSUME NEW e, NEW c \in ConfigVersions, TryApplyVersionResolution(r, e, c, v)
        PROVE  StoreTypeOK'
    BY <1>4, Zenon DEF TryApplyVersionResolution, WorkflowRow
  <1> QED BY <1>1, <1>2, <1>3, <1>4

\* What operators write: activation, acknowledgement, configuration, deletion.
LEMMA OperatorStatementsType ==
    ASSUME StoreTypeOK,
           \/ ExpireCooldowns \/ MarkDeletionRequested
           \/ \E v : TryActivateWorkflow(v) \/ ResolveInterruptedWorkflow(v)
           \/ \E c \in ConfigVersions, m \in InvokeModes, r \in Resumables :
                UpdateConfig(c, m, r)
    PROVE  StoreTypeOK'
  <1> USE DEF StoreTypeOK
  <1>1. CASE ExpireCooldowns
    BY <1>1 DEF ExpireCooldowns, WorkflowRow, WorkflowStates
  <1>2. CASE MarkDeletionRequested
    BY <1>2, Zenon DEF MarkDeletionRequested, WorkflowRow, WorkflowStates
  <1>3. ASSUME NEW v, TryActivateWorkflow(v) PROVE StoreTypeOK'
    BY <1>3 DEF TryActivateWorkflow, WorkflowRow, WorkflowStates
  <1>4. ASSUME NEW v, ResolveInterruptedWorkflow(v) PROVE StoreTypeOK'
    BY <1>4, ZenonT(40) DEF ResolveInterruptedWorkflow, WorkflowRow, WorkflowStates, LifecycleStates
  <1>5. ASSUME NEW c \in ConfigVersions, NEW m \in InvokeModes, NEW r \in Resumables,
               UpdateConfig(c, m, r)
        PROVE  StoreTypeOK'
    BY <1>5, Zenon DEF UpdateConfig, WorkflowRow
  <1> QED BY <1>1, <1>2, <1>3, <1>4, <1>5

\* Suspending and resuming.
LEMMA SuspensionStatementsType ==
    ASSUME StoreTypeOK,
           \/ \E id \in SuspensionIds, stop \in BOOLEAN : MarkSuspensionRequested(id, stop)
           \/ \E id : AbortSuspension(id)
           \/ \E id : \E st \in WorkflowStates, c \in ConfigVersions :
                RestoreFromSuspension(id, st, c)
    PROVE  StoreTypeOK'
  <1> USE DEF StoreTypeOK
  <1>1. ASSUME NEW id \in SuspensionIds, NEW stop \in BOOLEAN,
               MarkSuspensionRequested(id, stop)
        PROVE  StoreTypeOK'
    <2>1. workflow' \in WorkflowRow
      BY <1>1, ZenonT(40) DEF MarkSuspensionRequested, WorkflowRow, WorkflowStates
    <2>2. request' \in RequestTable
      BY <1>1, MoveRequestsType, WrittenStatuses, ZenonT(40) DEF MarkSuspensionRequested
    <2>3. job' \in JobRow
      BY <1>1, Zenon DEF MarkSuspensionRequested, JobRow
    <2> QED BY <2>1, <2>2, <2>3, SMTT(30) DEF RequestTable
  <1>2. ASSUME NEW id, AbortSuspension(id) PROVE StoreTypeOK'
    BY <1>2, WithoutSuspensionType, MoveRequestsType, WrittenStatuses
    DEF AbortSuspension, store, RequestTable
  <1>3. ASSUME NEW id, NEW st \in WorkflowStates, NEW c \in ConfigVersions,
               RestoreFromSuspension(id, st, c)
        PROVE  StoreTypeOK'
    <2>1. CASE RestoreMatches(id)
      <3> DEFINE w == WithoutSuspension(workflow)
      <3>1. w \in WorkflowRow /\ workflow.current \in 0 .. MaxRequests
        BY WithoutSuspensionType, SMTT(30) DEF WorkflowRow
      <3>2. workflow' = [w EXCEPT !.state = st, !.config = c, !.lifecycle = "active",
                                  !.resolved = workflow.current]
        BY <1>3, <2>1, Zenon DEF RestoreFromSuspension
      <3> HIDE DEF w
      <3>3. workflow' \in WorkflowRow
        BY <3>1, <3>2, Zenon DEF WorkflowRow, LifecycleStates
      <3>4. request' = MoveRequests({"paused"}, "unscheduled")
        BY <1>3, <2>1, Zenon DEF RestoreFromSuspension
      <3>5. request' \in RequestTable
        BY <3>4, MoveRequestsType, WrittenStatuses
      <3> QED BY <1>3, <2>1, <3>3, <3>5, Zenon DEF RestoreFromSuspension, RequestTable
    <2>2. CASE ~RestoreMatches(id)
      BY <1>3, <2>2, Zenon DEF RestoreFromSuspension, store
    <2> QED BY <2>1, <2>2, SMTT(30)
  <1> QED BY <1>1, <1>2, <1>3

\* The rows of a new workflow (CreateWorkflow) name no version.
LEMMA InitRows ==
    ASSUME StoreInit
    PROVE  /\ workflow.target = 0 /\ workflow.current = 0 /\ workflow.resolved = 0
           /\ job.version = 0
           /\ \A v \in Versions : request[v] = "absent"
  <1>1. workflow.target = 0 /\ workflow.current = 0 /\ workflow.resolved = 0
    BY DEF StoreInit
  <1>2. job.version = 0
    BY DEF StoreInit, NoJob
  <1>3. \A v \in Versions : request[v] = "absent"
    BY DEF StoreInit
  <1> QED BY <1>1, <1>2, <1>3

=============================================================================
