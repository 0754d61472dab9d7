---------------------------- MODULE VersionProofs ----------------------------
(***************************************************************************)
(* The order of runs: versions are allocated, run, recorded and resolved   *)
(* in that order, although every operation works on rows it read earlier.  *)
(***************************************************************************)
EXTENDS TypeProofs

\* Everything that names a version names one that was allocated, and what an
\* operation read of current_version is not ahead of the row.
VersionsAllocated ==
    /\ job.version <= workflow.target
    /\ \A v \in Versions : request[v] # "absent" => v <= workflow.target
    /\ \A p \in Tasks : /\ task[p].version <= workflow.target
                        /\ task[p].current <= workflow.current
    /\ \A s \in Sessions : session[s].version <= workflow.target

\* The validation ScheduleRequest made still holds when it writes the job, unless
\* current_version has moved on, in which case the write matches no row.
UpsertValidated ==
    \A p \in Tasks :
      At(p, "schedule_upsert") /\ task[p].current = workflow.current
        => workflow.resolved = workflow.current

VersionInv == VersionOrder /\ VersionsAllocated /\ UpsertValidated

-----------------------------------------------------------------------------
(* Statements.                                                             *)

\* A statement that neither allocates, records nor resolves a run.
QuietRows ==
    /\ workflow'.target = workflow.target
    /\ workflow'.current = workflow.current
    /\ workflow'.resolved = workflow.resolved
    /\ job'.version \in {0, job.version}
    /\ \A v \in Versions :
         request'[v] # "absent" => request[v] # "absent" \/ v <= workflow.target

\* What every statement does to versions.
RowsAdvance ==
    /\ workflow.target <= workflow'.target
    /\ workflow.current <= workflow'.current
    /\ workflow.resolved <= workflow'.resolved
    /\ VersionOrder'
    /\ job'.version <= workflow'.target
    /\ \A v \in Versions : request'[v] # "absent" => v <= workflow'.target
    /\ workflow'.current = workflow.current /\ workflow.resolved = workflow.current
         => workflow'.resolved = workflow'.current
    /\ job'.version \notin {0, job.version} => workflow.resolved = workflow.current

\* A quiet statement keeps the order of versions.
LEMMA QuietAdvance ==
    ASSUME TypeOK, VersionInv, QuietRows
    PROVE  RowsAdvance
  <1>1. /\ workflow.target \in Nat /\ workflow.current \in Nat
        /\ workflow.resolved \in Nat
    BY RowTypes, SMTT(30)
  <1>2. 0 <= workflow.target /\ job.version <= workflow.target
    BY <1>1, SMTT(30) DEF VersionInv, VersionsAllocated
  <1> QED BY <1>1, <1>2, SMTT(30)
          DEF VersionInv, VersionOrder, VersionsAllocated, QuietRows, RowsAdvance

\* The statements on requests and jobs are quiet but for the two that create.
LEMMA QuietRequests ==
    ASSUME StoreTypeOK,
           \/ \E vs \in SUBSET Versions : AbandonQueuedRequests(vs)
           \/ \E v \in 0 .. MaxRequests :
                /\ v <= workflow.target
                /\ CompleteRequestRow(v) \/ FailRequestRow(v) \/ MarkRequestInProgress(v)
           \/ \E v \in 0 .. MaxRequests : SupercedeOlderRequests(v)
    PROVE  QuietRows
  <1> USE DEF StoreTypeOK, QuietRows
  <1>1. CASE \E vs \in SUBSET Versions : AbandonQueuedRequests(vs)
    BY <1>1, SMTT(30) DEF AbandonQueuedRequests
  <1>2. ASSUME NEW v \in 0 .. MaxRequests, v <= workflow.target,
               CompleteRequestRow(v) \/ FailRequestRow(v) \/ MarkRequestInProgress(v)
        PROVE  QuietRows
    BY <1>2, SMTT(30) DEF CompleteRequestRow, FailRequestRow, MarkRequestInProgress
  <1>3. CASE \E v \in 0 .. MaxRequests : SupercedeOlderRequests(v)
    BY <1>3, SMTT(30) DEF SupercedeOlderRequests
  <1> QED BY <1>1, <1>2, <1>3, SMTT(30)

\* The statements on an existing job (postgres/job.go) move its status, owner and
\* attempts, never its version.
LEMMA QuietJobs ==
    ASSUME StoreTypeOK,
           \/ \E v : DeleteTerminalJob(v)
           \/ \E v, n : RequeueJob(v, n) \/ ClaimFailedJob(v, n)
           \/ \E s : \/ AcquireJob(s) \/ RenewJobLease(s) \/ DispatchJob(s) \/ ReleaseJob(s)
                     \/ \E st : UpdateJobStatus(s, st)
                     \/ \E d : UpdateJobWithMetrics(s, d)
                     \/ \E st, g : ParkJob(s, st, g)
           \/ MarkOrphanedJobsFailed \/ SweepAbandonedJobs
           \/ \E id : MarkAbandonRequested(id)
    PROVE  QuietRows
  <1>1. UNCHANGED <<workflow, request>>
    BY Zenon DEF DeleteTerminalJob, RequeueJob, ClaimFailedJob, AcquireJob, RenewJobLease,
           DispatchJob, ReleaseJob, UpdateJobStatus, UpdateJobWithMetrics, ParkJob,
           MarkOrphanedJobsFailed, SweepAbandonedJobs, MarkAbandonRequested
  <1>2. job'.version \in {0, job.version}
    <2>1. CASE \E v : DeleteTerminalJob(v)
      BY <2>1, SMTT(30) DEF DeleteTerminalJob, NoJob
    <2>2. CASE \E v, n : RequeueJob(v, n) \/ ClaimFailedJob(v, n)
      BY <2>2, ZenonT(40) DEF RequeueJob, ClaimFailedJob, StoreTypeOK, JobRow
    <2>3. CASE \E s : \/ AcquireJob(s) \/ RenewJobLease(s) \/ DispatchJob(s)
                     \/ ReleaseJob(s)
      <3>1. PICK s : \/ AcquireJob(s) \/ RenewJobLease(s) \/ DispatchJob(s)
                     \/ ReleaseJob(s)
        BY <2>3
      <3>2. CASE AcquireJob(s) \/ RenewJobLease(s)
        BY <3>2, ZenonT(40) DEF AcquireJob, RenewJobLease, StoreTypeOK, JobRow
      <3>3. CASE DispatchJob(s) \/ ReleaseJob(s)
        BY <3>3, ZenonT(40) DEF DispatchJob, ReleaseJob, StoreTypeOK, JobRow
      <3> QED BY <3>1, <3>2, <3>3
    <2>4. CASE \E s : \/ \E st : UpdateJobStatus(s, st)
                     \/ \E d : UpdateJobWithMetrics(s, d)
                     \/ \E st, g : ParkJob(s, st, g)
      BY <2>4, ZenonT(40) DEF UpdateJobStatus, UpdateJobWithMetrics, ParkJob, StoreTypeOK, JobRow
    <2>5. CASE \/ MarkOrphanedJobsFailed \/ SweepAbandonedJobs
               \/ \E id : MarkAbandonRequested(id)
      BY <2>5, SMTT(30) DEF MarkOrphanedJobsFailed, SweepAbandonedJobs, MarkAbandonRequested,
                  StoreTypeOK, JobRow
    <2> QED BY <2>1, <2>2, <2>3, <2>4, <2>5, SMTT(30)
  <1> QED BY <1>1, <1>2, SMTT(30) DEF QuietRows

\* The statements on the workflow's lifecycle, suspension and deletion leave its
\* version columns alone.
LEMMA QuietWorkflow ==
    ASSUME StoreTypeOK,
           \/ \E l : MarkLifecycle(l) \/ MarkAwaiting(l)
           \/ ReconcileWorkflowLifecycles
           \/ \E g, parked, st : ResolveGate(g, parked, st)
           \/ FinalizeDeleted \/ ExpireCooldowns \/ MarkDeletionRequested
           \/ \E id : FinalizeSuspended(id) \/ AbortSuspension(id)
           \/ \E v : TryActivateWorkflow(v)
           \/ \E c, m, r : UpdateConfig(c, m, r)
           \/ \E id, stop : MarkSuspensionRequested(id, stop)
           \/ UNCHANGED store
    PROVE  QuietRows
  <1>1. job'.version = job.version
    BY ZenonT(40) DEF MarkLifecycle, MarkAwaiting, ReconcileWorkflowLifecycles, ResolveGate,
           FinalizeDeleted, ExpireCooldowns, MarkDeletionRequested, FinalizeSuspended,
           AbortSuspension, TryActivateWorkflow, UpdateConfig, MarkSuspensionRequested,
           store, StoreTypeOK, JobRow
  <1>2. \A v \in Versions : request'[v] # "absent" => request[v] # "absent"
    BY Zenon DEF MarkLifecycle, MarkAwaiting, ReconcileWorkflowLifecycles, ResolveGate,
           FinalizeDeleted, ExpireCooldowns, MarkDeletionRequested, FinalizeSuspended,
           AbortSuspension, TryActivateWorkflow, UpdateConfig, MarkSuspensionRequested,
           store, MoveRequests
  <1>3. /\ workflow'.target = workflow.target
        /\ workflow'.current = workflow.current
        /\ workflow'.resolved = workflow.resolved
    <2> USE DEF StoreTypeOK, WorkflowRow
    <2>1. CASE \E l : MarkLifecycle(l) \/ MarkAwaiting(l)
      BY <2>1, SMTT(30) DEF MarkLifecycle, MarkAwaiting
    <2>2. CASE ReconcileWorkflowLifecycles \/ \E g, parked, st : ResolveGate(g, parked, st)
      BY <2>2, SMTT(30) DEF ReconcileWorkflowLifecycles, ResolveGate
    <2>3. CASE FinalizeDeleted \/ ExpireCooldowns \/ MarkDeletionRequested
      BY <2>3, ZenonT(40) DEF FinalizeDeleted, ExpireCooldowns, MarkDeletionRequested,
                  WithoutSuspension
    <2>4. CASE \E id : FinalizeSuspended(id) \/ AbortSuspension(id)
      <3>1. PICK id : FinalizeSuspended(id) \/ AbortSuspension(id)
        BY <2>4
      <3>2. CASE FinalizeSuspended(id)
        BY <3>2 DEF FinalizeSuspended
      <3>3. CASE AbortSuspension(id)
        BY <3>3, ZenonT(40) DEF AbortSuspension, WithoutSuspension, store
      <3> QED BY <3>1, <3>2, <3>3
    <2>5. CASE \/ \E v : TryActivateWorkflow(v)
               \/ \E c, m, r : UpdateConfig(c, m, r)
      BY <2>5, ZenonT(40) DEF TryActivateWorkflow, UpdateConfig
    <2>6. CASE \E id, stop : MarkSuspensionRequested(id, stop)
      BY <2>6, ZenonT(40) DEF MarkSuspensionRequested
    <2>7. CASE UNCHANGED store
      BY <2>7 DEF store
    <2> QED BY <2>1, <2>2, <2>3, <2>4, <2>5, <2>6, <2>7, SMTT(30)
  <1> QED BY <1>1, <1>2, <1>3, SMTT(30) DEF QuietRows

\* The numbers a step compares.
LEMMA VersionNumbers ==
    ASSUME TypeOK
    PROVE  /\ workflow.target \in Nat /\ workflow.current \in Nat
           /\ workflow.resolved \in Nat /\ job.version \in Nat
           /\ \A p \in Tasks : task[p].version \in Nat /\ task[p].current \in Nat
           /\ \A s \in Sessions : session[s].version \in Nat
  <1>1. \A s \in Sessions : session[s].version \in 0 .. MaxRequests
    BY SessionTypes, Zenon DEF TypeOK
  <1> QED BY <1>1, RowTypes, TaskTypes

\* The same after a step.
LEMMA VersionNumbersNext ==
    ASSUME TypeOK'
    PROVE  /\ workflow'.target \in Nat /\ workflow'.current \in Nat
           /\ workflow'.resolved \in Nat /\ job'.version \in Nat
           /\ \A p \in Tasks : task'[p].version \in Nat /\ task'[p].current \in Nat
           /\ \A s \in Sessions : session'[s].version \in Nat
  <1>1. /\ workflow'.target \in 0 .. MaxRequests /\ workflow'.current \in 0 .. MaxRequests
        /\ workflow'.resolved \in 0 .. MaxRequests /\ job'.version \in 0 .. MaxRequests
    BY SMTT(30) DEF TypeOK, StoreTypeOK, WorkflowRow, JobRow
  <1>2. \A p \in Tasks : task'[p].version \in 0 .. MaxRequests
                         /\ task'[p].current \in 0 .. MaxRequests
    BY SMTT(30) DEF TypeOK, SchedulerTypeOK, Task
  <1>3. \A s \in Sessions : session'[s].version \in 0 .. MaxRequests
    BY SMTT(30) DEF TypeOK, SessionTypeOK, Session
  <1> QED BY <1>1, <1>2, <1>3, SMTT(30)

\* CreateInvocationRequest allocates the next version.
LEMMA CreateAdvance ==
    ASSUME TypeOK, VersionInv, CreateInvocationRequest
    PROVE  RowsAdvance /\ workflow'.target = workflow.target + 1
  <1>1. /\ workflow'.target = workflow.target + 1
        /\ workflow'.current = workflow.current
        /\ workflow'.resolved = workflow.resolved
    BY DEF CreateInvocationRequest, TypeOK, StoreTypeOK, WorkflowRow
  <1>2. job' = job
    BY SMTT(30) DEF CreateInvocationRequest
  <1>3. \A v \in Versions :
          request'[v] # "absent" => request[v] # "absent" \/ v = workflow.target + 1
    BY SMTT(30) DEF CreateInvocationRequest, TypeOK, StoreTypeOK
  <1>4. /\ VersionOrder /\ job.version <= workflow.target
        /\ \A v \in Versions : request[v] # "absent" => v <= workflow.target
    BY SMTT(30) DEF VersionInv, VersionsAllocated
  <1>5. \A v \in Versions : v \in Int
    BY SMTT(30) DEF Versions
  <1> QED BY <1>1, <1>2, <1>3, <1>4, <1>5, VersionNumbers, SMTT(30) DEF VersionOrder, RowsAdvance

\* The end of a run is recorded once, and never over that of a newer run.
LEMMA ApplyAdvance ==
    ASSUME TypeOK, VersionInv, NEW v \in Nat, v <= workflow.target,
           ApplyCompletedJob(v) \/ ApplyFailedJob(v)
    PROVE  /\ RowsAdvance
           /\ v <= workflow'.current
           /\ job' = job /\ workflow'.resolved = workflow.resolved
           /\ workflow'.current = IF ApplyMatches(v) THEN v ELSE workflow.current
  <1>1. /\ workflow'.target = workflow.target
        /\ workflow'.resolved = workflow.resolved
        /\ workflow'.current = IF ApplyMatches(v) THEN v ELSE workflow.current
    BY ZenonT(120) DEF ApplyCompletedJob, ApplyFailedJob, WithoutSuspension, store, TypeOK,
           StoreTypeOK, WorkflowRow
  <1>2. job' = job
    BY DEF ApplyCompletedJob, ApplyFailedJob, store
  <1>3. \A w \in Versions : request'[w] # "absent" => request[w] # "absent"
    BY DEF ApplyCompletedJob, ApplyFailedJob, store, MoveRequests
  <1>4. /\ VersionOrder /\ job.version <= workflow.target
        /\ \A w \in Versions : request[w] # "absent" => w <= workflow.target
    BY DEF VersionInv, VersionsAllocated
  <1> QED BY <1>1, <1>2, <1>3, <1>4, VersionNumbers, SMTT(30)
          DEF VersionOrder, RowsAdvance, ApplyMatches

\* A resolution names a run that has ended.
LEMMA ResolveAdvance ==
    ASSUME TypeOK, VersionInv, NEW r \in Nat, r <= workflow.current,
           \/ \E st, v : TryApplyStateResolution(r, st, v)
           \/ \E e, c, v : TryApplyVersionResolution(r, e, c, v)
    PROVE  /\ RowsAdvance /\ job' = job
           /\ workflow'.current = workflow.current
  <1>1. /\ workflow'.target = workflow.target
        /\ workflow'.current = workflow.current
        /\ \/ workflow'.resolved = workflow.resolved
           \/ workflow'.resolved = r /\ workflow.resolved < r
    BY ZenonT(40) DEF TryApplyStateResolution, TryApplyVersionResolution, ResolutionMatches,
           TypeOK, StoreTypeOK, WorkflowRow
  <1>2. job' = job /\ request' = request
    BY Zenon DEF TryApplyStateResolution, TryApplyVersionResolution
  <1>3. /\ VersionOrder /\ job.version <= workflow.target
        /\ \A w \in Versions : request[w] # "absent" => w <= workflow.target
    BY Zenon DEF VersionInv, VersionsAllocated
  <1> QED BY <1>1, <1>2, <1>3, VersionNumbers DEF VersionOrder, RowsAdvance

\* An operator's acknowledgement, and a resume, resolve what has ended.
LEMMA SettleAdvance ==
    ASSUME TypeOK, VersionInv,
           \/ \E v : ResolveInterruptedWorkflow(v)
           \/ \E id, st, c : RestoreFromSuspension(id, st, c)
    PROVE  /\ RowsAdvance /\ job' = job
           /\ workflow'.current = workflow.current
  <1>1. /\ workflow'.target = workflow.target
        /\ workflow'.current = workflow.current
        /\ workflow'.resolved \in {workflow.resolved, workflow.current}
    BY ZenonT(120) DEF ResolveInterruptedWorkflow, RestoreFromSuspension, WithoutSuspension, store,
           TypeOK, StoreTypeOK, WorkflowRow
  <1>2. job' = job
    BY Zenon DEF ResolveInterruptedWorkflow, RestoreFromSuspension, store
  <1>3. \A w \in Versions : request'[w] # "absent" => request[w] # "absent"
    BY Zenon DEF ResolveInterruptedWorkflow, RestoreFromSuspension, store, MoveRequests
  <1>4. /\ VersionOrder /\ job.version <= workflow.target
        /\ \A w \in Versions : request[w] # "absent" => w <= workflow.target
    BY SMTT(30) DEF VersionInv, VersionsAllocated
  <1> QED BY <1>1, <1>2, <1>3, <1>4, VersionNumbers, SMTT(30) DEF VersionOrder, RowsAdvance

\* The job is written for a run only if the validation read the row as it is.
LEMMA UpsertAdvance ==
    ASSUME TypeOK, VersionInv, NEW p \in Tasks, At(p, "schedule_upsert"),
           UpsertJobAndSchedule(task[p].version, task[p].current, task[p].mode)
    PROVE  RowsAdvance /\ workflow' = workflow
  <1>1. workflow' = workflow
    BY SMTT(30) DEF UpsertJobAndSchedule, store
  <1>2. CASE UpsertMatches(task[p].version, task[p].current, task[p].mode)
    <2>1. workflow.resolved = workflow.current
      BY <1>2, SMTT(30) DEF UpsertMatches, VersionInv, UpsertValidated
    <2>2. job'.version = task[p].version
      BY <1>2, Zenon DEF UpsertJobAndSchedule, NoJob
    <2>3. \A v \in Versions :
            request'[v] # "absent" => request[v] # "absent" \/ v = task[p].version
      BY <1>2 DEF UpsertJobAndSchedule, TypeOK, StoreTypeOK
    <2>4. task[p].version <= workflow.target /\ VersionOrder
          /\ \A w \in Versions : request[w] # "absent" => w <= workflow.target
      BY DEF VersionInv, VersionsAllocated
    <2> QED BY <1>1, <2>1, <2>2, <2>3, <2>4, VersionNumbers, SMTT(30) DEF VersionOrder, RowsAdvance
  <1>3. CASE ~UpsertMatches(task[p].version, task[p].current, task[p].mode)
    <2>1. UNCHANGED store
      BY <1>3 DEF UpsertJobAndSchedule
    <2>2. QuietRows
      BY <2>1, QuietWorkflow DEF TypeOK
    <2> QED BY <1>1, <2>2, QuietAdvance
  <1> QED BY <1>2, <1>3, SMTT(30)


-----------------------------------------------------------------------------
(* Processes.                                                              *)

TasksBehind ==
    \A p \in Tasks : task[p].version <= workflow.target /\ task[p].current <= workflow.current

SessionsBehind == \A s \in Sessions : session[s].version <= workflow.target

\* VersionInv is what rows, tasks and sessions each contribute.
LEMMA VersionInvParts ==
    /\ VersionInv => TasksBehind /\ SessionsBehind /\ UpsertValidated /\ VersionOrder
    /\ RowsAdvance /\ TasksBehind' /\ UpsertValidated' /\ SessionsBehind' => VersionInv'
  BY DEF VersionInv, VersionsAllocated, TasksBehind, SessionsBehind, RowsAdvance

\* A task that moves on, ends or begins stays behind the row.
LEMMA TaskAdvance ==
    ASSUME TypeOK, TypeOK', VersionInv, RowsAdvance, NEW p,
           \/ \E pc \in TaskPcs \ {"schedule_upsert"} : Goto(p, pc)
           \/ Done(p)
           \/ \E pc \in TaskPcs \ {"schedule_upsert"}, n \in Nat :
                \E v \in Nat : v <= workflow'.target /\ Begin(p, pc, v, n)
           \/ UNCHANGED task
    PROVE  TasksBehind' /\ UpsertValidated'
  <1>1. /\ TasksBehind /\ UpsertValidated /\ VersionOrder
    BY VersionInvParts, SMTT(30)
  <1>2. \A q \in Tasks :
          \/ /\ task'[q].version = task[q].version
             /\ task'[q].current = task[q].current
             /\ task'[q].pc = "schedule_upsert" => task[q].pc = "schedule_upsert"
          \/ /\ task'[q].version <= workflow'.target
             /\ task'[q].current = 0
             /\ task'[q].pc # "schedule_upsert"
    <2>1. ASSUME NEW pc \in TaskPcs \ {"schedule_upsert"}, Goto(p, pc),
                 NEW q \in Tasks
          PROVE  /\ task'[q].version = task[q].version
                 /\ task'[q].current = task[q].current
                 /\ task'[q].pc = "schedule_upsert" => task[q].pc = "schedule_upsert"
      BY <2>1, SMTT(30) DEF Goto, TypeOK, SchedulerTypeOK, Task
    <2>2. ASSUME NEW pc \in TaskPcs \ {"schedule_upsert"}, NEW n \in Nat, NEW v \in Nat,
                 v <= workflow'.target, Begin(p, pc, v, n), NEW q \in Tasks, p = q
          PROVE  /\ task'[q].version <= workflow'.target
                 /\ task'[q].current = 0
                 /\ task'[q].pc # "schedule_upsert"
      BY <2>2, Zenon DEF Begin, NewTask, TypeOK, SchedulerTypeOK
    <2>3. ASSUME NEW pc, NEW n, NEW v, Begin(p, pc, v, n) \/ Done(p),
                 NEW q \in Tasks, p # q
          PROVE  task'[q] = task[q]
      BY <2>3, SMTT(30) DEF Begin, Done, TypeOK, SchedulerTypeOK
    <2>4. ASSUME Done(p), NEW q \in Tasks, p = q
          PROVE  /\ task'[q].version <= workflow'.target
                 /\ task'[q].current = 0
                 /\ task'[q].pc # "schedule_upsert"
      <3>1. task'[q] = Idle
        BY <2>4, SMTT(30) DEF Done, TypeOK, SchedulerTypeOK
      <3>2. 0 <= workflow'.target
        BY VersionNumbersNext, SMTT(30)
      <3> QED BY <3>1, <3>2, SMTT(30) DEF Idle, NewTask
    <2> QED BY <2>1, <2>2, <2>3, <2>4, Zenon
  <1>5. TasksBehind'
    <2> SUFFICES ASSUME NEW q \in Tasks
                 PROVE  /\ task'[q].version <= workflow'.target
                        /\ task'[q].current <= workflow'.current
      BY SMTT(30) DEF TasksBehind
    <2>1. /\ task[q].version <= workflow.target /\ task[q].current <= workflow.current
          /\ workflow.target <= workflow'.target /\ workflow.current <= workflow'.current
      BY <1>1, SMTT(30) DEF TasksBehind, RowsAdvance
    <2>2. /\ workflow.target \in Nat /\ workflow.current \in Nat
          /\ task[q].version \in Nat /\ task[q].current \in Nat
      BY VersionNumbers, SMTT(30)
    <2>3. workflow'.target \in Nat /\ workflow'.current \in Nat
      BY VersionNumbersNext, SMTT(30)
    <2> QED BY <1>2, <2>1, <2>2, <2>3, SMTT(30)
  <1>6. UpsertValidated'
    <2> SUFFICES ASSUME NEW q \in Tasks, task'[q].pc = "schedule_upsert",
                        task'[q].current = workflow'.current
                 PROVE  workflow'.resolved = workflow'.current
      BY Zenon DEF UpsertValidated, At
    <2>1. task[q].pc = "schedule_upsert" /\ task[q].current = workflow'.current
      BY <1>2, SMTT(30)
    <2>2. task[q].current <= workflow.current /\ workflow.current <= workflow'.current
      BY <1>1, SMTT(30) DEF TasksBehind, RowsAdvance
    <2>3. workflow'.current = workflow.current
      BY <2>1, <2>2, VersionNumbers, VersionNumbersNext, SMTT(30)
    <2> QED BY <1>1, <2>1, <2>3, Zenon DEF UpsertValidated, At, RowsAdvance
  <1> QED BY <1>5, <1>6, SMTT(30)

\* Goroutine p reads current_version and goes on.
LEMMA ReadAdvance ==
    ASSUME TypeOK, TasksBehind, NEW p, workflow' = workflow,
           \A q \in Tasks : /\ task'[q].version = task[q].version
                            /\ q # p => task'[q] = task[q]
                            /\ q = p => task'[q].current = workflow.current
    PROVE  TasksBehind'
  <1>1. workflow.current <= workflow.current
    <2>1. workflow.current \in 0 .. MaxRequests
      BY RowTypes, SMTT(30)
    <2> QED BY <2>1, SMTT(30)
  <1>2. ASSUME NEW q \in Tasks
        PROVE  task'[q].version <= workflow.target /\ task'[q].current <= workflow.current
    <2>1. task[q].version <= workflow.target /\ task[q].current <= workflow.current
      BY SMTT(30) DEF TasksBehind
    <2>2. CASE q = p
      BY <1>1, <2>1, <2>2, SMTT(30)
    <2>3. CASE q # p
      BY <2>1, <2>3, SMTT(30)
    <2> QED BY <2>2, <2>3, SMTT(30)
  <1> QED BY <1>2, SMTT(30) DEF TasksBehind

\* A session that moves on, or is through with its job.
LEMMA SessionKeepsVersion ==
    ASSUME TypeOK, NEW s \in Sessions, NEW t \in Sessions,
           \E pc : SessionGoto(s, pc) \/ Forget(s, pc)
    PROVE  session'[t].version \in {0, session[t].version}
  <1>1. ASSUME NEW pc, SessionGoto(s, pc)
        PROVE  session'[t].version = session[t].version
    BY <1>1, SMTT(30) DEF SessionGoto, TypeOK, SessionTypeOK, Session
  <1>2. ASSUME NEW pc, Forget(s, pc)
        PROVE  session'[t].version \in {0, session[t].version}
    <2>1. PICK release \in BOOLEAN :
            session' = [session EXCEPT ![s] =
              [NewSession EXCEPT !.pc = pc, !.signal = session[s].signal,
                                 !.release = release]]
      BY <1>2, Zenon DEF Forget
    <2>2. [NewSession EXCEPT !.pc = pc, !.signal = session[s].signal,
                             !.release = release].version = 0
      BY SMTT(30) DEF NewSession
    <2>3. CASE t = s
      BY <2>1, <2>2, <2>3, SMTT(30) DEF TypeOK, SessionTypeOK
    <2>4. CASE t # s
      BY <2>1, <2>4, SMTT(30) DEF TypeOK, SessionTypeOK
    <2> QED BY <2>3, <2>4, Zenon
  <1> QED BY <1>1, <1>2, SMTT(30)

\* What a step leaves alone stays behind.
LEMMA KeptAdvance ==
    ASSUME TypeOK, TypeOK', VersionInv, RowsAdvance
    PROVE  /\ UNCHANGED task => TasksBehind' /\ UpsertValidated'
           /\ UNCHANGED session => SessionsBehind'
  <1>1. ASSUME UNCHANGED task PROVE TasksBehind' /\ UpsertValidated'
    BY <1>1, TaskAdvance, SMTT(30)
  <1>2. ASSUME UNCHANGED session PROVE SessionsBehind'
    <2>1. SessionsBehind /\ workflow.target <= workflow'.target
      BY VersionInvParts, SMTT(30) DEF RowsAdvance
    <2> QED BY <1>2, <2>1, VersionNumbers, VersionNumbersNext, SMTT(30) DEF SessionsBehind
  <1> QED BY <1>1, <1>2, SMTT(30)

\* A step that only begins an operation: the rows stay as they are.
LEMMA StoreKept ==
    ASSUME TypeOK, VersionInv, UNCHANGED store PROVE RowsAdvance
  BY QuietWorkflow, QuietAdvance, SMTT(30) DEF TypeOK

\* Goroutines of the scheduler and the server begin operations.
LEMMA RunnerVersions ==
    ASSUME TypeOK, TypeOK', VersionInv, NEW p \in Runners, RunnerStep(p)
    PROVE  RowsAdvance /\ TasksBehind' /\ UpsertValidated'
  <1> USE TaskPcValues, VersionNumbers
  <1>1. CASE InvokeAdmit(p)
    <2>1. RowsAdvance
      BY <1>1, StoreKept, Zenon DEF InvokeAdmit
    <2>2. 0 <= workflow'.target
      BY VersionNumbersNext
    <2>3. \E pc \in TaskPcs \ {"schedule_upsert"}, n \in Nat :
            \E v \in Nat : v <= workflow'.target /\ Begin(p, pc, v, n)
      BY <1>1, <2>2 DEF InvokeAdmit
    <2> QED BY <2>1, <2>3, TaskAdvance, ZenonT(40)
  <1>2. CASE CreatePeriodicRequest(p)
    <2>1. RowsAdvance /\ workflow'.target = workflow.target + 1
      BY <1>2, CreateAdvance, Zenon DEF CreatePeriodicRequest, CreateDuePeriodicRequest
    <2>2. \E pc \in TaskPcs \ {"schedule_upsert"}, n \in Nat :
            \E v \in Nat : v <= workflow'.target /\ Begin(p, pc, v, n)
      <3>1. workflow.target + 1 \in Nat /\ workflow.target + 1 <= workflow'.target
        BY <2>1
      <3>2. Begin(p, "schedule_get", workflow.target + 1, 0)
        BY <1>2, Zenon DEF CreatePeriodicRequest
      <3> QED BY <3>1, <3>2, Zenon
    <2> QED BY <2>1, <2>2, TaskAdvance, Zenon
  <1>3. CASE ScheduleTop(p)
    <2>1. RowsAdvance /\ workflow' = workflow
      BY <1>3, StoreKept, Zenon DEF ScheduleTop, store
    <2>2. PICK v \in Versions : request[v] = "unscheduled" /\ Begin(p, "schedule_get", v, 0)
      BY <1>3, Zenon DEF ScheduleTop, TopUnscheduled
    <2>3. v \in Nat
      BY DEF Versions
    <2>4. v <= workflow'.target
      BY <2>1, <2>2, Zenon DEF VersionInv, VersionsAllocated
    <2> QED BY <2>1, <2>2, <2>3, <2>4, TaskAdvance, ZenonT(40)
  <1>4. CASE CompleteSweep(p) \/ FailSweep(p)
    <2>1. RowsAdvance /\ workflow' = workflow
      BY <1>4, StoreKept, Zenon DEF CompleteSweep, FailSweep, store
    <2>2. job.version <= workflow'.target /\ job.attempts \in Nat
      BY <2>1, RowTypes, Zenon DEF VersionInv, VersionsAllocated
    <2>3. \E pc \in TaskPcs \ {"schedule_upsert"}, n \in Nat :
            \E v \in Nat : v <= workflow'.target /\ Begin(p, pc, v, n)
      BY <1>4, <2>2, ZenonT(40) DEF CompleteSweep, FailSweep
    <2> QED BY <2>1, <2>3, TaskAdvance, ZenonT(40)
  <1> QED BY <1>1, <1>2, <1>3, <1>4, Zenon DEF RunnerStep

\* ScheduleRequest.
LEMMA ScheduleVersions ==
    ASSUME TypeOK, TypeOK', VersionInv, NEW p \in Tasks,
           \/ InvokeCreate(p) \/ ScheduleGet(p) \/ ScheduleUpsert(p)
           \/ ScheduleSupercede(p) \/ ScheduleMark(p)
    PROVE  RowsAdvance /\ TasksBehind' /\ UpsertValidated'
  <1> USE TaskPcValues, VersionNumbers
  <1>1. CASE InvokeCreate(p)
    <2>1. CASE CreateInvocationRequest /\ Begin(p, "schedule_get", workflow.target + 1, 0)
      <3>1. RowsAdvance /\ workflow'.target = workflow.target + 1
        BY <2>1, CreateAdvance, Zenon
      <3>2. \E pc \in TaskPcs \ {"schedule_upsert"}, n \in Nat :
              \E v \in Nat : v <= workflow'.target /\ Begin(p, pc, v, n)
        BY <2>1, <3>1, SMTT(30)
      <3> QED BY <3>1, <3>2, TaskAdvance, ZenonT(40)
    <2>2. CASE Done(p) /\ UNCHANGED store
      BY <2>2, StoreKept, TaskAdvance, Zenon
    <2> QED BY <1>1, <2>1, <2>2, Zenon DEF InvokeCreate
  <1>2. CASE ScheduleGet(p)
    <2>1. RowsAdvance /\ workflow' = workflow
      BY <1>2, StoreKept, SMTT(30) DEF ScheduleGet, store
    <2>2. CASE Done(p)
      BY <2>1, <2>2, TaskAdvance, Zenon
    <2>3. CASE /\ Schedulable
               /\ task' = [task EXCEPT ![p].pc = "schedule_upsert",
                                       ![p].current = workflow.current,
                                       ![p].mode = workflow.mode]
      <3>1. \A q \in Tasks : /\ task'[q].version = task[q].version
                             /\ q # p => task'[q] = task[q]
                             /\ q = p => task'[q].current = workflow.current
        BY <2>3, Zenon DEF TypeOK, SchedulerTypeOK, Task
      <3>2. TasksBehind /\ UpsertValidated
        BY VersionInvParts, SMTT(30)
      <3>3. TasksBehind'
        BY <2>1, <3>1, <3>2, ReadAdvance, Zenon
      <3>4. UpsertValidated'
        BY <2>1, <2>3, <3>1, <3>2 DEF UpsertValidated, At, Schedulable
      <3> QED BY <2>1, <3>3, <3>4, Zenon
    <2> QED BY <1>2, <2>2, <2>3, SMTT(30) DEF ScheduleGet
  <1>3. CASE ScheduleUpsert(p)
    <2>1. RowsAdvance
      BY <1>3, UpsertAdvance, Zenon DEF ScheduleUpsert
    <2>2. Done(p) \/ Goto(p, "schedule_mark") \/ Goto(p, "schedule_supercede")
      BY <1>3, Zenon DEF ScheduleUpsert
    <2> QED BY <2>1, <2>2, TaskAdvance, ZenonT(40)
  <1>4. CASE ScheduleSupercede(p)
    <2>1. QuietRows
      BY <1>4, QuietRequests, TaskTypes, ZenonT(40) DEF ScheduleSupercede, TypeOK
    <2> QED BY <1>4, <2>1, QuietAdvance, TaskAdvance, Zenon DEF ScheduleSupercede
  <1>5. CASE ScheduleMark(p)
    <2>1. QuietRows
      BY <1>5, QuietWorkflow, Zenon DEF ScheduleMark, TypeOK
    <2> QED BY <1>5, <2>1, QuietAdvance, TaskAdvance, Zenon DEF ScheduleMark
  <1> QED BY <1>1, <1>2, <1>3, <1>4, <1>5, Zenon

\* CompleteRequest and FailRequest.
LEMMA TeardownVersions ==
    ASSUME TypeOK, TypeOK', VersionInv, NEW p \in Tasks,
           \/ CompleteApply(p) \/ CompleteGet(p) \/ CompleteResolve(p)
           \/ CompleteDelete(p) \/ CompleteFinish(p)
           \/ FailGet(p) \/ FailRequeue(p) \/ FailClaim(p) \/ FailApply(p)
           \/ FailDelete(p) \/ FailFinish(p)
    PROVE  RowsAdvance /\ TasksBehind' /\ UpsertValidated'
  <1> USE TaskPcValues, VersionNumbers
  <1>1. /\ task[p].version <= workflow.target /\ task[p].current <= workflow.current
        /\ task[p].version \in 0 .. MaxRequests
    BY TaskTypes, Zenon DEF VersionInv, VersionsAllocated
  <1>2. CASE CompleteApply(p) \/ FailApply(p)
    <2>1. RowsAdvance
      BY <1>1, <1>2, ApplyAdvance, Zenon DEF CompleteApply, FailApply
    <2> QED BY <1>2, <2>1, TaskAdvance, ZenonT(40) DEF CompleteApply, FailApply
  <1>3. CASE CompleteGet(p)
    <2>1. RowsAdvance /\ workflow' = workflow
      BY <1>3, StoreKept, SMTT(30) DEF CompleteGet, store
    <2>2. \A q \in Tasks : /\ task'[q].version = task[q].version
                           /\ q # p => task'[q] = task[q]
                           /\ q = p => /\ task'[q].current = workflow.current
                                       /\ task'[q].pc = "complete_resolve"
      BY <1>3, Zenon DEF CompleteGet, TypeOK, SchedulerTypeOK, Task
    <2>3. TasksBehind /\ UpsertValidated
      BY VersionInvParts, Zenon
    <2>4. TasksBehind'
      BY <2>1, <2>2, <2>3, ReadAdvance, Zenon
    <2>5. UpsertValidated'
      BY <2>1, <2>2, <2>3, Zenon DEF UpsertValidated, At
    <2> QED BY <2>1, <2>4, <2>5, Zenon
  <1>4. CASE CompleteResolve(p)
    <2>1. \/ \E st, v : TryApplyStateResolution(task[p].current, st, v)
          \/ \E e, c, v : TryApplyVersionResolution(task[p].current, e, c, v)
      BY <1>4, SchedulerAssumption, ZenonT(40) DEF CompleteResolve
    <2>2. RowsAdvance
      BY <1>1, <2>1, ResolveAdvance, Zenon
    <2> QED BY <1>4, <2>2, TaskAdvance, Zenon DEF CompleteResolve
  <1>5. CASE CompleteDelete(p) \/ FailRequeue(p) \/ FailClaim(p) \/ FailDelete(p)
    <2>1. QuietRows
      BY <1>5, QuietJobs, Zenon DEF CompleteDelete, FailRequeue, FailClaim, FailDelete, TypeOK
    <2>2. \/ Done(p)
          \/ \E pc \in {"complete_finish", "fail_claim", "fail_apply", "fail_finish"} :
               Goto(p, pc)
      BY <1>5, ZenonT(40) DEF CompleteDelete, FailRequeue, FailClaim, FailDelete
    <2> QED BY <2>1, <2>2, QuietAdvance, TaskAdvance, ZenonT(40)
  <1>6. CASE CompleteFinish(p) \/ FailFinish(p)
    <2>1. QuietRows
      BY <1>1, <1>6, QuietRequests, ZenonT(40) DEF CompleteFinish, FailFinish, TypeOK
    <2> QED BY <1>6, <2>1, QuietAdvance, TaskAdvance, ZenonT(40) DEF CompleteFinish, FailFinish
  <1>7. CASE FailGet(p)
    <2>1. RowsAdvance
      BY <1>7, StoreKept, Zenon DEF FailGet
    <2> QED BY <1>7, <2>1, TaskAdvance, ZenonT(40) DEF FailGet
  <1> QED BY <1>2, <1>3, <1>4, <1>5, <1>6, <1>7, Zenon


\* Every step of the scheduler.
LEMMA SchedulerVersions ==
    ASSUME TypeOK, TypeOK', VersionInv, SchedulerNext, UNCHANGED session
    PROVE  RowsAdvance /\ VersionInv'
  <1>1. RowsAdvance /\ TasksBehind' /\ UpsertValidated'
    <2>1. CASE \E p \in Runners : RunnerStep(p)
      BY <2>1, RunnerVersions, SMTT(30)
    <2>2. CASE \E p \in Tasks : TaskStep(p)
      BY <2>2, ScheduleVersions, TeardownVersions, Zenon DEF TaskStep
    <2>3. CASE \E p \in Tasks : TaskFault(p) \/ DeleteFault(p)
      BY <2>3, StoreKept, TaskAdvance, TaskPcValues, Zenon DEF TaskFault, DeleteFault
    <2>4. CASE Sweep
      <3>1. QuietRows
        <4>1. CASE ReconcileWorkflowLifecycles \/ MarkOrphanedJobsFailed \/ ExpireCooldowns
          BY <4>1, QuietWorkflow, QuietJobs, SMTT(30) DEF TypeOK
        <4>2. CASE SweepRequestsInProgress
          BY <4>2, QuietRequests, RowTypes, Zenon
          DEF SweepRequestsInProgress, TypeOK, VersionInv, VersionsAllocated
        <4> QED BY <2>4, <4>1, <4>2, SMTT(30) DEF Sweep
      <3> QED BY <2>4, <3>1, QuietAdvance, KeptAdvance, SMTT(30) DEF Sweep, schedulerVars
    <2> QED BY <2>1, <2>2, <2>3, <2>4, SMTT(30) DEF SchedulerNext
  <1>2. SessionsBehind'
    BY <1>1, KeptAdvance, SMTT(30)
  <1> QED BY <1>1, <1>2, VersionInvParts, SMTT(30)

\* A session that drops its run, keeps it or takes up the job's stays behind the
\* requests made.
LEMMA SessionsStayBehind ==
    ASSUME TypeOK, TypeOK', VersionInv, RowsAdvance,
           \A t \in Sessions :
             session'[t].version \in {0, session[t].version, job.version}
    PROVE  SessionsBehind'
  <1>1. /\ workflow.target <= workflow'.target
        /\ job.version <= workflow.target
        /\ \A t \in Sessions : session[t].version <= workflow.target
    BY Zenon DEF RowsAdvance, VersionInv, VersionsAllocated
  <1>2. ASSUME NEW t \in Sessions PROVE session'[t].version <= workflow'.target
    <2>1. /\ workflow.target \in Nat /\ job.version \in Nat
          /\ session[t].version \in Nat
      BY VersionNumbers, Zenon
    <2>2. workflow'.target \in Nat
      BY VersionNumbersNext, Zenon
    <2> QED BY <1>1, <2>1, <2>2, SMTT(30)
  <1> QED BY <1>2, SMTT(30) DEF SessionsBehind

\* A session ends its operation and goes on to complete or fail the request.
LEMMA OperationEndVersions ==
    ASSUME TypeOK, TypeOK', VersionInv, NEW s \in Sessions,
           CompleteOperation(s) \/ \E pc : FailOperation(s, pc)
    PROVE  RowsAdvance /\ VersionInv'
  <1>1. RowsAdvance /\ workflow' = workflow
    <2>1. QuietRows
      BY QuietJobs, ZenonT(40) DEF CompleteOperation, FailOperation, TypeOK
    <2> QED BY <2>1, QuietAdvance, SMTT(30) DEF CompleteOperation, FailOperation, UpdateJobStatus
  <1>2. \/ \E pc \in TaskPcs \ {"schedule_upsert"}, n \in Nat :
             \E v \in Nat : v <= workflow'.target /\ Begin(s, pc, v, n)
        \/ UNCHANGED task
    <2>1. /\ session[s].version \in Nat /\ session[s].attempts \in Nat
          /\ session[s].version <= workflow'.target
      BY <1>1, VersionNumbers, SessionTypes, Zenon DEF TypeOK, VersionInv, VersionsAllocated
    <2> QED BY <2>1, TaskPcValues, Zenon DEF CompleteOperation, FailOperation
  <1>3. \E pc : SessionGoto(s, pc) \/ Forget(s, pc)
    BY Zenon DEF CompleteOperation, FailOperation
  <1>4. TasksBehind' /\ UpsertValidated'
    BY <1>1, <1>2, TaskAdvance, Zenon
  <1>5. SessionsBehind'
    BY <1>1, <1>3, SessionKeepsVersion, SessionsStayBehind, Zenon
  <1> QED BY <1>1, <1>4, <1>5, VersionInvParts, SMTT(30)

\* Every step of a session.
LEMMA SessionVersions ==
    ASSUME TypeOK, TypeOK', VersionInv, NEW s \in Sessions, SessionStep(s)
    PROVE  RowsAdvance /\ VersionInv'
  <1>1. CASE \/ CompleteAcquired(s) \/ OperationCompletes(s) \/ OperationFails(s)
             \/ SessionBreaks(s)
    BY <1>1, OperationEndVersions, Zenon
    DEF CompleteAcquired, OperationCompletes, OperationFails, SessionBreaks
  <1>2. CASE SessionCrash(s)
    <2>1. RowsAdvance /\ TasksBehind' /\ UpsertValidated'
      BY <1>2, StoreKept, TaskAdvance, SMTT(30) DEF SessionCrash
    <2>2. \A t \in Sessions : session'[t].version \in {0, session[t].version}
      BY <1>2, SMTT(30) DEF SessionCrash, NewSession, TypeOK, SessionTypeOK
    <2>3. SessionsBehind'
      BY <2>1, <2>2, SessionsStayBehind, Zenon
    <2> QED BY <2>1, <2>3, VersionInvParts, SMTT(30)
  <1>3. CASE \/ Acquire(s) \/ Dispatch(s) \/ MarkInvoking(s) \/ MarkInProgress(s)
             \/ Launch(s) \/ LaunchFails(s) \/ Acknowledge(s) \/ AcknowledgeTimeout(s)
             \/ OperationHasNext(s) \/ OperationOpensGate(s) \/ MarkParked(s)
             \/ TakeSignal(s) \/ OperationTimeout(s) \/ Finish(s) \/ Renew(s)
             \/ LoseLease(s) \/ Release(s) \/ Reconnect(s) \/ SessionFault(s)
    <2>1. QuietRows
      <3>1. CASE MarkInProgress(s)
        BY <3>1, QuietRequests, SessionTypes, Zenon
        DEF MarkInProgress, TypeOK, VersionInv, VersionsAllocated
      <3>2. CASE \/ Acquire(s) \/ Dispatch(s) \/ LaunchFails(s) \/ Acknowledge(s)
                 \/ OperationHasNext(s) \/ OperationOpensGate(s) \/ Renew(s) \/ Release(s)
        BY <3>2, QuietJobs, Zenon
        DEF Acquire, Dispatch, LaunchFails, Acknowledge, OperationHasNext,
            OperationOpensGate, Renew, Release, TypeOK
      <3>3. CASE \/ MarkInvoking(s) \/ Launch(s) \/ AcknowledgeTimeout(s) \/ MarkParked(s)
                 \/ TakeSignal(s) \/ OperationTimeout(s) \/ Finish(s) \/ LoseLease(s)
                 \/ Reconnect(s) \/ SessionFault(s)
        BY <3>3, QuietWorkflow, Zenon
        DEF MarkInvoking, Launch, AcknowledgeTimeout, MarkParked, TakeSignal,
            OperationTimeout, Finish, LoseLease, Reconnect, SessionFault, TypeOK
      <3> QED BY <1>3, <3>1, <3>2, <3>3, SMTT(30)
    <2>2. UNCHANGED task
      BY <1>3, Zenon DEF Acquire, Dispatch, MarkInvoking, MarkInProgress, Launch, LaunchFails,
           Acknowledge, AcknowledgeTimeout, OperationHasNext, OperationOpensGate,
           MarkParked, TakeSignal, OperationTimeout, Finish, Renew, LoseLease, Release,
           Reconnect, SessionFault, NoTask, schedulerVars
    <2>3. \A t \in Sessions :
            session'[t].version \in {0, session[t].version, job.version}
      <3>1. CASE \/ Dispatch(s) \/ MarkInvoking(s) \/ MarkInProgress(s) \/ Launch(s)
                 \/ LaunchFails(s) \/ Acknowledge(s) \/ AcknowledgeTimeout(s)
                 \/ OperationHasNext(s) \/ MarkParked(s) \/ OperationTimeout(s)
                 \/ Finish(s) \/ SessionFault(s)
        <4>1. \E pc : SessionGoto(s, pc) \/ Forget(s, pc)
          BY <3>1, Zenon DEF Dispatch, MarkInvoking, MarkInProgress, Launch, LaunchFails,
               Acknowledge, AcknowledgeTimeout, OperationHasNext, MarkParked,
               OperationTimeout, Finish, SessionFault
        <4> QED BY <4>1, SessionKeepsVersion, Zenon
      <3>2. CASE Acquire(s)
        <4> DEFINE t == [session[s] EXCEPT !.pc = "acquired", !.version = job.version,
                           !.attempts = job.attempts, !.status = job.status,
                           !.abandon = job.abandon, !.signalled = FALSE]
        <4>1. session' = [session EXCEPT ![s] = t]
          BY <3>2, SMTT(30) DEF Acquire
        <4>2. t.version = job.version
          BY SMTT(30) DEF TypeOK, SessionTypeOK, Session
        <4> HIDE DEF t
        <4> QED BY <4>1, <4>2, Zenon DEF TypeOK, SessionTypeOK
      <3>5. CASE OperationOpensGate(s)
        BY <3>5, SMTT(30) DEF OperationOpensGate, TypeOK, SessionTypeOK, Session
      <3>3. CASE TakeSignal(s) \/ Renew(s) \/ Release(s)
        BY <3>3, SMTT(30) DEF TakeSignal, Renew, Release, TypeOK, SessionTypeOK, Session
      <3>4. CASE LoseLease(s) \/ Reconnect(s)
        <4>1. \E t : t.version = 0 /\ session' = [session EXCEPT ![s] = t]
          BY <3>4, ZenonT(40) DEF LoseLease, Reconnect, NewSession
        <4> QED BY <4>1, Zenon DEF TypeOK, SessionTypeOK
      <3> QED BY <1>3, <3>1, <3>2, <3>3, <3>4, <3>5, ZenonT(40)
    <2>4. RowsAdvance
      BY <2>1, QuietAdvance
    <2>5. TasksBehind' /\ UpsertValidated'
      BY <2>2, <2>4, KeptAdvance
    <2>6. SessionsBehind'
      BY <2>3, <2>4, SessionsStayBehind, Zenon
    <2> QED BY <2>4, <2>5, <2>6, VersionInvParts, SMTT(30)
  <1> QED BY <1>1, <1>2, <1>3, Zenon DEF SessionStep

\* Time, gates, operators and reconcilers.
LEMMA OperatorVersions ==
    ASSUME TypeOK, TypeOK', VersionInv,
           LeaseAges \/ DelayPasses \/ DecideGate \/ LifecycleNext
    PROVE  RowsAdvance /\ VersionInv'
  <1>1. RowsAdvance
    <2>1. CASE LeaseAges \/ DelayPasses
      <3>1. QuietRows
        BY <2>1, Zenon DEF LeaseAges, DelayPasses, QuietRows, TypeOK, StoreTypeOK, JobRow
      <3> QED BY <3>1, QuietAdvance, SMTT(30)
    <2>2. CASE DecideGate
      <3>1. QuietRows
        BY <2>2, QuietWorkflow, Zenon DEF DecideGate, TypeOK
      <3> QED BY <3>1, QuietAdvance
    <2>3. CASE AcknowledgeInterruption \/ \E a \in Admins : ResumeRestore(a)
      BY <2>3, SettleAdvance, Zenon DEF AcknowledgeInterruption, ResumeRestore
    <2>4. CASE ActivateWorkflow \/ SetWorkflowConfig
      <3>1. QuietRows
        BY <2>4, QuietWorkflow, Zenon DEF ActivateWorkflow, SetWorkflowConfig, TypeOK
      <3> QED BY <3>1, QuietAdvance
    <2>5. CASE AbandonQueued \/ \E a \in Admins : DeleteAbandon(a)
      <3>1. QuietRows
        BY <2>5, QuietRequests, Zenon DEF AbandonQueued, DeleteAbandon, TypeOK
      <3> QED BY <3>1, QuietAdvance
    <2>6. CASE SweepAbandoned \/ \E a \in Admins : SuspendAbandon(a)
      <3>1. QuietRows
        BY <2>6, QuietJobs, Zenon DEF SweepAbandoned, SuspendAbandon, TypeOK
      <3> QED BY <3>1, QuietAdvance
    <2>7. ASSUME NEW a \in Admins,
                 \/ SuspendWorkflow(a) \/ SuspendFinalize(a) \/ SuspendAbort(a)
                 \/ DeleteWorkflow(a) \/ DeleteFinalize(a)
                 \/ ReconcileSuspension(a) \/ SuspendCheck(a) \/ ResumeWorkflow(a)
                 \/ ReconcileDeletion(a) \/ DeleteCheck(a) \/ AdminFault(a)
          PROVE  RowsAdvance
      <3>1. QuietRows
        BY <2>7, QuietWorkflow, Zenon
        DEF SuspendWorkflow, SuspendFinalize, SuspendAbort, DeleteWorkflow,
            DeleteFinalize, ReconcileSuspension, SuspendCheck, ResumeWorkflow,
            ReconcileDeletion, DeleteCheck, AdminFault, TypeOK
      <3> QED BY <3>1, QuietAdvance, SMTT(30)
    <2> QED BY <2>1, <2>2, <2>3, <2>4, <2>5, <2>6, <2>7, Zenon DEF LifecycleNext, AdminStep
  <1>2. UNCHANGED <<task, session>>
    BY Zenon DEF LeaseAges, DelayPasses, DecideGate, NoTask, LifecycleNext, AdminStep,
       ActivateWorkflow, AcknowledgeInterruption, SetWorkflowConfig, AbandonQueued,
       SweepAbandoned, SuspendWorkflow, ReconcileSuspension, SuspendAbandon,
       SuspendCheck, SuspendFinalize, SuspendAbort, ResumeWorkflow, ResumeRestore,
       DeleteWorkflow, ReconcileDeletion, DeleteAbandon, DeleteCheck, DeleteFinalize,
       AdminFault, processes, sessionVars, schedulerVars
  <1> QED BY <1>1, <1>2, KeptAdvance, VersionInvParts

-----------------------------------------------------------------------------
(* The theorems.                                                           *)

\* Every step advances the versions and keeps VersionInv.
LEMMA NextVersions ==
    ASSUME TypeOK, TypeOK', VersionInv, [Next]_vars
    PROVE  RowsAdvance /\ VersionInv'
  <1>1. CASE Scheduling(SchedulerNext)
    BY <1>1, SchedulerVersions, SMTT(30) DEF Scheduling, sessionVars
  <1>2. CASE SessionNext
    BY <1>2, SessionVersions, OperatorVersions, SMTT(30) DEF SessionNext
  <1>3. CASE LifecycleNext
    BY <1>3, OperatorVersions, SMTT(30)
  <1>4. CASE UNCHANGED vars
    <2>1. RowsAdvance /\ UNCHANGED <<task, session>>
      BY <1>4, StoreKept, SMTT(30) DEF vars, schedulerVars, sessionVars
    <2> QED BY <2>1, KeptAdvance, VersionInvParts, SMTT(30)
  <1> QED BY <1>1, <1>2, <1>3, <1>4, SMTT(30) DEF Next

\* No version is allocated at first.
LEMMA InitVersions == Init => VersionInv
  <1> SUFFICES ASSUME Init PROVE VersionInv
    BY SMTT(30)
  <1>1. /\ workflow.target = 0 /\ workflow.current = 0 /\ workflow.resolved = 0
        /\ job.version = 0
        /\ \A v \in Versions : request[v] = "absent"
    BY InitRows, SMTT(30) DEF Init
  <1>2. \A p \in Tasks : task[p] = Idle
    BY SMTT(30) DEF Init, SchedulerInit
  <1>3. \A p \in Tasks : /\ task[p].pc = "idle"
                         /\ task[p].version = 0 /\ task[p].current = 0
    <2>1. Idle.pc = "idle" /\ Idle.version = 0 /\ Idle.current = 0
      BY Zenon DEF Idle, NewTask
    <2> QED BY <1>2, <2>1, Zenon
  <1>4. \A s \in Sessions : session[s].version = 0
    BY Zenon DEF Init, SessionInit, NewSession
  <1>5. VersionOrder
    BY <1>1, SMTT(30) DEF VersionOrder
  <1>6. VersionsAllocated
    <2>1. 0 <= workflow.target /\ 0 <= workflow.current /\ job.version <= workflow.target
      BY <1>1, SMTT(30)
    <2>2. \A p \in Tasks : /\ task[p].version <= workflow.target
                           /\ task[p].current <= workflow.current
      BY <2>1, <1>3, Zenon
    <2>3. \A s \in Sessions : session[s].version <= workflow.target
      BY <2>1, <1>4, Zenon
    <2> QED BY <1>1, <2>1, <2>2, <2>3, Zenon DEF VersionsAllocated
  <1>7. UpsertValidated
    <2>1. \A p \in Tasks : task[p].pc # "schedule_upsert"
      BY <1>3, SMTT(30)
    <2> QED BY <2>1, Zenon DEF UpsertValidated, At
  <1> QED BY <1>5, <1>6, <1>7, SMTT(30) DEF VersionInv

\* VersionInv holds of every behaviour, along with the types.
THEOREM VersionsInvariant == Spec => [](TypeOK /\ VersionInv)
  <1>1. TypeOK /\ VersionInv /\ TypeOK' /\ [Next]_vars => VersionInv'
    BY NextVersions, SMTT(30)
  <1> QED BY <1>1, InitVersions, TypeCorrect, PTL DEF Spec

\* A run is recorded as ended only after it was asked for, and as resolved only
\* after it ended, however the statements of concurrent CompleteRequest,
\* FailRequest, resume and acknowledgement interleave.
THEOREM VersionsOrdered == Spec => []VersionOrder
  <1>1. VersionInv => VersionOrder
    BY SMTT(30) DEF VersionInv
  <1> QED BY <1>1, VersionsInvariant, PTL

\* current_version and lifecycle_last_resolved never go back: a duplicate or late
\* teardown cannot undo what a newer run recorded.
THEOREM VersionsMonotone == Spec => VersionsAdvance
  <1>1. TypeOK /\ VersionInv /\ TypeOK' /\ [Next]_vars
          => [/\ workflow.current <= workflow'.current
              /\ workflow.resolved <= workflow'.resolved]_vars
    BY NextVersions, Zenon DEF RowsAdvance
  <1> QED BY <1>1, VersionsInvariant, PTL DEF Spec, VersionsAdvance

\* The job slot is never given to a run while the run recorded last awaits its
\* policy resolution: what ScheduleRequest validated on a row it read earlier
\* still holds when UpsertJobAndSchedule writes.
THEOREM ScheduledAfterResolution == Spec => ResolvedBeforeScheduled
  <1>1. TypeOK /\ VersionInv /\ TypeOK' /\ [Next]_vars
          => [job'.version \notin {0, job.version}
                => workflow.resolved = workflow.current]_vars
    BY NextVersions, Zenon DEF RowsAdvance
  <1> QED BY <1>1, VersionsInvariant, PTL DEF Spec, ResolvedBeforeScheduled

=============================================================================
