------------------------------- MODULE Gates -------------------------------
(***************************************************************************)
(* One run of a workflow through its operations and its gates, and what it *)
(* leaves behind: the branch taken at each gate, the metrics on the job    *)
(* row and the audit events.  A gate parks the job until an operator       *)
(* decides it (service/lifecycle.go), its deadline passes and a sweep      *)
(* decides it (approvaltimeoutresolver.go, inputtimeoutresolver.go), or    *)
(* both try.  The sweeps run in the scheduler that holds the lease of the  *)
(* workflow's partition (Scheduler.Run, scheduler_partition.go); a         *)
(* scheduler that was held up goes on sweeping until it tries to renew.    *)
(* A suspension that stops runs flags the job (suspensionresolver.go): the *)
(* run then ends wherever the flag is found, a decided gate included.      *)
(*                                                                         *)
(*   job        the job row, with the columns module Store leaves out      *)
(*   session    the worker sessions, each with its in-memory copy of the   *)
(*              job it acquired (rpcworker.go)                             *)
(*   partition  the scheduler_partitions row                               *)
(*   scheduler  whether a scheduler believes the partition is its own      *)
(*   pending    the audit event a handler or a sweep is about to append    *)
(*   audit      the approval and input events                              *)
(*   decided    history: the decision each gate was resolved with          *)
(*   landed     history: what each dispatch of an operation last reported  *)
(*              in a write that reached the job row                        *)
(*   policyAudit  the agent policy actions audited, each with whether the  *)
(*              write it came with reached the row                         *)
(***************************************************************************)
EXTENDS Integers, Sequences, FiniteSets, Functions

CONSTANTS
    Sessions, NoOwner,
    Schedulers,
    Operators,      \* API calls that may be in flight at once
    MaxGates,       \* bound on the gates of the run
    MaxDispatches,  \* bound on the operations dispatched
    MaxAttempts,    \* maxJobAttempts
    Branches,       \* for each kind of gate, which branches go on with an
                    \* operation
    PolicyActions,  \* whether a result may carry agent policy actions
    MaxSpend,       \* bound on what one operation reports to have spent
    MaxFaults       \* bound on crashes, failed writes, and on requests to
                    \* stop the run that are taken back

ASSUME GatesAssumption ==
    /\ NoOwner \notin Sessions
    /\ {MaxGates, MaxDispatches, MaxAttempts, MaxSpend} \subseteq Nat
    /\ \A kind \in {"approval", "input"} :
         Branches[kind] \subseteq BOOLEAN \X BOOLEAN

VARIABLES job, session, partition, scheduler, pending, audit, decided, landed,
          policyAudit, faults

vars == <<job, session, partition, scheduler, pending, audit, decided, landed,
          policyAudit, faults>>

-----------------------------------------------------------------------------
Gate == 1 .. MaxGates

Kinds == {"approval", "input"}

\* Who appends audit events of gates: API calls, and two goroutines of every
\* scheduler.
Actors == Operators \cup (Schedulers \X Kinds)

\* Operations are named for where they come from: the start of the run, or a
\* branch of a gate; NoOperation is an empty current_atomic_operation or, in a
\* branch, Next = nil: the branch completes the run.
Operation(g, way) == [gate |-> g, way |-> way]
StartOperation == Operation(0, "start")
NoOperation == Operation(0, "none")

Awaiting(kind) ==
    IF kind = "approval" THEN "awaiting_approval" ELSE "awaiting_input"

Acquirable ==
    {"pending", "awaiting_next", "approved", "rejected", "answered",
     "input_timed_out"}

\* The part of an acquired job that the session goes on to use.
CopyOf(j) ==
    [status |-> j.status, op |-> j.op, yes |-> j.yes, no |-> j.no,
     rejections |-> j.rejections, spend |-> j.spend, abandon |-> j.abandon]

NoCopy ==
    [status |-> "", op |-> NoOperation, yes |-> NoOperation,
     no |-> NoOperation, rejections |-> -1, spend |-> 0, abandon |-> FALSE]

\* rejections is -1 for a nil ApprovalRejections.  timed is whether the
\* deadline of the gate has passed, abandon whether abandon_requested_at is
\* set, cut whether the result_type is suspended.
Init ==
    /\ job = [status |-> "pending", owner |-> NoOwner, expired |-> FALSE,
              attempts |-> 0, op |-> StartOperation, gate |-> 0,
              timed |-> FALSE, yes |-> NoOperation, no |-> NoOperation,
              rejections |-> -1, spend |-> 0,
              abandon |-> FALSE, cut |-> FALSE]
    /\ session = [s \in Sessions |->
                    [pc |-> "idle", copy |-> NoCopy, thisOp |-> 0,
                     dispatch |-> 0, release |-> FALSE]]
    /\ partition = [owner |-> NoOwner, expired |-> FALSE]
    /\ scheduler = [k \in Schedulers |-> FALSE]
    /\ pending = [a \in Actors |-> <<>>]
    /\ audit = <<>> /\ decided = <<>>
    /\ landed = <<>> /\ policyAudit = {} /\ faults = 0

Owns(s) == job.owner = s

-----------------------------------------------------------------------------
(* The worker session.                                                     *)

\* The session after an operation, or after its stream: told is whether the
\* lease goroutine has been told, or left, to release the job.
SessionAt(pc, told) ==
    [pc |-> pc, copy |-> NoCopy, thisOp |-> 0, dispatch |-> 0, release |-> told]

\* Mutation: what the last operation spent is added to the next one's.
AcquireKeepsThisOp(s) ==
    /\ session[s].pc = "idle"
    /\ job.status \in Acquirable
    /\ job.owner = NoOwner \/ job.expired
    /\ job' = [job EXCEPT !.owner = s, !.expired = FALSE]
    /\ session' = [session EXCEPT ![s] =
                     [@ EXCEPT !.pc = "acquired", !.copy = CopyOf(job),
                               !.thisOp = IF landed = <<>> THEN 0
                                          ELSE landed[Len(landed)]]]
    /\ UNCHANGED <<partition, scheduler, pending, audit, decided, landed,
                   policyAudit, faults>>

\* The status is left as it was; the copy is what the session works from.
AcquireJob(s) ==
    /\ session[s].pc = "idle"
    /\ job.status \in Acquirable
    /\ job.owner = NoOwner \/ job.expired
    /\ job' = [job EXCEPT !.owner = s, !.expired = FALSE]
    /\ session' = [session EXCEPT ![s] =
                     [@ EXCEPT !.pc = "acquired", !.copy = CopyOf(job),
                               !.thisOp = 0]]
    /\ UNCHANGED <<partition, scheduler, pending, audit, decided, landed,
                   policyAudit, faults>>

\* recordGateOutcome: a resolved approval gate makes rejections measurable.
GateOutcome(rejections, status) ==
    LET base == IF rejections = -1 THEN 0 ELSE rejections IN
    CASE status = "approved" -> base
      [] status = "rejected" -> base + 1
      [] OTHER               -> rejections

\* resolveBranch and resolveInputBranch: what to launch, if anything.
BranchOf(copy) ==
    CASE copy.status \in {"approved", "answered"}        -> copy.yes
      [] copy.status \in {"rejected", "input_timed_out"} -> copy.no
      [] OTHER                                           -> copy.op

\* The copy as the session takes it up: its gate resolved.
Resumed(copy) ==
    [NoCopy EXCEPT !.rejections = GateOutcome(copy.rejections, copy.status),
                   !.op = BranchOf(copy), !.spend = copy.spend]

\* What every write of the session persists: the total at the acquisition and
\* what the operation has spent since.
AgentMetrics(s, spent) == session[s].copy.spend + spent

\* Mutation: the operation resolved at a gate is not written down.
DispatchedStatusOnly(new) ==
    [job EXCEPT !.status = "dispatched", !.gate = 0, !.timed = FALSE,
                !.yes = NoOperation, !.no = NoOperation,
                !.rejections = new.rejections, !.spend = new.spend]

\* Mutation: the gate's outcome is left for the completion to write.
DispatchedWithoutMetrics(new) ==
    [job EXCEPT !.status = "dispatched", !.op = new.op, !.gate = 0,
                !.timed = FALSE, !.yes = NoOperation, !.no = NoOperation]

\* DispatchJob writes the operation and the metrics, and clears the gate.
Dispatched(new) ==
    [job EXCEPT !.status = "dispatched", !.op = new.op, !.gate = 0,
                !.timed = FALSE, !.yes = NoOperation, !.no = NoOperation,
                !.rejections = new.rejections, !.spend = new.spend]

\* Resolve the gate in memory, then dispatch what it resolved to.
DispatchJob(s) ==
    /\ session[s].pc = "acquired" /\ ~session[s].copy.abandon
    /\ LET new == [Resumed(session[s].copy) EXCEPT
                     !.spend = AgentMetrics(s, session[s].thisOp)] IN
         /\ new.op # NoOperation
         /\ Len(landed) < MaxDispatches
         /\ IF Owns(s) /\ job.status # "dispatched"
            THEN /\ job' = Dispatched(new)
                 /\ landed' = Append(landed, 0)
                 /\ session' = [session EXCEPT ![s] =
                                  [@ EXCEPT !.pc = "waiting", !.copy = new,
                                            !.dispatch = Len(landed) + 1]]
            ELSE /\ session' = [session EXCEPT ![s] = SessionAt("idle", TRUE)]
                 /\ UNCHANGED <<job, landed>>
    /\ UNCHANGED <<partition, scheduler, pending, audit, decided, policyAudit,
                   faults>>

\* The launch is not delivered: the job goes back to pending, as what the
\* gate resolved to, and the session ends.
SendFails(s) ==
    /\ session[s].pc = "waiting" /\ faults < MaxFaults
    /\ job' = IF Owns(s) THEN [job EXCEPT !.status = "pending"] ELSE job
    /\ session' = [session EXCEPT ![s] = SessionAt("gone", TRUE)]
    /\ faults' = faults + 1
    /\ UNCHANGED <<partition, scheduler, pending, audit, decided, landed,
                   policyAudit>>

\* The client acknowledges the launch; a session that lost the job ends.
AckLaunch(s) ==
    /\ session[s].pc = "waiting"
    /\ job' = IF Owns(s) THEN [job EXCEPT !.status = "running"] ELSE job
    /\ session' = IF Owns(s) THEN [session EXCEPT ![s].pc = "busy"]
                  ELSE [session EXCEPT ![s] = SessionAt("gone", TRUE)]
    /\ UNCHANGED <<partition, scheduler, pending, audit, decided, landed,
                   policyAudit, faults>>

\* recordInterim: a report is the operation's running total.
RecordInterim(s) ==
    /\ session[s].pc = "busy" /\ session[s].thisOp < MaxSpend
    /\ LET spent == session[s].thisOp + 1 IN
         IF Owns(s)
         THEN /\ job' = [job EXCEPT !.spend = AgentMetrics(s, spent)]
              /\ landed' = [landed EXCEPT ![session[s].dispatch] = spent]
              /\ session' = [session EXCEPT ![s].thisOp = spent]
         ELSE /\ session' = [session EXCEPT ![s] = SessionAt("gone", TRUE)]
              /\ UNCHANGED <<job, landed>>
    /\ UNCHANGED <<partition, scheduler, pending, audit, decided, policyAudit,
                   faults>>

\* A write that ends the operation, fenced by the owner: row is what it makes
\* of the job.  The result may carry a newer total, and, if the operation was
\* completed, policy actions to audit; then the lease goroutine is told to
\* release the job.
EndOperation(s, row, acted) ==
    /\ session[s].pc = "busy"
    /\ \E spent \in session[s].thisOp .. MaxSpend :
         IF Owns(s)
         THEN /\ job' = [row EXCEPT
                           !.spend = AgentMetrics(s, spent),
                           !.rejections = session[s].copy.rejections]
              /\ landed' = [landed EXCEPT ![session[s].dispatch] = spent]
         ELSE UNCHANGED <<job, landed>>
    /\ session' = [session EXCEPT ![s] = SessionAt("idle", TRUE)]
    /\ policyAudit' =
         IF acted THEN policyAudit \cup
                         {[dispatch |-> session[s].dispatch, landed |-> Owns(s)]}
         ELSE policyAudit
    /\ UNCHANGED <<partition, scheduler, pending, audit, decided, faults>>

\* completeOperation's branches: go on with a next operation, park at a gate,
\* or complete; and failOperation.
AdvanceJob(s, acted) ==
    EndOperation(s, [job EXCEPT !.status = "awaiting_next"], acted)

NextGate == Len(decided) + 1

ParkForGate(s, kind, yes, no, acted) ==
    /\ NextGate \in Gate
    /\ EndOperation(s,
         [job EXCEPT !.status = Awaiting(kind), !.gate = NextGate,
                     !.timed = FALSE, !.op = NoOperation,
                     !.yes = IF yes THEN Operation(NextGate, "yes")
                                    ELSE NoOperation,
                     !.no = IF no THEN Operation(NextGate, "no")
                                  ELSE NoOperation], acted)

CompleteJob(s, acted) ==
    EndOperation(s, [job EXCEPT !.status = "completed", !.cut = FALSE], acted)

\* The operation ends after a cancel, for what the client says it stopped for:
\* its timeout (softFailOperation) or a suspension (suspendOperation).
StopOperation(s, suspended) ==
    EndOperation(s, [job EXCEPT !.status = "completed", !.cut = suspended],
                 FALSE)

FailJob(s) ==
    EndOperation(s, [job EXCEPT !.status = "failed"], FALSE)

\* An acquired run ends without an operation, with these rejections.
EndAcquired(s, rejections, suspended) ==
    /\ job' = IF Owns(s)
              THEN [job EXCEPT !.status = "completed", !.cut = suspended,
                               !.rejections = rejections,
                               !.spend = AgentMetrics(s, session[s].thisOp)]
              ELSE job
    /\ session' = [session EXCEPT ![s] = SessionAt("idle", TRUE)]
    /\ UNCHANGED <<partition, scheduler, pending, audit, decided, landed,
                   policyAudit, faults>>

\* A gate whose branch has no next operation: the run completes at once.
CompleteBranch(s) ==
    /\ session[s].pc = "acquired" /\ ~session[s].copy.abandon
    /\ LET new == Resumed(session[s].copy) IN
         /\ new.op = NoOperation
         /\ EndAcquired(s, new.rejections, FALSE)

\* A run flagged for a suspension ends as it was acquired, before its gate is
\* resolved.
SuspendAcquired(s) ==
    /\ session[s].pc = "acquired" /\ session[s].copy.abandon
    /\ EndAcquired(s, session[s].copy.rejections, TRUE)

\* A client that reconnects gets a session of its own.
Reconnected(pc) == IF pc = "gone" THEN "idle" ELSE pc

\* The lease goroutine of a past acquisition: keyed on the session alone.
ReleaseJob(s) ==
    /\ session[s].release
    /\ session' = [session EXCEPT ![s] =
                     [@ EXCEPT !.pc = Reconnected(session[s].pc),
                               !.release = FALSE]]
    /\ job' = IF Owns(s)
              THEN [job EXCEPT !.owner = NoOwner, !.expired = FALSE] ELSE job
    /\ UNCHANGED <<partition, scheduler, pending, audit, decided, landed,
                   policyAudit, faults>>

\* The stream ends before the dispatch or before the launch is acknowledged
\* (in time): the row is left as it is, and released.
StreamEnds(s) ==
    /\ session[s].pc \in {"acquired", "waiting"} /\ faults < MaxFaults
    /\ session' = [session EXCEPT ![s] = SessionAt("gone", TRUE)]
    /\ faults' = faults + 1
    /\ UNCHANGED <<job, partition, scheduler, pending, audit, decided, landed,
                   policyAudit>>

\* The worker process dies, with everything the session had in memory.
SessionDies(s) ==
    /\ session[s] # SessionAt("idle", FALSE) /\ faults < MaxFaults
    /\ session' = [session EXCEPT ![s] = SessionAt("idle", FALSE)]
    /\ faults' = faults + 1
    /\ UNCHANGED <<job, partition, scheduler, pending, audit, decided, landed,
                   policyAudit>>

\* A lease runs out because its holder is gone, or, counted as a fault,
\* because the holder is held up past it.
Lapses(held) == faults' = IF held THEN faults + 1 ELSE faults

JobLeaseExpires ==
    /\ job.owner # NoOwner /\ ~job.expired
    /\ job' = [job EXCEPT !.expired = TRUE]
    /\ Lapses(session[job.owner] # SessionAt("idle", FALSE))
    /\ faults' <= MaxFaults
    /\ UNCHANGED <<session, partition, scheduler, pending, audit, decided,
                   landed, policyAudit>>

-----------------------------------------------------------------------------
(* Deciding a gate.                                                        *)

\* The decision is set on the job, and its audit event is still to be
\* appended by whoever made it (actor a).
Decide(a, kind, status, decision) ==
    /\ pending[a] = <<>>
    /\ job' = [job EXCEPT !.status = status]
    /\ decided' = Append(decided, [kind |-> kind, decision |-> decision])
    /\ pending' = [pending EXCEPT ![a] = <<[gate |-> job.gate,
                                            decision |-> decision]>>]
    /\ UNCHANGED <<session, partition, scheduler, audit, landed, policyAudit,
                   faults>>

\* ApproveWorkflow and RejectWorkflow, SubmitInput: guarded on the gate's id,
\* which the caller read some time before.
ApproveWorkflow(o, g) ==
    /\ job.status = "awaiting_approval" /\ job.gate = g
    /\ Decide(o, "approval", "approved", "approved")

\* Mutation: the gate is decided whatever has become of it.
RejectAnyStatus(o, g) ==
    /\ job.gate = g /\ job.status \in {"awaiting_approval", "approved"}
    /\ pending[o] = <<>>
    /\ job' = [job EXCEPT !.status = "rejected"]
    /\ decided' = IF Len(decided) < g
                  THEN Append(decided, [kind |-> "approval",
                                        decision |-> "rejected"])
                  ELSE decided
    /\ pending' = [pending EXCEPT ![o] = <<[gate |-> g,
                                            decision |-> "rejected"]>>]
    /\ UNCHANGED <<session, partition, scheduler, audit, landed, policyAudit,
                   faults>>

RejectWorkflow(o, g) ==
    /\ job.status = "awaiting_approval" /\ job.gate = g
    /\ Decide(o, "approval", "rejected", "rejected")

SubmitInput(o, g) ==
    /\ job.status = "awaiting_input" /\ job.gate = g
    /\ Decide(o, "input", "answered", "answered")

\* The deadline of the gate the job is parked at passes.
GateTimesOut ==
    /\ job.status \in {"awaiting_approval", "awaiting_input"} /\ ~job.timed
    /\ job' = [job EXCEPT !.timed = TRUE]
    /\ UNCHANGED <<session, partition, scheduler, pending, audit, decided,
                   landed, policyAudit,
                   faults>>

\* Both sweeps run in every scheduler that takes itself for the owner.
SweepExpiredApprovals(k) ==
    /\ scheduler[k] /\ job.status = "awaiting_approval" /\ job.timed
    /\ Decide(<<k, "approval">>, "approval", "rejected", "timed_out")

\* Mutation: the sweep of inputs looks for the status of the other one.
SweepInputsAsApprovals(k) ==
    /\ scheduler[k] /\ job.status = "awaiting_approval" /\ job.timed
    /\ Decide(<<k, "input">>, "approval", "input_timed_out", "timed_out")

SweepExpiredInputs(k) ==
    /\ scheduler[k] /\ job.status = "awaiting_input" /\ job.timed
    /\ Decide(<<k, "input">>, "input", "input_timed_out", "timed_out")

AppendAudit(a) ==
    /\ pending[a] # <<>>
    /\ audit' = Append(audit, pending[a][1])
    /\ pending' = [pending EXCEPT ![a] = <<>>]
    /\ UNCHANGED <<job, session, partition, scheduler, decided, landed, policyAudit,
                   faults>>

\* The append fails or its process dies: the decision stands without it.
AuditLost(a) ==
    /\ pending[a] # <<>> /\ faults < MaxFaults
    /\ pending' = [pending EXCEPT ![a] = <<>>]
    /\ faults' = faults + 1
    /\ UNCHANGED <<job, session, partition, scheduler, audit, decided, landed,
                   policyAudit>>

-----------------------------------------------------------------------------
(* The scheduler: the partition's lease, and what its tick does to the job. *)

\* AcquireAvailable and Renew take a partition nobody holds a live lease on.
Available == partition.owner = NoOwner \/ partition.expired

AcquireAvailable(k) ==
    /\ ~scheduler[k] /\ Available
    /\ partition' = [owner |-> k, expired |-> FALSE]
    /\ scheduler' = [scheduler EXCEPT ![k] = TRUE]
    /\ UNCHANGED <<job, session, pending, audit, decided, landed, policyAudit,
                   faults>>

\* A lease that ran out is renewed all the same unless another has taken it;
\* if it is not renewed the scheduler stops its sweeps and seeks again.
Renew(k) ==
    /\ scheduler[k]
    /\ IF partition.owner = k \/ Available
       THEN /\ partition' = [owner |-> k, expired |-> FALSE]
            /\ UNCHANGED scheduler
       ELSE /\ scheduler' = [scheduler EXCEPT ![k] = FALSE]
            /\ UNCHANGED partition
    /\ UNCHANGED <<job, session, pending, audit, decided, landed, policyAudit,
                   faults>>

PartitionLeaseExpires ==
    /\ partition.owner # NoOwner /\ ~partition.expired
    /\ partition' = [partition EXCEPT !.expired = TRUE]
    /\ Lapses(scheduler[partition.owner])
    /\ faults' <= MaxFaults
    /\ UNCHANGED <<job, session, scheduler, pending, audit, decided, landed,
                   policyAudit>>

\* The process ends.  On a shutdown runPartition calls Release with a context
\* that is already cancelled, so the row keeps its owner until the lease ends.
SchedulerStops(k) ==
    /\ scheduler[k] /\ faults < MaxFaults
    /\ scheduler' = [scheduler EXCEPT ![k] = FALSE]
    /\ pending' = [pending EXCEPT ![<<k, "approval">>] = <<>>,
                                  ![<<k, "input">>] = <<>>]
    /\ faults' = faults + 1
    /\ UNCHANGED <<job, session, partition, audit, decided, landed,
                   policyAudit>>

MarkOrphanedJobsFailed(k) ==
    /\ scheduler[k]
    /\ job.status \in {"dispatched", "running"}
    /\ job.owner = NoOwner \/ job.expired
    /\ job' = [job EXCEPT !.status = "failed"]
    /\ UNCHANGED <<session, partition, scheduler, pending, audit, decided,
                   landed, policyAudit,
                   faults>>

\* Mutation: a resumable run is handed on however often it failed.
RequeueAlways(k) ==
    /\ scheduler[k]
    /\ job.status = "failed"
    /\ job' = [job EXCEPT !.status = "pending", !.owner = NoOwner,
                          !.expired = FALSE, !.attempts = @ + 1]
    /\ UNCHANGED <<session, partition, scheduler, pending, audit, decided,
                   landed, policyAudit, faults>>

\* A resumable run is handed to another worker with what it has on its row.
RequeueJob(k) ==
    /\ scheduler[k]
    /\ job.status = "failed" /\ job.attempts < MaxAttempts
    /\ job' = [job EXCEPT !.status = "pending", !.owner = NoOwner,
                          !.expired = FALSE, !.attempts = @ + 1]
    /\ UNCHANGED <<session, partition, scheduler, pending, audit, decided,
                   landed, policyAudit,
                   faults>>

-----------------------------------------------------------------------------
(* A suspension that stops runs (suspensionresolver.go, workflow.go).      *)

\* The flag stays on the row, also over a requeue, unless it is taken back.
MarkAbandonRequested ==
    /\ ~job.abandon /\ job.status \notin {"completed", "failed"}
    /\ job' = [job EXCEPT !.abandon = TRUE]
    /\ UNCHANGED <<session, partition, scheduler, pending, audit, decided,
                   landed, policyAudit, faults>>

\* MarkSuspensionRequested by a suspension that does not stop runs.
TakeBackAbandon ==
    /\ job.abandon /\ faults < MaxFaults
    /\ job' = [job EXCEPT !.abandon = FALSE]
    /\ faults' = faults + 1
    /\ UNCHANGED <<session, partition, scheduler, pending, audit, decided,
                   landed, policyAudit>>

\* A flagged run nobody holds ends where it is; its metrics stay as they are.
SweepAbandonedJobs(k) ==
    /\ scheduler[k] /\ job.abandon
    /\ job.status \notin {"completed", "failed", "dispatched", "running"}
    /\ job.owner = NoOwner \/ job.expired
    /\ job' = [job EXCEPT !.status = "completed", !.cut = TRUE]
    /\ UNCHANGED <<session, partition, scheduler, pending, audit, decided,
                   landed, policyAudit, faults>>

-----------------------------------------------------------------------------
SessionStep(s) ==
    \/ AcquireJob(s)
    \/ DispatchJob(s)
    \/ SendFails(s)
    \/ AckLaunch(s)
    \/ RecordInterim(s)
    \/ \E acted \in PolicyActions :
         \/ AdvanceJob(s, acted)
         \/ \E kind \in Kinds : \E b \in Branches[kind] :
              ParkForGate(s, kind, b[1], b[2], acted)
         \/ CompleteJob(s, acted)
    \/ FailJob(s)
    \/ \E suspended \in BOOLEAN : StopOperation(s, suspended)
    \/ CompleteBranch(s)
    \/ SuspendAcquired(s)
    \/ ReleaseJob(s)
    \/ StreamEnds(s)
    \/ SessionDies(s)

SchedulerStep(k) ==
    \/ AcquireAvailable(k)
    \/ Renew(k)
    \/ SweepExpiredApprovals(k)
    \/ SweepExpiredInputs(k)
    \/ MarkOrphanedJobsFailed(k)
    \/ RequeueJob(k)
    \/ SweepAbandonedJobs(k)
    \/ SchedulerStops(k)

Next ==
    \/ \E s \in Sessions : SessionStep(s)
    \/ \E k \in Schedulers : SchedulerStep(k)
    \/ \E o \in Operators, g \in Gate :
         ApproveWorkflow(o, g) \/ RejectWorkflow(o, g) \/ SubmitInput(o, g)
    \/ \E a \in Actors : AppendAudit(a) \/ AuditLost(a)
    \/ MarkAbandonRequested \/ TakeBackAbandon
    \/ GateTimesOut \/ JobLeaseExpires \/ PartitionLeaseExpires

Spec == Init /\ [][Next]_vars

\* What the code's loops and the clock guarantee: a scheduler without the
\* partition asks for it again, one that holds it renews and sweeps at every
\* tick, an audit append returns, and a lease nobody renews runs out.  Nothing
\* is assumed of workers, of operators or of the schedulers' survival.
Fairness ==
    /\ \A k \in Schedulers :
         /\ WF_vars(AcquireAvailable(k))
         /\ WF_vars(Renew(k))
         /\ WF_vars(SweepExpiredApprovals(k))
         /\ WF_vars(SweepExpiredInputs(k))
    /\ \A a \in Actors : WF_vars(AppendAudit(a))
    /\ WF_vars(PartitionLeaseExpires /\ UNCHANGED faults)

FairSpec == Spec /\ Fairness

-----------------------------------------------------------------------------
\* The gates the row's metrics have to account for: the decided ones, but for
\* one still on the row that no worker has taken up, or that a suspension
\* ended the run at.
Counted ==
    {g \in 1 .. Len(decided) :
        g # job.gate \/ (job.status = "completed" /\ ~job.cut)}

Rejected(g) == decided[g].decision \in {"rejected", "timed_out"}

\* Type correctness of the rows and of the sessions' positions.
GatesTypeOK ==
    /\ job.status \in Acquirable \cup {"dispatched", "running", "completed",
                                       "failed", "awaiting_approval",
                                       "awaiting_input"}
    /\ job.owner \in Sessions \cup {NoOwner}
    /\ job.gate \in 0 .. MaxGates
    /\ job.attempts \in 0 .. MaxAttempts
    /\ job.spend \in 0 .. MaxSpend * MaxDispatches
    /\ \A s \in Sessions :
         session[s].pc \in {"idle", "acquired", "waiting", "busy", "gone"}
    /\ partition.owner \in Schedulers \cup {NoOwner}

\* approval_rejections counts every approval gate the run has passed exactly
\* once, and is nil while there was none: a gate resolved in memory is lost
\* with its worker and counted again by the next one, a gate whose dispatch
\* landed is not, be it that the launch failed, the worker died or the run was
\* requeued (rpcworker.go recordGateOutcome, DispatchJob).  A gate that was
\* decided when a suspension stopped the run is not counted at all: the
\* session (rpcworker.go:606) and the sweep (job.go:440) end the run with the
\* metrics it had before.
GatesCountedOnce ==
    LET approvals == {g \in Counted : decided[g].kind = "approval"} IN
    job.rejections = IF approvals = {} THEN -1
                     ELSE Cardinality({g \in approvals : Rejected(g)})

\* A run that is to go on knows with what: its operation comes from the branch
\* that the last gate's decision selects, however often it was requeued since
\* (rpcworker.go resolveBranch, DispatchJob; parking emptied the row).
RunFollowsDecision ==
    job.status \in {"pending", "awaiting_next", "dispatched", "running",
                    "failed"} =>
        /\ job.op # NoOperation
        /\ job.op.gate = Len(decided)
        /\ decided # <<>> =>
             job.op.way = IF Rejected(Len(decided)) THEN "no" ELSE "yes"

\* The audit log has at most one decision per gate and it is the one the run
\* was resumed with, whoever raced: operators with each other, with the
\* timeout, or two schedulers that both take themselves for the owner
\* (job.go ResolveApproval, SweepExpiredApprovals).
AuditTellsDecision ==
    /\ \A i \in DOMAIN audit :
         audit[i].decision = decided[audit[i].gate].decision
    /\ \A i, j \in DOMAIN audit : audit[i].gate = audit[j].gate => i = j

\* The spend on the row is the sum of what each dispatched operation last
\* reported in a write that landed: running totals replace each other, and
\* nothing is added twice or lost across operations, requeues and deposed
\* workers (rpcworker.go agentMetrics, recordInterim).
SpendIsWhatLanded ==
    job.spend = FoldFunction(LAMBDA x, y : x + y, 0, landed)

\* A policy action is in the audit log only if the metrics it came with are on
\* the row (the comment at rpcworker.go:335 on the loop over
\* AgentPolicyActions).  Known not to hold: the loop also runs when the write
\* matched no row, because the session no longer owns the job.
PolicyActionPersisted == \A e \in policyAudit : e.landed

\* A gate past its deadline does not stay open: some scheduler holds the
\* partition or comes to hold it and sweeps, unless the run is stopped first
\* (scheduler.go Run, approvaltimeoutresolver.go, inputtimeoutresolver.go,
\* abandonedjobresolver.go).
ExpiredGateIsDecided ==
    \A g \in Gate :
        (job.gate = g /\ job.timed /\ Len(decided) < g) ~>
            (Len(decided) >= g \/ job.status = "completed")
=============================================================================
