----------------------------- MODULE GateProofs -----------------------------
(***************************************************************************)
(* Proofs about the gates of a run (module Gates), for any numbers of      *)
(* sessions, schedulers, operators, gates, dispatches and faults: the run  *)
(* goes on with the branch its last gate was decided for, every gate is    *)
(* counted once, the audit log tells one decision per gate, and the spend  *)
(* moves with the reports of the operation dispatched last.                *)
(***************************************************************************)
EXTENDS Gates, FiniteSetTheorems, TLAPS

-----------------------------------------------------------------------------
(* Types.                                                                  *)

Open == {"awaiting_approval", "awaiting_input"}
Resolved == {"approved", "rejected", "answered", "input_timed_out"}
Going == {"pending", "awaiting_next", "dispatched", "running", "failed"}
Statuses == Open \cup Resolved \cup Going \cup {"completed"}

Operations == [gate : 0 .. MaxGates, way : {"start", "none", "yes", "no"}]

JobRow ==
    [status : Statuses, owner : Sessions \cup {NoOwner}, expired : BOOLEAN,
     attempts : 0 .. MaxAttempts, op : Operations, gate : 0 .. MaxGates,
     timed : BOOLEAN, yes : Operations, no : Operations, rejections : Int,
     spend : Nat, abandon : BOOLEAN, cut : BOOLEAN]

Copy ==
    [status : Statuses \cup {""}, op : Operations, yes : Operations,
     no : Operations, rejections : Int, spend : Nat, abandon : BOOLEAN]

SessionRow ==
    [pc : {"idle", "acquired", "waiting", "busy", "gone"}, copy : Copy,
     thisOp : 0 .. MaxSpend, dispatch : Nat, release : BOOLEAN]

Decisions == {"approved", "rejected", "answered", "timed_out"}
Decision == [kind : Kinds, decision : Decisions]
Event == [gate : Int, decision : Decisions]

Types ==
    /\ job \in JobRow
    /\ session \in [Sessions -> SessionRow]
    /\ decided \in Seq(Decision)
    /\ landed \in Seq(Nat)
    /\ pending \in [Actors -> Seq(Event)]
    /\ audit \in Seq(Event)
    /\ partition.owner \in Schedulers \cup {NoOwner}

\* A session's row and its copy of the job have the types of their fields.
LEMMA Rows ==
    ASSUME Types, NEW s \in Sessions
    PROVE  session[s] \in SessionRow /\ session[s].copy \in Copy
  BY DEF Types, SessionRow

\* The values a session or a row starts from are of these types.
LEMMA Constants ==
    /\ NoOperation \in Operations /\ StartOperation \in Operations
    /\ NoCopy \in Copy
    /\ \A pc \in {"idle", "acquired", "waiting", "busy", "gone"}, told \in BOOLEAN :
         SessionAt(pc, told) \in SessionRow
  <1>1. NoOperation \in Operations /\ StartOperation \in Operations
    BY GatesAssumption DEF NoOperation, StartOperation, Operation, Operations
  <1>2. NoCopy \in Copy
    BY <1>1 DEF NoCopy, Copy
  <1> QED BY <1>1, <1>2, GatesAssumption DEF SessionAt, SessionRow

\* What a gate's status makes of the rejections and of the operation.
LEMMA Outcomes ==
    ASSUME NEW r \in Int, NEW t
    PROVE  /\ t = "approved" => GateOutcome(r, t) = IF r = -1 THEN 0 ELSE r
           /\ t = "rejected" => GateOutcome(r, t) = (IF r = -1 THEN 0 ELSE r) + 1
           /\ t \notin {"approved", "rejected"} => GateOutcome(r, t) = r
  <1>1. CASE t = "approved"
    BY <1>1 DEF GateOutcome
  <1>2. CASE t = "rejected"
    BY <1>2 DEF GateOutcome
  <1>3. CASE t \notin {"approved", "rejected"}
    BY <1>3 DEF GateOutcome
  <1> QED BY <1>1, <1>2, <1>3

\* Which of a copy's operations its status selects (resolveBranch,
\* resolveInputBranch).
LEMMA Branching ==
    ASSUME NEW c
    PROVE  /\ c.status \in {"approved", "answered"} => BranchOf(c) = c.yes
           /\ c.status \in {"rejected", "input_timed_out"} => BranchOf(c) = c.no
           /\ c.status \notin Resolved => BranchOf(c) = c.op
  <1>1. CASE c.status \in {"approved", "answered"}
    BY <1>1 DEF BranchOf, Resolved
  <1>2. CASE c.status \in {"rejected", "input_timed_out"}
    BY <1>2 DEF BranchOf, Resolved
  <1>3. CASE c.status \notin Resolved
    BY <1>3 DEF BranchOf, Resolved
  <1> QED BY <1>1, <1>2, <1>3 DEF Resolved

\* What a session makes of the copy it takes up.
LEMMA ResumedType ==
    ASSUME NEW c \in Copy
    PROVE  /\ Resumed(c) \in Copy
           /\ Resumed(c).op = BranchOf(c) /\ Resumed(c).spend = c.spend
           /\ Resumed(c).rejections = GateOutcome(c.rejections, c.status)
  <1>1. GateOutcome(c.rejections, c.status) \in Int
    <2>1. c.rejections \in Int
      BY Zenon DEF Copy
    <2> QED BY <2>1, Outcomes
  <1>2. BranchOf(c) \in Operations
    <2>1. c.op \in Operations /\ c.yes \in Operations /\ c.no \in Operations
      BY Zenon DEF Copy
    <2> QED BY <2>1, Branching DEF Resolved
  <1> QED BY <1>1, <1>2, Constants, Zenon DEF Resumed, Copy

\* The rows and the sessions start well typed.
LEMMA InitTypes == ASSUME Init PROVE Types
  <1>1. job \in JobRow
    BY Constants, GatesAssumption DEF Init, JobRow, Statuses, Going
  <1>2. session \in [Sessions -> SessionRow]
    BY Constants, GatesAssumption DEF Init, SessionRow
  <1>3. pending \in [Actors -> Seq(Event)]
    BY DEF Init
  <1>4. partition.owner = NoOwner
    BY DEF Init
  <1>5. decided \in Seq(Decision) /\ landed \in Seq(Nat) /\ audit \in Seq(Event)
    BY DEF Init
  <1> QED BY <1>1, <1>2, <1>3, <1>4, <1>5 DEF Types

\* The writes that end an operation, with the row j they make of the job.
EndedJob(j, spend, rejections) ==
    [j EXCEPT !.spend = spend, !.rejections = rejections]

EndedBy(s, j) ==
    /\ session[s].pc = "busy"
    /\ \E spent \in session[s].thisOp .. MaxSpend :
         IF Owns(s)
         THEN /\ job' = EndedJob(j, AgentMetrics(s, spent), session[s].copy.rejections)
              /\ landed' = [landed EXCEPT ![session[s].dispatch] = spent]
         ELSE UNCHANGED <<job, landed>>
    /\ session' = [session EXCEPT ![s] = SessionAt("idle", TRUE)]
    /\ UNCHANGED <<partition, scheduler, pending, audit, decided, faults>>

ParkedJob(kind, yes, no) ==
    [job EXCEPT !.status = Awaiting(kind), !.gate = NextGate,
                !.timed = FALSE, !.op = NoOperation,
                !.yes = IF yes THEN Operation(NextGate, "yes") ELSE NoOperation,
                !.no = IF no THEN Operation(NextGate, "no") ELSE NoOperation]

StoppedJob(suspended) == [job EXCEPT !.status = "completed", !.cut = suspended]

\* The ways an operation ends are one write, of different rows
\* (completeOperation, failOperation, softFailOperation, suspendOperation).
LEMMA Endings ==
    ASSUME NEW s \in Sessions, NEW acted
    PROVE  /\ AdvanceJob(s, acted) => EndedBy(s, [job EXCEPT !.status = "awaiting_next"])
           /\ CompleteJob(s, acted) => EndedBy(s, StoppedJob(FALSE))
           /\ \A suspended :
                StopOperation(s, suspended) => EndedBy(s, StoppedJob(suspended))
           /\ FailJob(s) => EndedBy(s, [job EXCEPT !.status = "failed"])
           /\ \A kind, yes, no : ParkForGate(s, kind, yes, no, acted) =>
                NextGate \in Gate /\ EndedBy(s, ParkedJob(kind, yes, no))
  <1>1. AdvanceJob(s, acted) => EndedBy(s, [job EXCEPT !.status = "awaiting_next"])
    BY Zenon DEF AdvanceJob, EndOperation, EndedBy, EndedJob
  <1>2. /\ CompleteJob(s, acted) => EndedBy(s, StoppedJob(FALSE))
        /\ \A suspended : StopOperation(s, suspended) => EndedBy(s, StoppedJob(suspended))
    BY Zenon DEF CompleteJob, StopOperation, EndOperation, EndedBy, EndedJob, StoppedJob
  <1>3. FailJob(s) => EndedBy(s, [job EXCEPT !.status = "failed"])
    BY Zenon DEF FailJob, EndOperation, EndedBy, EndedJob
  <1>4. ASSUME NEW kind, NEW yes, NEW no, ParkForGate(s, kind, yes, no, acted)
        PROVE  NextGate \in Gate /\ EndedBy(s, ParkedJob(kind, yes, no))
    BY <1>4, Zenon DEF ParkForGate, EndOperation, EndedBy, EndedJob, ParkedJob
  <1> QED BY <1>1, <1>2, <1>3, <1>4, Zenon

\* What the end of a run writes on the row (CompleteJob, StopOperation).
LEMMA StoppedFields ==
    ASSUME job \in JobRow, NEW suspended \in BOOLEAN
    PROVE  /\ StoppedJob(suspended) \in JobRow
           /\ StoppedJob(suspended).status = "completed"
           /\ StoppedJob(suspended).owner = job.owner
           /\ StoppedJob(suspended).op = job.op /\ StoppedJob(suspended).gate = job.gate
  BY DEF StoppedJob, JobRow, Statuses

\* A run that ends as it was acquired, at a branch without an operation or for a
\* suspension.
LEMMA AcquiredEnds ==
    ASSUME Types, NEW s \in Sessions, CompleteBranch(s) \/ SuspendAcquired(s)
    PROVE  /\ session[s].pc = "acquired"
           /\ \E r \in Int, suspended \in BOOLEAN : EndAcquired(s, r, suspended)
  <1>1. /\ Resumed(session[s].copy).rejections \in Int
        /\ session[s].copy.rejections \in Int
    BY Rows, ResumedType, Zenon DEF Copy
  <1> QED BY <1>1, Zenon DEF CompleteBranch, SuspendAcquired

\* Replacing a report leaves a sequence of reports.
LEMMA LandedType ==
    ASSUME NEW l \in Seq(Nat), NEW n \in Nat, NEW i
    PROVE  [l EXCEPT ![i] = n] \in Seq(Nat)
  <1>1. CASE i \in 1 .. Len(l)
    BY <1>1
  <1>2. CASE i \notin DOMAIN l
    <2>1. l = [k \in DOMAIN l |-> l[k]]
      OBVIOUS
    <2>2. [l EXCEPT ![i] = n] = [k \in DOMAIN l |-> l[k]]
      BY <1>2, Zenon
    <2> QED BY <2>1, <2>2, Zenon
  <1> QED BY <1>1, <1>2

\* What a session persists as the spend is a natural number (agentMetrics).
LEMMA SessionSpend ==
    ASSUME Types, NEW s \in Sessions
    PROVE  /\ session[s].copy.rejections \in Int /\ session[s].copy.spend \in Nat
           /\ session[s].thisOp \in Nat /\ AgentMetrics(s, session[s].thisOp) \in Nat
           /\ \A spent \in session[s].thisOp .. MaxSpend :
                spent \in Nat /\ AgentMetrics(s, spent) \in Nat
  <1>1. session[s].thisOp \in 0 .. MaxSpend
    BY Rows, Zenon DEF SessionRow
  <1>2. session[s].copy.spend \in Nat /\ session[s].copy.rejections \in Int
    BY Rows, Zenon DEF Copy
  <1> QED BY <1>1, <1>2, GatesAssumption DEF AgentMetrics

\* The write that ends an operation leaves the row and the reports well typed.
LEMMA EndTypes ==
    ASSUME Types, NEW s \in Sessions, NEW spent \in session[s].thisOp .. MaxSpend,
           NEW j \in JobRow
    PROVE  /\ EndedJob(j, AgentMetrics(s, spent), session[s].copy.rejections) \in JobRow
           /\ [landed EXCEPT ![session[s].dispatch] = spent] \in Seq(Nat)
  <1>1. [landed EXCEPT ![session[s].dispatch] = spent] \in Seq(Nat)
    BY SessionSpend, LandedType, Zenon DEF Types
  <1> QED BY <1>1, SessionSpend, Zenon DEF EndedJob, JobRow

\* A dispatch, with what the session resolved its copy to.
DispatchedAs(s, new) ==
    /\ new.op = BranchOf(session[s].copy) /\ new.op # NoOperation
    /\ new.rejections = GateOutcome(session[s].copy.rejections, session[s].copy.status)
    /\ new.spend = AgentMetrics(s, session[s].thisOp)
    /\ Len(landed) < MaxDispatches
    /\ job' = Dispatched(new) /\ landed' = Append(landed, 0)
    /\ session' = [session EXCEPT ![s] = [@ EXCEPT
                     !.pc = "waiting", !.copy = new, !.dispatch = Len(landed) + 1]]

\* A session dispatches the job it still owns, or finds that it does not.
LEMMA Dispatches ==
    ASSUME Types, NEW s \in Sessions, DispatchJob(s)
    PROVE  /\ session[s].pc = "acquired"
           /\ \/ Owns(s) /\ \E new \in Copy : DispatchedAs(s, new)
              \/ /\ session' = [session EXCEPT ![s] = SessionAt("idle", TRUE)]
                 /\ UNCHANGED <<job, landed>>
           /\ UNCHANGED <<partition, scheduler, pending, audit, decided>>
  <1> DEFINE new == [Resumed(session[s].copy) EXCEPT
                       !.spend = AgentMetrics(s, session[s].thisOp)]
  <1>1. new \in Copy /\ new.spend = AgentMetrics(s, session[s].thisOp)
    <2>1. AgentMetrics(s, session[s].thisOp) \in Nat /\ Resumed(session[s].copy) \in Copy
      BY SessionSpend, Rows, ResumedType
    <2> QED BY <2>1, Zenon DEF Copy
  <1>2. /\ new.op = BranchOf(session[s].copy)
        /\ new.rejections = GateOutcome(session[s].copy.rejections, session[s].copy.status)
    <2>1. \A x : \A c \in Copy : /\ [c EXCEPT !.spend = x].op = c.op
                                 /\ [c EXCEPT !.spend = x].rejections = c.rejections
      BY Zenon DEF Copy
    <2>2. /\ Resumed(session[s].copy) \in Copy
          /\ Resumed(session[s].copy).op = BranchOf(session[s].copy)
          /\ Resumed(session[s].copy).rejections =
               GateOutcome(session[s].copy.rejections, session[s].copy.status)
      BY Rows, ResumedType
    <2> QED BY <2>1, <2>2, Zenon
  <1>3. CASE Owns(s) /\ job.status # "dispatched"
    <2>1. DispatchedAs(s, new)
      <3> HIDE DEF new
      <3>1. /\ job' = Dispatched(new) /\ landed' = Append(landed, 0)
            /\ session' = [session EXCEPT ![s] = [@ EXCEPT
                             !.pc = "waiting", !.copy = new, !.dispatch = Len(landed) + 1]]
            /\ new.op # NoOperation /\ Len(landed) < MaxDispatches
        BY <1>3 DEF DispatchJob, new
      <3> QED BY <1>1, <1>2, <3>1, Zenon DEF DispatchedAs
    <2> HIDE DEF new
    <2> QED BY <1>1, <1>3, <2>1, Zenon DEF DispatchJob
  <1>4. CASE ~(Owns(s) /\ job.status # "dispatched")
    BY <1>4, Zenon DEF DispatchJob
  <1> QED BY <1>3, <1>4, Zenon

\* A session's steps keep the types.
LEMMA SessionTypes ==
    ASSUME Types, NEW s \in Sessions, SessionStep(s) PROVE Types'
  <1>1. /\ job \in JobRow /\ session \in [Sessions -> SessionRow]
        /\ session[s] \in SessionRow /\ session[s].copy \in Copy
        /\ decided \in Seq(Decision) /\ landed \in Seq(Nat)
    BY Rows DEF Types
  <1>2. CASE AcquireJob(s)
    <2>1. CopyOf(job) \in Copy
      BY <1>1, Zenon DEF CopyOf, JobRow, Copy
    <2>2. job' \in JobRow
      BY <1>1, <1>2, Zenon DEF AcquireJob, JobRow
    <2>3. session' \in [Sessions -> SessionRow]
      <3>1. 0 \in 0 .. MaxSpend
        BY GatesAssumption
      <3> QED BY <1>1, <1>2, <2>1, <3>1, Zenon DEF AcquireJob, SessionRow
    <2> QED BY <1>2, <2>2, <2>3 DEF AcquireJob, Types
  <1>3. CASE DispatchJob(s)
    <2>1. ASSUME NEW new \in Copy, DispatchedAs(s, new) PROVE Types'
      <3>1. job' \in JobRow
        <4>1. 0 \in 0 .. MaxGates
          BY GatesAssumption
        <4> QED BY <1>1, <2>1, <4>1, Constants, Zenon
                DEF DispatchedAs, Dispatched, JobRow, Copy, Statuses, Going
      <3>2. session' \in [Sessions -> SessionRow]
        <4>1. Len(landed) + 1 \in Nat
          BY <1>1
        <4> QED BY <1>1, <2>1, <4>1, Zenon DEF DispatchedAs, SessionRow
      <3>3. landed' \in Seq(Nat)
        BY <1>1, <2>1 DEF DispatchedAs
      <3> QED BY <1>3, <3>1, <3>2, <3>3, Dispatches, Zenon DEF Types
    <2>2. CASE /\ session' = [session EXCEPT ![s] = SessionAt("idle", TRUE)]
               /\ UNCHANGED <<job, landed>>
      BY <1>1, <1>3, <2>2, Constants, Dispatches, Zenon DEF Types
    <2> QED BY <1>3, <2>1, <2>2, Dispatches, Zenon
  <1>4. CASE SendFails(s) \/ AckLaunch(s)
    <2>1. job' \in JobRow
      <3>1. \A t \in Statuses : [job EXCEPT !.status = t] \in JobRow
        BY <1>1, Zenon DEF JobRow
      <3> QED BY <1>1, <1>4, <3>1, Zenon DEF SendFails, AckLaunch, Statuses, Going
    <2>2. session' \in [Sessions -> SessionRow]
      <3>1. CASE session' = [session EXCEPT ![s] = SessionAt("gone", TRUE)]
        BY <1>1, <3>1, Constants, Zenon
      <3>2. CASE session' = [session EXCEPT ![s].pc = "busy"]
        BY <1>1, <3>2, Zenon DEF SessionRow
      <3> QED BY <1>4, <3>1, <3>2, Zenon DEF SendFails, AckLaunch
    <2> QED BY <1>4, <2>1, <2>2, Zenon DEF SendFails, AckLaunch, Types
  <1>5. CASE RecordInterim(s)
    <2> DEFINE spent == session[s].thisOp + 1
    <2>1. spent \in 0 .. MaxSpend /\ spent \in session[s].thisOp .. MaxSpend
      BY <1>1, <1>5, GatesAssumption DEF RecordInterim, SessionRow
    <2>2. CASE Owns(s)
      <3>1. job' \in JobRow
        <4>1. AgentMetrics(s, spent) \in Nat
          BY <2>1, SessionSpend
        <4>2. job' = [job EXCEPT !.spend = AgentMetrics(s, spent)]
          BY <1>5, <2>2 DEF RecordInterim
        <4> QED BY <1>1, <4>1, <4>2, Zenon DEF JobRow
      <3>2. landed' \in Seq(Nat)
        BY <1>1, <1>5, <2>1, <2>2, EndTypes DEF RecordInterim
      <3>3. session' \in [Sessions -> SessionRow]
        <4>1. session' = [session EXCEPT ![s].thisOp = spent]
          BY <1>5, <2>2 DEF RecordInterim
        <4> QED BY <1>1, <2>1, <4>1, Zenon DEF SessionRow
      <3> QED BY <1>5, <3>1, <3>2, <3>3 DEF RecordInterim, Types
    <2>3. CASE ~Owns(s)
      BY <1>1, <1>5, <2>3, Constants, Zenon DEF RecordInterim, Types
    <2> QED BY <2>2, <2>3
  <1>6. ASSUME NEW j \in JobRow, EndedBy(s, j) PROVE Types'
    <2>1. CASE Owns(s)
      <3>1. PICK spent \in session[s].thisOp .. MaxSpend :
              /\ job' = EndedJob(j, AgentMetrics(s, spent), session[s].copy.rejections)
              /\ landed' = [landed EXCEPT ![session[s].dispatch] = spent]
        BY <1>6, <2>1 DEF EndedBy
      <3>2. job' \in JobRow /\ landed' \in Seq(Nat)
        BY <1>6, <3>1, EndTypes
      <3> QED BY <1>1, <1>6, <3>2, Constants, Zenon DEF EndedBy, Types
    <2>2. CASE ~Owns(s)
      BY <1>1, <1>6, <2>2, Constants, Zenon DEF EndedBy, Types
    <2> QED BY <2>1, <2>2
  <1>7. ASSUME NEW acted, NEW suspended \in BOOLEAN,
               \/ AdvanceJob(s, acted) \/ CompleteJob(s, acted) \/ FailJob(s)
               \/ StopOperation(s, suspended)
        PROVE  Types'
    <2>1. \A t \in Statuses : [job EXCEPT !.status = t] \in JobRow
      BY <1>1, Zenon DEF JobRow
    <2> QED BY <1>1, <1>6, <1>7, <2>1, Endings, StoppedFields DEF Statuses, Going
  <1>8. ASSUME NEW kind \in Kinds, NEW yes, NEW no, NEW acted,
               ParkForGate(s, kind, yes, no, acted)
        PROVE  Types'
    <2>1. NextGate \in 0 .. MaxGates
      <3>1. NextGate \in Gate
        BY <1>8, Endings, Zenon
      <3> QED BY <3>1 DEF Gate
    <2>2. /\ Operation(NextGate, "yes") \in Operations
          /\ Operation(NextGate, "no") \in Operations
      BY <2>1 DEF Operation, Operations
    <2>3. Awaiting(kind) \in Statuses
      BY DEF Awaiting, Statuses, Open
    <2>4. ParkedJob(kind, yes, no) \in JobRow
      BY <1>1, <2>1, <2>2, <2>3, Constants, Zenon DEF ParkedJob, JobRow
    <2> QED BY <1>6, <1>8, <2>4, Endings
  <1>9. CASE CompleteBranch(s) \/ SuspendAcquired(s)
    <2>1. PICK r \in Int, suspended \in BOOLEAN : EndAcquired(s, r, suspended)
      BY <1>9, AcquiredEnds, Zenon
    <2>2. AgentMetrics(s, session[s].thisOp) \in Nat
      BY SessionSpend, Zenon
    <2>3. job' \in JobRow
      BY <1>1, <2>1, <2>2, Zenon DEF EndAcquired, JobRow, Statuses
    <2> QED BY <1>1, <2>1, <2>3, Constants, Zenon DEF EndAcquired, Types
  <1>10. CASE ReleaseJob(s)
    <2>1. job' \in JobRow
      BY <1>1, <1>10, Zenon DEF ReleaseJob, JobRow
    <2>2. session' \in [Sessions -> SessionRow]
      <3>1. Reconnected(session[s].pc) \in {"idle", "acquired", "waiting", "busy", "gone"}
        BY <1>1 DEF Reconnected, SessionRow
      <3> QED BY <1>1, <1>10, <3>1, Zenon DEF ReleaseJob, SessionRow
    <2> QED BY <1>10, <2>1, <2>2 DEF ReleaseJob, Types
  <1>11. CASE StreamEnds(s) \/ SessionDies(s)
    BY <1>1, <1>11, Constants, Zenon DEF StreamEnds, SessionDies, Types
  <1> QED BY <1>2, <1>3, <1>4, <1>5, <1>7, <1>8, <1>9, <1>10, <1>11 DEF SessionStep

\* So do the steps of schedulers, operators, audit appends and the clock.
LEMMA ActorTypes ==
    ASSUME Types,
           \/ \E k \in Schedulers : SchedulerStep(k)
           \/ \E o \in Operators, g \in Gate :
                ApproveWorkflow(o, g) \/ RejectWorkflow(o, g) \/ SubmitInput(o, g)
           \/ \E a \in Actors : AppendAudit(a) \/ AuditLost(a)
           \/ MarkAbandonRequested \/ TakeBackAbandon
           \/ GateTimesOut \/ JobLeaseExpires \/ PartitionLeaseExpires
    PROVE  Types'
  <1>1. /\ job \in JobRow /\ decided \in Seq(Decision) /\ audit \in Seq(Event)
        /\ pending \in [Actors -> Seq(Event)]
    BY DEF Types
  <1>2. ASSUME NEW a \in Actors, NEW kind \in Kinds, NEW t \in Statuses,
               NEW d \in Decisions, Decide(a, kind, t, d)
        PROVE  Types'
    <2>1. job' \in JobRow
      BY <1>1, <1>2, Zenon DEF Decide, JobRow
    <2>2. decided' \in Seq(Decision)
      BY <1>1, <1>2 DEF Decide, Decision
    <2>3. [gate |-> job.gate, decision |-> d] \in Event
      BY <1>1, GatesAssumption DEF JobRow, Event
    <2>4. pending' \in [Actors -> Seq(Event)]
      BY <1>1, <1>2, <2>3 DEF Decide
    <2> QED BY <1>2, <2>1, <2>2, <2>4 DEF Decide, Types
  <1>3. ASSUME NEW k \in Schedulers, SchedulerStep(k) PROVE Types'
    <2>1. \A kind \in Kinds : <<k, kind>> \in Actors
      BY DEF Actors
    <2>2. CASE SweepExpiredApprovals(k) \/ SweepExpiredInputs(k)
      BY <1>2, <2>1, <2>2
      DEF SweepExpiredApprovals, SweepExpiredInputs, Kinds, Statuses, Resolved, Decisions
    <2>3. CASE AcquireAvailable(k) \/ Renew(k)
      BY <2>3 DEF AcquireAvailable, Renew, Types
    <2>4. CASE MarkOrphanedJobsFailed(k)
      <3>1. job' \in JobRow
        BY <1>1, <2>4, Zenon DEF MarkOrphanedJobsFailed, JobRow, Statuses, Going
      <3> QED BY <2>4, <3>1 DEF MarkOrphanedJobsFailed, Types
    <2>5. CASE RequeueJob(k)
      <3>1. job.attempts + 1 \in 0 .. MaxAttempts
        BY <1>1, <2>5, GatesAssumption DEF RequeueJob, JobRow
      <3>2. job' \in JobRow
        BY <1>1, <2>5, <3>1, Zenon DEF RequeueJob, JobRow, Statuses, Going
      <3> QED BY <2>5, <3>2 DEF RequeueJob, Types
    <2>6. CASE SchedulerStops(k)
      <3>1. pending' \in [Actors -> Seq(Event)]
        <4>1. <<>> \in Seq(Event)
          OBVIOUS
        <4> QED BY <1>1, <2>6, <4>1, Zenon DEF SchedulerStops
      <3> QED BY <2>6, <3>1, Zenon DEF SchedulerStops, Types
    <2>7. CASE SweepAbandonedJobs(k)
      <3>1. job' \in JobRow
        BY <1>1, <2>7, Zenon DEF SweepAbandonedJobs, JobRow, Statuses
      <3> QED BY <2>7, <3>1 DEF SweepAbandonedJobs, Types
    <2> QED BY <1>3, <2>2, <2>3, <2>4, <2>5, <2>6, <2>7 DEF SchedulerStep
  <1>4. ASSUME NEW o \in Operators, NEW g \in Gate,
               ApproveWorkflow(o, g) \/ RejectWorkflow(o, g) \/ SubmitInput(o, g)
        PROVE  Types'
    BY <1>2, <1>4
    DEF ApproveWorkflow, RejectWorkflow, SubmitInput, Actors, Kinds, Statuses, Resolved,
        Decisions
  <1>5. ASSUME NEW a \in Actors, AppendAudit(a) \/ AuditLost(a) PROVE Types'
    <2>1. pending' \in [Actors -> Seq(Event)]
      <3>1. <<>> \in Seq(Event)
        OBVIOUS
      <3> QED BY <1>1, <1>5, <3>1, Zenon DEF AppendAudit, AuditLost
    <2>2. CASE AppendAudit(a)
      <3>1. pending[a][1] \in Event
        BY <1>1, <2>2 DEF AppendAudit
      <3>2. audit' \in Seq(Event)
        BY <1>1, <2>2, <3>1 DEF AppendAudit
      <3> QED BY <2>1, <2>2, <3>2 DEF AppendAudit, Types
    <2>3. CASE AuditLost(a)
      BY <2>1, <2>3 DEF AuditLost, Types
    <2> QED BY <1>5, <2>2, <2>3
  <1>6. CASE GateTimesOut \/ JobLeaseExpires
    <2>1. job' \in JobRow
      BY <1>1, <1>6, ZenonT(60) DEF GateTimesOut, JobLeaseExpires, JobRow
    <2> QED BY <1>6, <2>1, Zenon DEF GateTimesOut, JobLeaseExpires, Types
  <1>7. CASE MarkAbandonRequested \/ TakeBackAbandon
    <2>1. job' \in JobRow
      BY <1>1, <1>7, ZenonT(60) DEF MarkAbandonRequested, TakeBackAbandon, JobRow
    <2> QED BY <1>7, <2>1, Zenon DEF MarkAbandonRequested, TakeBackAbandon, Types
  <1>8. CASE PartitionLeaseExpires
    BY <1>8 DEF PartitionLeaseExpires, Types
  <1> QED BY <1>3, <1>4, <1>5, <1>6, <1>7, <1>8

\* Every step keeps the types.
LEMMA NextTypes == ASSUME Types, [Next]_vars PROVE Types'
  <1>1. CASE UNCHANGED vars
    BY <1>1 DEF vars, Types
  <1> QED BY <1>1, SessionTypes, ActorTypes DEF Next

-----------------------------------------------------------------------------
(* The run and its last gate.                                              *)

\* The branches on a row that is parked at its gate, or was resolved there.
BranchesOK ==
    /\ job.yes \in {NoOperation, Operation(job.gate, "yes")}
    /\ job.no \in {NoOperation, Operation(job.gate, "no")}

\* The status t that decision d leaves on the row.
Tells(t, d) ==
    \/ t = "approved" /\ d.kind = "approval" /\ d.decision = "approved"
    \/ t = "rejected" /\ d.kind = "approval" /\ d.decision \in {"rejected", "timed_out"}
    \/ t = "answered" /\ d.kind = "input" /\ d.decision = "answered"
    \/ t = "input_timed_out" /\ d.kind = "input" /\ d.decision = "timed_out"

\* The operation on the row is from the branch that the last decision selects.
OpFollows ==
    /\ job.op # NoOperation
    /\ job.op.gate = Len(decided)
    /\ decided # <<>> =>
         job.op.way = IF Rejected(Len(decided)) THEN "no" ELSE "yes"

\* Where a run of status t is with its gates: at one that is open, at one that was
\* decided and not taken up, or past all that were decided.
StatusOK(t) ==
    /\ t \in Going => job.gate = 0 /\ OpFollows
    /\ t \in Open =>
         job.gate = Len(decided) + 1 /\ BranchesOK
    /\ t \in Resolved =>
         /\ decided # <<>> /\ job.gate = Len(decided) /\ BranchesOK
         /\ Tells(t, decided[Len(decided)])

JobOK ==
    /\ StatusOK(job.status)
    /\ job.gate \in {0, Len(decided), Len(decided) + 1}

\* c is a copy of the row, but for a flag that was set or taken back since, and for
\* the end that the sweep of abandoned jobs may have put to a run whose lease ran
\* out: the session goes on from the status it has read.
Holds(c) ==
    /\ c.status \in Acquirable /\ StatusOK(c.status)
    /\ c.op = job.op /\ c.yes = job.yes /\ c.no = job.no
    /\ c.rejections = job.rejections /\ c.spend = job.spend
    /\ job.status = c.status \/ (job.status = "completed" /\ job.cut)

\* What a session that holds the job knows of it: before the dispatch its copy is the
\* row's, after it the row is the session's to write.
CopyOK(s) ==
    Owns(s) =>
      /\ session[s].pc = "acquired" => Holds(session[s].copy)
      /\ session[s].pc \in {"waiting", "busy"} =>
           /\ job.status \in {"dispatched", "running", "failed"}
           /\ session[s].copy.rejections = job.rejections

RunInv == Types /\ JobOK /\ \A s \in Sessions : CopyOK(s)

\* What a step does to the run: nothing, a move between operations or to the end,
\* the parking at a gate, the taking up of a resolved gate or of the next operation,
\* the end for a suspension, and a decision.
Keeps == job'.op = job.op /\ job'.gate = job.gate /\ job'.rejections = job.rejections

Rests ==
    /\ job'.status = job.status /\ Keeps
    /\ job'.yes = job.yes /\ job'.no = job.no /\ job'.cut = job.cut
    /\ UNCHANGED decided

GoesOn ==
    /\ job.status \in Going /\ job'.status \in Going \cup {"completed"}
    /\ Keeps /\ UNCHANGED decided

Parks ==
    /\ job.status \in Going /\ job'.status \in Open
    /\ job'.gate = NextGate /\ BranchesOK'
    /\ job'.rejections = job.rejections
    /\ UNCHANGED decided

TakesUp(c) ==
    /\ Holds(c)
    /\ job'.rejections = GateOutcome(job.rejections, c.status)
    /\ \/ /\ job'.status = "dispatched" /\ job'.gate = 0
          /\ job'.op = BranchOf(c) /\ job'.op # NoOperation
       \/ job'.status = "completed" /\ ~job'.cut /\ job'.gate = job.gate
    /\ UNCHANGED decided

Cuts ==
    /\ job.status = "completed" => job.cut
    /\ job'.status = "completed" /\ job'.cut
    /\ Keeps /\ UNCHANGED decided

Resolves(d) ==
    /\ job.status \in Open /\ job'.status \in Resolved
    /\ Tells(job'.status, d)
    /\ Keeps /\ job'.yes = job.yes /\ job'.no = job.no
    /\ decided' = Append(decided, d)

RunMoved ==
    \/ Rests \/ GoesOn \/ Parks \/ Cuts
    \/ \E c \in Copy : TakesUp(c)
    \/ \E d \in Decision : Resolves(d)

\* The write that ends an operation, seen from the row.
LEMMA EndedFields ==
    ASSUME NEW j \in JobRow, NEW x, NEW r
    PROVE  /\ EndedJob(j, x, r).spend = x /\ EndedJob(j, x, r).rejections = r
           /\ EndedJob(j, x, r).status = j.status /\ EndedJob(j, x, r).owner = j.owner
           /\ EndedJob(j, x, r).op = j.op /\ EndedJob(j, x, r).gate = j.gate
           /\ EndedJob(j, x, r).yes = j.yes /\ EndedJob(j, x, r).no = j.no
  BY DEF EndedJob, JobRow

\* What parking at a gate writes on the row (ParkForGate).
LEMMA ParkedFields ==
    ASSUME Types, NEW kind \in Kinds, NEW yes, NEW no, NextGate \in Gate
    PROVE  /\ ParkedJob(kind, yes, no) \in JobRow
           /\ ParkedJob(kind, yes, no).status \in Open
           /\ ParkedJob(kind, yes, no).gate = NextGate
           /\ ParkedJob(kind, yes, no).owner = job.owner
           /\ ParkedJob(kind, yes, no).yes \in {NoOperation, Operation(NextGate, "yes")}
           /\ ParkedJob(kind, yes, no).no \in {NoOperation, Operation(NextGate, "no")}
  <1>1. job \in JobRow
    BY DEF Types
  <1>2. NextGate \in 0 .. MaxGates
    BY DEF Gate
  <1>3. /\ Operation(NextGate, "yes") \in Operations
        /\ Operation(NextGate, "no") \in Operations
    BY <1>2 DEF Operation, Operations
  <1>4. Awaiting(kind) \in Open
    BY DEF Awaiting, Open
  <1> QED BY <1>1, <1>2, <1>3, <1>4, Constants, ZenonT(60) DEF ParkedJob, JobRow, Statuses

\* A session's write that ends an operation moves the run.
LEMMA EndMoves ==
    ASSUME RunInv, NEW s \in Sessions, NEW j \in JobRow, EndedBy(s, j),
           \/ /\ j.status \in {"awaiting_next", "completed", "failed"}
              /\ j.op = job.op /\ j.gate = job.gate
           \/ /\ j.status \in Open /\ j.gate = NextGate
              /\ j.yes \in {NoOperation, Operation(NextGate, "yes")}
              /\ j.no \in {NoOperation, Operation(NextGate, "no")}
    PROVE  RunMoved
  <1>1. CASE Owns(s)
    <2>1. PICK x : job' = EndedJob(j, x, session[s].copy.rejections)
      BY <1>1, Zenon DEF EndedBy
    <2>2. job.status \in Going /\ session[s].copy.rejections = job.rejections
      BY <1>1, Zenon DEF RunInv, CopyOK, EndedBy, Going
    <2>3. UNCHANGED decided
      BY Zenon DEF EndedBy
    <2>4. CASE j.status \in {"awaiting_next", "completed", "failed"}
      BY <2>1, <2>2, <2>3, <2>4, EndedFields DEF RunMoved, GoesOn, Keeps, Going, Open
    <2>5. CASE j.status \in Open
      BY <2>1, <2>2, <2>3, <2>5, EndedFields DEF RunMoved, Parks, BranchesOK, Open
    <2> QED BY <2>4, <2>5
  <1>2. CASE ~Owns(s)
    BY <1>2, Zenon DEF EndedBy, RunMoved, Rests, Keeps
  <1> QED BY <1>1, <1>2

\* Every step of a session moves the run in one of these ways.
LEMMA SessionMoves ==
    ASSUME RunInv, NEW s \in Sessions, SessionStep(s)
    PROVE  RunMoved
  <1>1. /\ Types /\ job \in JobRow /\ session[s].copy \in Copy /\ CopyOK(s)
    BY Rows DEF RunInv, Types
  <1>2. CASE AcquireJob(s) \/ ReleaseJob(s)
    BY <1>1, <1>2, ZenonT(60) DEF AcquireJob, ReleaseJob, JobRow, RunMoved, Rests, Keeps
  <1>3. CASE DispatchJob(s)
    <2>1. ASSUME NEW new \in Copy, DispatchedAs(s, new), Owns(s) PROVE RunMoved
      <3> DEFINE c == session[s].copy
      <3>1. Holds(c)
        BY <1>1, <1>3, <2>1, Dispatches, Zenon DEF CopyOK
      <3>2. /\ new.op = BranchOf(c) /\ new.op # NoOperation
            /\ new.rejections = GateOutcome(job.rejections, c.status)
            /\ job' = Dispatched(new)
        BY <2>1, <3>1, Zenon DEF DispatchedAs, Holds
      <3>3. /\ job'.status = "dispatched" /\ job'.op = new.op /\ job'.gate = 0
            /\ job'.rejections = new.rejections
        BY <1>1, <3>2 DEF Dispatched, JobRow
      <3>4. c \in Copy /\ UNCHANGED decided
        BY <1>1, <1>3, Dispatches, Zenon
      <3> HIDE DEF c
      <3>5. TakesUp(c)
        BY <3>1, <3>2, <3>3, <3>4, Zenon DEF TakesUp
      <3> QED BY <3>4, <3>5, Zenon DEF RunMoved
    <2>2. CASE UNCHANGED job
      BY <1>1, <1>3, <2>2, Dispatches, Zenon DEF RunMoved, Rests, Keeps
    <2> QED BY <1>1, <1>3, <2>1, <2>2, Dispatches, Zenon
  <1>4. CASE SendFails(s) \/ AckLaunch(s)
    <2>1. CASE Owns(s)
      <3>1. job.status \in Going
        BY <1>1, <1>4, <2>1, Zenon DEF SendFails, AckLaunch, CopyOK, Going
      <3> QED BY <1>1, <1>4, <2>1, <3>1, ZenonT(60)
              DEF SendFails, AckLaunch, JobRow, RunMoved, GoesOn, Keeps, Going
    <2>2. CASE ~Owns(s)
      BY <1>4, <2>2, Zenon DEF SendFails, AckLaunch, RunMoved, Rests, Keeps
    <2> QED BY <2>1, <2>2
  <1>5. CASE RecordInterim(s)
    BY <1>1, <1>5, ZenonT(60) DEF RecordInterim, JobRow, RunMoved, Rests, Keeps
  <1>6. ASSUME NEW acted, NEW suspended \in BOOLEAN,
               \/ AdvanceJob(s, acted) \/ CompleteJob(s, acted) \/ FailJob(s)
               \/ StopOperation(s, suspended)
        PROVE  RunMoved
    <2>1. \A t \in Statuses : /\ [job EXCEPT !.status = t] \in JobRow
                              /\ [job EXCEPT !.status = t].status = t
                              /\ [job EXCEPT !.status = t].op = job.op
                              /\ [job EXCEPT !.status = t].gate = job.gate
      BY <1>1 DEF JobRow
    <2>2. ASSUME NEW t \in {"awaiting_next", "failed"}, EndedBy(s, [job EXCEPT !.status = t])
          PROVE  RunMoved
      BY <2>1, <2>2, EndMoves, Zenon DEF Statuses, Going
    <2>3. ASSUME NEW x \in BOOLEAN, EndedBy(s, StoppedJob(x)) PROVE RunMoved
      BY <1>1, <2>3, EndMoves, StoppedFields, Zenon
    <2> QED BY <1>6, <2>2, <2>3, Endings, Zenon
  <1>7. ASSUME NEW kind \in Kinds, NEW yes, NEW no, NEW acted,
               ParkForGate(s, kind, yes, no, acted)
        PROVE  RunMoved
    <2> DEFINE j == ParkedJob(kind, yes, no)
    <2>1. NextGate \in Gate /\ EndedBy(s, j)
      BY <1>7, Endings, Zenon
    <2>2. /\ j \in JobRow /\ j.status \in Open /\ j.gate = NextGate
          /\ j.yes \in {NoOperation, Operation(NextGate, "yes")}
          /\ j.no \in {NoOperation, Operation(NextGate, "no")}
      BY <1>1, <2>1, ParkedFields, Zenon
    <2> HIDE DEF j
    <2> QED BY <2>1, <2>2, EndMoves
  <1>8. ASSUME NEW r, NEW suspended, EndAcquired(s, r, suspended)
        PROVE  /\ ~Owns(s) => RunMoved
               /\ Owns(s) => /\ job'.status = "completed" /\ job'.cut = suspended
                             /\ job'.rejections = r /\ job'.gate = job.gate
                             /\ job'.op = job.op
               /\ UNCHANGED decided
    <2>1. CASE Owns(s)
      BY <1>1, <1>8, <2>1 DEF EndAcquired, JobRow
    <2>2. CASE ~Owns(s)
      BY <1>8, <2>2, Zenon DEF EndAcquired, RunMoved, Rests, Keeps
    <2> QED BY <2>1, <2>2, Zenon
  <1>9. CASE CompleteBranch(s)
    <2> DEFINE c == session[s].copy
    <2>1. EndAcquired(s, Resumed(c).rejections, FALSE) /\ session[s].pc = "acquired"
      BY <1>9, Zenon DEF CompleteBranch
    <2>2. CASE Owns(s)
      <3>1. Holds(c) /\ c \in Copy
        BY <1>1, <2>1, <2>2, Zenon DEF CopyOK
      <3>2. Resumed(c).rejections = GateOutcome(job.rejections, c.status)
        BY <3>1, ResumedType, Zenon DEF Holds
      <3> HIDE DEF c
      <3>3. TakesUp(c)
        BY <1>8, <2>1, <2>2, <3>1, <3>2, Zenon DEF TakesUp
      <3> QED BY <3>1, <3>3, Zenon DEF RunMoved
    <2> QED BY <1>8, <2>1, <2>2, Zenon
  <1>10. CASE SuspendAcquired(s)
    <2>1. EndAcquired(s, session[s].copy.rejections, TRUE) /\ session[s].pc = "acquired"
      BY <1>10, Zenon DEF SuspendAcquired
    <2>2. CASE Owns(s)
      <3>1. Holds(session[s].copy)
        BY <1>1, <2>1, <2>2, Zenon DEF CopyOK
      <3>2. session[s].copy.rejections = job.rejections /\ (job.status = "completed" => job.cut)
        BY <3>1 DEF Holds, Acquirable
      <3> QED BY <1>8, <2>1, <2>2, <3>2, Zenon DEF RunMoved, Cuts, Keeps
    <2> QED BY <1>8, <2>1, <2>2, Zenon
  <1>11. CASE StreamEnds(s) \/ SessionDies(s)
    BY <1>11, Zenon DEF StreamEnds, SessionDies, RunMoved, Rests, Keeps
  <1> QED BY <1>2, <1>3, <1>4, <1>5, <1>6, <1>7, <1>9, <1>10, <1>11, Zenon DEF SessionStep

\* So does every other step.
LEMMA ActorMoves ==
    ASSUME RunInv,
           \/ \E k \in Schedulers : SchedulerStep(k)
           \/ \E o \in Operators, g \in Gate :
                ApproveWorkflow(o, g) \/ RejectWorkflow(o, g) \/ SubmitInput(o, g)
           \/ \E a \in Actors : AppendAudit(a) \/ AuditLost(a)
           \/ MarkAbandonRequested \/ TakeBackAbandon
           \/ GateTimesOut \/ JobLeaseExpires \/ PartitionLeaseExpires
    PROVE  RunMoved
  <1>1. job \in JobRow
    BY DEF RunInv, Types
  <1>2. ASSUME NEW a, NEW kind \in Kinds, NEW t \in Resolved, NEW d \in Decisions,
               Decide(a, kind, t, d), job.status \in Open,
               Tells(t, [kind |-> kind, decision |-> d])
        PROVE  RunMoved
    <2>1. [kind |-> kind, decision |-> d] \in Decision
      BY DEF Decision
    <2>2. Resolves([kind |-> kind, decision |-> d])
      BY <1>1, <1>2 DEF Decide, JobRow, Resolves, Keeps
    <2> QED BY <2>1, <2>2 DEF RunMoved
  <1>3. ASSUME NEW k \in Schedulers, SchedulerStep(k) PROVE RunMoved
    <2>1. CASE SweepExpiredApprovals(k)
      BY <1>2, <2>1 DEF SweepExpiredApprovals, Kinds, Resolved, Decisions, Open, Tells
    <2>2. CASE SweepExpiredInputs(k)
      BY <1>2, <2>2 DEF SweepExpiredInputs, Kinds, Resolved, Decisions, Open, Tells
    <2>3. CASE AcquireAvailable(k) \/ Renew(k) \/ SchedulerStops(k)
      BY <2>3 DEF AcquireAvailable, Renew, SchedulerStops, RunMoved, Rests, Keeps
    <2>4. CASE MarkOrphanedJobsFailed(k) \/ RequeueJob(k)
      BY <1>1, <2>4, ZenonT(60)
      DEF MarkOrphanedJobsFailed, RequeueJob, JobRow, RunMoved, GoesOn, Keeps, Going
    <2>5. CASE SweepAbandonedJobs(k)
      BY <1>1, <2>5 DEF SweepAbandonedJobs, JobRow, RunMoved, Cuts, Keeps
    <2> QED BY <1>3, <2>1, <2>2, <2>3, <2>4, <2>5 DEF SchedulerStep
  <1>4. ASSUME NEW o \in Operators, NEW g \in Gate,
               ApproveWorkflow(o, g) \/ RejectWorkflow(o, g) \/ SubmitInput(o, g)
        PROVE  RunMoved
    BY <1>2, <1>4
    DEF ApproveWorkflow, RejectWorkflow, SubmitInput, Kinds, Resolved, Decisions, Open, Tells
  <1>5. ASSUME NEW a \in Actors, AppendAudit(a) \/ AuditLost(a) PROVE RunMoved
    BY <1>5 DEF AppendAudit, AuditLost, RunMoved, Rests, Keeps
  <1>6. CASE GateTimesOut \/ JobLeaseExpires \/ PartitionLeaseExpires
    BY <1>1, <1>6, Zenon
    DEF GateTimesOut, JobLeaseExpires, PartitionLeaseExpires, JobRow, RunMoved, Rests, Keeps
  <1>7. CASE MarkAbandonRequested \/ TakeBackAbandon
    BY <1>1, <1>7, ZenonT(30)
    DEF MarkAbandonRequested, TakeBackAbandon, JobRow, RunMoved, Rests, Keeps
  <1> QED BY <1>3, <1>4, <1>5, <1>6, <1>7

\* However the run moves, it stays where its gates say it is.
LEMMA JobMoves == ASSUME RunInv, RunMoved PROVE JobOK'
  <1> USE DEF Going, Open, Resolved
  <1>1. /\ Types /\ job \in JobRow /\ decided \in Seq(Decision) /\ JobOK
        /\ job.gate \in Int /\ Len(decided) \in Nat
    BY DEF RunInv, Types, JobRow
  <1>2. CASE Rests
    BY <1>1, <1>2, Zenon DEF Rests, Keeps, JobOK, StatusOK, OpFollows, BranchesOK, Rejected
  <1>3. CASE GoesOn
    BY <1>1, <1>3 DEF GoesOn, Keeps, JobOK, StatusOK, OpFollows, Rejected
  <1>4. CASE Parks
    BY <1>1, <1>4 DEF Parks, NextGate, JobOK, StatusOK
  <1>5. CASE Cuts
    BY <1>1, <1>5 DEF Cuts, Keeps, JobOK, StatusOK
  <1>6. ASSUME NEW c \in Copy, TakesUp(c) PROVE JobOK'
    <2>1. CASE job'.status = "completed"
      BY <1>1, <1>6, <2>1 DEF TakesUp, JobOK, StatusOK
    <2>2. CASE job'.status = "dispatched"
      <3>1. /\ job'.gate = 0 /\ job'.op = BranchOf(c)
            /\ job'.op # NoOperation /\ UNCHANGED decided
            /\ c.status \in Acquirable /\ StatusOK(c.status)
            /\ c.op = job.op /\ c.yes = job.yes /\ c.no = job.no
        BY <1>6, <2>2 DEF TakesUp, Holds
      <3>2. SUFFICES OpFollows'
        BY <1>1, <2>2, <3>1 DEF JobOK, StatusOK
      <3>3. CASE c.status \in {"pending", "awaiting_next"}
        <4>1. job'.op = job.op
          BY <3>1, <3>3, Branching
        <4> QED BY <3>1, <3>3, <4>1, Zenon DEF StatusOK, OpFollows, Rejected
      <3>4. CASE c.status \in {"approved", "answered"}
        <4>1. job'.op = Operation(job.gate, "yes") /\ job.gate = Len(decided)
          BY <3>1, <3>4, Branching, Zenon DEF StatusOK, BranchesOK
        <4>2. ~Rejected(Len(decided))
          BY <3>1, <3>4 DEF StatusOK, Tells, Rejected
        <4> QED BY <3>1, <4>1, <4>2 DEF OpFollows, Rejected, Operation
      <3>5. CASE c.status \in {"rejected", "input_timed_out"}
        <4>1. job'.op = Operation(job.gate, "no") /\ job.gate = Len(decided)
          BY <3>1, <3>5, Branching, Zenon DEF StatusOK, BranchesOK
        <4>2. Rejected(Len(decided))
          BY <3>1, <3>5 DEF StatusOK, Tells, Rejected
        <4> QED BY <3>1, <4>1, <4>2 DEF OpFollows, Rejected, Operation
      <3> QED BY <3>1, <3>3, <3>4, <3>5 DEF Acquirable
    <2> QED BY <1>6, <2>1, <2>2 DEF TakesUp
  <1>7. ASSUME NEW d \in Decision, Resolves(d) PROVE JobOK'
    <2>1. /\ decided' = Append(decided, d) /\ Len(decided') = Len(decided) + 1
          /\ decided'[Len(decided')] = d /\ decided' # <<>>
      BY <1>1, <1>7 DEF Resolves
    <2>2. /\ job'.status \in Resolved /\ job'.gate = job.gate
          /\ job'.yes = job.yes /\ job'.no = job.no
          /\ Tells(job'.status, d) /\ job.status \in Open
      BY <1>7 DEF Resolves, Keeps
    <2>3. job.gate = Len(decided) + 1 /\ BranchesOK
      BY <1>1, <2>2 DEF JobOK, StatusOK
    <2> QED BY <1>1, <2>1, <2>2, <2>3 DEF JobOK, StatusOK, BranchesOK
  <1> QED BY <1>2, <1>3, <1>4, <1>5, <1>6, <1>7 DEF RunMoved

-----------------------------------------------------------------------------
(* Sessions and the row.                                                   *)

\* A session writes neither another's memory nor a row that another holds.
LEMMA SessionFrame ==
    ASSUME Types, NEW s \in Sessions, SessionStep(s)
    PROVE  /\ \A t \in Sessions \ {s} : session'[t] = session[t]
           /\ UNCHANGED <<job, landed>> \/ job'.owner \in {s, NoOwner}
           /\ UNCHANGED <<decided, pending, audit>>
  <1>1. job \in JobRow /\ session \in [Sessions -> SessionRow]
    BY DEF Types
  <1>2. \A x : \A t \in Sessions \ {s} : [session EXCEPT ![s] = x][t] = session[t]
    BY <1>1
  <1>3. CASE AcquireJob(s)
    BY <1>1, <1>2, <1>3, Zenon DEF AcquireJob, JobRow
  <1>4. CASE DispatchJob(s)
    <2>1. ASSUME NEW new \in Copy, DispatchedAs(s, new), Owns(s)
          PROVE  /\ \A t \in Sessions \ {s} : session'[t] = session[t]
                 /\ job'.owner = s
      <3>1. Dispatched(new).owner = job.owner
        BY <1>1 DEF Dispatched, JobRow
      <3>2. \E x : session' = [session EXCEPT ![s] = x]
        BY <2>1, Zenon DEF DispatchedAs
      <3>3. job' = Dispatched(new)
        BY <2>1, Zenon DEF DispatchedAs
      <3> QED BY <1>2, <2>1, <3>1, <3>2, <3>3 DEF Owns
    <2>2. CASE /\ session' = [session EXCEPT ![s] = SessionAt("idle", TRUE)]
               /\ UNCHANGED <<job, landed>>
      BY <1>2, <1>4, <2>2, Dispatches, Zenon
    <2> QED BY <1>4, <2>1, <2>2, Dispatches, Zenon
  <1>5. CASE SendFails(s)
    BY <1>1, <1>2, <1>5 DEF SendFails, Owns, JobRow
  <1>6. CASE AckLaunch(s)
    BY <1>1, <1>2, <1>6 DEF AckLaunch, Owns, JobRow
  <1>7. CASE RecordInterim(s)
    BY <1>1, <1>2, <1>7, ZenonT(60) DEF RecordInterim, Owns, JobRow
  <1>8. ASSUME NEW j \in JobRow, EndedBy(s, j), j.owner = job.owner
        PROVE  /\ \A t \in Sessions \ {s} : session'[t] = session[t]
               /\ UNCHANGED <<job, landed>> \/ job'.owner \in {s, NoOwner}
               /\ UNCHANGED <<decided, pending, audit>>
    BY <1>2, <1>8, EndedFields DEF EndedBy, Owns
  <1>9. ASSUME NEW acted, NEW suspended \in BOOLEAN,
               \/ AdvanceJob(s, acted) \/ CompleteJob(s, acted) \/ FailJob(s)
               \/ StopOperation(s, suspended)
        PROVE  /\ \A t \in Sessions \ {s} : session'[t] = session[t]
               /\ UNCHANGED <<job, landed>> \/ job'.owner \in {s, NoOwner}
               /\ UNCHANGED <<decided, pending, audit>>
    <2>1. \A t \in Statuses : /\ [job EXCEPT !.status = t] \in JobRow
                              /\ [job EXCEPT !.status = t].owner = job.owner
      BY <1>1 DEF JobRow
    <2>2. PICK j \in JobRow : EndedBy(s, j) /\ j.owner = job.owner
      BY <1>1, <1>9, <2>1, Endings, StoppedFields, Zenon DEF Statuses, Going
    <2> QED BY <1>8, <2>2, Zenon
  <1>10. ASSUME NEW kind \in Kinds, NEW yes, NEW no, NEW acted,
                ParkForGate(s, kind, yes, no, acted)
         PROVE  /\ \A t \in Sessions \ {s} : session'[t] = session[t]
                /\ UNCHANGED <<job, landed>> \/ job'.owner \in {s, NoOwner}
                /\ UNCHANGED <<decided, pending, audit>>
    <2>1. NextGate \in Gate /\ EndedBy(s, ParkedJob(kind, yes, no))
      BY <1>10, Endings, Zenon
    <2>2. ParkedJob(kind, yes, no) \in JobRow /\ ParkedJob(kind, yes, no).owner = job.owner
      BY <2>1, ParkedFields, Zenon
    <2> QED BY <1>8, <2>1, <2>2, Zenon
  <1>11. CASE CompleteBranch(s) \/ SuspendAcquired(s)
    <2>1. PICK r \in Int, suspended \in BOOLEAN : EndAcquired(s, r, suspended)
      BY <1>11, AcquiredEnds, Zenon
    <2> QED BY <1>1, <1>2, <2>1 DEF EndAcquired, Owns, JobRow
  <1>12. CASE ReleaseJob(s)
    <2>1. \A t \in Sessions \ {s} : session'[t] = session[t]
      BY <1>2, <1>12, Zenon DEF ReleaseJob
    <2> QED BY <1>1, <1>12, <2>1 DEF ReleaseJob, JobRow
  <1>13. CASE StreamEnds(s) \/ SessionDies(s)
    BY <1>2, <1>13, Zenon DEF StreamEnds, SessionDies
  <1> QED BY <1>3, <1>4, <1>5, <1>6, <1>7, <1>9, <1>10, <1>11, <1>12, <1>13, Zenon DEF SessionStep

\* What a session's own step makes of its position.
LEMMA SessionPositions ==
    ASSUME Types, NEW s \in Sessions, SessionStep(s)
    PROVE  \/ session'[s].pc \in {"idle", "gone"}
           \/ /\ session[s].pc = "idle" /\ AcquireJob(s)
              /\ session'[s].pc = "acquired" /\ session'[s].copy = CopyOf(job)
              /\ session'[s].thisOp = 0
           \/ /\ session[s].pc = "acquired" /\ Owns(s)
              /\ \E new \in Copy :
                   /\ DispatchedAs(s, new)
                   /\ session'[s].pc = "waiting" /\ session'[s].copy = new
                   /\ session'[s].thisOp = session[s].thisOp
                   /\ session'[s].dispatch = Len(landed) + 1
           \/ /\ session[s].pc = "waiting" /\ Owns(s) /\ UNCHANGED landed
              /\ job' = [job EXCEPT !.status = "running"]
              /\ session'[s].pc = "busy" /\ session'[s].copy = session[s].copy
              /\ session'[s].thisOp = session[s].thisOp
              /\ session'[s].dispatch = session[s].dispatch
           \/ /\ session[s].pc = "busy" /\ Owns(s) /\ RecordInterim(s)
              /\ session'[s].pc = "busy" /\ session'[s].copy = session[s].copy
              /\ session'[s].thisOp = session[s].thisOp + 1
              /\ session'[s].dispatch = session[s].dispatch
           \/ /\ ReleaseJob(s) /\ session'[s].pc = session[s].pc
              /\ session'[s].copy = session[s].copy
              /\ session'[s].thisOp = session[s].thisOp
  <1>1. /\ session \in [Sessions -> SessionRow] /\ session[s] \in SessionRow
    BY Rows DEF Types
  <1>2. \A x : [session EXCEPT ![s] = x][s] = x
    BY <1>1
  <1>3. \A pc, told : SessionAt(pc, told).pc = pc
    BY DEF SessionAt
  <1>4. CASE AcquireJob(s)
    <2>1. session'[s] = [session[s] EXCEPT !.pc = "acquired", !.copy = CopyOf(job),
                                           !.thisOp = 0]
      BY <1>2, <1>4, Zenon DEF AcquireJob
    <2>2. /\ session'[s].pc = "acquired" /\ session'[s].copy = CopyOf(job)
          /\ session'[s].thisOp = 0
      BY <1>1, <2>1 DEF SessionRow
    <2> QED BY <1>4, <2>2 DEF AcquireJob
  <1>5. CASE DispatchJob(s)
    <2>1. ASSUME NEW new \in Copy, DispatchedAs(s, new)
          PROVE  /\ session'[s].pc = "waiting" /\ session'[s].copy = new
                 /\ session'[s].thisOp = session[s].thisOp
                 /\ session'[s].dispatch = Len(landed) + 1
      <3>1. session'[s] = [session[s] EXCEPT !.pc = "waiting", !.copy = new,
                                             !.dispatch = Len(landed) + 1]
        BY <1>1, <2>1, Zenon DEF DispatchedAs
      <3> QED BY <1>1, <3>1 DEF SessionRow
    <2>2. CASE session' = [session EXCEPT ![s] = SessionAt("idle", TRUE)]
      <3>1. session'[s].pc = "idle"
        BY <1>2, <1>3, <2>2, Zenon
      <3> QED BY <3>1
    <2>3. CASE Owns(s) /\ \E new \in Copy : DispatchedAs(s, new)
      <3>1. PICK new \in Copy : DispatchedAs(s, new)
        BY <2>3
      <3>2. session[s].pc = "acquired"
        BY <1>5, Dispatches, Zenon
      <3> QED BY <2>1, <2>3, <3>1, <3>2, Zenon
    <2> QED BY <1>5, <2>2, <2>3, Dispatches, Zenon
  <1>6. CASE SendFails(s)
    <2>1. session'[s].pc = "gone"
      BY <1>2, <1>3, <1>6, Zenon DEF SendFails
    <2> QED BY <2>1
  <1>7. CASE AckLaunch(s)
    <2>1. CASE Owns(s)
      <3>1. session' = [session EXCEPT ![s].pc = "busy"]
        BY <1>7, <2>1 DEF AckLaunch
      <3>2. /\ session'[s].pc = "busy" /\ session'[s].copy = session[s].copy
            /\ session'[s].thisOp = session[s].thisOp
            /\ session'[s].dispatch = session[s].dispatch
        BY <1>1, <3>1 DEF SessionRow
      <3> QED BY <1>7, <2>1, <3>2 DEF AckLaunch
    <2>2. CASE ~Owns(s)
      <3>1. session'[s].pc = "gone"
        BY <1>2, <1>3, <1>7, <2>2, Zenon DEF AckLaunch
      <3> QED BY <3>1
    <2> QED BY <2>1, <2>2, Zenon
  <1>8. CASE RecordInterim(s)
    <2>1. CASE Owns(s)
      <3>1. session' = [session EXCEPT ![s].thisOp = session[s].thisOp + 1]
        BY <1>8, <2>1 DEF RecordInterim
      <3>2. /\ session'[s].pc = session[s].pc /\ session'[s].copy = session[s].copy
            /\ session'[s].thisOp = session[s].thisOp + 1
            /\ session'[s].dispatch = session[s].dispatch
        BY <1>1, <3>1 DEF SessionRow
      <3> QED BY <1>8, <2>1, <3>2, Zenon DEF RecordInterim
    <2>2. CASE ~Owns(s)
      <3>1. session' = [session EXCEPT ![s] = SessionAt("gone", TRUE)]
        BY <1>8, <2>2, Zenon DEF RecordInterim
      <3>2. session'[s].pc = "gone"
        BY <1>2, <1>3, <3>1, Zenon
      <3> QED BY <3>2
    <2> QED BY <2>1, <2>2
  <1>9. ASSUME NEW j, EndedBy(s, j) PROVE session'[s].pc = "idle"
    BY <1>2, <1>3, <1>9, Zenon DEF EndedBy
  <1>10. ASSUME NEW acted, NEW kind, NEW yes, NEW no, NEW suspended,
                \/ AdvanceJob(s, acted) \/ CompleteJob(s, acted) \/ FailJob(s)
                \/ StopOperation(s, suspended) \/ ParkForGate(s, kind, yes, no, acted)
         PROVE  session'[s].pc = "idle"
    BY <1>9, <1>10, Endings, Zenon
  <1>11. CASE \/ CompleteBranch(s) \/ SuspendAcquired(s)
              \/ StreamEnds(s) \/ SessionDies(s)
    <2>1. \E pc \in {"idle", "gone"}, told \in BOOLEAN :
            session' = [session EXCEPT ![s] = SessionAt(pc, told)]
      BY <1>11, AcquiredEnds, Zenon DEF EndAcquired, StreamEnds, SessionDies
    <2>2. PICK pc \in {"idle", "gone"}, told \in BOOLEAN :
            session' = [session EXCEPT ![s] = SessionAt(pc, told)]
      BY <2>1, Zenon
    <2>3. session'[s].pc = pc
      BY <1>2, <1>3, <2>2
    <2> QED BY <2>2, <2>3
  <1>12. CASE ReleaseJob(s)
    <2>1. session'[s] = [session[s] EXCEPT !.pc = Reconnected(session[s].pc),
                                           !.release = FALSE]
      BY <1>1, <1>12, Zenon DEF ReleaseJob
    <2>2. /\ session'[s].pc = Reconnected(session[s].pc)
          /\ session'[s].copy = session[s].copy /\ session'[s].thisOp = session[s].thisOp
      BY <1>1, <2>1 DEF SessionRow
    <2> QED BY <1>12, <2>2 DEF Reconnected
  <1> QED BY <1>4, <1>5, <1>6, <1>7, <1>8, <1>10, <1>11, <1>12, Zenon DEF SessionStep

\* A step that leaves this of the row alone, but may end a run for a suspension.
Stays ==
    /\ Keeps /\ job'.yes = job.yes /\ job'.no = job.no /\ job'.spend = job.spend
    /\ UNCHANGED decided
    /\ \/ job'.status = job.status /\ job'.cut = job.cut
       \/ job'.status = "completed" /\ job'.cut

\* Such a step leaves a copy of the row a copy of the row.
LEMMA CopyStays == ASSUME NEW c, Holds(c), Stays PROVE Holds(c)'
  BY Zenon DEF Holds, Stays, Keeps, StatusOK, OpFollows, BranchesOK, Rejected

\* What the sessions know of the job stays true through every session's steps.
LEMMA SessionCopies ==
    ASSUME RunInv, NEW s \in Sessions, SessionStep(s), NEW t \in Sessions
    PROVE  CopyOK(t)'
  <1>1. Types /\ job \in JobRow /\ CopyOK(t) /\ NoOwner \notin Sessions
    BY GatesAssumption DEF RunInv, Types
  <1>2. CASE t # s
    <2>1. /\ session'[t] = session[t] /\ (job' = job \/ job'.owner \in {s, NoOwner})
          /\ UNCHANGED decided
      BY <1>1, <1>2, SessionFrame
    <2>2. CASE job' = job
      <3>1. Stays
        BY <2>1, <2>2, Zenon DEF Stays, Keeps
      <3> QED BY <1>1, <2>1, <2>2, <3>1, CopyStays, Zenon DEF CopyOK, Owns
    <2>3. CASE job'.owner \in {s, NoOwner}
      BY <1>1, <1>2, <2>3 DEF CopyOK, Owns
    <2> QED BY <2>1, <2>2, <2>3
  <1>3. CASE t = s
    <2>1. CASE session'[s].pc \in {"idle", "gone"}
      BY <1>3, <2>1 DEF CopyOK
    <2>2. CASE /\ AcquireJob(s) /\ session'[s].pc = "acquired"
               /\ session'[s].copy = CopyOf(job)
      <3>1. job.status \in Acquirable /\ StatusOK(job.status)
        BY <2>2 DEF AcquireJob, RunInv, JobOK
      <3>2. Holds(CopyOf(job))
        BY <3>1 DEF Holds, CopyOf
      <3>3. Stays
        BY <1>1, <2>2 DEF AcquireJob, JobRow, Stays, Keeps
      <3>4. Holds(session[s].copy)'
        BY <2>2, <3>2, <3>3, CopyStays, Zenon
      <3> QED BY <1>3, <2>2, <3>4, Zenon DEF CopyOK
    <2>3. ASSUME NEW new \in Copy, DispatchedAs(s, new), session'[s].pc = "waiting",
                 session'[s].copy = new
          PROVE  CopyOK(t)'
      <3>1. job' = Dispatched(new)
        BY <2>3, Zenon DEF DispatchedAs
      <3>2. job'.status = "dispatched" /\ job'.rejections = new.rejections
        BY <1>1, <3>1 DEF Dispatched, JobRow
      <3> QED BY <1>3, <2>3, <3>2 DEF CopyOK
    <2>4. CASE /\ session[s].pc = "waiting" /\ Owns(s)
               /\ job' = [job EXCEPT !.status = "running"]
               /\ session'[s].pc = "busy" /\ session'[s].copy = session[s].copy
      <3>1. job'.status = "running" /\ job'.rejections = job.rejections
        BY <1>1, <2>4 DEF JobRow
      <3> QED BY <1>1, <1>3, <2>4, <3>1 DEF CopyOK
    <2>5. CASE /\ session[s].pc = "busy" /\ Owns(s) /\ RecordInterim(s)
               /\ session'[s].pc = "busy" /\ session'[s].copy = session[s].copy
      <3>1. job'.status = job.status /\ job'.rejections = job.rejections
        BY <1>1, <2>5 DEF RecordInterim, JobRow
      <3> QED BY <1>1, <1>3, <2>5, <3>1, Zenon DEF CopyOK
    <2>6. CASE ReleaseJob(s)
      <3>1. job'.owner # s
        BY <1>1, <2>6 DEF ReleaseJob, JobRow, Owns
      <3> QED BY <1>3, <3>1 DEF CopyOK, Owns
    <2> QED BY <1>1, <2>1, <2>2, <2>3, <2>4, <2>5, <2>6, SessionPositions
  <1> QED BY <1>2, <1>3

\* And through the steps of all the others.
LEMMA ActorCopies ==
    ASSUME RunInv,
           \/ \E k \in Schedulers : SchedulerStep(k)
           \/ \E o \in Operators, g \in Gate :
                ApproveWorkflow(o, g) \/ RejectWorkflow(o, g) \/ SubmitInput(o, g)
           \/ \E a \in Actors : AppendAudit(a) \/ AuditLost(a)
           \/ MarkAbandonRequested \/ TakeBackAbandon
           \/ GateTimesOut \/ JobLeaseExpires \/ PartitionLeaseExpires,
           NEW t \in Sessions
    PROVE  CopyOK(t)'
  <1>1. job \in JobRow /\ CopyOK(t) /\ NoOwner \notin Sessions
    BY GatesAssumption, Zenon DEF RunInv, Types
  <1>2. /\ UNCHANGED session
        /\ \/ job.status \in Open /\ job'.owner = job.owner
           \/ /\ Stays /\ job'.owner = job.owner
              /\ job.status \in {"dispatched", "running", "failed"} =>
                   job'.status = job.status
           \/ /\ job.status \in {"dispatched", "running"}
              /\ job' = [job EXCEPT !.status = "failed"]
           \/ job'.owner = NoOwner
    <2>1. ASSUME NEW k \in Schedulers, SchedulerStep(k) PROVE <1>2!:
      <3>1. CASE SweepExpiredApprovals(k) \/ SweepExpiredInputs(k)
        BY <1>1, <3>1 DEF SweepExpiredApprovals, SweepExpiredInputs, Decide, Open, JobRow
      <3>2. CASE AcquireAvailable(k) \/ Renew(k) \/ SchedulerStops(k)
        BY <3>2 DEF AcquireAvailable, Renew, SchedulerStops, Stays, Keeps
      <3>3. CASE MarkOrphanedJobsFailed(k)
        BY <3>3 DEF MarkOrphanedJobsFailed
      <3>4. CASE RequeueJob(k)
        BY <1>1, <3>4 DEF RequeueJob, JobRow
      <3>5. CASE SweepAbandonedJobs(k)
        BY <1>1, <3>5 DEF SweepAbandonedJobs, JobRow, Stays, Keeps
      <3> QED BY <2>1, <3>1, <3>2, <3>3, <3>4, <3>5 DEF SchedulerStep
    <2>2. ASSUME NEW o \in Operators, NEW g \in Gate,
                 ApproveWorkflow(o, g) \/ RejectWorkflow(o, g) \/ SubmitInput(o, g)
          PROVE  <1>2!:
      BY <1>1, <2>2, Zenon DEF ApproveWorkflow, RejectWorkflow, SubmitInput, Decide, Open, JobRow
    <2>3. ASSUME NEW a \in Actors, AppendAudit(a) \/ AuditLost(a) PROVE <1>2!:
      BY <2>3 DEF AppendAudit, AuditLost, Stays, Keeps
    <2>4. CASE GateTimesOut
      BY <1>1, <2>4 DEF GateTimesOut, Open, JobRow
    <2>5. CASE JobLeaseExpires \/ PartitionLeaseExpires
      BY <1>1, <2>5 DEF JobLeaseExpires, PartitionLeaseExpires, JobRow, Stays, Keeps
    <2>6. CASE MarkAbandonRequested \/ TakeBackAbandon
      BY <1>1, <2>6 DEF MarkAbandonRequested, TakeBackAbandon, JobRow, Stays, Keeps
    <2> QED BY <2>1, <2>2, <2>3, <2>4, <2>5, <2>6
  <1>4. CASE job.status \in Open /\ job'.owner = job.owner
    BY <1>1, <1>2, <1>4 DEF CopyOK, Holds, Owns, Open, Acquirable
  <1>5. CASE /\ Stays /\ job'.owner = job.owner
             /\ job.status \in {"dispatched", "running", "failed"} => job'.status = job.status
    <2>1. session'[t] = session[t] /\ job'.rejections = job.rejections
      BY <1>2, <1>5 DEF Stays, Keeps
    <2> QED BY <1>1, <1>5, <2>1, CopyStays, Zenon DEF CopyOK, Owns
  <1>6. CASE job.status \in {"dispatched", "running"} /\ job' = [job EXCEPT !.status = "failed"]
    <2>1. /\ job'.status = "failed" /\ job'.rejections = job.rejections
          /\ job'.owner = job.owner
      BY <1>1, <1>6 DEF JobRow
    <2> QED BY <1>1, <1>2, <1>6, <2>1 DEF CopyOK, Holds, Owns, Acquirable
  <1>7. CASE job'.owner = NoOwner
    BY <1>1, <1>7, Zenon DEF CopyOK, Owns
  <1> QED BY <1>2, <1>4, <1>5, <1>6, <1>7

\* Every step keeps the run, its row and its sessions together.
LEMMA NextRun == ASSUME RunInv, [Next]_vars PROVE RunInv'
  <1>1. Types'
    BY NextTypes DEF RunInv
  <1>2. CASE UNCHANGED vars
    <2>1. JobOK'
      BY <1>2, Zenon DEF vars, RunInv, JobOK, StatusOK, OpFollows, BranchesOK, Rejected
    <2>2. \A s \in Sessions : CopyOK(s)'
      <3>1. Stays /\ UNCHANGED <<job, session>>
        BY <1>2, Zenon DEF vars, Stays, Keeps
      <3> QED BY <3>1, CopyStays, Zenon DEF RunInv, CopyOK, Owns
    <2> QED BY <1>1, <2>1, <2>2 DEF RunInv
  <1>3. ASSUME NEW s \in Sessions, SessionStep(s) PROVE RunInv'
    BY <1>1, <1>3, SessionMoves, JobMoves, SessionCopies DEF RunInv
  <1>4. CASE \/ \E k \in Schedulers : SchedulerStep(k)
             \/ \E o \in Operators, g \in Gate :
                  ApproveWorkflow(o, g) \/ RejectWorkflow(o, g) \/ SubmitInput(o, g)
             \/ \E a \in Actors : AppendAudit(a) \/ AuditLost(a)
             \/ MarkAbandonRequested \/ TakeBackAbandon
             \/ GateTimesOut \/ JobLeaseExpires \/ PartitionLeaseExpires
    BY <1>1, <1>4, ActorMoves, JobMoves, ActorCopies DEF RunInv
  <1> QED BY <1>2, <1>3, <1>4 DEF Next

\* It holds of the initial state.
LEMMA InitRun == ASSUME Init PROVE RunInv
  <1>1. job.status = "pending" /\ job.op = StartOperation /\ job.gate = 0
    BY Zenon DEF Init
  <1>2. JobOK
    BY <1>1, Zenon DEF Init, JobOK, StatusOK, OpFollows, Going, Open, Resolved, StartOperation,
                NoOperation, Operation
  <1>3. \A s \in Sessions : CopyOK(s)
    BY GatesAssumption, Zenon DEF Init, CopyOK, Owns
  <1> QED BY <1>2, <1>3, InitTypes DEF RunInv

\* A run that is to go on knows with what: its operation comes from the branch
\* that the last gate's decision selects (rpcworker.go resolveBranch, DispatchJob).
THEOREM RunFollows == Spec => []RunFollowsDecision
  <1>1. RunInv => RunFollowsDecision
    BY DEF RunInv, JobOK, StatusOK, OpFollows, RunFollowsDecision, Going
  <1> QED BY <1>1, InitRun, NextRun, PTL DEF Spec

-----------------------------------------------------------------------------
(* Counting the gates.                                                     *)

\* What the row's metrics have to be when the first n of the decisions d count.
ApprovalsTo(d, n) == {g \in 1 .. n : d[g].kind = "approval"}
RejectedTo(d, n) ==
    {g \in ApprovalsTo(d, n) : d[g].decision \in {"rejected", "timed_out"}}
Count(d, n) ==
    IF ApprovalsTo(d, n) = {} THEN -1 ELSE Cardinality(RejectedTo(d, n))

\* The row counts all decided gates but the one that is still to be taken up, or that
\* a suspension ended the run at.
Uncounted ==
    /\ job.gate # 0 /\ job.gate = Len(decided)
    /\ job.status = "completed" => job.cut

CountInv ==
    job.rejections =
      Count(decided, IF Uncounted THEN Len(decided) - 1 ELSE Len(decided))

\* The rejected approvals among the first n gates are finitely many, and their
\* number is the count read as a number.
LEMMA CountedSet ==
    ASSUME NEW d, NEW n \in Nat
    PROVE  /\ IsFiniteSet(RejectedTo(d, n)) /\ Cardinality(RejectedTo(d, n)) \in Nat
           /\ ApprovalsTo(d, n) = {} => Cardinality(RejectedTo(d, n)) = 0
           /\ (IF Count(d, n) = -1 THEN 0 ELSE Count(d, n)) = Cardinality(RejectedTo(d, n))
  <1>1. IsFiniteSet(1 .. n)
    BY FS_Interval
  <1>2. RejectedTo(d, n) \subseteq 1 .. n
    BY DEF RejectedTo, ApprovalsTo
  <1>3. IsFiniteSet(RejectedTo(d, n)) /\ Cardinality(RejectedTo(d, n)) \in Nat
    BY <1>1, <1>2, FS_Subset, FS_CardinalityType
  <1>4. ASSUME ApprovalsTo(d, n) = {} PROVE Cardinality(RejectedTo(d, n)) = 0
    <2>1. RejectedTo(d, n) = {}
      BY <1>4 DEF RejectedTo
    <2> QED BY <2>1, FS_EmptySet
  <1> QED BY <1>3, <1>4 DEF Count

\* One more gate counts as recordGateOutcome has it.
LEMMA CountStep ==
    ASSUME NEW d, NEW n \in Nat
    PROVE  /\ d[n + 1].kind # "approval" => Count(d, n + 1) = Count(d, n)
           /\ d[n + 1].kind = "approval" /\ d[n + 1].decision \notin {"rejected", "timed_out"}
                => Count(d, n + 1) = IF Count(d, n) = -1 THEN 0 ELSE Count(d, n)
           /\ d[n + 1].kind = "approval" /\ d[n + 1].decision \in {"rejected", "timed_out"}
                => Count(d, n + 1) = (IF Count(d, n) = -1 THEN 0 ELSE Count(d, n)) + 1
  <1>1. 1 .. (n + 1) = (1 .. n) \cup {n + 1} /\ n + 1 \notin 1 .. n
    OBVIOUS
  <1>2. CASE d[n + 1].kind # "approval"
    <2>1. ApprovalsTo(d, n + 1) = ApprovalsTo(d, n)
      BY <1>1, <1>2, Zenon DEF ApprovalsTo
    <2> QED BY <1>2, <2>1, Zenon DEF Count, RejectedTo
  <1>3. CASE d[n + 1].kind = "approval"
    <2>1. ApprovalsTo(d, n + 1) = ApprovalsTo(d, n) \cup {n + 1}
      BY <1>1, <1>3, Zenon DEF ApprovalsTo
    <2>2. Count(d, n + 1) = Cardinality(RejectedTo(d, n + 1))
      BY <2>1 DEF Count
    <2>3. CASE d[n + 1].decision \notin {"rejected", "timed_out"}
      <3>1. RejectedTo(d, n + 1) = RejectedTo(d, n)
        BY <2>1, <2>3, Zenon DEF RejectedTo
      <3> QED BY <1>3, <2>2, <2>3, <3>1, CountedSet, Zenon
    <2>4. CASE d[n + 1].decision \in {"rejected", "timed_out"}
      <3>1. RejectedTo(d, n + 1) = RejectedTo(d, n) \cup {n + 1}
        BY <2>1, <2>4, Zenon DEF RejectedTo
      <3>2. n + 1 \notin RejectedTo(d, n)
        BY <1>1, Zenon DEF RejectedTo, ApprovalsTo
      <3>3. Cardinality(RejectedTo(d, n + 1)) = Cardinality(RejectedTo(d, n)) + 1
        BY <3>1, <3>2, CountedSet, FS_AddElement
      <3> QED BY <1>3, <2>2, <2>4, <3>3, CountedSet, Zenon
    <2> QED BY <2>3, <2>4, Zenon
  <1> QED BY <1>2, <1>3, Zenon

\* A new decision changes nothing in the count of the old ones.
LEMMA CountAppend ==
    ASSUME NEW d \in Seq(Decision), NEW x \in Decision
    PROVE  Count(Append(d, x), Len(d)) = Count(d, Len(d))
  <1>1. \A g \in 1 .. Len(d) : Append(d, x)[g] = d[g]
    OBVIOUS
  <1>2. ApprovalsTo(Append(d, x), Len(d)) = ApprovalsTo(d, Len(d))
    BY <1>1, Zenon DEF ApprovalsTo
  <1>3. RejectedTo(Append(d, x), Len(d)) = RejectedTo(d, Len(d))
    BY <1>1, <1>2, Zenon DEF RejectedTo, ApprovalsTo
  <1> QED BY <1>2, <1>3, Zenon DEF Count

\* What a worker that takes up a resolved gate writes is the count with that gate.
LEMMA TakenUpCounts ==
    ASSUME RunInv, CountInv, NEW c \in Copy, Holds(c), c.status \in Resolved
    PROVE  GateOutcome(job.rejections, c.status) = Count(decided, Len(decided))
  <1> DEFINE n == Len(decided) - 1
             last == decided[Len(decided)]
  <1>1. /\ Len(decided) = n + 1 /\ n \in Nat /\ Tells(c.status, last)
        /\ job.rejections \in Int
    BY DEF RunInv, Types, JobRow, Holds, StatusOK
  <1>2. job.rejections = Count(decided, n)
    <2>1. job.gate = Len(decided) /\ (job.status = "completed" => job.cut)
      BY DEF Holds, StatusOK, Resolved
    <2>2. Uncounted
      BY <1>1, <2>1 DEF Uncounted
    <2> QED BY <2>2 DEF CountInv
  <1>3. CASE c.status = "approved"
    <2>1. last.kind = "approval" /\ last.decision \notin {"rejected", "timed_out"}
      BY <1>1, <1>3 DEF Tells
    <2> HIDE DEF n
    <2> QED BY <1>1, <1>2, <1>3, <2>1, CountStep, Outcomes
  <1>4. CASE c.status = "rejected"
    <2>1. last.kind = "approval" /\ last.decision \in {"rejected", "timed_out"}
      BY <1>1, <1>4 DEF Tells
    <2> HIDE DEF n
    <2> QED BY <1>1, <1>2, <1>4, <2>1, CountStep, Outcomes
  <1>5. CASE c.status \in {"answered", "input_timed_out"}
    <2>1. last.kind # "approval"
      BY <1>1, <1>5, Zenon DEF Tells
    <2> HIDE DEF n
    <2> QED BY <1>1, <1>2, <1>5, <2>1, CountStep, Outcomes, Zenon
  <1> QED BY <1>3, <1>4, <1>5 DEF Resolved

\* However the run moves, the row counts what it has to.
LEMMA CountMoves == ASSUME RunInv, CountInv, RunMoved PROVE CountInv'
  <1> USE DEF Going, Open, Resolved
  <1>1. /\ decided \in Seq(Decision) /\ job.rejections \in Int /\ Len(decided) \in Nat
        /\ JobOK
    BY DEF RunInv, Types, JobRow
  <1>2. CASE Rests
    <2>1. Uncounted' <=> Uncounted
      BY <1>2, Zenon DEF Rests, Keeps, Uncounted
    <2> QED BY <1>2, <2>1, Zenon DEF Rests, Keeps, CountInv
  <1>3. CASE GoesOn
    <2>1. ~Uncounted /\ ~Uncounted'
      BY <1>1, <1>3 DEF GoesOn, Keeps, JobOK, StatusOK, Uncounted
    <2> QED BY <1>3, <2>1, Zenon DEF GoesOn, Keeps, CountInv
  <1>4. CASE Parks
    <2>1. ~Uncounted /\ ~Uncounted'
      BY <1>1, <1>4 DEF Parks, NextGate, JobOK, StatusOK, Uncounted
    <2> QED BY <1>4, <2>1, Zenon DEF Parks, CountInv
  <1>5. CASE Cuts
    <2>1. Uncounted' <=> Uncounted
      BY <1>5, Zenon DEF Cuts, Keeps, Uncounted
    <2> QED BY <1>5, <2>1, Zenon DEF Cuts, Keeps, CountInv
  <1>6. ASSUME NEW c \in Copy, TakesUp(c) PROVE CountInv'
    <2>1. Holds(c) /\ job'.rejections = GateOutcome(job.rejections, c.status)
          /\ UNCHANGED decided
      BY <1>6 DEF TakesUp
    <2>2. GateOutcome(job.rejections, c.status) = Count(decided, Len(decided))
      <3>1. CASE c.status \in Resolved
        BY <2>1, <3>1, TakenUpCounts
      <3>2. CASE c.status \notin Resolved
        <4>1. job.gate = 0
          BY <2>1, <3>2 DEF Holds, StatusOK, Acquirable
        <4> QED BY <1>1, <3>2, <4>1, Outcomes DEF CountInv, Uncounted
      <3> QED BY <3>1, <3>2
    <2>3. ~Uncounted'
      BY <1>6 DEF TakesUp, Uncounted
    <2> QED BY <2>1, <2>2, <2>3, Zenon DEF CountInv
  <1>7. ASSUME NEW d \in Decision, Resolves(d) PROVE CountInv'
    <2>1. /\ decided' = Append(decided, d) /\ job'.rejections = job.rejections
          /\ job.gate = Len(decided) + 1 /\ job'.gate = job.gate
          /\ job'.status # "completed"
      BY <1>1, <1>7 DEF Resolves, Keeps, JobOK, StatusOK
    <2>2. Len(decided') - 1 = Len(decided) /\ ~Uncounted /\ Uncounted'
      BY <1>1, <2>1 DEF Uncounted
    <2> QED BY <1>1, <2>1, <2>2, CountAppend DEF CountInv
  <1> QED BY <1>2, <1>3, <1>4, <1>5, <1>6, <1>7 DEF RunMoved

\* What the row has to count are the gates the property speaks of.
LEMMA CountedGates == ASSUME RunInv, CountInv PROVE GatesCountedOnce
  <1> DEFINE n == IF Uncounted THEN Len(decided) - 1 ELSE Len(decided)
  <1>1. /\ Len(decided) \in Nat /\ job.gate \in Int
        /\ job.gate \in {0, Len(decided), Len(decided) + 1}
    BY GatesAssumption DEF RunInv, Types, JobRow, JobOK
  <1>2. Counted = 1 .. n
    BY <1>1 DEF Counted, Uncounted
  <1>3. {g \in Counted : decided[g].kind = "approval"} = ApprovalsTo(decided, n)
    BY <1>2, Zenon DEF ApprovalsTo
  <1>4. {g \in ApprovalsTo(decided, n) : Rejected(g)} = RejectedTo(decided, n)
    BY Zenon DEF RejectedTo, Rejected
  <1>5. job.rejections = Count(decided, n)
    BY DEF CountInv
  <1> QED BY <1>3, <1>4, <1>5, Zenon DEF GatesCountedOnce, Count

\* Every gate a worker took up is counted once, in every reachable state, and a
\* gate at which a suspension ended the run is not counted: GatesCountedOnce
\* (rpcworker.go recordGateOutcome, DispatchJob, suspendOperation; job.go
\* SweepAbandonedJobs, which may end a run under a session that is held up).
THEOREM GatesCounted == Spec => []GatesCountedOnce
  <1>1. Init => RunInv /\ CountInv
    <2> SUFFICES ASSUME Init PROVE CountInv
      BY InitRun
    <2>1. decided = <<>> /\ job.rejections = -1 /\ job.gate = 0
      BY Zenon DEF Init
    <2>2. ApprovalsTo(decided, Len(decided)) = {}
      BY <2>1 DEF ApprovalsTo
    <2> QED BY <2>1, <2>2 DEF CountInv, Count, Uncounted
  <1>2. RunInv /\ CountInv /\ [Next]_vars => (RunInv /\ CountInv)'
    <2> SUFFICES ASSUME RunInv, CountInv, [Next]_vars PROVE CountInv'
      BY NextRun, Zenon
    <2>1. CASE UNCHANGED vars
      BY <2>1, Zenon DEF vars, CountInv, Uncounted
    <2>2. ASSUME NEW s \in Sessions, SessionStep(s) PROVE CountInv'
      BY <2>2, SessionMoves, CountMoves
    <2>3. CASE \/ \E k \in Schedulers : SchedulerStep(k)
               \/ \E o \in Operators, g \in Gate :
                    ApproveWorkflow(o, g) \/ RejectWorkflow(o, g) \/ SubmitInput(o, g)
               \/ \E a \in Actors : AppendAudit(a) \/ AuditLost(a)
               \/ MarkAbandonRequested \/ TakeBackAbandon
               \/ GateTimesOut \/ JobLeaseExpires \/ PartitionLeaseExpires
      BY <2>3, ActorMoves, CountMoves, Zenon
    <2> QED BY <2>1, <2>2, <2>3, Zenon DEF Next
  <1> QED BY <1>1, <1>2, CountedGates, PTL DEF Spec

-----------------------------------------------------------------------------
(* The audit events.  A decision is set by a statement that only one of    *)
(* the racing callers can win, so a gate's event is with one of them or in *)
(* the log, and is never made again.                                       *)

\* Event e tells the decision of one of the gates in d.
ToldIn(d, e) == e.gate \in 1 .. Len(d) /\ e.decision = d[e.gate].decision

AuditInv ==
    /\ \A a \in Actors : pending[a] # <<>> => ToldIn(decided, pending[a][1])
    /\ \A i \in DOMAIN audit : ToldIn(decided, audit[i])
    /\ \A a, b \in Actors :
         /\ pending[a] # <<>> /\ pending[b] # <<>>
         /\ pending[a][1].gate = pending[b][1].gate
         => a = b
    /\ \A a \in Actors, i \in DOMAIN audit :
         pending[a] # <<>> => pending[a][1].gate # audit[i].gate
    /\ \A i, j \in DOMAIN audit : audit[i].gate = audit[j].gate => i = j

\* What a step does to the events: some callers forget theirs, one decides a
\* gate, or one appends its event to the log.
Forgets ==
    /\ \A a \in Actors : pending'[a] \in {pending[a], <<>>}
    /\ UNCHANGED <<decided, audit>>

Decides(a, d) ==
    /\ decided' = Append(decided, d)
    /\ pending' = [pending EXCEPT ![a] = <<[gate |-> Len(decided) + 1,
                                            decision |-> d.decision]>>]
    /\ UNCHANGED audit

Logs(a) ==
    /\ pending[a] # <<>>
    /\ audit' = Append(audit, pending[a][1])
    /\ pending' = [pending EXCEPT ![a] = <<>>]
    /\ UNCHANGED decided

AuditMoved ==
    \/ Forgets
    \/ \E a \in Actors, d \in Decision : Decides(a, d)
    \/ \E a \in Actors : Logs(a)

\* The steps outside the sessions move the events in one of these ways.
LEMMA ActorEvents ==
    ASSUME RunInv,
           \/ \E k \in Schedulers : SchedulerStep(k)
           \/ \E o \in Operators, g \in Gate :
                ApproveWorkflow(o, g) \/ RejectWorkflow(o, g) \/ SubmitInput(o, g)
           \/ \E a \in Actors : AppendAudit(a) \/ AuditLost(a)
           \/ MarkAbandonRequested \/ TakeBackAbandon
           \/ GateTimesOut \/ JobLeaseExpires \/ PartitionLeaseExpires
    PROVE  AuditMoved
  <1>1. pending \in [Actors -> Seq(Event)]
    BY DEF RunInv, Types
  <1>2. ASSUME NEW a \in Actors, NEW kind \in Kinds, NEW t, NEW c \in Decisions,
               Decide(a, kind, t, c), job.status \in Open
        PROVE  AuditMoved
    <2> DEFINE d == [kind |-> kind, decision |-> c]
    <2>1. d \in Decision /\ d.decision = c
      BY DEF Decision
    <2>2. job.gate = Len(decided) + 1
      BY <1>2, Zenon DEF RunInv, JobOK, StatusOK
    <2>3. Decides(a, d)
      BY <1>2, <2>1, <2>2 DEF Decide, Decides
    <2> HIDE DEF d
    <2> QED BY <2>1, <2>3, Zenon DEF AuditMoved
  <1>3. ASSUME NEW k \in Schedulers, SchedulerStep(k) PROVE AuditMoved
    <2>1. <<k, "approval">> \in Actors /\ <<k, "input">> \in Actors
      BY DEF Actors, Kinds
    <2>2. CASE SweepExpiredApprovals(k)
      BY <1>2, <2>1, <2>2, Zenon DEF SweepExpiredApprovals, Kinds, Decisions, Open
    <2>3. CASE SweepExpiredInputs(k)
      BY <1>2, <2>1, <2>3, Zenon DEF SweepExpiredInputs, Kinds, Decisions, Open
    <2>4. CASE \/ AcquireAvailable(k) \/ Renew(k) \/ MarkOrphanedJobsFailed(k)
               \/ RequeueJob(k) \/ SweepAbandonedJobs(k)
      <3>1. UNCHANGED <<pending, decided, audit>>
        BY <2>4, Zenon DEF AcquireAvailable, Renew, MarkOrphanedJobsFailed, RequeueJob,
                           SweepAbandonedJobs
      <3> QED BY <3>1, Zenon DEF AuditMoved, Forgets
    <2>5. CASE SchedulerStops(k)
      <3>1. Forgets
        BY <1>1, <2>5, Zenon DEF SchedulerStops, Forgets
      <3> QED BY <3>1, Zenon DEF AuditMoved
    <2> QED BY <1>3, <2>2, <2>3, <2>4, <2>5, Zenon DEF SchedulerStep
  <1>4. ASSUME NEW o \in Operators, NEW g \in Gate,
               ApproveWorkflow(o, g) \/ RejectWorkflow(o, g) \/ SubmitInput(o, g)
        PROVE  AuditMoved
    <2>1. o \in Actors
      BY DEF Actors
    <2> QED BY <1>2, <1>4, <2>1, Zenon
            DEF ApproveWorkflow, RejectWorkflow, SubmitInput, Kinds, Decisions, Open
  <1>5. ASSUME NEW a \in Actors, AppendAudit(a) \/ AuditLost(a) PROVE AuditMoved
    <2>1. CASE AppendAudit(a)
      BY <2>1, Zenon DEF AppendAudit, AuditMoved, Logs
    <2>2. CASE AuditLost(a)
      <3>1. Forgets
        BY <1>1, <2>2, Zenon DEF AuditLost, Forgets
      <3> QED BY <3>1 DEF AuditMoved
    <2> QED BY <1>5, <2>1, <2>2
  <1>6. CASE \/ MarkAbandonRequested \/ TakeBackAbandon
             \/ GateTimesOut \/ JobLeaseExpires \/ PartitionLeaseExpires
    <2>1. UNCHANGED <<pending, decided, audit>>
      BY <1>6, Zenon DEF MarkAbandonRequested, TakeBackAbandon, GateTimesOut,
                         JobLeaseExpires, PartitionLeaseExpires
    <2> QED BY <2>1, Zenon DEF AuditMoved, Forgets
  <1> QED BY <1>3, <1>4, <1>5, <1>6

\* However the events move, each gate's stays in one place.
LEMMA EventsStay ==
    ASSUME Types, AuditInv, AuditMoved
    PROVE  AuditInv'
  <1>1. /\ pending \in [Actors -> Seq(Event)] /\ audit \in Seq(Event)
        /\ decided \in Seq(Decision) /\ Len(decided) \in Nat
    BY DEF Types
  <1>2. CASE Forgets
    <2>1. /\ \A a \in Actors : pending'[a] # <<>> => pending[a] # <<>> /\ pending'[a] = pending[a]
          /\ decided' = decided /\ audit' = audit
      BY <1>2 DEF Forgets
    <2> QED BY <2>1 DEF AuditInv
  <1>3. ASSUME NEW a \in Actors, NEW d \in Decision, Decides(a, d) PROVE AuditInv'
    <2> DEFINE e == [gate |-> Len(decided) + 1, decision |-> d.decision]
    <2>1. /\ pending'[a] = <<e>> /\ pending'[a][1] = e /\ audit' = audit
          /\ \A b \in Actors \ {a} : pending'[b] = pending[b]
      BY <1>1, <1>3, Zenon DEF Decides
    <2>2. ToldIn(decided', e)
      BY <1>1, <1>3, SMT DEF Decides, ToldIn
    <2>3. \A x : ToldIn(decided, x) => ToldIn(decided', x) /\ x.gate # e.gate
      BY <1>1, <1>3 DEF Decides, ToldIn
    <2> HIDE DEF e
    <2>4. \A b \in Actors :
            pending'[b] # <<>> =>
              \/ b = a /\ pending'[b][1] = e
              \/ b # a /\ pending'[b] = pending[b] /\ ToldIn(decided, pending'[b][1])
      BY <2>1, Zenon DEF AuditInv
    <2>5. \A i \in DOMAIN audit' : ToldIn(decided, audit'[i])
      BY <2>1, Zenon DEF AuditInv
    <2>6. /\ \A b \in Actors : pending'[b] # <<>> => ToldIn(decided', pending'[b][1])
          /\ \A i \in DOMAIN audit' : ToldIn(decided', audit'[i])
      BY <2>2, <2>3, <2>4, <2>5, Zenon
    <2>7. \A b, c \in Actors :
            /\ pending'[b] # <<>> /\ pending'[c] # <<>>
            /\ pending'[b][1].gate = pending'[c][1].gate
            => b = c
      BY <2>3, <2>4, ZenonT(60) DEF AuditInv
    <2>8. \A b \in Actors, i \in DOMAIN audit' :
            pending'[b] # <<>> => pending'[b][1].gate # audit'[i].gate
      BY <2>1, <2>3, <2>4, <2>5 DEF AuditInv
    <2> QED BY <2>1, <2>6, <2>7, <2>8, Zenon DEF AuditInv
  <1>4. ASSUME NEW a \in Actors, Logs(a) PROVE AuditInv'
    <2> DEFINE e == pending[a][1]
               n == Len(audit) + 1
    <2>1. /\ decided' = decided /\ pending[a] # <<>> /\ pending'[a] = <<>>
          /\ \A b \in Actors \ {a} : pending'[b] = pending[b]
      BY <1>1, <1>4 DEF Logs
    <2>2. e \in Event
      BY <1>1, <2>1
    <2>3. /\ DOMAIN audit' = DOMAIN audit \cup {n} /\ audit'[n] = e /\ n \notin DOMAIN audit
          /\ \A i \in DOMAIN audit : audit'[i] = audit[i]
      BY <1>1, <1>4, <2>2 DEF Logs
    <2>4. /\ ToldIn(decided, e)
          /\ \A i \in DOMAIN audit : e.gate # audit[i].gate
          /\ \A b \in Actors \ {a} : pending[b] # <<>> => pending[b][1].gate # e.gate
      BY <2>1, Zenon DEF AuditInv
    <2> HIDE DEF e, n
    <2>5. /\ \A b \in Actors : pending'[b] # <<>> => ToldIn(decided', pending'[b][1])
          /\ \A i \in DOMAIN audit' : ToldIn(decided', audit'[i])
      BY <2>1, <2>3, <2>4, Zenon DEF AuditInv
    <2>6. \A b, c \in Actors :
            /\ pending'[b] # <<>> /\ pending'[c] # <<>>
            /\ pending'[b][1].gate = pending'[c][1].gate
            => b = c
      <3>1. \A b \in Actors : pending'[b] # <<>> => pending[b] # <<>> /\ pending'[b] = pending[b]
        BY <2>1, Zenon
      <3> QED BY <3>1, Zenon DEF AuditInv
    <2>7. \A b \in Actors, i \in DOMAIN audit' :
            pending'[b] # <<>> => pending'[b][1].gate # audit'[i].gate
      BY <2>1, <2>3, <2>4 DEF AuditInv
    <2>8. \A i, j \in DOMAIN audit' : audit'[i].gate = audit'[j].gate => i = j
      BY <2>3, <2>4, ZenonT(60) DEF AuditInv
    <2> QED BY <2>5, <2>6, <2>7, <2>8, Zenon DEF AuditInv
  <1> QED BY <1>2, <1>3, <1>4 DEF AuditMoved

\* At most one decision of a gate is in the audit log and it is the one the run
\* went on with: AuditTellsDecision (job.go ResolveApproval,
\* SweepExpiredApprovals and the appends that follow them).
THEOREM AuditTells == Spec => []AuditTellsDecision
  <1>1. Init => RunInv /\ AuditInv
    <2> SUFFICES ASSUME Init PROVE AuditInv
      BY InitRun
    <2>1. audit = <<>> /\ \A a \in Actors : pending[a] = <<>>
      BY Zenon DEF Init
    <2> QED BY <2>1 DEF AuditInv
  <1>2. RunInv /\ AuditInv /\ [Next]_vars => (RunInv /\ AuditInv)'
    <2> SUFFICES ASSUME RunInv, AuditInv, [Next]_vars PROVE AuditInv'
      BY NextRun
    <2>1. Types
      BY DEF RunInv
    <2>2. CASE UNCHANGED <<decided, pending, audit>>
      BY <2>2, Zenon DEF AuditInv
    <2>3. ASSUME NEW s \in Sessions, SessionStep(s) PROVE AuditInv'
      BY <2>1, <2>2, <2>3, SessionFrame
    <2>4. CASE \/ \E k \in Schedulers : SchedulerStep(k)
               \/ \E o \in Operators, g \in Gate :
                    ApproveWorkflow(o, g) \/ RejectWorkflow(o, g) \/ SubmitInput(o, g)
               \/ \E a \in Actors : AppendAudit(a) \/ AuditLost(a)
               \/ MarkAbandonRequested \/ TakeBackAbandon
               \/ GateTimesOut \/ JobLeaseExpires \/ PartitionLeaseExpires
      BY <2>1, <2>4, ActorEvents, EventsStay
    <2>5. CASE UNCHANGED vars
      BY <2>2, <2>5 DEF vars
    <2> QED BY <2>3, <2>4, <2>5 DEF Next
  <1>3. AuditInv => AuditTellsDecision
    BY Zenon DEF AuditInv, AuditTellsDecision, ToldIn
  <1> QED BY <1>1, <1>2, <1>3, PTL DEF Spec

-----------------------------------------------------------------------------
(* The spend.  A session that owns the job and has dispatched it writes    *)
(* the total it found and what the operation has spent since, so the row   *)
(* moves with the last of the operations that landed and with no other.    *)

Starts ==
    /\ Len(landed) < MaxDispatches
    /\ landed' = Append(landed, 0) /\ job'.spend = job.spend

Reports(x) ==
    /\ landed # <<>>
    /\ landed' = [landed EXCEPT ![Len(landed)] = x]
    /\ job'.spend = job.spend - landed[Len(landed)] + x

\* What a step does to the spend on the row: nothing, or a new operation starts
\* with nothing spent, or the last operation's report replaces the one before it.
SpendMoved ==
    \/ landed' = landed /\ job'.spend = job.spend
    \/ Starts
    \/ \E x \in 0 .. MaxSpend : Reports(x)

SpendBound ==
    /\ Len(landed) <= MaxDispatches
    /\ landed = <<>> => job.spend = 0
    /\ landed # <<>> =>
         /\ landed[Len(landed)] <= MaxSpend
         /\ job.spend <= MaxSpend * (Len(landed) - 1) + landed[Len(landed)]

\* The session that owns the job knows what is on the row.
SpendOK(s) ==
    Owns(s) =>
      /\ session[s].pc = "acquired" => session[s].thisOp = 0
      /\ session[s].pc \in {"waiting", "busy"} =>
           /\ landed # <<>> /\ session[s].dispatch = Len(landed)
           /\ landed[Len(landed)] = session[s].thisOp
           /\ job.spend = session[s].copy.spend + session[s].thisOp

SpendInv == RunInv /\ SpendBound /\ \A s \in Sessions : SpendOK(s)

\* The totals stay within what the operations so far can have spent.
LEMMA SpendStays ==
    ASSUME Types, SpendBound, SpendMoved
    PROVE  SpendBound'
  <1>1. /\ landed \in Seq(Nat) /\ Len(landed) \in Nat /\ job.spend \in Nat
        /\ MaxSpend \in Nat /\ MaxDispatches \in Nat
    <2>1. landed \in Seq(Nat) /\ job.spend \in Nat
      BY Zenon DEF Types, JobRow
    <2>2. MaxSpend \in Nat /\ MaxDispatches \in Nat
      BY GatesAssumption, Zenon
    <2> QED BY <2>1, <2>2
  <1>2. CASE landed' = landed /\ job'.spend = job.spend
    BY <1>2 DEF SpendBound
  <1>3. CASE Starts
    <2>1. /\ landed' # <<>> /\ Len(landed') = Len(landed) + 1 /\ landed'[Len(landed')] = 0
          /\ job'.spend = job.spend /\ Len(landed') <= MaxDispatches
      BY <1>1, <1>3 DEF Starts
    <2>2. job.spend <= MaxSpend * Len(landed)
      <3>1. CASE landed = <<>>
        BY <1>1, <3>1 DEF SpendBound
      <3>2. CASE landed # <<>>
        <4>1. landed[Len(landed)] \in Nat
          BY <1>1, <3>2
        <4>2. MaxSpend * (Len(landed) - 1) + MaxSpend = MaxSpend * Len(landed)
          BY <1>1
        <4>3. MaxSpend * (Len(landed) - 1) \in Int /\ MaxSpend * Len(landed) \in Int
          BY <1>1
        <4> QED BY <1>1, <3>2, <4>1, <4>2, <4>3 DEF SpendBound
      <3> QED BY <3>1, <3>2
    <2>3. MaxSpend * (Len(landed') - 1) + landed'[Len(landed')] = MaxSpend * Len(landed)
      BY <1>1, <2>1
    <2> QED BY <1>1, <2>1, <2>2, <2>3 DEF SpendBound
  <1>4. ASSUME NEW x \in 0 .. MaxSpend, Reports(x) PROVE SpendBound'
    <2>1. /\ landed # <<>> /\ landed' # <<>> /\ Len(landed') = Len(landed)
          /\ landed'[Len(landed')] = x /\ landed[Len(landed)] \in Nat
          /\ job'.spend = job.spend - landed[Len(landed)] + x
      BY <1>1, <1>4 DEF Reports
    <2> DEFINE past == MaxSpend * (Len(landed) - 1)
    <2>2. past \in Int
      BY <1>1
    <2>3. Len(landed) <= MaxDispatches /\ job.spend <= past + landed[Len(landed)]
      BY <2>1, Zenon DEF SpendBound
    <2>4. MaxSpend * (Len(landed') - 1) + landed'[Len(landed')] = past + x
      BY <2>1, Zenon
    <2> HIDE DEF past
    <2>5. x <= MaxSpend /\ job'.spend <= past + x
      BY <1>1, <1>4, <2>1, <2>2, <2>3, SMT
    <2> QED BY <2>1, <2>3, <2>4, <2>5, Zenon DEF SpendBound
  <1> QED BY <1>2, <1>3, <1>4, Zenon DEF SpendMoved

\* A session's steps move the spend in one of these ways.
LEMMA SessionSpends ==
    ASSUME SpendInv, NEW s \in Sessions, SessionStep(s)
    PROVE  SpendMoved
  <1>1. /\ Types /\ job \in JobRow /\ landed \in Seq(Nat) /\ SpendOK(s) /\ CopyOK(s)
        /\ MaxSpend \in Nat /\ job.spend \in Nat
    BY GatesAssumption, Zenon DEF SpendInv, RunInv, Types, JobRow
  <1>2. /\ session[s].copy.spend \in Nat /\ session[s].thisOp \in 0 .. MaxSpend
        /\ session[s].thisOp \in Nat
    BY <1>1, Rows, SessionSpend, Zenon DEF SessionRow
  <1>3. ASSUME session[s].pc = "acquired", Owns(s)
        PROVE  AgentMetrics(s, session[s].thisOp) = job.spend
    <2>1. session[s].thisOp = 0 /\ session[s].copy.spend = job.spend
      BY <1>1, <1>3, Zenon DEF SpendOK, CopyOK, Holds
    <2> QED BY <1>1, <2>1 DEF AgentMetrics
  <1>4. ASSUME NEW x \in 0 .. MaxSpend, session[s].pc = "busy", Owns(s),
               job'.spend = AgentMetrics(s, x),
               landed' = [landed EXCEPT ![session[s].dispatch] = x]
        PROVE  SpendMoved
    <2>1. /\ landed # <<>> /\ session[s].dispatch = Len(landed)
          /\ landed[Len(landed)] = session[s].thisOp
          /\ job.spend = session[s].copy.spend + session[s].thisOp
      BY <1>1, <1>4, Zenon DEF SpendOK
    <2>2. job'.spend = job.spend - landed[Len(landed)] + x
      <3>1. job'.spend = session[s].copy.spend + x
        BY <1>4, Zenon DEF AgentMetrics
      <3> QED BY <1>2, <1>4, <2>1, <3>1, SMT
    <2>3. Reports(x)
      BY <1>4, <2>1, <2>2, Zenon DEF Reports
    <2> QED BY <2>3 DEF SpendMoved
  <1>5. CASE AcquireJob(s) \/ ReleaseJob(s) \/ StreamEnds(s) \/ SessionDies(s)
    <2>1. landed' = landed /\ job'.spend = job.spend
      BY <1>1, <1>5, ZenonT(60) DEF AcquireJob, ReleaseJob, StreamEnds, SessionDies, JobRow
    <2> QED BY <2>1, Zenon DEF SpendMoved
  <1>6. CASE SendFails(s) \/ AckLaunch(s)
    <2>1. landed' = landed /\ job'.spend = job.spend
      BY <1>1, <1>6, Zenon DEF SendFails, AckLaunch, JobRow
    <2> QED BY <2>1 DEF SpendMoved
  <1>7. CASE DispatchJob(s)
    <2>1. CASE UNCHANGED <<job, landed>>
      BY <2>1 DEF SpendMoved
    <2>2. CASE Owns(s) /\ \E new \in Copy : DispatchedAs(s, new)
      <3>1. PICK new \in Copy : DispatchedAs(s, new)
        BY <2>2
      <3>2. /\ job' = Dispatched(new) /\ landed' = Append(landed, 0)
            /\ Len(landed) < MaxDispatches
            /\ new.spend = AgentMetrics(s, session[s].thisOp)
        BY <3>1, Zenon DEF DispatchedAs
      <3>3. job'.spend = new.spend
        BY <1>1, <3>2 DEF Dispatched, JobRow
      <3>4. session[s].pc = "acquired"
        BY <1>1, <1>7, Dispatches, Zenon
      <3>5. job'.spend = job.spend
        BY <1>3, <2>2, <3>2, <3>3, <3>4, Zenon
      <3> QED BY <3>2, <3>5, Zenon DEF SpendMoved, Starts
    <2> QED BY <1>1, <1>7, <2>1, <2>2, Dispatches, Zenon
  <1>8. CASE RecordInterim(s)
    <2>1. CASE ~Owns(s)
      BY <1>8, <2>1 DEF RecordInterim, SpendMoved
    <2>2. CASE Owns(s)
      <3> DEFINE x == session[s].thisOp + 1
      <3>1. /\ session[s].pc = "busy" /\ session[s].thisOp < MaxSpend
            /\ job' = [job EXCEPT !.spend = AgentMetrics(s, x)]
            /\ landed' = [landed EXCEPT ![session[s].dispatch] = x]
        BY <1>8, <2>2, Zenon DEF RecordInterim
      <3>2. x \in 0 .. MaxSpend
        BY <1>1, <1>2, <3>1
      <3> HIDE DEF x
      <3>3. job'.spend = AgentMetrics(s, x)
        BY <1>1, <3>1 DEF JobRow
      <3> QED BY <1>4, <2>2, <3>1, <3>2, <3>3, Zenon
    <2> QED BY <2>1, <2>2
  <1>9. ASSUME NEW j \in JobRow, EndedBy(s, j) PROVE SpendMoved
    <2>1. CASE ~Owns(s)
      BY <1>9, <2>1, Zenon DEF EndedBy, SpendMoved
    <2>2. CASE Owns(s)
      <3>1. PICK x \in session[s].thisOp .. MaxSpend :
              /\ job' = EndedJob(j, AgentMetrics(s, x), session[s].copy.rejections)
              /\ landed' = [landed EXCEPT ![session[s].dispatch] = x]
        BY <1>9, <2>2, Zenon DEF EndedBy
      <3>2. x \in 0 .. MaxSpend /\ session[s].pc = "busy"
        <4>1. session[s].pc = "busy"
          BY <1>9, Zenon DEF EndedBy
        <4> QED BY <1>1, <1>2, <4>1, SMT
      <3>3. job'.spend = AgentMetrics(s, x)
        BY <3>1 DEF EndedJob, JobRow
      <3> QED BY <1>4, <2>2, <3>1, <3>2, <3>3, Zenon
    <2> QED BY <2>1, <2>2
  <1>10. ASSUME NEW acted, NEW suspended \in BOOLEAN,
                \/ AdvanceJob(s, acted) \/ CompleteJob(s, acted) \/ FailJob(s)
                \/ StopOperation(s, suspended)
         PROVE  SpendMoved
    <2>1. \A t \in Statuses : [job EXCEPT !.status = t] \in JobRow
      BY <1>1, Zenon DEF JobRow
    <2> QED BY <1>1, <1>9, <1>10, <2>1, Endings, StoppedFields, Zenon DEF Statuses, Going
  <1>11. ASSUME NEW kind \in Kinds, NEW yes, NEW no, NEW acted,
                ParkForGate(s, kind, yes, no, acted)
         PROVE  SpendMoved
    BY <1>1, <1>9, <1>11, Endings, ParkedFields, Zenon
  <1>12. CASE CompleteBranch(s) \/ SuspendAcquired(s)
    <2>1. PICK r \in Int, suspended \in BOOLEAN : EndAcquired(s, r, suspended)
      BY <1>1, <1>12, AcquiredEnds, Zenon
    <2>2. session[s].pc = "acquired"
      BY <1>1, <1>12, AcquiredEnds, Zenon
    <2>3. CASE ~Owns(s)
      BY <2>1, <2>3 DEF EndAcquired, SpendMoved
    <2>4. CASE Owns(s)
      <3>1. landed' = landed /\ job'.spend = AgentMetrics(s, session[s].thisOp)
        BY <1>1, <2>1, <2>4 DEF EndAcquired, JobRow
      <3> QED BY <1>3, <2>2, <2>4, <3>1, Zenon DEF SpendMoved
    <2> QED BY <2>3, <2>4
  <1> QED BY <1>5, <1>6, <1>7, <1>8, <1>10, <1>11, <1>12, Zenon DEF SessionStep

\* What the sessions know of the spend stays true through every session's steps.
LEMMA SessionTotals ==
    ASSUME SpendInv, NEW s \in Sessions, SessionStep(s), NEW t \in Sessions
    PROVE  SpendOK(t)'
  <1>1. /\ Types /\ job \in JobRow /\ landed \in Seq(Nat) /\ SpendOK(t) /\ CopyOK(t)
        /\ NoOwner \notin Sessions /\ job.spend \in Nat
    BY GatesAssumption, Zenon DEF SpendInv, RunInv, Types, JobRow
  <1>2. CASE t # s
    <2>1. /\ session'[t] = session[t]
          /\ UNCHANGED <<job, landed>> \/ job'.owner \in {s, NoOwner}
      BY <1>1, <1>2, SessionFrame, Zenon
    <2>2. CASE UNCHANGED <<job, landed>>
      BY <1>1, <2>1, <2>2, Zenon DEF SpendOK, Owns
    <2>3. CASE job'.owner \in {s, NoOwner}
      BY <1>1, <1>2, <2>3, Zenon DEF SpendOK, Owns
    <2> QED BY <2>1, <2>2, <2>3, Zenon
  <1>3. CASE t = s
    <2>1. CASE session'[s].pc \in {"idle", "gone"}
      BY <1>3, <2>1, Zenon DEF SpendOK
    <2>2. CASE session'[s].pc = "acquired" /\ session'[s].thisOp = 0
      BY <1>3, <2>2, Zenon DEF SpendOK
    <2>3. ASSUME NEW new \in Copy, session[s].pc = "acquired", Owns(s),
                 DispatchedAs(s, new), session'[s].pc = "waiting",
                 session'[s].copy = new, session'[s].thisOp = session[s].thisOp,
                 session'[s].dispatch = Len(landed) + 1
          PROVE  SpendOK(t)'
      <3>1. /\ job' = Dispatched(new) /\ landed' = Append(landed, 0)
        BY <2>3, Zenon DEF DispatchedAs
      <3>2. job'.spend = new.spend /\ new.spend \in Nat
        BY <1>1, <3>1, Zenon DEF Dispatched, JobRow, Copy
      <3>3. session[s].thisOp = 0
        BY <1>1, <1>3, <2>3, Zenon DEF SpendOK
      <3>4. /\ landed' # <<>> /\ Len(landed') = Len(landed) + 1 /\ landed'[Len(landed')] = 0
        BY <1>1, <3>1
      <3>5. job'.spend = session'[s].copy.spend + session'[s].thisOp
        BY <2>3, <3>2, <3>3
      <3> QED BY <1>3, <2>3, <3>3, <3>4, <3>5, Zenon DEF SpendOK
    <2>4. CASE /\ session[s].pc = "waiting" /\ Owns(s) /\ UNCHANGED landed
               /\ job' = [job EXCEPT !.status = "running"]
               /\ session'[s].pc = "busy" /\ session'[s].copy = session[s].copy
               /\ session'[s].thisOp = session[s].thisOp
               /\ session'[s].dispatch = session[s].dispatch
      <3>1. job'.spend = job.spend
        BY <1>1, <2>4 DEF JobRow
      <3> QED BY <1>1, <1>3, <2>4, <3>1 DEF SpendOK
    <2>5. CASE /\ session[s].pc = "busy" /\ Owns(s) /\ RecordInterim(s)
               /\ session'[s].pc = "busy" /\ session'[s].copy = session[s].copy
               /\ session'[s].thisOp = session[s].thisOp + 1
               /\ session'[s].dispatch = session[s].dispatch
      <3>1. /\ landed # <<>> /\ session[s].dispatch = Len(landed)
            /\ session[s].thisOp \in Nat
        BY <1>1, <1>3, <2>5, SessionSpend, Zenon DEF SpendOK
      <3>2. /\ landed' = [landed EXCEPT ![Len(landed)] = session[s].thisOp + 1]
            /\ job' = [job EXCEPT !.spend = session[s].copy.spend + (session[s].thisOp + 1)]
        BY <2>5, <3>1, Zenon DEF RecordInterim, AgentMetrics
      <3>3. /\ landed' # <<>> /\ Len(landed') = Len(landed)
            /\ landed'[Len(landed')] = session[s].thisOp + 1
        BY <1>1, <3>1, <3>2
      <3>4. job'.spend = session[s].copy.spend + (session[s].thisOp + 1)
        BY <1>1, <3>2 DEF JobRow
      <3> QED BY <1>3, <2>5, <3>1, <3>3, <3>4, Zenon DEF SpendOK
    <2>6. CASE ReleaseJob(s)
      <3>1. job'.owner # s
        BY <1>1, <2>6 DEF ReleaseJob, JobRow, Owns
      <3> QED BY <1>3, <3>1 DEF SpendOK, Owns
    <2> QED BY <1>1, <2>1, <2>2, <2>3, <2>4, <2>5, <2>6, SessionPositions, Zenon
  <1> QED BY <1>2, <1>3

\* The steps of all the others leave the spend and the sessions alone.
LEMMA ActorTotals ==
    ASSUME Types,
           \/ \E k \in Schedulers : SchedulerStep(k)
           \/ \E o \in Operators, g \in Gate :
                ApproveWorkflow(o, g) \/ RejectWorkflow(o, g) \/ SubmitInput(o, g)
           \/ \E a \in Actors : AppendAudit(a) \/ AuditLost(a)
           \/ MarkAbandonRequested \/ TakeBackAbandon
           \/ GateTimesOut \/ JobLeaseExpires \/ PartitionLeaseExpires
    PROVE  /\ UNCHANGED <<session, landed>> /\ job'.spend = job.spend
           /\ job'.owner \in {job.owner, NoOwner}
  <1>1. job \in JobRow
    BY DEF Types
  <1> DEFINE Alone == /\ UNCHANGED <<session, landed>> /\ job'.spend = job.spend
                      /\ job'.owner \in {job.owner, NoOwner}
  <1>2. ASSUME NEW k \in Schedulers, SchedulerStep(k) PROVE Alone
    <2>1. CASE SweepExpiredApprovals(k) \/ SweepExpiredInputs(k)
      BY <1>1, <2>1 DEF SweepExpiredApprovals, SweepExpiredInputs, Decide, JobRow
    <2>2. CASE AcquireAvailable(k) \/ Renew(k) \/ SchedulerStops(k)
      BY <2>2, Zenon DEF AcquireAvailable, Renew, SchedulerStops
    <2>3. CASE MarkOrphanedJobsFailed(k)
      BY <1>1, <2>3 DEF MarkOrphanedJobsFailed, JobRow
    <2>4. CASE RequeueJob(k)
      BY <1>1, <2>4 DEF RequeueJob, JobRow
    <2>5. CASE SweepAbandonedJobs(k)
      BY <1>1, <2>5 DEF SweepAbandonedJobs, JobRow
    <2> QED BY <1>2, <2>1, <2>2, <2>3, <2>4, <2>5, Zenon DEF SchedulerStep
  <1>3. ASSUME NEW o \in Operators, NEW g \in Gate,
               ApproveWorkflow(o, g) \/ RejectWorkflow(o, g) \/ SubmitInput(o, g)
        PROVE  Alone
    BY <1>1, <1>3 DEF ApproveWorkflow, RejectWorkflow, SubmitInput, Decide, JobRow
  <1>4. ASSUME NEW a \in Actors, AppendAudit(a) \/ AuditLost(a) PROVE Alone
    BY <1>4 DEF AppendAudit, AuditLost
  <1>5. CASE GateTimesOut \/ JobLeaseExpires \/ PartitionLeaseExpires
    BY <1>1, <1>5, Zenon DEF GateTimesOut, JobLeaseExpires, PartitionLeaseExpires, JobRow
  <1>6. CASE MarkAbandonRequested \/ TakeBackAbandon
    BY <1>1, <1>6 DEF MarkAbandonRequested, TakeBackAbandon, JobRow
  <1> QED BY <1>2, <1>3, <1>4, <1>5, <1>6, Zenon

\* Every step moves the spend in one of the three ways, and keeps what the
\* sessions know of it.
LEMMA NextSpend == ASSUME SpendInv, [Next]_vars PROVE SpendInv' /\ SpendMoved
  <1>1. RunInv /\ Types /\ SpendBound /\ RunInv' /\ NoOwner \notin Sessions
    BY NextRun, GatesAssumption DEF SpendInv, RunInv
  <1>2. CASE UNCHANGED vars
    <2>1. UNCHANGED <<job, session, landed>>
      BY <1>2 DEF vars
    <2>2. SpendMoved
      BY <2>1 DEF SpendMoved
    <2> QED BY <1>1, <2>1, <2>2, SpendStays, Zenon DEF SpendInv, SpendOK, Owns
  <1>3. ASSUME NEW s \in Sessions, SessionStep(s) PROVE SpendInv' /\ SpendMoved
    BY <1>1, <1>3, SessionSpends, SpendStays, SessionTotals DEF SpendInv
  <1>4. CASE \/ \E k \in Schedulers : SchedulerStep(k)
             \/ \E o \in Operators, g \in Gate :
                  ApproveWorkflow(o, g) \/ RejectWorkflow(o, g) \/ SubmitInput(o, g)
             \/ \E a \in Actors : AppendAudit(a) \/ AuditLost(a)
             \/ MarkAbandonRequested \/ TakeBackAbandon
             \/ GateTimesOut \/ JobLeaseExpires \/ PartitionLeaseExpires
    <2>1. /\ UNCHANGED <<session, landed>> /\ job'.spend = job.spend
          /\ job'.owner \in {job.owner, NoOwner}
      BY <1>1, <1>4, ActorTotals, Zenon
    <2>2. SpendMoved
      BY <2>1, Zenon DEF SpendMoved
    <2>3. \A s \in Sessions : SpendOK(s)'
      BY <1>1, <2>1, Zenon DEF SpendInv, SpendOK, Owns
    <2> QED BY <1>1, <2>2, <2>3, SpendStays DEF SpendInv
  <1> QED BY <1>2, <1>3, <1>4 DEF Next

\* It holds of the initial state.
LEMMA InitSpend == ASSUME Init PROVE SpendInv
  <1>1. landed = <<>> /\ Len(landed) = 0 /\ job.spend = 0 /\ job.owner = NoOwner
    BY Zenon DEF Init
  <1>2. SpendBound
    BY <1>1, GatesAssumption DEF SpendBound
  <1> QED BY <1>1, <1>2, InitRun, GatesAssumption, Zenon DEF SpendInv, SpendOK, Owns

\* The rows and the sessions' positions are what the schema and the code allow,
\* and the spend on the row never exceeds what its operations can have
\* reported: GatesTypeOK (workflow_job's columns, rpcworker.go agentMetrics).
THEOREM GatesTypes == Spec => []GatesTypeOK
  <1>1. SpendInv => GatesTypeOK
    <2> SUFFICES ASSUME SpendInv PROVE GatesTypeOK
      OBVIOUS
    <2>1. Types /\ SpendBound
      BY DEF SpendInv, RunInv
    <2>2. /\ job.status \in Acquirable \cup {"dispatched", "running", "completed", "failed",
                                             "awaiting_approval", "awaiting_input"}
          /\ job.owner \in Sessions \cup {NoOwner} /\ job.gate \in 0 .. MaxGates
          /\ job.attempts \in 0 .. MaxAttempts
      BY <2>1, Zenon DEF Types, JobRow, Statuses, Open, Resolved, Going, Acquirable
    <2>3. job.spend \in 0 .. MaxSpend * MaxDispatches
      <3>1. /\ landed \in Seq(Nat) /\ Len(landed) \in Nat /\ job.spend \in Nat
            /\ MaxSpend \in Nat /\ MaxDispatches \in Nat /\ Len(landed) <= MaxDispatches
        <4>1. landed \in Seq(Nat) /\ job.spend \in Nat /\ Len(landed) <= MaxDispatches
          BY <2>1, Zenon DEF Types, JobRow, SpendBound
        <4>2. MaxSpend \in Nat /\ MaxDispatches \in Nat
          BY GatesAssumption, Zenon
        <4> QED BY <4>1, <4>2
      <3>2. \A m, n \in Nat : MaxSpend * (m + n) = MaxSpend * m + MaxSpend * n
        BY <3>1
      <3>3. \A n \in Nat : MaxSpend * n \in Nat
        BY <3>1
      <3> DEFINE n == MaxDispatches - Len(landed)
      <3>4. n \in Nat /\ MaxDispatches = Len(landed) + n
        BY <3>1, SMT
      <3> HIDE DEF n
      <3>5. job.spend <= MaxSpend * Len(landed)
        <4>1. CASE landed = <<>>
          BY <2>1, <3>1, <3>3, <4>1 DEF SpendBound
        <4>2. CASE landed # <<>>
          <5> DEFINE past == MaxSpend * (Len(landed) - 1)
          <5>1. landed[Len(landed)] \in Nat /\ Len(landed) - 1 \in Nat
            BY <3>1, <4>2, SMT
          <5>2. landed[Len(landed)] <= MaxSpend /\ job.spend <= past + landed[Len(landed)]
            BY <2>1, <4>2, Zenon DEF SpendBound
          <5>3. past \in Nat /\ past + MaxSpend = MaxSpend * Len(landed)
            BY <3>1, <3>3, <5>1
          <5> HIDE DEF past
          <5>4. job.spend <= past + MaxSpend
            BY <3>1, <5>1, <5>2, <5>3, SMT
          <5> QED BY <5>3, <5>4, Zenon
        <4> QED BY <4>1, <4>2
      <3>6. MaxSpend * MaxDispatches = MaxSpend * Len(landed) + MaxSpend * n
        BY <3>1, <3>2, <3>4
      <3> QED BY <3>1, <3>3, <3>5, <3>6
    <2>4. \A s \in Sessions :
            session[s].pc \in {"idle", "acquired", "waiting", "busy", "gone"}
      BY <2>1, Rows DEF SessionRow
    <2> QED BY <2>1, <2>2, <2>3, <2>4, Zenon DEF Types, GatesTypeOK
  <1> QED BY <1>1, InitSpend, NextSpend, PTL DEF Spec

\* The spend on the row moves only with what the operation dispatched last has
\* reported: it starts at nothing, a report replaces the one before it and
\* counts once, and a write of a deposed worker changes neither.  With an
\* induction over landed this is SpendIsWhatLanded (rpcworker.go agentMetrics,
\* recordInterim).
THEOREM SpendFollowsReports == Spec => [][SpendMoved]_vars
  <1> QED BY InitSpend, NextSpend, PTL DEF Spec
=============================================================================
