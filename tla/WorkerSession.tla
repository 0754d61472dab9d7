---------------------------- MODULE WorkerSession ----------------------------
(***************************************************************************)
(* internal/rpcworker: the session a connected worker client holds with    *)
(* the control plane.  A session acquires the job, dispatches it to its    *)
(* client, follows the operation, and records how it ended; the last write *)
(* of a run leads into CompleteRequest or FailRequest, which the session   *)
(* runs itself (task[s]).                                                  *)
(*                                                                         *)
(* A session is one goroutine for the protocol and, per acquired job, one  *)
(* that renews the lease.  Ending an operation only signals the second     *)
(* one, so the release of the job is a step of its own and the session may *)
(* acquire another job before it happens; session ids are per session, not *)
(* per acquisition.  The client is external: its answers, its silence and  *)
(* a broken stream are all possible in every state.                        *)
(***************************************************************************)
EXTENDS Scheduler

CONSTANTS
    Stalls   \* whether a live session may be held up for longer than its
             \* timing allows: its lease runs out while it is still at work, or
             \* the release of one job is outrun by the acquisition of the next

ASSUME SessionAssumption == Stalls \in BOOLEAN

VARIABLES
    session,  \* the state of each session
    gates     \* gates opened so far: the ids handed out

sessionVars == <<session, gates>>

\* Following a run: the pcs in which the session may still write the job.
ActivePcs == {"acquired", "dispatched", "marked", "started", "waiting",
              "busy", "cancelling"}

Session ==
    [pc : {"idle", "parked", "finishing", "leaving", "gone"} \cup ActivePcs,
     version : 0 .. MaxRequests,        \* the job as acquired
     attempts : Nat,
     status : JobStatuses \cup {"none"},
     abandon : BOOLEAN,
     signal : 0 .. MaxRequests,         \* abandonRequested, 0 when empty
     signalled : BOOLEAN,               \* abandonSignalled
     release : BOOLEAN]                 \* the job's release is still to come

NewSession ==
    [pc |-> "idle", version |-> 0, attempts |-> 0, status |-> "none",
     abandon |-> FALSE, signal |-> 0, signalled |-> FALSE, release |-> FALSE]

SessionTypeOK ==
    /\ session \in [Sessions -> Session]
    /\ gates \in 0 .. MaxGates

SessionInit ==
    /\ session = [s \in Sessions |-> NewSession]
    /\ gates = 0

In(s, pc) == session[s].pc = pc

SessionGoto(s, pc) == session' = [session EXCEPT ![s].pc = pc]

\* The session is through with its job and returns to pc, "idle" or, when the
\* stream ends with it, "gone".  cancelLease is signalled and the lease goroutine
\* will release the job, unless the end of the stream stops that goroutine first.
Forget(s, pc) ==
    \E release \in IF pc = "gone" THEN BOOLEAN ELSE {TRUE} :
      session' = [session EXCEPT ![s] =
                    [NewSession EXCEPT !.pc = pc, !.signal = session[s].signal,
                                       !.release = release]]

NoTask == UNCHANGED <<schedulerVars, gates>>

-----------------------------------------------------------------------------
(* ConnectedIdle: from polling to the launch command.                      *)

Acquire(s) ==
    /\ In(s, "idle")
    /\ Stalls \/ ~session[s].release
    /\ AcquireJob(s)
    /\ session' = [session EXCEPT ![s] =
                     [@ EXCEPT !.pc = "acquired", !.version = job.version,
                               !.attempts = job.attempts, !.status = job.status,
                               !.abandon = job.abandon, !.signalled = FALSE]]
    /\ NoTask

\* completeOperation without a next step, softFailOperation and
\* suspendOperation: the job is completed and, if it was still ours, the
\* session goes on to complete the request.
CompleteOperation(s) ==
    /\ UpdateJobStatus(s, "completed")
    /\ IF Owns(s)
       THEN /\ Begin(s, "complete_apply", session[s].version, 0)
            /\ SessionGoto(s, "finishing")
       ELSE /\ Forget(s, "idle")
            /\ UNCHANGED task
    /\ UNCHANGED <<faults, applied, gates>>

\* failOperation, after which the session ends in pc.
FailOperation(s, pc) ==
    /\ UpdateJobStatus(s, "failed")
    /\ IF Owns(s)
       THEN /\ Begin(s, "fail_get", session[s].version, session[s].attempts)
            /\ SessionGoto(s, IF pc = "idle" THEN "finishing" ELSE "leaving")
       ELSE /\ Forget(s, pc)
            /\ UNCHANGED task
    /\ UNCHANGED <<faults, applied, gates>>

\* A flagged run is completed without being launched, and so is a run whose
\* gate resolved to a branch that completes it.
CompleteAcquired(s) ==
    /\ In(s, "acquired")
    /\ \/ session[s].abandon
       \/ session[s].status \in {"approved", "rejected", "answered",
                                 "input_timed_out"}
    /\ CompleteOperation(s)

Dispatch(s) ==
    /\ In(s, "acquired")
    /\ ~session[s].abandon
    /\ DispatchJob(s)
    /\ IF DispatchMatches(s) THEN SessionGoto(s, "dispatched")
       ELSE Forget(s, "idle")
    /\ NoTask

MarkInvoking(s) ==
    /\ In(s, "dispatched")
    /\ MarkLifecycle("invoking")
    /\ SessionGoto(s, "marked")
    /\ NoTask

MarkInProgress(s) ==
    /\ In(s, "marked")
    /\ MarkRequestInProgress(session[s].version)
    /\ SessionGoto(s, "started")
    /\ NoTask

Launch(s) ==
    /\ In(s, "started")
    /\ SessionGoto(s, "waiting")
    /\ UNCHANGED store
    /\ NoTask

\* The client never got the operation: the job goes back to pending.
LaunchFails(s) ==
    /\ In(s, "started")
    /\ UpdateJobStatus(s, "pending")
    /\ Forget(s, "gone")
    /\ NoTask

-----------------------------------------------------------------------------
(* ConnectedWaiting, ConnectedBusy and CancelRequested.                    *)

Acknowledge(s) ==
    /\ In(s, "waiting")
    /\ UpdateJobStatus(s, "running")
    /\ IF Owns(s) THEN SessionGoto(s, "busy") ELSE Forget(s, "gone")
    /\ NoTask

\* No acknowledgement in time, or the stream is closed: the session ends and
\* the job stays dispatched.
AcknowledgeTimeout(s) ==
    /\ In(s, "waiting")
    /\ Forget(s, "gone")
    /\ UNCHANGED store
    /\ NoTask

\* The client's result, which CancelRequested accepts as well.
OperationCompletes(s) ==
    /\ session[s].pc \in {"busy", "cancelling"}
    /\ CompleteOperation(s)

OperationHasNext(s) ==
    /\ session[s].pc \in {"busy", "cancelling"}
    /\ \E delayed \in BOOLEAN : UpdateJobWithMetrics(s, delayed)
    /\ Forget(s, "idle")
    /\ NoTask

OperationOpensGate(s) ==
    /\ session[s].pc \in {"busy", "cancelling"}
    /\ gates < MaxGates
    /\ gates' = gates + 1
    /\ \E status \in {"awaiting_approval", "awaiting_input"} :
         /\ ParkJob(s, status, gates + 1)
         /\ session' = [session EXCEPT ![s].pc = "parked", ![s].status = status]
    /\ UNCHANGED schedulerVars

\* MarkAwaitingApproval or MarkAwaitingInput, whether or not the park matched.
MarkParked(s) ==
    /\ In(s, "parked")
    /\ MarkAwaiting(session[s].status)
    /\ Forget(s, "idle")
    /\ NoTask

\* The client reports failure, or stops without saying why.
OperationFails(s) ==
    /\ session[s].pc \in {"busy", "cancelling"}
    /\ FailOperation(s, "idle")

\* The stream breaks, the client breaks the protocol, or it does not answer a
\* cancel: the session fails the run and ends.
SessionBreaks(s) ==
    /\ session[s].pc \in {"waiting", "busy", "cancelling"}
    /\ FailOperation(s, "gone")

\* The buffered signal is taken; one for another run is dropped.
TakeSignal(s) ==
    /\ In(s, "busy")
    /\ session[s].signal # 0
    /\ session' = [session EXCEPT
                     ![s].signal = 0,
                     ![s].pc = IF session[s].signal = session[s].version
                               THEN "cancelling" ELSE @]
    /\ UNCHANGED store
    /\ NoTask

OperationTimeout(s) ==
    /\ In(s, "busy")
    /\ SessionGoto(s, "cancelling")
    /\ UNCHANGED store
    /\ NoTask

\* CompleteRequest or FailRequest has returned.
Finish(s) ==
    /\ session[s].pc \in {"finishing", "leaving"}
    /\ At(s, "idle")
    /\ Forget(s, IF In(s, "finishing") THEN "idle" ELSE "gone")
    /\ UNCHANGED store
    /\ NoTask

-----------------------------------------------------------------------------
(* The lease goroutine.                                                    *)

Renew(s) ==
    /\ session[s].pc \in ActivePcs
    /\ Owns(s)
    /\ RenewJobLease(s)
    /\ LET signals == job.abandon /\ ~session[s].signalled IN
       session' = [session EXCEPT
                     ![s].signalled = @ \/ signals,
                     ![s].signal = IF signals /\ @ = 0
                                   THEN session[s].version ELSE @]
    /\ NoTask

\* A renewal that matches no row ends the session; a run it was following is
\* failed by a write that matches no row either.
LoseLease(s) ==
    /\ session[s].pc \in {"waiting", "busy", "cancelling"}
    /\ ~Owns(s)
    /\ session' = [session EXCEPT ![s] =
                     [NewSession EXCEPT !.pc = "gone",
                                        !.release = session[s].release]]
    /\ UNCHANGED store
    /\ NoTask

Release(s) ==
    /\ session[s].release
    /\ ReleaseJob(s)
    /\ session' = [session EXCEPT ![s].release = FALSE]
    /\ NoTask

-----------------------------------------------------------------------------
(* Connections, crashes and time.                                          *)

\* The client connects again: a new session, with an id of its own.  It can go
\* by the old one's name as soon as nothing is left that writes under that name:
\* an idle session does not, also while the row still names it as the owner.
Reconnect(s) ==
    /\ In(s, "gone")
    /\ ~session[s].release
    /\ session' = [session EXCEPT ![s] = NewSession]
    /\ UNCHANGED store
    /\ NoTask

\* The worker process dies, and with it the session and its lease goroutine.
SessionCrash(s) ==
    /\ faults < MaxFaults
    /\ ~In(s, "gone")
    /\ faults' = faults + 1
    /\ session' = [session EXCEPT ![s] = [NewSession EXCEPT !.pc = "gone"]]
    /\ Done(s)
    /\ UNCHANGED <<store, applied, gates>>

\* A statement of the session's own fails: it gives the job up.
SessionFault(s) ==
    /\ faults < MaxFaults
    /\ session[s].pc \in ActivePcs
    /\ faults' = faults + 1
    /\ \E pc \in {"idle", "gone"} : Forget(s, pc)
    /\ UNCHANGED <<store, task, applied, gates>>

\* Nothing renews this session's lease and nothing will release it.
Silent(s) == session[s].pc \in {"idle", "gone"} /\ ~session[s].release

LeaseAges ==
    /\ job.owner \in Sessions
    /\ Stalls \/ Silent(job.owner)
    /\ \/ /\ job.lease = "live"
          /\ job' = [job EXCEPT !.lease = "expired"]
       \/ /\ job.lease = "expired"
          /\ job' = [job EXCEPT !.lease = "lapsed"]
    /\ UNCHANGED <<workflow, request, session>>
    /\ NoTask

\* The delay asked for with the next operation has passed.
DelayPasses ==
    /\ ~job.due
    /\ job' = [job EXCEPT !.due = TRUE]
    /\ UNCHANGED <<workflow, request, session>>
    /\ NoTask

\* Approve, Reject, SubmitInput and the two timeout sweeps.
DecideGate ==
    /\ \E g \in 1 .. MaxGates :
         \/ \E verdict \in {"approved", "rejected"} :
              ResolveGate(g, "awaiting_approval", verdict)
         \/ \E verdict \in {"answered", "input_timed_out"} :
              ResolveGate(g, "awaiting_input", verdict)
    /\ UNCHANGED session
    /\ NoTask

SessionStep(s) ==
    \/ Acquire(s) \/ CompleteAcquired(s) \/ Dispatch(s)
    \/ MarkInvoking(s) \/ MarkInProgress(s) \/ Launch(s) \/ LaunchFails(s)
    \/ Acknowledge(s) \/ AcknowledgeTimeout(s)
    \/ OperationCompletes(s) \/ OperationHasNext(s) \/ OperationOpensGate(s)
    \/ MarkParked(s) \/ OperationFails(s) \/ SessionBreaks(s)
    \/ TakeSignal(s) \/ OperationTimeout(s) \/ Finish(s)
    \/ Renew(s) \/ LoseLease(s) \/ Release(s)
    \/ Reconnect(s) \/ SessionCrash(s) \/ SessionFault(s)

SessionNext ==
    \/ \E s \in Sessions : SessionStep(s)
    \/ LeaseAges \/ DelayPasses \/ DecideGate

=============================================================================
