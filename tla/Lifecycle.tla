------------------------------ MODULE Lifecycle ------------------------------
(***************************************************************************)
(* internal/service and the reconcilers of internal/scheduler: what        *)
(* operators do to a workflow - activate it, change its configuration,     *)
(* suspend and resume it, acknowledge an interruption, delete it - and the *)
(* periodic workers that finish what such a call began.                    *)
(*                                                                         *)
(* Suspending and deleting are a mark followed by a tail: order the        *)
(* current run stopped, or abandon what is queued; check that nothing is   *)
(* running; finalize.  The tail is run by the call itself and again, until *)
(* it succeeds, by a reconciler.  admin[a] is the tail goroutine a is in.  *)
(***************************************************************************)
EXTENDS WorkerSession

CONSTANTS
    Admins,     \* goroutines that serve operators or reconcile
    MayDelete,  \* whether operators delete the workflow
    MayAcknowledge  \* whether operators acknowledge interruptions

ASSUME LifecycleAssumption == {MayDelete, MayAcknowledge} \subseteq BOOLEAN

VARIABLES admin

Admin ==
    [pc : {"idle", "suspend_abandon", "suspend_check", "suspend_finalize",
           "suspend_abort", "resume_restore",
           "delete_abandon", "delete_check", "delete_finalize"},
     hold : SuspensionIds \cup {NoSuspension},   \* the suspension worked on
     config : ConfigVersions]                    \* the version a resume restores

IdleAdmin ==
    [pc |-> "idle", hold |-> NoSuspension,
     config |-> CHOOSE c \in ConfigVersions : TRUE]

LifecycleTypeOK == admin \in [Admins -> Admin]

LifecycleInit == admin = [a \in Admins |-> IdleAdmin]

AdminAt(a, pc) == admin[a].pc = pc

AdminGoto(a, pc) == admin' = [admin EXCEPT ![a].pc = pc]

AdminBegin(a, pc, id) ==
    admin' = [admin EXCEPT ![a] = [IdleAdmin EXCEPT !.pc = pc, !.hold = id]]

AdminDone(a) == admin' = [admin EXCEPT ![a] = IdleAdmin]

processes == <<schedulerVars, sessionVars>>

-----------------------------------------------------------------------------
(* Calls of one statement.                                                 *)

ActivateWorkflow ==
    /\ \E v \in 0 .. MaxRequests : TryActivateWorkflow(v)
    /\ UNCHANGED <<processes, admin>>

AcknowledgeInterruption ==
    /\ MayAcknowledge
    /\ \E v \in Versions : ResolveInterruptedWorkflow(v)
    /\ UNCHANGED <<processes, admin>>

SetWorkflowConfig ==
    /\ \E c \in ConfigVersions, m \in InvokeModes, r \in Resumables :
         /\ <<c, m, r>> # <<workflow.config, workflow.mode, workflow.resumable>>
         /\ UpdateConfig(c, m, r)
    /\ UNCHANGED <<processes, admin>>

AbandonQueued ==
    /\ SuspensionIds # {}
    /\ \E vs \in SUBSET Versions \ {{}} : AbandonQueuedRequests(vs)
    /\ UNCHANGED <<processes, admin>>

-----------------------------------------------------------------------------
(* SuspendWorkflow, ResumeWorkflow and the suspension reconciler.          *)

SuspendWorkflow(a) ==
    /\ AdminAt(a, "idle")
    /\ \E id \in SuspensionIds, stop \in BOOLEAN :
         /\ MarkSuspensionRequested(id, stop)
         /\ AdminBegin(a, IF stop THEN "suspend_abandon" ELSE "suspend_check", id)
    /\ UNCHANGED processes

\* Mutation: only suspensions that stop the current run are taken up.
ReconcileStopping(a) ==
    /\ AdminAt(a, "idle")
    /\ workflow.suspension # NoSuspension
    /\ ~workflow.finalized
    /\ workflow.stopCurrent
    /\ AdminBegin(a, "suspend_abandon", workflow.suspension)
    /\ UNCHANGED <<store, processes>>

\* The reconciler takes up a suspension that has not been finalized.
ReconcileSuspension(a) ==
    /\ AdminAt(a, "idle")
    /\ workflow.suspension # NoSuspension
    /\ ~workflow.finalized
    /\ AdminBegin(a, CASE workflow.state # "suspended" -> "suspend_abort"
                       [] workflow.state = "suspended" /\ workflow.stopCurrent
                            -> "suspend_abandon"
                       [] OTHER -> "suspend_check",
                  workflow.suspension)
    /\ UNCHANGED <<store, processes>>

SuspendAbandon(a) ==
    /\ AdminAt(a, "suspend_abandon")
    /\ MarkAbandonRequested(admin[a].hold)
    /\ AdminGoto(a, "suspend_check")
    /\ UNCHANGED processes

SuspendCheck(a) ==
    /\ AdminAt(a, "suspend_check")
    /\ IF HasRunningRequest THEN AdminDone(a) ELSE AdminGoto(a, "suspend_finalize")
    /\ UNCHANGED <<store, processes>>

SuspendFinalize(a) ==
    /\ AdminAt(a, "suspend_finalize")
    /\ FinalizeSuspended(admin[a].hold)
    /\ AdminDone(a)
    /\ UNCHANGED processes

SuspendAbort(a) ==
    /\ AdminAt(a, "suspend_abort")
    /\ AbortSuspension(admin[a].hold)
    /\ AdminDone(a)
    /\ UNCHANGED processes

\* resolveResumeState on the row as read; a rollback rule names the version.
ResumeWorkflow(a) ==
    /\ AdminAt(a, "idle")
    /\ \E id \in SuspensionIds, c \in ConfigVersions :
         /\ "version" \in PolicyGoals \/ c = workflow.config
         /\ admin' = [admin EXCEPT ![a] = [pc |-> "resume_restore", hold |-> id,
                                           config |-> c]]
    /\ UNCHANGED <<store, processes>>

ResumeRestore(a) ==
    /\ AdminAt(a, "resume_restore")
    /\ \E state \in {"active"} \cup (PolicyGoals \cap {"paused", "cooldown"}) :
         RestoreFromSuspension(admin[a].hold, state, admin[a].config)
    /\ AdminDone(a)
    /\ UNCHANGED processes

\* The abandoned-job resolver.
SweepAbandoned ==
    /\ SweepAbandonedJobs
    /\ UNCHANGED <<processes, admin>>

-----------------------------------------------------------------------------
(* DeleteWorkflow and the deletion reconciler.                             *)

DeleteWorkflow(a) ==
    /\ MayDelete
    /\ AdminAt(a, "idle")
    /\ MarkDeletionRequested
    /\ AdminBegin(a, "delete_abandon", NoSuspension)
    /\ UNCHANGED processes

\* Mutation: an interrupted workflow is not listed for deletion.
ReconcileUninterrupted(a) ==
    /\ AdminAt(a, "idle")
    /\ workflow.deleting /\ workflow.lifecycle \notin {"deleted", "interrupted"}
    /\ AdminBegin(a, "delete_abandon", NoSuspension)
    /\ UNCHANGED <<store, processes>>

ReconcileDeletion(a) ==
    /\ AdminAt(a, "idle")
    /\ workflow.deleting /\ workflow.lifecycle # "deleted"
    /\ AdminBegin(a, "delete_abandon", NoSuspension)
    /\ UNCHANGED <<store, processes>>

DeleteAbandon(a) ==
    /\ AdminAt(a, "delete_abandon")
    /\ AbandonQueuedRequests(Versions)
    /\ AdminGoto(a, "delete_check")
    /\ UNCHANGED processes

\* Mutation: the deletion is finalized whatever is still running.
DeleteUnchecked(a) ==
    /\ AdminAt(a, "delete_check")
    /\ AdminGoto(a, "delete_finalize")
    /\ UNCHANGED <<store, processes>>

DeleteCheck(a) ==
    /\ AdminAt(a, "delete_check")
    /\ IF HasRunningRequest THEN AdminDone(a) ELSE AdminGoto(a, "delete_finalize")
    /\ UNCHANGED <<store, processes>>

DeleteFinalize(a) ==
    /\ AdminAt(a, "delete_finalize")
    /\ FinalizeDeleted
    /\ AdminDone(a)
    /\ UNCHANGED processes

\* The goroutine dies or a statement fails.  SuspendWorkflow only logs that the
\* order to stop failed and goes on.
AdminFault(a) ==
    /\ faults < MaxFaults
    /\ ~AdminAt(a, "idle")
    /\ faults' = faults + 1
    /\ \/ AdminDone(a)
       \/ AdminAt(a, "suspend_abandon") /\ AdminGoto(a, "suspend_check")
    /\ UNCHANGED <<store, task, applied, sessionVars>>

AdminStep(a) ==
    \/ SuspendWorkflow(a) \/ ReconcileSuspension(a) \/ SuspendAbandon(a)
    \/ SuspendCheck(a) \/ SuspendFinalize(a) \/ SuspendAbort(a)
    \/ ResumeWorkflow(a) \/ ResumeRestore(a)
    \/ DeleteWorkflow(a) \/ ReconcileDeletion(a) \/ DeleteAbandon(a)
    \/ DeleteCheck(a) \/ DeleteFinalize(a) \/ AdminFault(a)

LifecycleNext ==
    \/ ActivateWorkflow \/ AcknowledgeInterruption \/ SetWorkflowConfig
    \/ AbandonQueued \/ SweepAbandoned
    \/ \E a \in Admins : AdminStep(a)

=============================================================================
