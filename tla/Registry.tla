------------------------------ MODULE Registry ------------------------------
(***************************************************************************)
(* The rows a control plane keeps for its tenants, apart from the runs:    *)
(* tenant groups and their API keys, tenants, workflows with their         *)
(* settings and the rows that depend on them, rates and audit events; the  *)
(* statements on them (storage/postgres), and the reconcilers that remove  *)
(* what was deleted (scheduler/...reconciler.go).                          *)
(*                                                                         *)
(* Identifiers are never used twice: NoRow is a row that was not inserted  *)
(* yet, Gone one that was deleted.  A foreign key makes the database       *)
(* refuse the deletion of a row that others refer to; agents alone go with *)
(* their workflow (ON DELETE CASCADE).                                     *)
(*                                                                         *)
(*   groups     tenant_groups         apiKey    api_keys, by key           *)
(*   tenant     tenants, with their policy overrides                       *)
(*   workflow   workflows, with                                            *)
(*     deleting         deletion_requested_at is set                       *)
(*     life             lifecycle_state: "interrupted", "deleted", or      *)
(*                      "live" for every other                             *)
(*     disabled         workflow_state = 'disabled'; being paused, cooled  *)
(*                      down or suspended is ControlPlane's                *)
(*     config, policy   its settings                                       *)
(*     agents           its agent_state rows                               *)
(*     requests         whether it has customer_requests                   *)
(*     metrics          whether it has workflow_version_metrics            *)
(*     run              a request that is not over yet ("busy"), or only   *)
(*                      the job row of one that is ("left")                *)
(*   override   model_pricing         audit     audit_events               *)
(*   purge      where the reconcilers of a workflow's partition are        *)
(***************************************************************************)
EXTENDS Convert, FiniteSets

CONSTANTS
    Groups, Keys, Tenants, Workflows, Agents, Models,
    NoRow, Gone,
    KeyOf,          \* the group each key is made for
    Provisioned,    \* the groups that have their key from the start
    DefaultRates,   \* default_model_pricing
    JobsLeft,       \* the workflows for which deleting the job row of an ended
                    \* run may fail
    Interruptible,  \* the workflows whose runs may fail
    MayFail         \* whether the reconcilers may fail

VARIABLES groups, apiKey, tenant, workflow, override, audit, purge

rows == <<groups, apiKey, tenant, workflow, override, audit>>

Exists(row) == row \notin {NoRow, Gone}

RegistryInit ==
    /\ groups = Provisioned
    /\ apiKey = [k \in Keys |-> IF KeyOf[k] \in Provisioned THEN KeyOf[k] ELSE NoRow]
    /\ tenant = [t \in Tenants |-> NoRow]
    /\ workflow = [w \in Workflows |-> NoRow]
    /\ override = [g \in Groups |-> <<>>]
    /\ audit = {}
    /\ purge = [w \in Workflows |-> "idle"]

-----------------------------------------------------------------------------
(* Provisioning (cmd/boundflow provision): a group, then its first key.    *)

ProvisionGroup(g) ==
    /\ g \notin groups
    /\ groups' = groups \cup {g}
    /\ UNCHANGED <<apiKey, tenant, workflow, override, audit>>

ProvisionKey(k) ==
    /\ KeyOf[k] \in groups /\ apiKey[k] = NoRow
    /\ apiKey' = [apiKey EXCEPT ![k] = KeyOf[k]]
    /\ UNCHANGED <<groups, tenant, workflow, override, audit>>

\* The group a key stands for; NoRow for a key that is not known.
GetByKeyHash(k) == apiKey[k]

-----------------------------------------------------------------------------
(* Tenants.                                                                *)

CreateTenantRow(t, g, policies) ==
    /\ tenant[t] = NoRow
    /\ tenant' = [tenant EXCEPT ![t] =
                    [group |-> g, policies |-> policies, deleted |-> FALSE, count |-> 0]]
    /\ UNCHANGED <<groups, apiKey, workflow, override, audit>>

\* Mutation: the tenant is marked without a look at its workflows.
MayMarkDeleted(t) == Exists(tenant[t]) /\ ~tenant[t].deleted

CanMarkDeleted(t) ==
    Exists(tenant[t]) /\ ~tenant[t].deleted /\ tenant[t].count = 0

MarkTenantDeleted(t) ==
    /\ CanMarkDeleted(t)
    /\ tenant' = [tenant EXCEPT ![t].deleted = TRUE]
    /\ UNCHANGED <<groups, apiKey, workflow, override, audit>>

WorkflowsOf(t) == {w \in Workflows : Exists(workflow[w]) /\ workflow[w].tenant = t}

\* Mutation: the count is taken for the number of rows.
PurgeUncounted(t) ==
    /\ tenant' = IF Exists(tenant[t]) /\ tenant[t].deleted /\ tenant[t].count = 0
                 THEN [tenant EXCEPT ![t] = Gone] ELSE tenant
    /\ UNCHANGED <<groups, apiKey, workflow, override, audit>>

PurgeTenantIfEmpty(t) ==
    /\ tenant' = IF Exists(tenant[t]) /\ tenant[t].deleted /\ WorkflowsOf(t) = {}
                 THEN [tenant EXCEPT ![t] = Gone] ELSE tenant
    /\ UNCHANGED <<groups, apiKey, workflow, override, audit>>

ListForTenantGroup(g) == {t \in Tenants : Exists(tenant[t]) /\ tenant[t].group = g}

\* Deleted tenants: their count is not looked at again.
ListPurgeableTenants == {t \in Tenants : Exists(tenant[t]) /\ tenant[t].deleted}

-----------------------------------------------------------------------------
(* Rates: the defaults, and the overrides of a group.                      *)

ListDefaults == DefaultRates

ListOverrides(g) == override[g]

UpsertPricing(g, m, rate) ==
    /\ override' = [override EXCEPT ![g] =
            [n \in DOMAIN @ \cup {m} |-> IF n = m THEN rate ELSE @[n]]]
    /\ UNCHANGED <<groups, apiKey, tenant, workflow, audit>>

-----------------------------------------------------------------------------
(* Workflows: one statement counts a new workflow into its tenant, and one *)
(* counts a deleted one out.                                               *)

NewWorkflow(t, config) ==
    [tenant |-> t, deleting |-> FALSE, life |-> "live", disabled |-> FALSE,
     config |-> config, policy |-> <<>>, agents |-> [a \in Agents |-> NoRow],
     requests |-> FALSE, metrics |-> FALSE, run |-> "none"]

CanCreateWorkflow(t) == Exists(tenant[t]) /\ ~tenant[t].deleted

CreateWorkflowRow(w, t, config) ==
    /\ workflow[w] = NoRow /\ CanCreateWorkflow(t)
    /\ tenant' = [tenant EXCEPT ![t].count = @ + 1]
    /\ workflow' = [workflow EXCEPT ![w] = NewWorkflow(t, config)]
    /\ UNCHANGED <<groups, apiKey, override, audit>>

\* Any lifecycle state: a deleted workflow still has its group.
TenantGroupIDForWorkflow(w) == tenant[workflow[w].tenant].group

UpdateWorkflow(w, row) ==
    /\ workflow' = [workflow EXCEPT ![w] = row]
    /\ UNCHANGED <<groups, apiKey, tenant, override, audit>>

\* Mutation: a workflow deleted already is counted out again.
FinalizeAgain(w) ==
    LET t == workflow[w].tenant
    IN  /\ workflow' = [workflow EXCEPT ![w].life = "deleted"]
        /\ tenant' = [tenant EXCEPT ![t].count = IF @ > 0 THEN @ - 1 ELSE @]
        /\ UNCHANGED <<groups, apiKey, override, audit>>

\* FinalizeDeleted: nothing if it was done before.
FinalizeDeleted(w) ==
    LET t == workflow[w].tenant
    IN  /\ workflow' = [workflow EXCEPT ![w].life = "deleted"]
        /\ tenant' = IF workflow[w].life = "deleted" THEN tenant
                     ELSE [tenant EXCEPT ![t].count = IF @ > 0 THEN @ - 1 ELSE @]
        /\ UNCHANGED <<groups, apiKey, override, audit>>

-----------------------------------------------------------------------------
(* Runs and workers, as far as rows depend on them: a request ends, by its *)
(* run, whose metrics are emitted, or by being abandoned; the job row a    *)
(* run may leave is swept later; a decision is audited.                    *)

\* How a run that ended leaves its workflow: ApplyCompletedJob writes the
\* lifecycle state, whatever it was, unless a later invocation is waiting, and
\* ApplyFailedJob disables the workflow until the failure is acknowledged.
Completed(row) == {row, [row EXCEPT !.life = "live"]}

Interrupted(row) == [row EXCEPT !.life = "interrupted", !.disabled = TRUE]

RunEnds(w) ==
    /\ Exists(workflow[w]) /\ workflow[w].run = "busy"
    /\ \E left \in {"none", "left"}, emitted \in {workflow[w].metrics, TRUE},
          row \in Completed(workflow[w]) \cup {Interrupted(workflow[w])} :
        /\ left = "left" => w \in JobsLeft
        /\ row = Interrupted(workflow[w]) => w \in Interruptible
        /\ UpdateWorkflow(w, [row EXCEPT !.run = left, !.metrics = emitted])
    /\ UNCHANGED purge

SweepJob(w) ==
    /\ Exists(workflow[w]) /\ workflow[w].run = "left"
    /\ UpdateWorkflow(w, [workflow[w] EXCEPT !.run = "none"])
    /\ UNCHANGED purge

AppendAudit(event) ==
    /\ audit' = audit \cup {event}
    /\ UNCHANGED <<groups, apiKey, tenant, workflow, override>>

-----------------------------------------------------------------------------
(* The reconcilers of deletions, of workflows and of tenants.              *)

PurgeAt(w, pc) == purge[w] = pc

PurgeGoto(w, pc) == purge' = [purge EXCEPT ![w] = pc]

ListPendingDeletion ==
    {w \in Workflows : Exists(workflow[w]) /\ workflow[w].deleting
                        /\ workflow[w].life # "deleted"}

\* Past its retention: time is not counted, a workflow may be listed at once.
ListPurgeable ==
    {w \in Workflows : Exists(workflow[w]) /\ workflow[w].life = "deleted"}

\* A request that is not over, and whose row the purge has not deleted.
Running(w) == Exists(workflow[w]) /\ workflow[w].run = "busy" /\ workflow[w].requests

\* A workflow whose deletion was asked for is finalized once nothing runs.
ReconcileDeletion(w) ==
    /\ PurgeAt(w, "idle") /\ w \in ListPendingDeletion
    /\ ~Running(w)
    /\ PurgeGoto(w, "finalize")
    /\ UNCHANGED rows

ReconcileFinalize(w) ==
    /\ PurgeAt(w, "finalize")
    /\ IF Exists(workflow[w]) THEN FinalizeDeleted(w) ELSE UNCHANGED rows
    /\ PurgeGoto(w, "idle")

DeleteRequests(w) == UpdateWorkflow(w, [workflow[w] EXCEPT !.requests = FALSE])

DeleteVersionMetrics(w) == UpdateWorkflow(w, [workflow[w] EXCEPT !.metrics = FALSE])

\* A deleted workflow loses its requests, its metrics and its row, in the order
\* the foreign keys ask for.
PurgeRequests(w) ==
    /\ PurgeAt(w, "idle") /\ w \in ListPurgeable
    /\ DeleteRequests(w)
    /\ PurgeGoto(w, "metrics")

\* Mutation: the metrics are left to the row's own deletion.
PurgeNoMetrics(w) ==
    /\ PurgeAt(w, "metrics")
    /\ PurgeGoto(w, "row")
    /\ UNCHANGED rows

PurgeMetrics(w) ==
    /\ PurgeAt(w, "metrics")
    /\ DeleteVersionMetrics(w)
    /\ PurgeGoto(w, "row")

Unreferenced(w) ==
    /\ ~workflow[w].requests /\ ~workflow[w].metrics
    /\ workflow[w].run = "none"

\* The statement deletes no row but a deleted workflow's, and the database
\* refuses to delete one still referred to.
PurgeDeleted(w) ==
    /\ PurgeAt(w, "row")
    /\ IF workflow[w].life = "deleted" /\ Unreferenced(w) THEN UpdateWorkflow(w, Gone) ELSE UNCHANGED rows
    /\ PurgeGoto(w, "idle")

\* A statement fails or the scheduler stops: the next sweep starts over.
PurgeFails(w) ==
    /\ MayFail /\ ~PurgeAt(w, "idle")
    /\ PurgeGoto(w, "idle")
    /\ UNCHANGED rows

PurgeTenant(t) ==
    /\ t \in ListPurgeableTenants
    /\ PurgeTenantIfEmpty(t)
    /\ UNCHANGED purge

Reconcile(w) ==
    \/ ReconcileDeletion(w) \/ ReconcileFinalize(w)
    \/ PurgeRequests(w) \/ PurgeMetrics(w) \/ PurgeDeleted(w)

=============================================================================
