-------------------------------- MODULE Api --------------------------------
(***************************************************************************)
(* The calls of the API (server/handlers, service, auth): a call is        *)
(* authenticated by its key, checked against its caller's tenant group and *)
(* then carried out one statement at a time, while other calls and the     *)
(* reconcilers of module Registry go on.  The runs themselves (Invoke,     *)
(* Suspend, Approve and the rest) are the subject of modules ControlPlane  *)
(* and Gates; here they matter for the rows they keep alive.               *)
(*                                                                         *)
(*   call   the calls in flight, each with the step it has reached, its    *)
(*          caller's group, the row it is about, and what an invocation    *)
(*          has read so far                                                *)
(*   reply  the answer given in the last step, if it gave one              *)
(*   asked  history: the last message accepted for each setting of a       *)
(*          tenant or a workflow                                           *)
(*   told   history: the events reported to the audit log                  *)
(*   reopened   history: the tenants with a workflow whose interruption    *)
(*          was acknowledged while the workflow was being deleted          *)
(*                                                                         *)
(* All the methods about a workflow start with the same steps, as do those *)
(* about a tenant; which method a call is shows in what it does next.      *)
(***************************************************************************)
EXTENDS Registry

CONSTANTS
    Callers,            \* calls that may be in flight at once
    TenantMessages,     \* policy overrides of a tenant
    ConfigMessages,     \* workflow configurations a caller may send
    PolicyMessages,     \* workflow lifecycle policies
    RuntimeMessages,    \* agent runtime policies
    RuleMessages,       \* agent lifecycle policies
    Rates,              \* overrides of the rate of a model
    Events,             \* [type, agent, message] of the events that are audited
    MaxEvents,          \* bound on the audit events
    MinRepeatSeconds, MaxLifecycleWindow

VARIABLES call, reply, asked, told, reopened

vars == <<rows, purge, call, reply, asked, told, reopened>>

-----------------------------------------------------------------------------
(* A call's way: authentication, steps, reply.                             *)

Idle == [pc |-> "idle", group |-> NoRow, id |-> NoRow,
         agents |-> NoRow, rates |-> NoRow, changed |-> FALSE]

NoReply == [code |-> "none", group |-> NoRow, id |-> NoRow, rows |-> {}]

ApiInit ==
    /\ RegistryInit
    /\ call = [c \in Callers |-> Idle]
    /\ reply = NoReply
    /\ asked = [x \in Tenants \cup Workflows |-> NoRow]
    /\ told = {}
    /\ reopened = {}

At(c, pc) == call[c].pc = pc

Goto(c, pc) ==
    /\ call' = [call EXCEPT ![c].pc = pc]
    /\ reply' = NoReply

Answered(c, code, ids) ==
    [code |-> code, group |-> call[c].group, id |-> call[c].id, rows |-> ids]

Reply(c, code, ids) ==
    /\ call' = [call EXCEPT ![c] = Idle]
    /\ reply' = Answered(c, code, ids)

\* What an invocation in flight has read is no longer current.
Outdated(x) ==
    [call[x] EXCEPT !.changed = @ \/ At(x, "invoke_rates") \/ At(x, "invoke_create")]

\* An answer to a call that changed what invocations read.
ReplyChanged(c, code) ==
    /\ call' = [x \in Callers |-> IF x = c THEN Idle ELSE Outdated(x)]
    /\ reply' = Answered(c, code, {})

Unwritten == UNCHANGED <<rows, purge, asked, told, reopened>>

\* UnaryInterceptor: the key names the group the call acts for.
Authenticate(c, k, first, id) ==
    /\ At(c, "idle")
    /\ IF GetByKeyHash(k) = NoRow
       THEN /\ call' = call
            /\ reply' = [NoReply EXCEPT !.code = "Unauthenticated"]
       ELSE /\ call' = [call EXCEPT ![c] =
                            [Idle EXCEPT !.pc = first, !.group = GetByKeyHash(k), !.id = id]]
            /\ reply' = NoReply
    /\ Unwritten

\* Mutation: the owner of a workflow is looked up and not compared.
CheckWorkflowExists(c) ==
    /\ At(c, "check_workflow")
    /\ IF Exists(workflow[call[c].id]) THEN Goto(c, "owned")
       ELSE Reply(c, "NotFound", {})
    /\ Unwritten

checkWorkflowOwner(c) ==
    LET w == call[c].id
    IN  /\ At(c, "check_workflow")
        /\ IF Exists(workflow[w]) /\ TenantGroupIDForWorkflow(w) = call[c].group
           THEN Goto(c, "owned")
           ELSE Reply(c, "NotFound", {})
        /\ Unwritten

OwnsTenant(c) ==
    LET t == call[c].id
    IN  Exists(tenant[t]) /\ tenant[t].group = call[c].group

checkTenantOwner(c) ==
    /\ At(c, "check_tenant")
    /\ IF OwnsTenant(c) THEN Goto(c, "tenant_owned") ELSE Reply(c, "NotFound", {})
    /\ Unwritten

\* The database or the server fails between two statements: the caller gets an
\* error that tells nothing, or none.
CallFails(c) ==
    /\ ~At(c, "idle")
    /\ call' = [call EXCEPT ![c] = Idle]
    /\ reply' = NoReply
    /\ Unwritten

-----------------------------------------------------------------------------
(* Groups, tenants and rates (handlers/registration.go).                   *)

CreateTenant(c, t, m) ==
    /\ At(c, "group")
    /\ CreateTenantRow(t, call[c].group, TenantFromProto(m))
    /\ asked' = [asked EXCEPT ![t] = m]
    /\ Reply(c, "OK", {t})
    /\ UNCHANGED <<purge, told, reopened>>

GetTenant(c) ==
    /\ At(c, "check_tenant") /\ OwnsTenant(c)
    /\ Reply(c, "OK", {call[c].id})
    /\ Unwritten

ListTenants(c) ==
    /\ At(c, "group")
    /\ Reply(c, "OK", ListForTenantGroup(call[c].group))
    /\ Unwritten

DeleteTenant(c) ==
    LET t == call[c].id
    IN  /\ At(c, "tenant_owned")
        /\ IF CanMarkDeleted(t)
           THEN MarkTenantDeleted(t) /\ Goto(c, "purge_tenant")
           ELSE UNCHANGED rows /\ Reply(c, "FailedPrecondition", {})
        /\ UNCHANGED <<purge, asked, told, reopened>>

\* Best effort: a failure is logged and left to the reconciler.
DeleteTenantPurge(c) ==
    /\ At(c, "purge_tenant")
    /\ PurgeTenantIfEmpty(call[c].id) \/ UNCHANGED rows
    /\ Reply(c, "OK", {})
    /\ UNCHANGED <<purge, asked, told, reopened>>

GetTenantGroup(c, g) ==
    /\ At(c, "group")
    /\ IF g = call[c].group THEN Reply(c, "OK", {g}) ELSE Reply(c, "NotFound", {})
    /\ Unwritten

\* Keys and tenants refer to the group, and the caller's key is one of them.
GroupIsReferenced(g) ==
    \/ \E k \in Keys : apiKey[k] = g
    \/ \E t \in Tenants : Exists(tenant[t]) /\ tenant[t].group = g

DeleteTenantGroup(c, g) ==
    /\ At(c, "group")
    /\ LET kept == g = call[c].group /\ GroupIsReferenced(g)
       IN  /\ groups' = IF g = call[c].group /\ ~kept THEN groups \ {g} ELSE groups
           /\ Reply(c, IF g # call[c].group THEN "NotFound"
                       ELSE IF kept THEN "Internal" ELSE "OK", {})
    /\ UNCHANGED <<apiKey, tenant, workflow, override, audit, purge, asked, told, reopened>>

SetModelPricing(c, m, rate) ==
    /\ At(c, "group")
    /\ IF ModelPricingFromProto(rate) = Nil
       THEN UNCHANGED rows /\ Reply(c, "InvalidArgument", {})
       ELSE UpsertPricing(call[c].group, m, rate) /\ ReplyChanged(c, "OK")
    /\ UNCHANGED <<purge, asked, told, reopened>>

\* The defaults never change, so that when they are read does not matter.
ListEffectivePricing(g) == Effective(ListDefaults, ListOverrides(g))

ListModelPricing(c) ==
    /\ At(c, "group")
    /\ Reply(c, "OK", {})
    /\ Unwritten

-----------------------------------------------------------------------------
(* Workflows (handlers/lifecycle.go).                                      *)

InvalidRepeat(config) == config.repeat > 0 /\ config.repeat < MinRepeatSeconds

Asked(config) == [config |-> config, policy |-> Nil,
                  agents |-> [a \in Agents |-> NoRow]]

CreateWorkflow(c, w, m) ==
    LET config == WorkflowConfigFromProto(m)
        t == call[c].id
    IN  /\ At(c, "tenant_owned") /\ workflow[w] = NoRow
        /\ CASE InvalidRepeat(config) ->
                    Reply(c, "InvalidArgument", {}) /\ UNCHANGED <<rows, asked>>
             [] ~InvalidRepeat(config) /\ ~CanCreateWorkflow(t) ->
                    Goto(c, "create_lookup") /\ UNCHANGED <<rows, asked>>
             [] OTHER ->
                    /\ CreateWorkflowRow(w, t, config)
                    /\ asked' = [asked EXCEPT ![w] = Asked(m)]
                    /\ Reply(c, "OK", {w})
        /\ UNCHANGED <<purge, told, reopened>>

\* Why nothing was inserted is asked in a second statement.
CreateLookup(c) ==
    /\ At(c, "create_lookup")
    /\ Reply(c, IF Exists(tenant[call[c].id]) THEN "FailedPrecondition"
                ELSE "NotFound", {})
    /\ Unwritten

\* A new version starts a metrics epoch; the version itself is Store's.
SetWorkflowConfig(c, m) ==
    LET w == call[c].id
        config == WorkflowConfigFromProto(m)
    IN  /\ At(c, "owned")
        /\ CASE InvalidRepeat(config) ->
                    Reply(c, "InvalidArgument", {}) /\ UNCHANGED <<rows, asked>>
             [] ~InvalidRepeat(config) /\ ~Exists(workflow[w]) ->
                    Reply(c, "Internal", {}) /\ UNCHANGED <<rows, asked>>
             [] OTHER ->
                    /\ \E epoch \in {workflow[w].metrics, TRUE} :
                        UpdateWorkflow(w, [workflow[w] EXCEPT
                                            !.config = config, !.metrics = epoch])
                    /\ asked' = [asked EXCEPT ![w].config = m]
                    /\ Goto(c, "config_get")
        /\ UNCHANGED <<purge, told, reopened>>

SetWorkflowConfigAnswer(c) ==
    /\ At(c, "config_get")
    /\ IF Exists(workflow[call[c].id]) THEN Reply(c, "OK", {call[c].id})
       ELSE Reply(c, "Internal", {})
    /\ Unwritten

\* A rule needs an action, and one that pauses or cools down a window.
ValidWorkflowRule(r) ==
    /\ r.action # Nil
    /\ r.action.type # "SET_VERSION" => r.window > 0 /\ r.window <= MaxLifecycleWindow

ValidWorkflowPolicy(m) == m # Nil => \A i \in DOMAIN m : ValidWorkflowRule(m[i])

\* Arguments are looked at before the owner.
RefuseArguments(c) ==
    /\ call[c].pc \in {"check_workflow", "check_tenant", "group"}
    /\ Reply(c, "InvalidArgument", {})
    /\ Unwritten

\* The statement's row count is not looked at.
SetWorkflowLifecyclePolicy(c, m) ==
    LET w == call[c].id
    IN  /\ At(c, "owned") /\ ValidWorkflowPolicy(m)
        /\ IF Exists(workflow[w])
           THEN /\ UpdateWorkflow(w, [workflow[w] EXCEPT
                                        !.policy = WorkflowLifecyclePolicyFromProto(m)])
                /\ asked' = [asked EXCEPT ![w].policy = m]
           ELSE UNCHANGED <<rows, asked>>
        /\ Reply(c, "OK", {})
        /\ UNCHANGED <<purge, told, reopened>>

\* What the getters answer with for a row that exists.
GetWorkflow(w) == WorkflowToProto(workflow[w])

GetWorkflowLifecyclePolicy(w) == WorkflowLifecyclePolicyToProto(workflow[w].policy)

\* The agents that have a row: none, for a workflow that is gone.
GetAllForWorkflow(w) ==
    IF Exists(workflow[w])
    THEN [a \in {b \in Agents : workflow[w].agents[b] # NoRow} |-> workflow[w].agents[a]]
    ELSE <<>>

ListAgents(w) ==
    [a \in DOMAIN GetAllForWorkflow(w) |-> AgentStateToProto(GetAllForWorkflow(w)[a])]

\* An agent without a row has empty policies.
GetAgentRuntimePolicy(w, a) ==
    IF a \in DOMAIN GetAllForWorkflow(w) THEN GetAllForWorkflow(w)[a].runtime ELSE <<>>

GetAgentLifecyclePolicy(w, a) ==
    IF a \in DOMAIN GetAllForWorkflow(w) THEN GetAllForWorkflow(w)[a].lifecycle ELSE <<>>

\* GetWorkflow and GetWorkflowLifecyclePolicy: the row may be gone by now.
ReadWorkflow(c) ==
    /\ At(c, "owned")
    /\ IF Exists(workflow[call[c].id]) THEN Reply(c, "OK", {call[c].id})
       ELSE Reply(c, "NotFound", {})
    /\ Unwritten

\* The version is read first, and the totals of that version in a second
\* statement: zeroes, if there are none.
ReadMetrics(c) ==
    /\ At(c, "owned")
    /\ IF Exists(workflow[call[c].id]) THEN Goto(c, "totals") ELSE Reply(c, "NotFound", {})
    /\ Unwritten

ReadTotals(c) ==
    /\ At(c, "totals")
    /\ Reply(c, "OK", {call[c].id})
    /\ Unwritten

\* ListAgents, GetAgentRuntimePolicy and GetAgentLifecyclePolicy ask for other
\* rows, and find none for a workflow that is gone.
ReadDependents(c) ==
    /\ At(c, "owned")
    /\ Reply(c, "OK", {call[c].id})
    /\ Unwritten

\* So do the requests of a workflow.
ListWorkflowRuns(c) ==
    /\ At(c, "owned")
    /\ Reply(c, "OK", {call[c].id})
    /\ Unwritten

\* A request is read first, and then the owner of its workflow is checked.
GetRequestInfo(c) ==
    LET w == call[c].id
    IN  /\ At(c, "check_workflow") /\ Exists(workflow[w]) /\ workflow[w].requests
        /\ IF TenantGroupIDForWorkflow(w) = call[c].group THEN Reply(c, "OK", {w})
           ELSE Reply(c, "NotFound", {})
        /\ Unwritten

ListWorkflowsOf(g) ==
    {w \in Workflows : Exists(workflow[w]) /\ TenantGroupIDForWorkflow(w) = g}

ListWorkflows(c) ==
    /\ At(c, "group")
    /\ Reply(c, "OK", ListWorkflowsOf(call[c].group))
    /\ Unwritten

-----------------------------------------------------------------------------
(* Agents.                                                                 *)

NoPolicies == [runtime |-> <<>>, lifecycle |-> <<>>]

AgentRow(w, a) ==
    IF workflow[w].agents[a] = NoRow THEN NoPolicies ELSE workflow[w].agents[a]

AskedAgent(w, a) ==
    IF asked[w].agents[a] = NoRow THEN [runtime |-> Nil, lifecycle |-> Nil]
    ELSE asked[w].agents[a]

\* Mutation: the whole row is replaced, with the policy that came along.
UpsertWhole(w, a, policy) ==
    UpdateWorkflow(w, [workflow[w] EXCEPT
        !.agents[a] = [NoPolicies EXCEPT !.runtime = policy]])

UpsertRuntimePolicy(w, a, policy) ==
    UpdateWorkflow(w, [workflow[w] EXCEPT
        !.agents[a] = [AgentRow(w, a) EXCEPT !.runtime = policy]])

UpsertLifecyclePolicy(w, a, policy) ==
    UpdateWorkflow(w, [workflow[w] EXCEPT
        !.agents[a] = [AgentRow(w, a) EXCEPT !.lifecycle = policy]])

SetAgentRuntimePolicy(c, a, m) ==
    LET w == call[c].id
    IN  /\ At(c, "owned")
        /\ IF Exists(workflow[w])
           THEN /\ UpsertRuntimePolicy(w, a, AgentPolicyFromStruct(m))
                /\ asked' = [asked EXCEPT ![w].agents[a] =
                                [AskedAgent(w, a) EXCEPT !.runtime = m]]
                /\ ReplyChanged(c, "OK")
           ELSE Reply(c, "Internal", {}) /\ UNCHANGED <<rows, asked>>
        /\ UNCHANGED <<purge, told, reopened>>

ValidateAgentLifecycleRules(m) ==
    m # Nil => \A i \in DOMAIN m :
        m[i] # Nil /\ m[i] > 0 /\ m[i] <= MaxLifecycleWindow

SetAgentLifecyclePolicy(c, a, m) ==
    LET w == call[c].id
    IN  /\ At(c, "owned")
        /\ CASE ~ValidateAgentLifecycleRules(m) ->
                    Reply(c, "InvalidArgument", {}) /\ UNCHANGED <<rows, asked>>
             [] ValidateAgentLifecycleRules(m) /\ ~Exists(workflow[w]) ->
                    Reply(c, "Internal", {}) /\ UNCHANGED <<rows, asked>>
             [] OTHER ->
                    /\ UpsertLifecyclePolicy(w, a, AgentPolicyFromStruct(m))
                    /\ asked' = [asked EXCEPT ![w].agents[a] =
                                    [AskedAgent(w, a) EXCEPT !.lifecycle = m]]
                    /\ ReplyChanged(c, "OK")
        /\ UNCHANGED <<purge, told, reopened>>

DeleteAgentRow(w, a) == UpdateWorkflow(w, [workflow[w] EXCEPT !.agents[a] = NoRow])

DeleteAgent(c, a) ==
    LET w == call[c].id
    IN  /\ At(c, "owned")
        /\ IF Exists(workflow[w])
           THEN /\ DeleteAgentRow(w, a)
                /\ asked' = [asked EXCEPT ![w].agents[a] = NoRow]
           ELSE UNCHANGED <<rows, asked>>
        /\ ReplyChanged(c, "OK")
        /\ UNCHANGED <<purge, told, reopened>>

\* A worker's metrics make a row for an agent that has none.
UpdateMetrics(w, a) ==
    /\ Exists(workflow[w]) /\ workflow[w].run = "busy"
    /\ workflow[w].agents[a] = NoRow
    /\ UpdateWorkflow(w, [workflow[w] EXCEPT !.agents[a] = NoPolicies])
    /\ asked' = [asked EXCEPT ![w].agents[a] = AskedAgent(w, a)]
    /\ call' = [x \in Callers |-> Outdated(x)]
    /\ reply' = NoReply
    /\ UNCHANGED <<purge, told, reopened>>

-----------------------------------------------------------------------------
(* Invocations: what the run will work with is read step by step.          *)

\* What an invocation needs of the configuration.
ResolveRuntimeParams(config, ownTimeout) ==
    config.triggerable /\ (ownTimeout \/ config.timeout # 0)

\* Refusals that depend on the run's state are ControlPlane's; an invocation
\* may carry its own timeout.
InvokeWorkflow(c, ownTimeout) ==
    LET w == call[c].id
    IN  /\ At(c, "owned")
        /\ CASE ~Exists(workflow[w]) -> Reply(c, "NotFound", {})
             [] Exists(workflow[w]) /\ workflow[w].disabled ->
                    Reply(c, "FailedPrecondition", {})
             [] OTHER ->
                    IF ResolveRuntimeParams(workflow[w].config, ownTimeout)
                    THEN Goto(c, "invoke_agents")
                    ELSE Reply(c, "Internal", {})
        /\ Unwritten

ResolveAgentRuntimeParams(c) ==
    LET w == call[c].id
        known == GetAllForWorkflow(w)
    IN  /\ At(c, "invoke_agents")
        /\ call' = [call EXCEPT ![c].pc = "invoke_rates",
                        ![c].agents = [a \in DOMAIN known |-> known[a].runtime]]
        /\ reply' = NoReply
        /\ Unwritten

ResolveModelPricing(c) ==
    LET w == call[c].id
    IN  /\ At(c, "invoke_rates")
        /\ IF Exists(workflow[w])
           THEN /\ call' = [call EXCEPT ![c].pc = "invoke_create",
                        ![c].rates = ListEffectivePricing(TenantGroupIDForWorkflow(w))]
                /\ reply' = NoReply
           ELSE Reply(c, "NotFound", {})
        /\ Unwritten

\* The workflow may be disabled by now, by its deletion or by a failed run; whether
\* it is being deleted, or deleted, is not looked at.
CreateInvocationRequest(c) ==
    LET w == call[c].id
    IN  /\ At(c, "invoke_create")
        /\ IF Exists(workflow[w]) /\ ~workflow[w].disabled
           THEN /\ UpdateWorkflow(w, [workflow[w] EXCEPT
                                        !.requests = TRUE, !.run = "busy"])
                /\ Reply(c, "OK", {w})
           ELSE Reply(c, "FailedPrecondition", {}) /\ UNCHANGED rows
        /\ UNCHANGED <<purge, asked, told, reopened>>

-----------------------------------------------------------------------------
(* Calls that act on the run.  What they do to it is ControlPlane's and    *)
(* Gates'; here it is told which of them the rows refuse.                  *)

InService(w) == Exists(workflow[w]) /\ ~workflow[w].disabled

\* A gate is open only while its run is not over.
MayWait(w) == Exists(workflow[w]) /\ workflow[w].run = "busy"

\* may: whether the statement can match a row.
ControlRun(c, may(_)) ==
    /\ At(c, "owned")
    /\ \E code \in {"OK", "FailedPrecondition"} :
        /\ code = "OK" => may(call[c].id)
        /\ Reply(c, code, {})
    /\ Unwritten

SetLife(w, life) == UpdateWorkflow(w, [workflow[w] EXCEPT !.life = life])

\* Nothing tells a workflow that is gone from one that is held by another.  The
\* suspension is finalized at once if nothing runs: the lifecycle state is
\* written, whatever it was.
SuspendWorkflow(c) ==
    \/ ControlRun(c, InService)
    \/ /\ At(c, "owned")
       /\ InService(call[c].id) /\ ~Running(call[c].id)
       /\ SetLife(call[c].id, "live")
       /\ Reply(c, "OK", {})
       /\ UNCHANGED <<purge, asked, told, reopened>>

\* The workflow is read before it is restored, to the lifecycle state of one that
\* is not deleted.
ResumeWorkflow(c) ==
    LET w == call[c].id
    IN  /\ At(c, "owned")
        /\ \/ /\ InService(w)
              /\ SetLife(w, "live")
              /\ Reply(c, "OK", {})
           \/ /\ Reply(c, IF Exists(workflow[w]) THEN "FailedPrecondition"
                           ELSE "NotFound", {})
              /\ UNCHANGED rows
        /\ UNCHANGED <<purge, asked, told, reopened>>

AbandonQueuedRequests(c) ==
    /\ At(c, "owned")
    /\ Reply(c, "OK", {})
    /\ Unwritten

ActivateWorkflow(c) == ControlRun(c, InService)

\* The statement matches the interrupted workflow whether or not it is being
\* deleted, and takes back that it is disabled, as its deletion made it.
ResolveInterruptedWorkflow(c) ==
    LET w == call[c].id
        row == workflow[w]
    IN  /\ At(c, "owned")
        /\ \/ /\ Exists(row) /\ row.life = "interrupted"
              /\ UpdateWorkflow(w, [row EXCEPT !.life = "live", !.disabled = FALSE])
              /\ reopened' = IF row.deleting THEN reopened \cup {row.tenant}
                             ELSE reopened
              /\ Reply(c, "OK", {})
           \/ /\ Reply(c, "FailedPrecondition", {})
              /\ UNCHANGED <<rows, reopened>>
        /\ UNCHANGED <<purge, asked, told>>

ApproveWorkflow(c) == ControlRun(c, MayWait)

RejectWorkflow(c) == ControlRun(c, MayWait)

SubmitInput(c) == ControlRun(c, MayWait)

-----------------------------------------------------------------------------
(* Deletion of a workflow: marked, finalized at once if nothing runs.      *)

DeleteWorkflow(c) ==
    /\ At(c, "owned")
    /\ IF Exists(workflow[call[c].id]) THEN Goto(c, "delete_mark")
       ELSE Reply(c, "NotFound", {})
    /\ Unwritten

MarkDeletionRequested(c) ==
    LET w == call[c].id
    IN  /\ At(c, "delete_mark")
        /\ IF Exists(workflow[w]) /\ ~workflow[w].deleting
           THEN /\ UpdateWorkflow(w, [workflow[w] EXCEPT
                                        !.deleting = TRUE, !.disabled = TRUE])
                /\ Goto(c, "delete_check")
           ELSE Reply(c, "FailedPrecondition", {}) /\ UNCHANGED rows
        /\ UNCHANGED <<purge, asked, told, reopened>>

HasRunningRequest(c) ==
    LET w == call[c].id
    IN  /\ At(c, "delete_check")
        /\ IF Running(w) THEN Reply(c, "OK", {})
           ELSE Goto(c, "delete_finalize")
        /\ Unwritten

DeleteFinalize(c) ==
    LET w == call[c].id
    IN  /\ At(c, "delete_finalize")
        /\ IF Exists(workflow[w]) THEN FinalizeDeleted(w) ELSE UNCHANGED rows
        /\ Reply(c, "OK", {})
        /\ UNCHANGED <<purge, asked, told, reopened>>

-----------------------------------------------------------------------------
(* The audit log.                                                          *)

\* What an event's row holds: a decision, the rule that fired, or the action a
\* worker reported.
AuditDetails(e) ==
    CASE e.type = "agent_policy_action" -> AgentPolicyActionFromProto(e.message)
      [] e.type = "policy_action" -> workflowRuleFromProto(e.message)
      [] OTHER -> e.message

RecordEvent(w, e) ==
    LET head == [group |-> TenantGroupIDForWorkflow(w), workflow |-> w,
                 type |-> e.type, agent |-> e.agent]
    IN  /\ Exists(workflow[w]) /\ workflow[w].run = "busy"
        /\ Cardinality(audit) < MaxEvents
        /\ AppendAudit([head |-> head, type |-> e.type, details |-> AuditDetails(e)])
        /\ told' = told \cup {[head |-> head, type |-> e.type, message |-> e.message]}
        /\ reply' = NoReply
        /\ UNCHANGED <<purge, call, asked, reopened>>

\* NoRow for a workflow or an agent, or no types, filter nothing.
Selected(e, g, w, a, types) ==
    /\ e.head.group = g
    /\ w \in {NoRow, e.head.workflow}
    /\ a \in {NoRow, e.head.agent}
    /\ types = {} \/ e.type \in types

ListAuditEvents(g, w, a, types) == {e \in audit : Selected(e, g, w, a, types)}

GetApprovalByID(g, id) ==
    {e \in audit : e.head.group = g /\ e.type = "approval" /\ e.details.id = id}

GetApprovalAudit(g, w) ==
    {ApprovalAuditRecord(e) : e \in ListAuditEvents(g, w, NoRow, {"approval"})}

GetApprovalAuditById(g, id) == {ApprovalAuditRecord(e) : e \in GetApprovalByID(g, id)}

GetInputAudit(g, w) ==
    {InputAuditRecord(e) : e \in ListAuditEvents(g, w, NoRow, {"input"})}

GetWorkflowPolicyAudit(g, w) ==
    {WorkflowPolicyAuditRecord(e) :
        e \in ListAuditEvents(g, w, NoRow, {"policy_action"})}

GetAgentPolicyAudit(g, w, a) ==
    {AgentPolicyAuditRecord(e) :
        e \in ListAuditEvents(g, w, a, {"agent_policy_action"})}

GetAuditLog(g, w) == {AuditEntry(e) : e \in ListAuditEvents(g, w, NoRow, {})}

\* No owner is checked: the log is the caller's group's.
ReadAudit(c) ==
    /\ At(c, "group")
    /\ Reply(c, "OK",
             {e.head.workflow : e \in ListAuditEvents(call[c].group, NoRow, NoRow, {})})
    /\ Unwritten

-----------------------------------------------------------------------------
Provision ==
    /\ \/ \E g \in Groups : ProvisionGroup(g)
       \/ \E k \in Keys : ProvisionKey(k)
    /\ reply' = NoReply
    /\ UNCHANGED <<purge, call, asked, told, reopened>>

Start(c) ==
    \E k \in Keys :
        \/ Authenticate(c, k, "group", NoRow)
        \/ \E t \in Tenants : Authenticate(c, k, "check_tenant", t)
        \/ \E w \in Workflows : Authenticate(c, k, "check_workflow", w)

GroupCall(c) ==
    \/ \E t \in Tenants, m \in TenantMessages : CreateTenant(c, t, m)
    \/ ListTenants(c) \/ ListWorkflows(c)
    \/ \E g \in Groups : GetTenantGroup(c, g) \/ DeleteTenantGroup(c, g)
    \/ \E m \in Models, r \in Rates : SetModelPricing(c, m, r)
    \/ ListModelPricing(c) \/ ReadAudit(c)

TenantCall(c) ==
    \/ checkTenantOwner(c) \/ GetTenant(c)
    \/ DeleteTenant(c) \/ DeleteTenantPurge(c)
    \/ \E w \in Workflows, m \in ConfigMessages : CreateWorkflow(c, w, m)
    \/ CreateLookup(c)

SettingsCall(c) ==
    \/ \E m \in ConfigMessages : SetWorkflowConfig(c, m)
    \/ SetWorkflowConfigAnswer(c)
    \/ \E m \in PolicyMessages : SetWorkflowLifecyclePolicy(c, m)
    \/ \E a \in Agents :
        \/ \E m \in RuntimeMessages : SetAgentRuntimePolicy(c, a, m)
        \/ \E m \in RuleMessages : SetAgentLifecyclePolicy(c, a, m)
        \/ DeleteAgent(c, a)

WorkflowCall(c) ==
    \/ checkWorkflowOwner(c) \/ GetRequestInfo(c)
    \/ ReadWorkflow(c) \/ ReadMetrics(c) \/ ReadTotals(c)
    \/ ReadDependents(c) \/ ListWorkflowRuns(c)
    \/ \E own \in BOOLEAN : InvokeWorkflow(c, own)
    \/ ResolveAgentRuntimeParams(c) \/ ResolveModelPricing(c)
    \/ CreateInvocationRequest(c)
    \/ SuspendWorkflow(c) \/ ResumeWorkflow(c) \/ AbandonQueuedRequests(c)
    \/ ActivateWorkflow(c) \/ ResolveInterruptedWorkflow(c)
    \/ ApproveWorkflow(c) \/ RejectWorkflow(c) \/ SubmitInput(c)
    \/ DeleteWorkflow(c) \/ MarkDeletionRequested(c) \/ HasRunningRequest(c)
    \/ DeleteFinalize(c)

Background ==
    /\ \/ \E w \in Workflows :
            RunEnds(w) \/ SweepJob(w) \/ Reconcile(w) \/ PurgeFails(w)
       \/ \E t \in Tenants : PurgeTenant(t)
    /\ reply' = NoReply
    /\ UNCHANGED <<call, asked, told, reopened>>

Next ==
    \/ Provision \/ Background
    \/ \E c \in Callers :
        \/ Start(c) \/ RefuseArguments(c) \/ CallFails(c)
        \/ GroupCall(c) \/ TenantCall(c) \/ SettingsCall(c) \/ WorkflowCall(c)
    \/ \E w \in Workflows :
        \/ \E a \in Agents : UpdateMetrics(w, a)
        \/ \E e \in Events : RecordEvent(w, e)

Spec == ApiInit /\ [][Next]_vars

-----------------------------------------------------------------------------
(* Fairness: runs end (ControlPlane), the job row they leave is swept, and *)
(* the reconcilers sweep again and again.  A statement of theirs that is   *)
(* tried again and again succeeds once, and a workflow's row that they     *)
(* find free of references again and again is deleted once: no failure and *)
(* no call comes in between every time.                                    *)

InBackground(A) == A /\ reply' = NoReply /\ UNCHANGED <<call, asked, told, reopened>>

FairSpec ==
    /\ Spec
    /\ \A w \in Workflows :
        /\ WF_vars(InBackground(RunEnds(w) \/ SweepJob(w)))
        /\ WF_vars(InBackground(Reconcile(w)))
        /\ SF_vars(InBackground(ReconcileFinalize(w) \/ PurgeMetrics(w)))
        /\ SF_vars(InBackground(PurgeDeleted(w) /\ Unreferenced(w)))
    /\ \A t \in Tenants : WF_vars(InBackground(PurgeTenant(t)))

-----------------------------------------------------------------------------
(* Properties.                                                             *)

CallSteps == {"idle", "group", "check_tenant", "tenant_owned", "purge_tenant",
    "create_lookup", "check_workflow", "owned", "totals", "config_get",
    "invoke_agents", "invoke_rates", "invoke_create", "delete_mark", "delete_check",
    "delete_finalize"}

\* The rows have their columns, and a row that others refer to exists: the
\* foreign keys hold after every statement.
ApiTypeOK ==
    /\ groups \subseteq Groups
    /\ \A k \in Keys : apiKey[k] \in groups \cup {NoRow}
    /\ \A t \in Tenants : Exists(tenant[t]) =>
        /\ tenant[t].group \in groups /\ tenant[t].deleted \in BOOLEAN
        /\ tenant[t].count \in 0 .. Cardinality(Workflows)
    /\ \A w \in Workflows : Exists(workflow[w]) =>
        /\ Exists(tenant[workflow[w].tenant])
        /\ workflow[w].run \in {"none", "busy", "left"}
        /\ workflow[w].life \in {"live", "interrupted", "deleted"}
        /\ workflow[w].life = "deleted" => workflow[w].deleting
        /\ workflow[w].life = "interrupted" => workflow[w].disabled
    /\ \A w \in Workflows : purge[w] \in {"idle", "finalize", "metrics", "row"}
    /\ \A c \in Callers : call[c].pc \in CallSteps
    /\ reopened \subseteq Tenants

InUse(t) == {w \in WorkflowsOf(t) : workflow[w].life # "deleted"}

\* workflow_count is the number of the tenant's workflows that are not deleted,
\* whoever finalizes a deletion and in whatever order (WorkflowRepo.Create,
\* FinalizeDeleted), unless an interruption of one of them was acknowledged while
\* that one was being deleted: it can then be invoked or suspended again, and the
\* end of its run, or of its suspension, takes it out of 'deleted' to be counted
\* out once more (ResolveInterruptedWorkflow, ApplyCompletedJob,
\* FinalizeSuspended, RestoreFromSuspension).  Even so the count is never too large: no tenant
\* is kept from being deleted by a workflow that is not there.
TenantCountExact ==
    \A t \in Tenants : Exists(tenant[t]) =>
        /\ tenant[t].count <= Cardinality(InUse(t))
        /\ t \notin reopened => tenant[t].count = Cardinality(InUse(t))

\* A tenant that is deleted has no workflow left to run, and gets none: a call
\* that found it alive does not slip one in (TenantRepo.MarkDeleted), nor does a
\* run that was still going end after its workflow was counted out
\* (HasRunningRequest).  A tenant with a workflow acknowledged while being deleted
\* is left out: its count says less than is there.
DeletedTenantIsEmpty ==
    \A t \in Tenants \ reopened :
        Exists(tenant[t]) /\ tenant[t].deleted => InUse(t) = {}

\* The group a row belongs to; NoRow for a row that is not there.
OwnerOf(id) ==
    CASE id \in groups -> id
      [] id \in Tenants /\ Exists(tenant[id]) -> tenant[id].group
      [] id \in Workflows /\ Exists(workflow[id]) -> TenantGroupIDForWorkflow(id)
      [] OTHER -> NoRow

HidesForeignRows ==
    /\ OwnerOf(reply.id) \notin {NoRow, reply.group} =>
            reply.code \in {"none", "NotFound", "InvalidArgument"}
    /\ \A id \in reply.rows : OwnerOf(id) \in {NoRow, reply.group}

\* To a caller of another group a row looks absent, and a list holds none of it
\* (checkWorkflowOwner, checkTenantOwner, the handlers of registration.go): no
\* step answers such a call OK, or with what only the owner may learn.
ForeignLooksAbsent == [][HidesForeignRows']_vars

\* What a caller may expect to read after sending a message: enumerators left
\* out are read as their defaults, and a value that its action does not use as 0.
ReadConfig(m) ==
    IF m = Nil
    THEN [timeout |-> 0, repeat |-> 0, triggerable |-> TRUE, mode |-> "COALESCE",
          depth |-> 0, resumable |-> FALSE]
    ELSE [m EXCEPT !.mode = IF @ = "UNSPECIFIED" THEN "COALESCE" ELSE @]

ReadRule(r) ==
    LET type == IF r.action.type = "UNSPECIFIED" THEN "PAUSE" ELSE r.action.type
    IN  [r EXCEPT
            !.metric = IF @ = "UNSPECIFIED" THEN "NUM_FAILURES" ELSE @,
            !.action = [type |-> type,
                        seconds |-> IF type = "COOLDOWN" THEN @.seconds ELSE 0,
                        target |-> IF type = "SET_VERSION" THEN @.target ELSE 0]]

ReadPolicy(m) == IF m = Nil THEN <<>> ELSE MapSeq(ReadRule, m)

\* Of a policy set every part is there, zero where it was left out.
ReadPolicySet(m) ==
    IF m = Nil THEN Nil
    ELSE [concurrency |-> OrZero(m.concurrency, [max |-> 0]),
          failure |-> IF m.failure = Nil
                      THEN [rollback |-> FALSE, retry |-> [retries |-> 0, backoff |-> 0]]
                      ELSE [m.failure EXCEPT
                                !.retry = IF @ = Nil THEN [retries |-> 0, backoff |-> 0]
                                          ELSE [@ EXCEPT !.backoff = OrZero(@, 0)]],
          maintenance |-> IF m.maintenance = Nil THEN [windows |-> <<>>]
                          ELSE [windows |-> [i \in DOMAIN m.maintenance.windows |->
                                [m.maintenance.windows[i] EXCEPT
                                    !.duration = OrZero(@, 0)]]],
          upgrade |-> IF m.upgrade = Nil THEN [autoPause |-> FALSE, bakeTime |-> 0]
                      ELSE [m.upgrade EXCEPT !.bakeTime = OrZero(@, 0)]]

ReadStruct(m) == IF m = Nil THEN <<>> ELSE m

\* The getters answer with the last accepted message of each setting, through
\* both conversions, whatever calls set the other settings at the same time and
\* whatever a run writes beside them.
SettingsReadBack ==
    /\ \A t \in Tenants : Exists(tenant[t]) =>
        TenantToProto(tenant[t]) = ReadPolicySet(asked[t])
    /\ \A w \in Workflows : Exists(workflow[w]) =>
        /\ GetWorkflow(w) = ReadConfig(asked[w].config)
        /\ GetWorkflowLifecyclePolicy(w) = ReadPolicy(asked[w].policy)
        /\ \A a \in Agents :
            /\ a \in DOMAIN ListAgents(w) <=> asked[w].agents[a] # NoRow
            /\ GetAgentRuntimePolicy(w, a) = ReadStruct(AskedAgent(w, a).runtime)
            /\ GetAgentLifecyclePolicy(w, a) = ReadStruct(AskedAgent(w, a).lifecycle)

\* What a getter answers can be sent back: the setters accept it and nothing
\* changes (the conversions' comments call one the inverse of the other).
WriteBackChangesNothing ==
    /\ \A t \in Tenants : Exists(tenant[t]) =>
        TenantFromProto(TenantToProto(tenant[t])) = tenant[t].policies
    /\ \A w \in Workflows : Exists(workflow[w]) =>
        /\ WorkflowConfigFromProto(GetWorkflow(w)) = workflow[w].config
        /\ ~InvalidRepeat(workflow[w].config)
        /\ ValidWorkflowPolicy(GetWorkflowLifecyclePolicy(w))
        /\ WorkflowLifecyclePolicyFromProto(GetWorkflowLifecyclePolicy(w))
                = workflow[w].policy
        /\ \A a \in Agents :
                ValidateAgentLifecycleRules(GetAgentLifecyclePolicy(w, a))

\* An invocation works with the runtime policies and the rates in force, those of
\* its own group before the defaults, unless they changed while it was read
\* (ResolveAgentRuntimeParams, ResolveModelPricing).
InvocationCarriesWhatIsSet ==
    \A c \in Callers : At(c, "invoke_create") /\ ~call[c].changed =>
        LET w == call[c].id
            g == call[c].group
        IN  /\ Exists(workflow[w]) =>
                /\ DOMAIN call[c].agents = {a \in Agents : asked[w].agents[a] # NoRow}
                /\ \A a \in DOMAIN call[c].agents :
                        call[c].agents[a] = ReadStruct(AskedAgent(w, a).runtime)
            /\ \A m \in Models :
                IF m \in DOMAIN override[g] THEN call[c].rates[m] = override[g][m]
                ELSE m \in DOMAIN DefaultRates => call[c].rates[m] = DefaultRates[m]

\* What an entry of the audit log shows of the event that was reported.
ReadAgentRule(r) ==
    LET action == IF r.action = Nil THEN [NoRuleAction EXCEPT !.field = "UNSPECIFIED"]
                  ELSE r.action
        Of(field, value) == IF action.field = field THEN value ELSE 0
    IN  [r EXCEPT !.action =
            [field |-> action.field,
             model |-> Of("SET_MODEL", action.model),
             calls |-> Of("SET_MAX_LLM_CALLS", action.calls),
             cost |-> Of("SET_MAX_COST_USD", action.cost),
             tokens |-> Of("SET_MAX_TOKENS_PER_CALL", action.tokens)]]

ReadEvent(e) ==
    [head |-> e.head, type |-> e.type, details |->
        CASE e.type = "agent_policy_action" ->
                [base |-> OrZero(e.message.base, NoRuntimePolicy),
                 effective |-> OrZero(e.message.effective, NoRuntimePolicy),
                 fired |-> MapSeq(ReadAgentRule, e.message.fired)]
          [] e.type = "policy_action" -> ReadRule(e.message)
          [] OTHER -> [e.message EXCEPT !.decision =
                CASE @ = "timed_out" -> "TIMED_OUT" [] @ = "approved" -> "APPROVED"
                  [] @ = "rejected" -> "REJECTED" [] @ = "answered" -> "ANSWERED"]]

ReadEvents(events) == {ReadEvent(e) : e \in events}

\* The log of a group shows every event reported for its workflows, as it was
\* reported, after the workflow itself is purged too, and shows it to no other
\* group; the lists of one kind, one workflow, one agent or one approval show
\* just the events of it (AuditRepo.ListAuditEvents, convert/audit.go; the limit of
\* 500 entries is not reached).
AuditReadBack ==
    \A g \in Groups, w \in Workflows \cup {NoRow} :
        LET Told(a, types) == {e \in told : Selected(e, g, w, a, types)}
        IN  /\ GetAuditLog(g, w) = ReadEvents(Told(NoRow, {}))
            /\ GetApprovalAudit(g, w) = ReadEvents(Told(NoRow, {"approval"}))
            /\ GetInputAudit(g, w) = ReadEvents(Told(NoRow, {"input"}))
            /\ GetWorkflowPolicyAudit(g, w) = ReadEvents(Told(NoRow, {"policy_action"}))
            /\ \A a \in Agents : GetAgentPolicyAudit(g, w, a)
                    = ReadEvents(Told(a, {"agent_policy_action"}))
            /\ \A e \in Told(NoRow, {"approval"}) :
                    ReadEvent(e) \in GetApprovalAuditById(g, e.message.id)

\* A workflow whose deletion was asked for is purged in the end, with all that
\* depends on it, and a deleted tenant too (WorkflowPurgeReconciler,
\* TenantPurgeReconciler), however often their statements fail before: no leftover
\* row holds the foreign keys forever.  A workflow acknowledged while being deleted
\* may be invoked again and again instead.
DeletedIsPurged ==
    /\ \A w \in Workflows :
        (Exists(workflow[w]) /\ workflow[w].deleting)
            ~> (~Exists(workflow[w]) \/ workflow[w].tenant \in reopened)
    /\ \A t \in Tenants :
        (Exists(tenant[t]) /\ tenant[t].deleted) ~> (~Exists(tenant[t]) \/ t \in reopened)

=============================================================================
