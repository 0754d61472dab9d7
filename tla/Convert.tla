------------------------------ MODULE Convert ------------------------------
(***************************************************************************)
(* The conversions between the messages of the API and the values the rows *)
(* hold (internal/convert), as operators.  A message is a record with the  *)
(* fields of the protobuf message that the conversion looks at; an unset   *)
(* message field is Nil; an enumerator drops its type's prefix.  Numbers   *)
(* and texts that are only copied keep their field.                        *)
(***************************************************************************)
EXTENDS Integers, Sequences

CONSTANT Nil    \* an unset message field

\* The entry of an enumerator in a switch, or the switch's default.
Lookup(table, x, default) == IF x \in DOMAIN table THEN table[x] ELSE default

MapSeq(Op(_), s) == [i \in DOMAIN s |-> Op(s[i])]

OrZero(x, zero) == IF x = Nil THEN zero ELSE x

-----------------------------------------------------------------------------
(* Tenants and their policy sets.  Of each part of a set one field stands  *)
(* for those that are copied; durations and parts may be left out.         *)

NoPolicySet == [concurrency |-> 0, rollback |-> FALSE, retries |-> 0, backoff |-> 0,
                windows |-> <<>>, autoPause |-> FALSE, bakeTime |-> 0]

MaintenanceWindowFromProto(w) == [w EXCEPT !.duration = OrZero(@, 0)]

\* A part that the message leaves out keeps the zeroes of an empty set.
PolicySetFromProto(p) ==
    LET failure == IF p = Nil THEN Nil ELSE p.failure
        retry == IF failure = Nil THEN Nil ELSE failure.retry
        Part(x) == p # Nil /\ p[x] # Nil
    IN  [concurrency |-> IF Part("concurrency") THEN p.concurrency.max ELSE 0,
         rollback |-> failure # Nil /\ failure.rollback,
         retries |-> IF retry = Nil THEN 0 ELSE retry.retries,
         backoff |-> IF retry = Nil THEN 0 ELSE OrZero(retry.backoff, 0),
         windows |-> IF Part("maintenance")
                     THEN MapSeq(MaintenanceWindowFromProto, p.maintenance.windows)
                     ELSE <<>>,
         autoPause |-> Part("upgrade") /\ p.upgrade.autoPause,
         bakeTime |-> IF Part("upgrade") THEN OrZero(p.upgrade.bakeTime, 0) ELSE 0]

\* Every part and every duration is set on the way back.
PolicySetToProto(ps) ==
    [concurrency |-> [max |-> ps.concurrency],
     failure |-> [rollback |-> ps.rollback,
                  retry |-> [retries |-> ps.retries, backoff |-> ps.backoff]],
     maintenance |-> [windows |-> ps.windows],
     upgrade |-> [autoPause |-> ps.autoPause, bakeTime |-> ps.bakeTime]]

\* The policy overrides of a tenant; none are not the same as empty ones.
TenantFromProto(p) == IF p = Nil THEN Nil ELSE PolicySetFromProto(p)

TenantToProto(row) == IF row.policies = Nil THEN Nil ELSE PolicySetToProto(row.policies)

-----------------------------------------------------------------------------
(* Workflow configuration.                                                 *)

invokeModeFromProto(m) == IF m = "QUEUE" THEN "queue" ELSE "coalesce"

invokeModeToProto(m) == IF m = "queue" THEN "QUEUE" ELSE "COALESCE"

WorkflowConfigFromProto(p) ==
    IF p = Nil
    THEN [timeout |-> 0, repeat |-> 0, triggerable |-> TRUE,
          mode |-> "coalesce", depth |-> 0, resumable |-> FALSE]
    ELSE [p EXCEPT !.mode = invokeModeFromProto(@)]

\* The workflow_config of the Workflow message.
WorkflowToProto(row) == [row.config EXCEPT !.mode = invokeModeToProto(@)]

-----------------------------------------------------------------------------
(* Workflow lifecycle policy: the rules, their metrics and their actions.  *)

NoAction == [type |-> "", seconds |-> 0, target |-> 0]

workflowActionFromProto(a) ==
    CASE a = Nil -> NoAction
      [] a # Nil /\ a.type = "COOLDOWN" ->
            [NoAction EXCEPT !.type = "cooldown", !.seconds = a.seconds]
      [] a # Nil /\ a.type = "SET_VERSION" ->
            [NoAction EXCEPT !.type = "set_version", !.target = a.target]
      [] OTHER -> [NoAction EXCEPT !.type = "pause"]

workflowRuleFromProto(r) ==
    [r EXCEPT
        !.metric = Lookup([COST |-> "cost", NUM_LLM_CALLS |-> "num_llm_calls",
                           LATENCY |-> "latency",
                           APPROVAL_REJECTIONS |-> "approval_rejections",
                           TOOL_FAILURE_RATE |-> "tool_failure_rate"],
                          @, "num_failures"),
        !.action = workflowActionFromProto(@)]

\* Mutation: the metric added last is missing from the way back.
RuleWithoutToolRate(r) ==
    [r EXCEPT
        !.metric = Lookup([cost |-> "COST", num_llm_calls |-> "NUM_LLM_CALLS",
                           latency |-> "LATENCY",
                           approval_rejections |-> "APPROVAL_REJECTIONS"],
                          @, "NUM_FAILURES"),
        !.action.type = Lookup([cooldown |-> "COOLDOWN",
                                set_version |-> "SET_VERSION"], @, "PAUSE")]

WorkflowRuleToProto(r) ==
    [r EXCEPT
        !.metric = Lookup([cost |-> "COST", num_llm_calls |-> "NUM_LLM_CALLS",
                           latency |-> "LATENCY",
                           approval_rejections |-> "APPROVAL_REJECTIONS",
                           tool_failure_rate |-> "TOOL_FAILURE_RATE"],
                          @, "NUM_FAILURES"),
        !.action.type = Lookup([cooldown |-> "COOLDOWN",
                                set_version |-> "SET_VERSION"], @, "PAUSE")]

\* A policy message is the sequence of its rules, or Nil.
WorkflowLifecyclePolicyFromProto(p) ==
    IF p = Nil THEN <<>> ELSE MapSeq(workflowRuleFromProto, p)

WorkflowLifecyclePolicyToProto(rules) == MapSeq(WorkflowRuleToProto, rules)

-----------------------------------------------------------------------------
(* Agent policies.  As settings, a runtime policy and a lifecycle policy   *)
(* are structures stored as they came; of a lifecycle policy the windows   *)
(* of its rules count, Nil standing for a window that is missing or is no  *)
(* number.  An agent that has a row has both, empty unless they were set.  *)

AgentPolicyFromStruct(p) == IF p = Nil THEN <<>> ELSE p

AgentStateToProto(row) ==
    [runtime |-> row.runtime, lifecycle |-> row.lifecycle]

-----------------------------------------------------------------------------
(* The agent policy action a worker reports and the audit log shows.       *)

\* A runtime policy in a report has its own message.
NoRuntimePolicy == [model |-> "", calls |-> 0, limits |-> <<>>]

ToolCallLimit(l) == [tool |-> l.tool, calls |-> l.calls]

agentRuntimePolicyFromProto(p) ==
    IF p = Nil THEN NoRuntimePolicy
    ELSE [p EXCEPT !.limits = MapSeq(ToolCallLimit, @)]

agentRuntimePolicyToProto(p) == [p EXCEPT !.limits = MapSeq(ToolCallLimit, @)]

agentMetricFromProto(m) ==
    Lookup([TOKENS_USED |-> "tokens_used", COST_USD |-> "cost_usd",
            LLM_CALLS |-> "llm_calls", CALLS_PER_TOOL |-> "calls_per_tool"],
           m, "")

agentMetricToProto(m) ==
    Lookup([tokens_used |-> "TOKENS_USED", cost_usd |-> "COST_USD",
            llm_calls |-> "LLM_CALLS", calls_per_tool |-> "CALLS_PER_TOOL"],
           m, "UNSPECIFIED")

agentOpFromProto(o) ==
    Lookup([LT |-> "less_than", LTE |-> "less_than_or_equal",
            GT |-> "greater_than", GTE |-> "greater_than_or_equal",
            EQ |-> "equal"], o, "")

agentOpToProto(o) ==
    Lookup([less_than |-> "LT", less_than_or_equal |-> "LTE",
            greater_than |-> "GT", greater_than_or_equal |-> "GTE",
            equal |-> "EQ"], o, "UNSPECIFIED")

NoRuleAction == [field |-> "", model |-> 0, calls |-> 0, cost |-> 0, tokens |-> 0]

\* Each kind of rule action keeps the one value that belongs to it.
agentRuleActionFromProto(a) ==
    CASE a # Nil /\ a.field = "SET_MODEL" ->
            [NoRuleAction EXCEPT !.field = "model", !.model = a.model]
      [] a # Nil /\ a.field = "SET_MAX_LLM_CALLS" ->
            [NoRuleAction EXCEPT !.field = "max_llm_calls", !.calls = a.calls]
      [] a # Nil /\ a.field = "SET_MAX_COST_USD" ->
            [NoRuleAction EXCEPT !.field = "max_cost_usd", !.cost = a.cost]
      [] a # Nil /\ a.field = "SET_MAX_TOKENS_PER_CALL" ->
            [NoRuleAction EXCEPT !.field = "max_tokens_per_call",
                                 !.tokens = a.tokens]
      [] OTHER -> NoRuleAction

agentRuleActionToProto(a) ==
    LET blank == [NoRuleAction EXCEPT !.field = "UNSPECIFIED"]
    IN  CASE a.field = "model" ->
                [blank EXCEPT !.field = "SET_MODEL", !.model = a.model]
          [] a.field = "max_llm_calls" ->
                [blank EXCEPT !.field = "SET_MAX_LLM_CALLS", !.calls = a.calls]
          [] a.field = "max_cost_usd" ->
                [blank EXCEPT !.field = "SET_MAX_COST_USD", !.cost = a.cost]
          [] a.field = "max_tokens_per_call" ->
                [blank EXCEPT !.field = "SET_MAX_TOKENS_PER_CALL",
                              !.tokens = a.tokens]
          [] OTHER -> blank

NoRule == [metric |-> "", op |-> "", window |-> 0, tool |-> "",
           action |-> NoRuleAction]

agentRuleFromProto(r) ==
    IF r = Nil THEN NoRule
    ELSE [r EXCEPT !.metric = agentMetricFromProto(@),
                   !.op = agentOpFromProto(@),
                   !.action = agentRuleActionFromProto(@)]

agentRuleToProto(r) ==
    [r EXCEPT !.metric = agentMetricToProto(@),
              !.op = agentOpToProto(@),
              !.action = agentRuleActionToProto(@)]

AgentPolicyActionFromProto(pa) ==
    [base |-> agentRuntimePolicyFromProto(pa.base),
     effective |-> agentRuntimePolicyFromProto(pa.effective),
     fired |-> MapSeq(agentRuleFromProto, pa.fired)]

\* Mutation: the policy in force before the rule is shown as the one after it.
ActionWithoutChange(d) ==
    [base |-> agentRuntimePolicyToProto(d.base),
     effective |-> agentRuntimePolicyToProto(d.base),
     fired |-> MapSeq(agentRuleToProto, d.fired)]

AgentPolicyActionToProto(d) ==
    [base |-> agentRuntimePolicyToProto(d.base),
     effective |-> agentRuntimePolicyToProto(d.effective),
     fired |-> MapSeq(agentRuleToProto, d.fired)]

-----------------------------------------------------------------------------
(* Rates, and the entries of the audit log.                                *)

\* A rate below zero is refused (Nil).
ModelPricingFromProto(rate) == IF rate < 0 THEN Nil ELSE rate

\* Mutation: the defaults are merged last.
DefaultsLast(defaults, overrides) ==
    [m \in DOMAIN defaults \cup DOMAIN overrides |->
        IF m \in DOMAIN defaults THEN defaults[m] ELSE overrides[m]]

\* An override replaces the default of its model.
Effective(defaults, overrides) ==
    [m \in DOMAIN defaults \cup DOMAIN overrides |->
        IF m \in DOMAIN overrides THEN overrides[m] ELSE defaults[m]]

\* The kinds of audit events, each with its own details.
AuditEventTypes == {"approval", "input", "policy_action", "agent_policy_action"}

approvalDecisionToProto(d) ==
    Lookup([approved |-> "APPROVED", rejected |-> "REJECTED",
            timed_out |-> "TIMED_OUT"], d, "UNSPECIFIED")

inputDecisionToProto(d) ==
    Lookup([answered |-> "ANSWERED", timed_out |-> "TIMED_OUT"],
           d, "UNSPECIFIED")

ApprovalAuditRecord(e) ==
    [e EXCEPT !.details.decision = approvalDecisionToProto(@)]

InputAuditRecord(e) == [e EXCEPT !.details.decision = inputDecisionToProto(@)]

WorkflowPolicyAuditRecord(e) == [e EXCEPT !.details = WorkflowRuleToProto(@)]

AgentPolicyAuditRecord(e) == [e EXCEPT !.details = AgentPolicyActionToProto(@)]

\* An entry of the log is the record of its event's kind.
AuditEntry(e) ==
    CASE e.type = "approval" -> ApprovalAuditRecord(e)
      [] e.type = "input" -> InputAuditRecord(e)
      [] e.type = "policy_action" -> WorkflowPolicyAuditRecord(e)
      [] e.type = "agent_policy_action" -> AgentPolicyAuditRecord(e)

=============================================================================
