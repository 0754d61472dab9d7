------------------------------- MODULE MCApi -------------------------------
(***************************************************************************)
(* Module Api with the messages of small instances.                        *)
(***************************************************************************)
EXTENDS Api, TLC

CONSTANTS m1, a1, g1, g2, k1, k2

MCKeyOf == [k \in {k1, k2} |-> IF k = k1 THEN g1 ELSE g2]

\* Callers are alike, and so are the groups, each with its key.
GroupsSwapped == g1 :> g2 @@ g2 :> g1 @@ k1 :> k2 @@ k2 :> k1
Alike == Permutations(Callers) \cup {GroupsSwapped}
            \cup {p @@ GroupsSwapped : p \in Permutations(Callers)}

MCDefaultRates == [m \in {m1} |-> 1]
MCRates == {2, -1}

\* No overrides, and ones with parts left out.
MCTenantMessages ==
    {Nil,
     [concurrency |-> Nil,
      failure |-> [rollback |-> TRUE, retry |-> [retries |-> 3, backoff |-> Nil]],
      maintenance |-> [windows |-> <<[cron |-> "x", duration |-> Nil],
                                     [cron |-> "y", duration |-> 4]>>],
      upgrade |-> [autoPause |-> TRUE, bakeTime |-> 5]]}

Config(mode, repeat) ==
    [timeout |-> 5, repeat |-> repeat, triggerable |-> TRUE, mode |-> mode,
     depth |-> 3, resumable |-> TRUE]

\* No configuration, a queueing one, and one that repeats too often.
MCConfigMessages == {Nil, Config("QUEUE", 60), Config("UNSPECIFIED", 1)}

\* Nothing but workflows and their runs.
NoDefaultRates == <<>>
NoConfig == {Nil}
NoOverrides == {Nil}

Rule(metric, type, window) ==
    [metric |-> metric, threshold |-> 7, window |-> window, tool |-> "x",
     action |-> [type |-> type, seconds |-> 30, target |-> 4]]

Metrics == <<"UNSPECIFIED", "NUM_FAILURES", "COST", "NUM_LLM_CALLS", "LATENCY",
             "APPROVAL_REJECTIONS", "TOOL_FAILURE_RATE">>

Actions == <<"COOLDOWN", "SET_VERSION", "PAUSE", "UNSPECIFIED", "COOLDOWN",
             "SET_VERSION", "PAUSE">>

\* No policy, and one with every metric and every action.
MCPolicyMessages ==
    {Nil, [i \in 1 .. 7 |-> Rule(Metrics[i], Actions[i],
                                 IF Actions[i] = "SET_VERSION" THEN 0 ELSE 100)]}

MCRuntimeMessages == {<<9>>}

\* Windows at the edges, one too large, one missing.
MCRuleMessages == {<<1, 100>>, <<101>>, <<Nil>>}

\* Bound: the groups of settings away from their defaults at once; an interruption
\* counts as one.
Away(w) ==
    {x \in {"tenant", "config", "policy", "agents", "rates", "audit", "life"} :
        CASE x = "tenant" ->
                \E t \in Tenants : Exists(tenant[t]) /\ tenant[t].policies # Nil
          [] x = "rates" -> \E g \in Groups : override[g] # <<>>
          [] x = "audit" -> audit # {}
          [] OTHER -> Exists(workflow[w]) /\
            CASE x = "life" -> workflow[w].life = "interrupted" \/ reopened # {}
              [] x = "config" -> workflow[w].config.mode = "queue"
              [] x = "policy" -> workflow[w].policy # <<>>
              [] x = "agents" -> \E a \in Agents : workflow[w].agents[a] # NoRow}

FewAway == \A w \in Workflows : Cardinality(Away(w)) <= 1

\* Bound: once a workflow was acknowledged while being deleted, at most one
\* workflow is other than it was created.  What DeletedIsPurged says of its tenant
\* holds from then on.
OthersLeftAlone ==
    reopened # {} =>
        Cardinality({w \in Workflows : Exists(workflow[w]) /\ workflow[w]
                        # NewWorkflow(workflow[w].tenant, workflow[w].config)}) <= 1

\* States that differ only in the answer just given are explored once: no action
\* reads it, and of the properties only ForeignLooksAbsent, which is checked on
\* every step, whether or not the step leads to a new state.
AllButReply == <<rows, purge, call, asked, told, reopened>>

AgentAction(field) ==
    [field |-> field, model |-> 1, calls |-> 2, cost |-> 3, tokens |-> 4]

AgentRule(metric, op, action) ==
    [metric |-> metric, op |-> op, window |-> 5, tool |-> "x", action |-> action]

Event(type, agent, message) == [type |-> type, agent |-> agent, message |-> message]

MCEvents ==
    {Event("approval", NoRow, [id |-> 1, decision |-> "rejected"]),
     Event("input", NoRow, [id |-> 1, decision |-> "answered"]),
     Event("policy_action", NoRow, Rule("TOOL_FAILURE_RATE", "COOLDOWN", 3)),
     Event("agent_policy_action", a1,
        [base |-> Nil,
         effective |-> [model |-> "x", calls |-> 8,
                        limits |-> <<[tool |-> "x", calls |-> 9]>>],
         fired |-> <<AgentRule("TOKENS_USED", "LT", AgentAction("SET_MODEL")),
                     AgentRule("COST_USD", "LTE", AgentAction("SET_MAX_LLM_CALLS")),
                     AgentRule("LLM_CALLS", "GT", AgentAction("SET_MAX_COST_USD")),
                     AgentRule("CALLS_PER_TOOL", "GTE",
                               AgentAction("SET_MAX_TOKENS_PER_CALL")),
                     AgentRule("UNSPECIFIED", "EQ", Nil)>>])}

=============================================================================
