---------------------------- MODULE PolicyEngine ----------------------------
(***************************************************************************)
(* The workflow lifecycle policy (internal/lifecyclepolicy/engine.go): the *)
(* rules of a policy are weighed against the metrics of the latest runs    *)
(* and the strongest of the rules that fire decides what becomes of the    *)
(* workflow.                                                               *)
(*                                                                         *)
(* The metrics of a run are a function from the metrics it emitted to      *)
(* their values: a nil field, or a tool without an entry, is a metric      *)
(* outside the domain.  A rule on tool_failure_rate names a tool; each     *)
(* tool is a metric of its own here, in ToolMetrics.  Values are naturals  *)
(* (costs and latencies are floats in the code).                           *)
(***************************************************************************)
EXTENDS Integers, Sequences, SequencesExt

CONSTANTS Metrics,       \* the metrics a rule can be about
          ToolMetrics    \* the ones that are tool_failure_rate of some tool

\* WorkflowLifecyclePolicyRule.
Rule ==
    [metric : Metrics, action : {"set_version", "cooldown", "pause"},
     threshold : Nat, window : Nat \ {0}, target : Nat]

MetricEmitted(run, m) == m \in DOMAIN run

\* Adding two sets of metrics: a metric is emitted when either has it.
AddMetrics(a, b) ==
    [m \in DOMAIN a \cup DOMAIN b |->
       (IF m \in DOMAIN a THEN a[m] ELSE 0)
         + (IF m \in DOMAIN b THEN b[m] ELSE 0)]

\* The last n elements of a sequence, or all of it: a lookback cap.
LastN(seq, n) == SubSeq(seq, IF Len(seq) > n THEN Len(seq) - n + 1 ELSE 1,
                        Len(seq))

Observed(window, m) == SelectSeq(window, LAMBDA run : MetricEmitted(run, m))

\* What a set_version rule looks at: the total of its metric since the
\* configured version took effect.
VersionTotal(total, m) == IF m \in DOMAIN total THEN total[m] ELSE 0

\* What a cooldown or pause rule looks at.
RollingSum(rule, window) ==
    FoldLeft(LAMBDA sum, run : sum + run[rule.metric], 0,
             LastN(Observed(window, rule.metric), rule.window))

RuleValue(rule, window, total) ==
    IF rule.action = "set_version" THEN VersionTotal(total, rule.metric)
                                   ELSE RollingSum(rule, window)

RuleEnforced(rule, window, total) ==
    /\ window # <<>>
    /\ MetricEmitted(Last(window), rule.metric)
    /\ rule.action = "set_version" /\ rule.metric \in ToolMetrics
         => rule.metric \in DOMAIN total
    /\ RuleValue(rule, window, total) >= rule.threshold

ActionPriority(action) ==
    CASE action = "set_version" -> 0
      [] action = "cooldown"    -> 1
      [] action = "pause"       -> 2

\* The goal of a policy none of whose rules fired.
NoGoal == [action |-> "none", target |-> 0, priority |-> -1]

\* Mutation: a later rule of the same priority replaces an earlier one.
ResolveLastWins(rules, window, total) ==
    FoldLeft(LAMBDA best, rule :
               IF /\ RuleEnforced(rule, window, total)
                  /\ ActionPriority(rule.action) >= best.priority
               THEN [action |-> rule.action, target |-> rule.target,
                     priority |-> ActionPriority(rule.action)]
               ELSE best,
             NoGoal, rules)

\* ResolvePolicy's loop over the rules.
ResolvePolicy(rules, window, total) ==
    FoldLeft(LAMBDA best, rule :
               IF /\ RuleEnforced(rule, window, total)
                  /\ ActionPriority(rule.action) > best.priority
               THEN [action |-> rule.action, target |-> rule.target,
                     priority |-> ActionPriority(rule.action)]
               ELSE best,
             NoGoal, rules)
=============================================================================
