----------------------------- MODULE MCMetrics -----------------------------
(* Instances of Metrics for TLC. *)
EXTENDS Metrics, TLC

CONSTANTS a1, a2, r1, r2

\* Two operations: one that fails and spends, and one that runs into a gate
\* and into a tool failure.
MCOperationMetrics ==
    {[agents |-> a1 :> [cost |-> 1, tokens_used |-> 1],
      workflow |-> [num_failures |-> 1]],
     [agents |-> a1 :> [tool |-> 1] @@ a2 :> [cost |-> 1],
      workflow |-> [num_failures |-> 0, approval_rejections |-> 1]]}

MCPasts ==
    LET spent == [cost |-> 1, num_failures |-> 0]
        gated == [approval_rejections |-> 1, num_failures |-> 1, tool |-> 2]
    IN  {<<>>, <<spent, gated>>, <<gated, spent, spent>>}

MakeRule(metric, action, threshold, window, target) ==
    [metric |-> metric, action |-> action, threshold |-> threshold,
     window |-> window, target |-> target]

MCPolicies ==
    {<<MakeRule("num_failures", "pause", 1, 1, 0),
       MakeRule("tool", "set_version", 1, 1, 2),
       MakeRule("cost", "set_version", 2, 1, 1)>>}

MCOtherPolicies ==
    {<<MakeRule("num_failures", "cooldown", 1, 2, 0),
       MakeRule("approval_rejections", "set_version", 2, 1, 1),
       MakeRule("cost", "pause", 2, 2, 0),
       MakeRule("num_failures", "set_version", 0, 1, 2)>>}

Symmetry == Permutations({r1, r2})
=============================================================================
