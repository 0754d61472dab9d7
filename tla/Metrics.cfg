SPECIFICATION Spec
CONSTANTS
    a1 = a1  a2 = a2  r1 = r1  r2 = r2
    Metrics = {"num_failures", "cost", "tool", "approval_rejections"}
    ToolMetrics = {"tool"}
    Runners = {r1, r2}
    ConfigVersions = {1, 2}
    FirstConfigs = {1}
    Policies <- MCPolicies
    OtherPolicies <- MCOtherPolicies
    Pasts <- MCPasts
    OperationMetrics <- MCOperationMetrics
    MaxRuns = 2
    MaxOperations = 1
    MaxWindow = 1
    MaxFaults = 1
    MaxConfigs = 1
SYMMETRY Symmetry
CHECK_DEADLOCK FALSE
INVARIANT MetricsTypeOK
INVARIANT RunsCountedOnce
INVARIANT TablesAgree
INVARIANT PolicyActionAuditedOnce
INVARIANT EngineMeetsReference
PROPERTY ResolvedAfterEmitted
