SPECIFICATION Spec
CONSTANTS
    Sessions = {s1, s2}
    NoSession = NoSession
    MaxRequests = 1
    ConfigVersions = {1}
    InvokeModes = {"coalesce"}
    Resumables = {TRUE}
    SuspensionIds = {}
    NoSuspension = NoSuspension
    MaxGates = 1
    Runners = {r1}
    MaxAttempts = 1
    MaxFaults = 1
    MaxQueueDepth = 2
    PolicyGoals = {"none", "cooldown", "paused"}
    Periodic = TRUE
    Stalls = FALSE
    Admins = {}
    MayDelete = FALSE
    MayAcknowledge = TRUE
SYMMETRY Symmetry
INVARIANT LiveRunKeepsJob
INVARIANT OneExecutor
INVARIANT AttemptsBounded
CHECK_DEADLOCK FALSE
