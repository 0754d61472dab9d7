SPECIFICATION Spec
CONSTANTS
    Sessions = {s1, s2}
    NoSession = NoSession
    MaxRequests = 1
    ConfigVersions = {1}
    InvokeModes = {"coalesce"}
    Resumables = {TRUE}
    SuspensionIds = {}
    NoSuspension = NoSuspension
    MaxGates = 0
    Runners = {r1}
    MaxAttempts = 1
    MaxFaults = 0
    MaxQueueDepth = 2
    PolicyGoals = {"none"}
    Periodic = FALSE
    Stalls = TRUE
    Admins = {}
    MayDelete = FALSE
    MayAcknowledge = FALSE
SYMMETRY Symmetry
PROPERTY OwnerFence
CHECK_DEADLOCK FALSE
