SPECIFICATION FairSpec
CONSTANTS
    Sessions = {s1}
    NoSession = NoSession
    MaxRequests = 2
    ConfigVersions = {1}
    InvokeModes = {"coalesce"}
    Resumables = {TRUE}
    SuspensionIds = {}
    NoSuspension = NoSuspension
    MaxGates = 0
    Runners = {r1}
    MaxAttempts = 1
    MaxFaults = 1
    MaxQueueDepth = 2
    PolicyGoals = {"none"}
    Periodic = FALSE
    Stalls = FALSE
    Admins = {}
    MayDelete = FALSE
    MayAcknowledge = TRUE
PROPERTY TeardownFinishes
CHECK_DEADLOCK FALSE
