SPECIFICATION FairSuspensionSpec
CONSTANTS
    Sessions = {s1}
    NoSession = NoSession
    MaxRequests = 1
    ConfigVersions = {1}
    InvokeModes = {"coalesce"}
    Resumables = {FALSE}
    SuspensionIds = {h1}
    NoSuspension = NoSuspension
    MaxGates = 0
    Runners = {r1}
    MaxAttempts = 1
    MaxFaults = 0
    MaxQueueDepth = 2
    PolicyGoals = {"none"}
    Periodic = FALSE
    Stalls = FALSE
    Admins = {a1}
    MayDelete = FALSE
    MayAcknowledge = TRUE
PROPERTY SuspensionSettles
CHECK_DEADLOCK FALSE
