SPECIFICATION FairQueueSpec
CONSTANTS
    Sessions = {s1}
    NoSession = NoSession
    MaxRequests = 2
    ConfigVersions = {1, 2}
    InvokeModes = {"queue"}
    Resumables = {FALSE}
    SuspensionIds = {}
    NoSuspension = NoSuspension
    MaxGates = 0
    Runners = {r1}
    MaxAttempts = 1
    MaxFaults = 0
    MaxQueueDepth = 2
    PolicyGoals = {"version"}
    Periodic = FALSE
    Stalls = FALSE
    Admins = {}
    MayDelete = FALSE
    MayAcknowledge = TRUE
PROPERTY EveryInvokeRuns
CHECK_DEADLOCK FALSE
