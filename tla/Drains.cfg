SPECIFICATION FairQueueSpec
CONSTANTS
    Sessions = {s1}
    NoSession = NoSession
    MaxRequests = 2
    ConfigVersions = {1}
    InvokeModes = {"queue"}
    Resumables = {FALSE}
    SuspensionIds = {}
    NoSuspension = NoSuspension
    MaxGates = 0
    Runners = {r1}
    MaxAttempts = 1
    MaxFaults = 0
    MaxQueueDepth = 2
    PolicyGoals = {"none"}
    Periodic = FALSE
    Stalls = FALSE
    Admins = {a1}
    MayDelete = TRUE
    MayAcknowledge = FALSE
PROPERTY EveryInvokeRuns
PROPERTY DeletionFinishes
CHECK_DEADLOCK FALSE
