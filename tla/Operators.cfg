SPECIFICATION Spec
CONSTANTS
    Sessions = {s1}
    NoSession = NoSession
    MaxRequests = 1
    ConfigVersions = {1}
    InvokeModes = {"queue"}
    Resumables = {FALSE}
    SuspensionIds = {h1}
    NoSuspension = NoSuspension
    MaxGates = 0
    Runners = {r1}
    MaxAttempts = 1
    MaxFaults = 1
    MaxQueueDepth = 2
    PolicyGoals = {"none"}
    Periodic = FALSE
    Stalls = FALSE
    Admins = {a1}
    MayDelete = TRUE
    MayAcknowledge = FALSE
INVARIANT SuspendedIsFrozen
INVARIANT HaltedIsIdle
PROPERTY DeletionClosesAdmission
PROPERTY DeletedIsFinal
CHECK_DEADLOCK FALSE
