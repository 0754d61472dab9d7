SPECIFICATION Spec
CONSTANTS
    Sessions = {s1}
    NoSession = NoSession
    MaxRequests = 2
    ConfigVersions = {1, 2}
    InvokeModes = {"queue"}
    Resumables = {FALSE}
    SuspensionIds = {}
    NoSuspension = NoSuspension
    MaxGates = 0
    Runners = {r1, r2}
    MaxAttempts = 1
    MaxFaults = 0
    MaxQueueDepth = 1
    PolicyGoals = {"none", "version", "cooldown"}
    Periodic = FALSE
    Stalls = FALSE
    Admins = {}
    MayDelete = FALSE
    MayAcknowledge = TRUE
SYMMETRY Symmetry
INVARIANT TypeOK
INVARIANT PriorRunsResolved
INVARIANT HeldIsResolved
INVARIANT NoStrandedRequest
INVARIANT BacklogNearCap
PROPERTY OneRunAtATime
PROPERTY TerminalStays
CHECK_DEADLOCK FALSE
