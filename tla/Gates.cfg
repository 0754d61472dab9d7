SPECIFICATION FairSpec
CONSTANTS
    s1 = s1
    s2 = s2
    k1 = k1
    k2 = k2
    o1 = o1
    NoOwner = NoOwner
    Sessions = {s1, s2}
    Schedulers = {k1, k2}
    Operators = {o1}
    MaxGates = 2
    MaxDispatches = 2
    MaxAttempts = 1
    Branches <- MCBranches
    PolicyActions = {FALSE}
    MaxSpend = 1
    MaxFaults = 1
INVARIANT GatesTypeOK
INVARIANT GatesCountedOnce
INVARIANT RunFollowsDecision
INVARIANT SpendIsWhatLanded
INVARIANT AuditTellsDecision
PROPERTY ExpiredGateIsDecided
