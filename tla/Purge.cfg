SPECIFICATION FairSpec
CONSTANTS
    Nil = Nil
    NoRow = NoRow
    Gone = Gone
    m1 = m1
    a1 = a1
    g1 = g1
    g2 = g2
    k1 = k1
    k2 = k2
    KeyOf <- MCKeyOf
    Provisioned = {}
    Groups = {g1}
    Keys = {k1}
    Tenants = {t1}
    Workflows = {w1, w2}
    Agents = {}
    Models = {}
    DefaultRates <- NoDefaultRates
    MayFail = TRUE
    JobsLeft = {w2}
    Interruptible = {w1}
    Callers = {c1}
    TenantMessages <- NoOverrides
    ConfigMessages <- NoConfig
    PolicyMessages = {}
    RuntimeMessages = {}
    RuleMessages = {}
    Rates = {}
    Events = {}
    MaxEvents = 0
    MinRepeatSeconds = 10
    MaxLifecycleWindow = 100
INVARIANTS
    TenantCountExact
PROPERTIES
    DeletedIsPurged
CONSTRAINT OthersLeftAlone
