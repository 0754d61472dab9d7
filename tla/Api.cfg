SPECIFICATION Spec
CONSTANTS
    Nil = Nil
    NoRow = NoRow
    Gone = Gone
    m1 = m1
    a1 = a1
    g1 = g1
    g2 = g2
    k1 = k1
    k2 = k2
    KeyOf <- MCKeyOf
    Provisioned = {g1, g2}
    Groups = {g1, g2}
    Keys = {k1, k2}
    Tenants = {t1}
    Workflows = {w1}
    Agents = {a1}
    Models = {m1}
    DefaultRates <- MCDefaultRates
    MayFail = TRUE
    JobsLeft = {}
    Interruptible = {w1}
    Callers = {c1, c2}
    TenantMessages <- MCTenantMessages
    ConfigMessages <- MCConfigMessages
    PolicyMessages <- MCPolicyMessages
    RuntimeMessages <- MCRuntimeMessages
    RuleMessages <- MCRuleMessages
    Rates <- MCRates
    Events <- MCEvents
    MaxEvents = 1
    MinRepeatSeconds = 10
    MaxLifecycleWindow = 100
INVARIANTS
    ApiTypeOK
    DeletedTenantIsEmpty
    SettingsReadBack
    WriteBackChangesNothing
    InvocationCarriesWhatIsSet
    AuditReadBack
PROPERTY ForeignLooksAbsent
SYMMETRY Alike
CONSTRAINT FewAway
VIEW AllButReply
