SPECIFICATION Spec
CONSTANTS
    Ops = {o1, o2}
    CAs = {"c1"}
    Roles = {"administrator", "ca_ra"}
    Logins = {l1, l2}
    Admins = {a1, a2}
    Budgets <- MCBudgets
    EabWindow = 1
    EabNonceCap = 2
    SessionTtl = 3
    SessionLock = 2
    SessionCap = 2
    LockoutSecs = 1
    MaxFailed = 2
    ApiCAs = {"c1", "c2"}
    Contexts <- MCContexts
    Accounts = {"x0", "x1", "x2"}
    AccountCa <- MCAccountCa
    Delegations = {"d1"}
    Principals = {"p1"}
    Profiles = {"default", "strict"}
    ProviderProfiles <- MCProvider
    MaxCalls = 3
    RuleIds = {i1, i2, i3}
    RuleNames = {"n1", "n2"}
    RuleCAs = {"c1"}
    RuleTexts <- MCTexts
    PeerRules <- MCPeer
    RuleSlots = {r1, r2}
    Scenarios <- MCScenarios
    Gossip = Gossip
    Requests = {q1, q2}
    MaxEvents = 2
    AlarmThreshold = 2
    FileQueueCap = 1
    DaemonCap = 2
    DaemonDrain = 1
    MaxQueryLines = 3
    Policies <- MCPolicies
    Kinds <- MCKinds
    MaxAdmitted = 2
    MaxQueries = 1
INVARIANTS SessionsSound ScopesKept RulesEnforced 
SYMMETRY Symmetry
CHECK_DEADLOCK FALSE
