SPECIFICATION Spec
CONSTANTS
    Parts = {"api", "transport", "cli", "renewal", "calendar", "jws"}
    ApiAccounts = {"a1", "a2"}
    ApiCas = {"default", "other"}
    OrderRequests <- MCOrderRequests
    AuthzRequests <- MCAuthzRequests
    ParentNames <- MCParents
    Delegations <- MCDelegations
    ApiConfig <- MCApiConfig
    MaxOrders = 2
    MaxAuthzs = 2
    JwsSizes = {0, 1, 2}
    Tasks = {"t1", "t2"}
    Plans <- MCPlans
    MaxRestarts = 3
    CliNames = {"n1", "n2", "w"}
    Wildcards = {"w"}
    IssueArgs <- MCIssueArgs
    MaxCommands = 3
    MaxFaults = 2
    MaxKeys = 4
    Lifetimes = {75, 76, 90, 96, 150, 160, 240, 2160}
    MaxFailures = 2
    LastYear = 2110
INVARIANTS  RequestsOnce 
CHECK_DEADLOCK FALSE
