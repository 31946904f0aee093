SPECIFICATION Spec
CONSTANTS
    Parts = {"revocation", "star", "upstream", "dogtag"}
    RevCerts = {"c1", "c2"}
    Info <- MCInfo
    RevCas = {"a", "b"}
    RevActors <- MCActors
    Revokers = {r1, r2}
    Builders = {b1}
    CrlValidity = 1
    MinCrlTtl = 1
    MaxRevTime = 1
    MaxRevCrashes = 1
    StarOrders = {s1, s2}
    StarTerms <- MCTerms
    FirstWindow = {4}
    StarMinLife = 2
    StarMaxSpan = 9
    MaxLag = 2
    MaxStarTime = 5
    UOrders = {u1, u2}
    UpIds = {"i1", "i2"}
    OrderTtl = 1
    ListLimit = 1
    Enrolments = {e1, e2}
    MaxUpCrashes = 1
    MaxUpTime = 2
INVARIANTS RevocationsServed RenewalsInTerm UpstreamAccounted
 
CHECK_DEADLOCK FALSE
