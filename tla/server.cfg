SPECIFICATION Spec
CONSTANTS
    Parts = {"startup", "routes", "profiles", "tokens", "validate", "caa", "leaf", "envelope"}
    Configs <- MCConfigs
    MaxStarts = 3
    MaxKills = 2
    CaLists <- MCCaLists
    Names = {"dns:a", "dns:ab", "dns:b"}
    ProfileIds = {"default", "web"}
    Provider1 <- MCProvider1
    Provider2 <- MCProvider2
    ItemClasses = {"validity", "eku"}
    PolicyRuleSets <- MCRuleSets
    GrantRows <- MCGrantRows
    AccountPrincipal = {"host"}
    MaxEdits = 1
    Tokens = {"t1", "t2", "t3"}
    Tok <- MCTok
    Blob <- MCBlob
    Registry <- MCRegistry
    Wildcards = {"*"}
    Realmless = {"w"}
    TAuthzs = {"z1", "z2", "z3", "z4"}
    TAuthz <- MCAuthz
    Checks = {k1, k2}
    Finalizers = {"f1", "f2", "f3", "f4"}
    Csr <- MCCsr
    JwksTtl = 1
    MaxFetch = 1
    MaxValidity = 2
    LongLife = 5
    MaxTokTime = 3
    Questions <- MCQuestions
    Site <- MCSite
    Hosts = {"a", "b", "i"}
    Literal = {"i"}
    Addresses <- MCAddresses
    StartUrls <- MCStartUrls
    KeyAuth = "k1"
    AllowPrivate = FALSE
    MAX_REDIRECTS = 3
    MaxMoves = 1
    CaaIds <- MCCaaIds
    CaaAuthzs <- MCCaaAuthzs
    RecordSets <- MCRecordSets
    CaaIdentities = {"us"}
    CaaAccount = "u"
    MaxZoneChanges = 2
    Requests <- MCRequests
    Others <- MCOthers
    Canonical <- MCCanonical
    LinterProfiles <- MCLinters
    Members = {"a", "b"}
    Offset <- MCOffset
    OldPeers = {"a"}
    EnvelopeMaxAge = 0
    ClockSkew = 1
    NonceCacheMax = 2
    MaxSecond = 1
    MaxPushes = 2
    MaxInstalls = 2
    MaxFaults = 1
    FanOut = 1
    MaxGeneration = 1
SYMMETRY MCSymmetry
INVARIANTS EnvelopesSound  RoutesFit ProfilesHonoured TokensBind  
CHECK_DEADLOCK FALSE
