SPECIFICATION MCSpec
CONSTANTS
    Parts = {"log", "read", "cosigner", "vectors"}
    CAs = {a}
    Certs = {c1, c2}
    MtcProfile = {c2}
    Jobs <- MCJobs
    TaskJobs <- MCTaskJobs
    Cosigners = {s1, s2}
    VerifiedCosigners = {s2}
    RetentionCount = 1
    MaxActive = 1
    BatchLimit = 1
    TileWidth = 2
    MaxRuns = 2
    NoRow = NoRow
    NotBuilt = NotBuilt
    CaConf <- MCCaConf
    DefaultCa = "a"
    CertAt <- MCCertAt
    GroupBase = 2
    TileSize = 2
    MaxTileLevel = 2
    SerialIndex = 8
    MaxLeaves <- MCMaxLeaves
    KeepMarks = 2
    MaxMarks = 3
    CosignerConfigs <- MCCosignerConfigs
    Lifetime = 2
    RenewBefore = 1
    LongLife = 4
    MaxNow = 4
    MaxStartUps = 4
    MaxKilled = 2
    VectorEntries <- MCVectorEntries
    MaxVectorLeaves = 6
    MaxInterval = 24
    VectorTile = 2
    Word = 32
INVARIANTS CertIndexIsItsLeaf ProofsVerify ReadersSeeOneTree CosignerKeysFit
PROPERTIES LogHistoryStands
CHECK_DEADLOCK FALSE
