CONSTANTS
    a = a
    b = b
    d = d
    c1 = c1
    c2 = c2
    Slots = {a, b, d}
    NoSlot = NoSlot
    Secret = Secret
    Seed = t0
    RefreshTokens = {t0, t1, t2, t3, t4, t5}
    Files = files
    Versions = {files, v1, v2}
    Values = {Secret, t0, t1, t2, t3, t4, t5, files, v1, v2}
    NoValue = NoValue
    NoWindow = NoWindow
    NoLimit = NoLimit
    Rejected = Rejected
    NoToken = NoToken
    Configs <- MCConfigs
    Paths <- MCPaths
    AnyBucket = AnyBucket
    Clients = {c1, c2}
    MaxMasters = 4
    Unlockers = {"u1", "u2"}
    Handlers = {"lifespan", "loop", "push", "bootstrap", "u1", "u2"}
SPECIFICATION FairSpec
INVARIANTS TypeOK AbsentOutsideWindow TokenOpensItsRoute LiveTokenNext VaultAfterItsRoute AnsweredBeforeUnlock
PROPERTIES WindowsKept WindowsClose FreshCertificateUsed
CHECK_DEADLOCK FALSE
