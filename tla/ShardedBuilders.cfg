CONSTANTS
    v = v
    w = w
    a = a
    b = b
    Workers = {v, w}
    Items = {a, b}
    NoItem = NoItem
    Rank <- MCRank
    Hash <- MCHash
    MaxListed = 2
    Deployments <- MCDeployments
    PageSize = 1
    Room <- MCRoom
    MaxOthers <- MCOthers
    MaxFaults = 1
SPECIFICATION FairSpec
INVARIANTS TypeOK OneBuilderPerShard QueuedKeepsVerdict RecheckKeepsUrl NothingRepeated
PROPERTIES UntestedGetsVerdict
CHECK_DEADLOCK FALSE
