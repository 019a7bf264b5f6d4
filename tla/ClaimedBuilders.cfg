CONSTANTS
    Workers = {w1, w2}
    NoWorker = NoWorker
    Items = {1, 2}
    NoItem = 0
    Rank <- MCRank
    FirstStage <- MCFirstStage
    MaxListed = 2
    TTL = 1
    Delay = 1
    Notice = 1
    MaxFaults = 1
SPECIFICATION FairSpec
INVARIANTS TypeOK OneBuilder
PROPERTIES KeepsPromise UntestedGetsVerdict
