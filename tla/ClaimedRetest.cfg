CONSTANTS
    Workers = {w1}
    NoWorker = NoWorker
    Items = {1, 2}
    NoItem = 0
    Rank <- MCRank
    FirstStage <- MCFirstStage
    MaxListed = 2
    TTL = 1
    Delay = 1
    Notice = 1
    MaxFaults = 0
SPECIFICATION FairSpec
PROPERTY RedIsRetested
