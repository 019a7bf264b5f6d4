CONSTANTS
    a = a
    b = b
    f1 = f1
    f2 = f2
    t1 = t1
    Users = {a, b, x, adm}
    Admins = {adm}
    Bot = bot
    Author = x
    Votes <- MCVotesOfOne
    NoCommit = NoCommit
    MaxSha = 2
    Rules <- MCRules
    Paths <- MCPathsOfHeads
    MaxFiles = 50
    Tests <- MCTests
    MaxVotes = 2
    MaxComments = 4
    MaxTroubles = 1
SPECIFICATION FairSpec
INVARIANT QuorumBeforeMerge
PROPERTY ReadyGetsMerged
CHECK_DEADLOCK FALSE
