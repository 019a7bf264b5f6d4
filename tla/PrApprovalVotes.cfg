CONSTANTS
    a = a
    b = b
    f1 = f1
    f2 = f2
    t1 = t1
    Users = {a, b, x, adm}
    Admins = {adm}
    Bot = bot
    Author = x
    Votes <- MCVotes
    NoCommit = NoCommit
    MaxSha = 1
    Rules <- MCRules
    Paths <- MCPaths
    MaxFiles = 50
    Tests <- MCTests
    MaxVotes = 4
    MaxComments = 7
    MaxTroubles = 1
SPECIFICATION Spec
INVARIANTS TypeOK QuorumBeforeMerge OneVerdict
PROPERTY QuietWhenNothingNew
CHECK_DEADLOCK FALSE
