CONSTANTS
    PRs = {p1, p2, u1}
    Configured = {p1, p2}
    NoPR = NoPR
    MaxEvents = 2
    MaxFaults = 1
SPECIFICATION FairSpec

PROPERTY CatchesUpWithLostCallbacks
