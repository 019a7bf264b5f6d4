CONSTANTS
    PRs = {p1, p2, u1}
    Configured = {p1, p2}
    NoPR = NoPR
    MaxEvents = 2
    MaxFaults = 2
SPECIFICATION FairSpec
INVARIANTS TypeOK NothingForgotten
PROPERTY HandledWhileScanning
