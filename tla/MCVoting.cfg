CONSTANTS
    Users = {a, b, c, adm}
    Admins = {adm}
    RuleSets <- MCRuleSets
    Paths = {f1, f2}
    Authors = {a}
SPECIFICATION Spec
INVARIANTS QuorumExact QuorumReachable
