CONSTANTS
    e1 = e1
    e2 = e2
    b1 = b1
    b2 = b2
    b3 = b3
    l1 = l1
    l2 = l2
    l3 = l3
    Envs = {e1, e2}
    Builds = {b1, b2, b3}
    Env <- MCEnv
    Outside = Outside
    Links = {l1, l2, l3}
    Layouts <- MCLayouts
    Arguments <- MCArguments
    NoLimit = NoLimit
    Capacity = 6
    MaxUse = 1
SPECIFICATION FairSpec
INVARIANTS TypeOK OldestGoFirst DependenciesCached
PROPERTIES SpaceOrNothingLeft Ends
