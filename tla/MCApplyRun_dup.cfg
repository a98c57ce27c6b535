SPECIFICATION Spec
CONSTANTS
    c1 = c1
    c2 = c2
    c3 = c3
    A = A
    B = B
    docker = docker
    bogus = bogus
    Cands = {c1, c2, c3}
    Ids = {A, B}
    NoId = NoId
    Optional = {docker}
    Unsupported = bogus
    Inside <- MCInside
    InitOwn <- MCOwn
    Scenarios <- MCSmall
    MaxGrowth = 1
CHECK_DEADLOCK FALSE
INVARIANT OwnLimits
