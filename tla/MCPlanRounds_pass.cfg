SPECIFICATION Spec
CONSTANTS
    c1 = c1
    c2 = c2
    c3 = c3
    Ranked <- MCRanked
    Machines <- MCMachines
    Jobs <- MCJobs
    MaxRefs = 2
    MaxRounds = 2
    MaxItems = 3
    PreinspectionLimit = 2
    Reserve = 2
    MaxInspection = 4
    Floor = 1
    MinTime = 1
    MaxStartup = 2
    StopTime = 1
    MaxWrites = 1
CHECK_DEADLOCK FALSE
INVARIANTS TypeOK ReviewInspected CompleteMeansAll OverrunBounded InspectedOnce OutputHonest
PROPERTIES OutputKept Ends
