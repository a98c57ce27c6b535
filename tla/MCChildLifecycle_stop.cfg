SPECIFICATION Spec
CONSTANTS
    server = server
    client = client
    Absent = Absent
    Kin = {k1}
    MaxForks = 1
CHECK_DEADLOCK FALSE
INVARIANT EveryChildStopped
