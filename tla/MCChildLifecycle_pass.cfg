SPECIFICATION Spec
CONSTANTS
    server = server
    client = client
    Absent = Absent
    Kin = {k1}
    MaxForks = 1
CHECK_DEADLOCK FALSE
INVARIANTS TypeOK ForgottenIsGone Handoff LauncherHonest
PROPERTY Ends
