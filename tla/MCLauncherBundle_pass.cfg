SPECIFICATION Spec
CONSTANTS
    Launchers = {l1, l2, l3}
    Old = Old
    None = None
    Archive <- MCArchive
    Hashed = {"programs", "model"}
    Leftovers <- MCLeftovers
CHECK_DEADLOCK FALSE
INVARIANTS TypeOK RunsWhole Tidy
PROPERTY SomeoneStarts
