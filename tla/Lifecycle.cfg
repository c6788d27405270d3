\* Two processes one after the other in any two environments, two connections, two enrollments.
SPECIFICATION Spec
CONSTANTS
    Null = Null
    Requests = {r1, r2}
    MaxStarts = 2
    MaxSeeds = 2
INVARIANTS
    TypeOK
    LossIsExplained
PROPERTIES
    ShutdownCompletes
CHECK_DEADLOCK FALSE
