SPECIFICATION Spec
CONSTANTS
    Query = {catalog}
    MaxFetches = 2
    MaxFaults = 1
INVARIANTS
    WaitIsTimed
CHECK_DEADLOCK FALSE
