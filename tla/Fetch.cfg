SPECIFICATION FairSpec
CONSTANTS
    Query = {catalog, profile}
    MaxFetches = 2
    MaxFaults = 2
INVARIANTS
    TypeOK
    AssertsHold
    AnswerIsOwn
    WaitIsJustified
PROPERTIES
    EventuallyAnswered
CHECK_DEADLOCK FALSE
