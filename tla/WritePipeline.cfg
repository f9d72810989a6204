SPECIFICATION FairSpec
CONSTANTS
    User = {alice, bob}
    Failed = Failed
    MaxPending = 3
    MaxWrites = 3
    MaxFaults = 2
INVARIANTS
    TypeOK
    AssertsHold
    StreamCarriesPipeline
    ToldIsTrue
    Settles
PROPERTIES
    DeliverySpec
    EventuallyAnswered
CHECK_DEADLOCK FALSE
