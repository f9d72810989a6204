SPECIFICATION FairSpec
CONSTANTS
    shirt = shirt
    shoe = shoe
    cap = cap
    clothes = clothes
    shoes = shoes
    Product = {shirt, shoe, cap}
    Type = {clothes, shoes}
    TypeOf <- MCTypeOf
    PriceOf <- MCPriceOf
    All = All
    Other = Other
    Documents <- MCDocuments
    Nodes <- MCNodes
    NotAnArray = NotAnArray
    NoService = NoService
    MaxDownloads = 3
    MaxChanges = 1
INVARIANTS
    TypeOK
    ListIsOneAnswer
    IconTellsOrder
    TrapOnlyBeforeAnswer
PROPERTIES
    EventuallyListed
