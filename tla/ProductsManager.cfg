SPECIFICATION LabSpec
CONSTANTS
    haven = haven
    tee = tee
    cap = cap
    ball = ball
    shoes = shoes
    clothes = clothes
    Product = {haven, tee, cap, ball}
    Type = {shoes, clothes}
    TypeOf <- MCTypeOf
    PriceOf <- MCPriceOf
    All = All
    Other = Other
    InitialProducts <- MCInitial
INVARIANTS
    LabTypeOK
    ListsAgree
    DeletesByNumber
