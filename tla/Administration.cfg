SPECIFICATION FairSpec
CONSTANTS
    first = first
    second = second
    shirt = shirt
    shoe = shoe
    Admin = {ann}
    Order = {first, second}
    DocOrder <- MCDocOrder
    Product = {shirt, shoe}
    Catalogue <- MCCatalogue
    IdOf <- MCIdOf
    ProductsID <- MCProductsID
    NoSwipe = NoSwipe
    NoOrder = NoOrder
    MaxCrashes = 2
INVARIANTS
    TypeOK
    TakenIsRight
    LeavesOnlyCompleted
    

    
