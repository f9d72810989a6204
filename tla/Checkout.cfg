SPECIFICATION Spec
CONSTANTS
    i1 = i1
    i2 = i2
    i3 = i3
    half = half
    free = free
    Item = {i1, i2, i3}
    Price <- MCPrice
    Code = {half}
    Discount <- MCDiscount
    NoCode = NoCode
    User = {alice}
    NoUser = NoUser
    NoSwipe = NoSwipe
    MaxCrashes = 1
INVARIANTS
    TypeOK
    ScreenAgrees
    OrdersFair
    ProductLife
PROPERTIES
    LedgerSpec
