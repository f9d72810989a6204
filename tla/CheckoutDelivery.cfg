SPECIFICATION FairSpec
CONSTANTS
    i1 = i1
    i2 = i2
    i3 = i3
    half = half
    free = free
    Item = {i1, i3}
    Price <- MCPrice
    Code = {}
    Discount <- MCDiscount
    NoCode = NoCode
    User = {alice, bob}
    NoUser = NoUser
    NoSwipe = NoSwipe
    MaxCrashes = 1
PROPERTIES
    SoldLeavesBasket
    EventuallyAnswered
