SPECIFICATION Spec
CONSTANTS
    i1 = i1
    i2 = i2
    i3 = i3
    i4 = i4
    Item = {i1, i2, i3, i4}
INVARIANTS
    TypeOK
    OnlyUnlikedGo
    CellsAgree
