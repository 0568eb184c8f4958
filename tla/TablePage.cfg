\* scaled down: U16 and SizeT keep their order and U16 still divides SizeT
SPECIFICATION Spec
CONSTANTS
    PageSize = 19
    HeaderSize = 2
    InfoSize = 3
    U16 = 20
    SizeT = 200
    Lengths = {1, 3, 5}
    Contents = {x, y}
    MaxTuples = 5
INVARIANT TuplesInPage
INVARIANT TuplesReadBack
