\* scaled down: U16 and SizeT keep their order and U16 still divides SizeT
SPECIFICATION Spec
CONSTANTS
    PageSize = 30
    HeaderSize = 2
    InfoSize = 3
    U16 = 32
    SizeT = 1024
    Lengths = {3, 20}
    Contents = {x, y}
    MaxTuples = 3
INVARIANT TuplesInPage
