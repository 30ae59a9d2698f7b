SPECIFICATION Spec
CONSTANTS
    Modulus <- SmallModulus
    Sector <- SmallSector
    Tables <- SmallTables
    Sizes <- SmallSizes
    MaxPart = 2
    MaxRequests = 1
    Nil = Nil
INVARIANT SliceIsPartition
CHECK_DEADLOCK FALSE
