SPECIFICATION FairSpec
CONSTANTS
    Modulus <- SmallModulus
    Sector <- SmallSector
    Tables <- SmallTables
    Sizes <- SmallSizes
    MaxPart = 2
    MaxRequests = 2
    Nil = Nil
INVARIANTS
    TypeOK
    AccessInSlice
    AccessInPartition
    ContextOutlivesCallbacks
    NothingLeft
    HandlersHaveFilesystem
PROPERTY
    CtrlCUnmounts
CHECK_DEADLOCK FALSE
