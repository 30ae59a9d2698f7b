SPECIFICATION Spec
CONSTANTS
    x = x
    y = y
    bad = bad
    Absent = Absent
    Nil = Nil
    Threads = {t1, t2}
    WriteBits = {"owner", "other"}
    OwnerBit = "owner"
    Times = {0, 1}
    EaNames <- TwoNames
    BadName = bad
    NameLen <- Lengths
    ValueLens = {0, 1}
    Buffers <- SomeBuffers
    Sizes = {11, 40}
SYMMETRY Interchangeable
INVARIANTS
    TypeOK
    BasicInfoStages
    EntriesInOrder
    ListReadsBack
PROPERTIES
    OnlyToggledModes
    ReadOnlyAttributesUntouched
CHECK_DEADLOCK FALSE
