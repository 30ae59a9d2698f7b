SPECIFICATION FairSpec
CONSTANTS
    a = a
    b = b
    c = c
    dangling = dangling
    raw = raw
    long = long
    Names = {a, b, c, dangling, raw, long}
    Dangling = {dangling}
    Undecodable = {raw}
    Overlong = {long}
    Size = 4
    MaxBatch = 2
    MarkerStays = TRUE
    Nil = Nil
INVARIANTS
    TypeOK
    Complete
    NoDuplicates
PROPERTY
    ListingEnds
