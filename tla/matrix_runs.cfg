SPECIFICATION Spec
CONSTANTS
    Runs = {r1, r2}
    Filters = {full, sub}
    Full = full
    Earlier = earlier
    MaxMishaps = 1
    Nil = Nil
SYMMETRY Interchangeable
INVARIANTS
    TypeOK
    OneRunPerFilter
    EndsClean
PROPERTIES
    SameFilterKeepsImages
    StopsOnlyItsOwn
CHECK_DEADLOCK FALSE
