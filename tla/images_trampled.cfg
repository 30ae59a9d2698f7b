SPECIFICATION Spec
CONSTANTS
    Runs = {r1, r2}
    Filters = {full, sub}
    Full = full
    Earlier = earlier
    MaxMishaps = 1
    Nil = Nil
SYMMETRY Interchangeable
INVARIANT RunKeepsItsImages
CHECK_DEADLOCK FALSE
