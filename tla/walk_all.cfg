SPECIFICATION Spec
CONSTANTS
    Dirs = {d1, d2}
    Names = {a, b}
    MaxHops = 3
    Trees <- AllTrees
INVARIANT WalkIsCorrect
CHECK_DEADLOCK FALSE
