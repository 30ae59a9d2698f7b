SPECIFICATION Spec
CONSTANTS
    Commands = {"mkdir"}
    MaxSize = 4
    Chunk = 2
    W = 8
    Missing = Missing
    Leaf = Leaf
    Tree <- Loops
    Root = "root"
    Dots = {0, 1}
    Asked <- Flags
    MaxDepth = 4
INVARIANT ExitMeansDone
CHECK_DEADLOCK FALSE
