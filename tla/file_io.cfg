SPECIFICATION Spec
CONSTANTS
    name = name
    alias = alias
    Handles = {h1, h2}
    Nodes = {name, alias}
    Threads = {t1, t2}
    MaxSize = 2
    MaxLength = 2
    Nil = Nil
SYMMETRY Interchangeable
INVARIANTS
    TypeOK
    OwnChangesAreCached
    AppendsAtEnd
PROPERTIES
    ImplementsAtomic
    ReadOnlyFileUntouched
