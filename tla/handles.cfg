SPECIFICATION Spec
CONSTANTS
    a = a
    b = b
    f1 = f1
    f2 = f2
    link = link
    Nil = Nil
    Names <- SmallNames
    Files <- SmallFiles
    Links <- ALink
    LinkTarget <- ALinkTarget
    Volumes <- PlainOrLinked
    InitialDirs <- NoFiles
    Handles = {h1, h2, h3}
    Threads = {t1, t2}
    MaxStats = 2
SYMMETRY Interchangeable
INVARIANTS
    TypeOK
    HandleAddressesItsFile
    AccessReachesOwnFile
PROPERTIES
    ImplementsService
    OnlyOwnFileRemoved
    RemovalWasRequested
    ReadOnlyVolumeUnchanged
CHECK_DEADLOCK FALSE
