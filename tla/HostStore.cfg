SPECIFICATION StoreSpec
CONSTANTS
    a = a
    b = b
    aDot = aDot
    dot = dot
    Tasks = {t1, t2, t3}
    Hosts = {a, b}
    Names <- MCNames
    normalize_host <- MCNormalize
    NoHost = NoHost
    NoTask = NoTask
    RenameReplaces = TRUE
SYMMETRY MCSymmetry
INVARIANTS
    FileLoadable
    AckedDurable
    FileMatchesMemory
PROPERTIES
    PinnedOnce
    ImplementsPinList
