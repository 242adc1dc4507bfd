SPECIFICATION Spec
CONSTANTS
    a = a
    aDot = aDot
    dot = dot
    Conns = {c1, c2}
    Tasks = {c1, c2, r1}
    Hosts = {a}
    Names <- MCNames
    normalize_host <- MCNormalize
    NoHost = NoHost
    NoTask = NoTask
    RenameReplaces = FALSE
    MitmEnabled = TRUE
SYMMETRY MCSymmetry
INVARIANTS
    OneAnswer
    ReceiptSaysWhatWasDone
    AttemptsAccounted
    RejectionSticks
PROPERTIES
    NoPinDuringGrace
