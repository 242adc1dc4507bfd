SPECIFICATION Spec
CONSTANTS
    a = a
    aDot = aDot
    dot = dot
    Conns = {c1}
    Tasks = {c1, r1}
    Hosts = {a}
    Names <- MCNames
    normalize_host <- MCNormalize
    NoHost = NoHost
    NoTask = NoTask
    RenameReplaces = TRUE
    MitmEnabled = TRUE
INVARIANTS
    UpstreamFailureFallsBack
