SPECIFICATION Spec
CONSTANTS
    a = a
    aDot = aDot
    Checks = {c1, c2}
    Makers = {c1, c2}
    PinHosts = {a}
    LeafNames = {a, aDot}
    Targets = {a, aDot}
    Prints = {f1, f2}
    None = None
    NoCheck = NoCheck
    RenameReplaces = TRUE
    MaxCAs = 2
    generate_if_missing = TRUE
    pin_name <- MCPinName
    leaf_name <- MCLeafName
SYMMETRY MCSymmetry
INVARIANTS
    ChangesAlerted
    PinsDurable
    LeafTrusted
    LeafFits
CHECK_DEADLOCK FALSE
