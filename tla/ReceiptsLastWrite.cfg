SPECIFICATION Spec
CONSTANTS
    Hosts = {h1}
    Quiet = {h1}
    Writers = {w1}
    MaxCount = 2
    Faults <- MCLastWrite
INVARIANTS
    FileAtomic
