SPECIFICATION FairSpec
CONSTANTS
    Hosts = {h1, h2}
    Quiet = {h2}
    Writers = {w1, w2}
    MaxCount = 1
    Faults <- MCFaults
INVARIANTS
    FlagCoversMemory
    FileWhole
    CleanMeansSaved
PROPERTIES
    UpdatesReachFile
CHECK_DEADLOCK FALSE
