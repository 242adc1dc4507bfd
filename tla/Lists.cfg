SPECIFICATION FairListsSpec
CONSTANTS
    sources <- MCSources
    Urls = {"u1", "u2"}
    Framed = {"u1"}
    Files = {"f1", "f2"}
    cache_filename <- MCFilename
    MaxRedirects = 1
    MaxVersion = 1
    RefreshEnabled = TRUE
INVARIANTS
    CacheWhole
PROPERTIES
    NeverOlder
    ListsStayActive
    RefreshEnds

