SPECIFICATION Spec
CONSTANTS
    ReadSize = 3
    MaxHead = 5
    MaxBody = 2
    Responses <- MCResponses
    Requests <- MCRequests
INVARIANTS
    ResponseBytesKept
    RequestBytesKept
    RewritesWholeBody
    HeldBounded
    SmallHeadersFiltered
PROPERTIES
    CompletedBodyReleased
CHECK_DEADLOCK FALSE
