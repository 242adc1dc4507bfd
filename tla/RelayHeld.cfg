SPECIFICATION FairSpec
CONSTANTS
    ReadSize = 2
    MaxHead = 4
    MaxBody = 3
    Responses <- KeptAliveResponses
    Requests <- OneRequest
PROPERTIES
    CompleteResponseDelivered
CHECK_DEADLOCK FALSE
