SPECIFICATION ServerSpec
CONSTANTS
    q1 = q1
    q2 = q2
    retry = retry
    blocked = blocked
    other = other
    Queries <- MCQueries
    Standard <- MCStandard
    Readable <- MCReadable
    Echoed <- MCStandard
    id <- MCId
    question <- MCQuestion
    verdict <- MCVerdict
    cname <- MCCname
    MaxBuffered = 2
    Requests <- MCRequests
    client_ip <- MCClient
    Ports = {1, 2}
    PruneEvery = 2
    MaxAge = 2
    MaxLag = 1
    MaxNow = 3
INVARIANTS
    AnswersItsQuestion
    BlockedNeverPasses
    ServedItsOwn
    StatsKept
PROPERTIES
    CleanQueryAnswered
    LoopReturns
CHECK_DEADLOCK FALSE
