CONSTANTS
    Properties = {address, items}
    MaxNodes = 3
    Messages = {m1, m2}
    Clients = {c1, c2}
    MAX_MESSAGES_PER_RECEIVE = 2
    ATTEMPTS = 2
    MAX_STALLED_COUNT = 1
    CONCURRENCY = 1
    MaxIncidents = 1
SPECIFICATION FairSpec
INVARIANTS
    TypeOK
    AnswersAreTrue
    DetailsNameFailures
    DuplicatesAreIncidents
    StartsBounded
PROPERTIES
    HandsOver
    EventuallySettled
CHECK_DEADLOCK FALSE
