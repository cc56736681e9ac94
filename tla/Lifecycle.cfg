CONSTANTS
    Mongo = mongo
    Pools = {rw}
    Queues = {mail}
    Sqs = {sqs, localSqs}
    Caches = {redis}
    Deployed = {sqs}
    BUFFER_SIZE = 2
    MaxEntries = 2
    MaxFailures = 1
SPECIFICATION FairSpec
INVARIANTS
    TypeOK
    ServesConnected
    ModelsConnected
    LeftOpen
    ClosingLosesNothing
PROPERTIES
    ClosedIsFlushed
CHECK_DEADLOCK FALSE
