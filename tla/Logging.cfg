CONSTANTS
    BUFFER_SIZE = 2
    MaxEntries = 4
    MaxFailures = 3
SPECIFICATION FairSpec
INVARIANTS
    TypeOK
    NothingVanishes
    ExactlyOnce
    OneFailureLosesNothing
    AwaitedIsStored
PROPERTIES
    DeliversEntries
    EventuallyStored
    OverlapLimitsBuffer
CHECK_DEADLOCK FALSE
