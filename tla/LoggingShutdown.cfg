CONSTANTS
    BUFFER_SIZE = 2
    MaxEntries = 3
    MaxFailures = 0
SPECIFICATION Spec
INVARIANTS
    FlushedAtShutdown
CHECK_DEADLOCK FALSE
