CONSTANTS
    BUFFER_SIZE = 2
    MaxEntries = 5
    MaxFailures = 2
SPECIFICATION Spec
INVARIANTS
    BufferLimited
CHECK_DEADLOCK FALSE
