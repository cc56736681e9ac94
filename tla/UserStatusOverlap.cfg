CONSTANTS
    Users = {u1}
    Conns = {c1}
    NoUser = NoUser
    NoConn = NoConn
    MaxInFlight = 2
    MaxCrashes = 0
    MaxErrors = 0
    KeyspaceEvents = TRUE
    Pipelined = TRUE
SPECIFICATION Spec
INVARIANTS
    AcknowledgedIsUntracked
