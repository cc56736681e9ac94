CONSTANTS
    Users = {u1}
    Conns = {c1, c2}
    NoUser = NoUser
    NoConn = NoConn
    MaxInFlight = 2
    MaxCrashes = 0
    MaxErrors = 0
    KeyspaceEvents = TRUE
    Pipelined = FALSE
SPECIFICATION Spec
SYMMETRY Symmetry
INVARIANTS
    OnlineViewJustified
    OfflineViewJustified
    AcknowledgedIsUntracked
