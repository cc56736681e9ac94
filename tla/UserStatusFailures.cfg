CONSTANTS
    Users = {u1}
    Conns = {c1, c2}
    NoUser = NoUser
    NoConn = NoConn
    MaxInFlight = 1
    MaxCrashes = 1
    MaxErrors = 1
    KeyspaceEvents = TRUE
    Pipelined = FALSE
SPECIFICATION Spec
SYMMETRY Symmetry
INVARIANTS
    TypeOK
    NoGhostOnline
    TrackedAreGuarded
