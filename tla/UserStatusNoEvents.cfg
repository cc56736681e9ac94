CONSTANTS
    Users = {u1}
    Conns = {c1}
    NoUser = NoUser
    NoConn = NoConn
    MaxInFlight = 1
    MaxCrashes = 0
    MaxErrors = 0
    KeyspaceEvents = FALSE
    Pipelined = FALSE
SPECIFICATION FairSpec
PROPERTIES
    AbandonedGoesOffline
