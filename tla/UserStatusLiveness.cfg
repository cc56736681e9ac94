CONSTANTS
    Users = {u1}
    Conns = {c1, c2}
    NoUser = NoUser
    NoConn = NoConn
    MaxInFlight = 1
    MaxCrashes = 0
    MaxErrors = 0
    KeyspaceEvents = TRUE
    Pipelined = FALSE
SPECIFICATION FairSpec
PROPERTIES
    AnsweringStaysOnline
    ClosedIsDropped
    AbandonedGoesOffline
