CONSTANTS
    Conns = {c1, c2}
    Answering = {c1}
    PING_INTERVAL = 10
    TTL_EXPIRATION_TIME = 15
    Lag = 0
    MaxReply = 2
    MaxWrite = 1
    MaxAck = 1
SPECIFICATION Spec
INVARIANTS
    TypeOK
    AnsweringNeverExpires
    SilentIsDropped
PROPERTIES
    AnsweringNeverDropped
