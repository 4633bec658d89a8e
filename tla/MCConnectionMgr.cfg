SPECIFICATION FairSpec
CONSTANTS
    Pipelines = {p1}
    MaxAccepted = 2
    MaxBacklog = 1
    MaxConnections = 1
    ConnectionTimeout = 4
    IntMod = 8
    KeyMod = 64
INVARIANTS
    TypeOK
    SessionOwnsConnection
    EntriesHaveSessions
    DeadAreClosed
    OpenSocketBound
    ClosedSocketWakes
PROPERTIES
    AnswerKeepsAlive
    StalledReadersEnd
    NoEndlessWait
    DeadAreReclaimed
