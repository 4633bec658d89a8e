SPECIFICATION Spec
CONSTANTS
    Pipelines = {p1}
    MaxAccepted = 2
    MaxBacklog = 1
    MaxConnections = 1
    ConnectionTimeout = 10
    IntMod = 8
    KeyMod = 64
PROPERTIES
    NotDroppedEarly
