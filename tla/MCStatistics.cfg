SPECIFICATION FairSpec
CONSTANTS
    NumPipelines = 2
    MaxEvents = 2
    MaxGets = 2
    MaxTasks = 3
INVARIANTS
    Conserved
PROPERTIES
    ReportsGrow
    TotalsCatchUp
