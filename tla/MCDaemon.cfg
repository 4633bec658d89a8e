SPECIFICATION FairSpec
CONSTANTS
    Workers = {w1, w2}
    FirstWorker = w1
    LogInterval = 1

    
PROPERTIES
    ProcessEnds
CHECK_DEADLOCK FALSE
