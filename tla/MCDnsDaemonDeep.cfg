CONSTANTS
    ZoneTable <- MCDeepZoneTable
    Queries <- MCDeepQueries
    Labels <- MCLabels
    MaxReply = 13
    HeaderSize = 3
    QuestionSize = 3
    RecordSizes = {1, 2}
SPECIFICATION FairSpec
PROPERTY EveryQueryFinishes
CHECK_DEADLOCK FALSE
