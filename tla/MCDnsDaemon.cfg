CONSTANTS
    ZoneTable <- MCZoneTable
    Queries <- MCQueries
    Labels <- MCLabels
    MaxReply = 13
    HeaderSize = 3
    QuestionSize = 3
    RecordSizes = {1, 2}
SPECIFICATION FairSpec
INVARIANTS TypeOK CountsMatch ReplyFits GlueComplete BestMatchAnswers NameErrorOnlyInOwnZones AaIsEarned
PROPERTY EveryQueryFinishes
CHECK_DEADLOCK FALSE
