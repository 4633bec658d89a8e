CONSTANTS
    ZoneTable <- MCZoneTable
    Queries <- MCQueries
    Labels <- MCLabels
    MaxReply = 13
    HeaderSize = 3
    QuestionSize = 3
    RecordSizes = {1, 2}
SPECIFICATION Spec
INVARIANT EachQuestionCopied
CHECK_DEADLOCK FALSE
