SPECIFICATION Spec
CONSTANTS
    ByteMod = 8
    Bytes = {0, 1, 2, 7}
    LegalChars = {1, 2}
    HdrSize = 6
    TailSize = 2
    MaxName = 6
    MaxQuery = 7
    Records <- MCRecords
    MaxRecords = 3
    MaxReply = 14
INVARIANTS
    QuestionInDatagram
    AcceptedIsPlain
    ParseBounded
    PointersLeadBack
    NamesReadBack
    RepeatsAreShort
    OffsetsInReply
CHECK_DEADLOCK FALSE
