SPECIFICATION Spec
CONSTANTS
    ByteMod = 8
    Bytes = {0, 1, 2, 7}
    LegalChars = {1, 2}
    HdrSize = 6
    TailSize = 2
    MaxName = 6
    MaxQuery = 5
    Records <- WildcardRecords
    MaxRecords = 2
    MaxReply = 14
INVARIANTS
    NamesReadBack
CHECK_DEADLOCK FALSE
