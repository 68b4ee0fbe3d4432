SPECIFICATION ExecFairSpec
CONSTANTS
    BufferCap = 2
    MaxRecords = 5
    Char = {"*", "-", "a"}
    Names <- MCNames
    CommandLines <- MCCommandLines
    MaxFound = 1
INVARIANTS
    TypeOK
    HandledInOrder
    DoneSawEverything
    CorruptJustified
    SearchTypeOK
    TableCorrect
    LastRuleDecides
PROPERTIES
    AlwaysEnds
CHECK_DEADLOCK FALSE
