SPECIFICATION Spec
CONSTANTS
    BufferCap = 2
    MaxRecords = 5
INVARIANTS
    LastMayBeCorrupt
CHECK_DEADLOCK FALSE
