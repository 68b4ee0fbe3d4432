SPECIFICATION Spec
CONSTANTS
    Threads = {t1, t2}
    NumPages = 2
    PageSize = 2
    MaxEvents = 5
    Places <- MCPlaces
SYMMETRY ThreadSymmetry
INVARIANTS
    TypeOK
    UnsignedWhileHeld
    WriteOnlySigned
    NothingVanishes
    InTurnUnlessHazard
    SlotExclusive
    DumpByPlace
    ClosedComplete
PROPERTIES
    ImplementsLog
CHECK_DEADLOCK FALSE
