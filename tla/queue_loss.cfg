SPECIFICATION Spec
CONSTANTS
    Threads = {t1}
    NumPages = 2
    PageSize = 2
    MaxEvents = 3
    Places <- MCPlaces
INVARIANTS
    FileComplete
CHECK_DEADLOCK FALSE
