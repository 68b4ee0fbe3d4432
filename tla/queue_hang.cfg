SPECIFICATION FairSpec
CONSTANTS
    Threads = {t1, t2}
    NumPages = 2
    PageSize = 1
    MaxEvents = 3
    Places <- MCPlaces
PROPERTIES
    WorkerAlwaysStops
CHECK_DEADLOCK FALSE
