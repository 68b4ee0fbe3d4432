SPECIFICATION FilledSpec
CONSTANTS
    Threads = {t1, t2}
    NumPages = 2
    PageSize = 2
    MaxEvents = 6
    Places <- MCPlaces
PROPERTIES
    CaptureReturns
    WorkerStops
    EventuallyWritten
CHECK_DEADLOCK FALSE
