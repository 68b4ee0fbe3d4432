SPECIFICATION FairSpec
CONSTANTS
    e1 = e1
    e2 = e2
    e3 = e3
    s1 = s1
    s2 = s2
    Null = Null
    Dead = Dead
    Events = {e1, e2, e3}
    Traces = {e1, e2, e3}
    Kept = {k1, k2}
    Handles = {k1, k2, s1, s2}
    Sections <- MCSections
    Frames <- MCFrames
    Tools = {"addr2line", "atos", "none"}
    StdinRoom = 3
    StdoutRoom = 4
    MaxFailures = 2
    MaxReports = 2
INVARIANTS
    TypeOK
    RefExact
    NeverCaughtUp
    ReportOwnTraces
    WaitsOnlyBehindLate
PROPERTIES
    ReportsEnd
CHECK_DEADLOCK FALSE
