SPECIFICATION SectionsSpec
CONSTANTS
    Threads = {main}
    Main = main
    Locks = {a, b, c}
    Kinds = {"mutex"}
    StaticLocks = {}
    StaleIds = {}
    MaxCreations = 4
    MaxDepth = 1
    Analyzers = {"lock-shadow"}
INVARIANTS
    ReportedByRule
CHECK_DEADLOCK FALSE
