SPECIFICATION Spec
CONSTANTS
    Threads = {main}
    Main = main
    Locks = {a, b}
    Kinds = {"mutex"}
    StaticLocks = {}
    StaleIds = {}
    MaxCreations = 4
    MaxDepth = 1
    Analyzers = {"lock-shadow"}
INVARIANTS
    NeverTerminates
CHECK_DEADLOCK FALSE
