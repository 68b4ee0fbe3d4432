SPECIFICATION Spec
CONSTANTS
    Threads = {main, t1}
    Main = main
    Locks = {a, b}
    Kinds = {"mutex", "rwlock"}
    StaticLocks = {}
    StaleIds = {junk}
    MaxCreations = 4
    MaxDepth = 1
    Analyzers = {"lock-shadow", "mutex-lock-order"}
SYMMETRY LockSymmetry
INVARIANTS
    LogExclusive
    OrderComplete
    ShadowExact
CHECK_DEADLOCK FALSE
