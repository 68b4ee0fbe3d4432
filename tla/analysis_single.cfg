SPECIFICATION Spec
CONSTANTS
    Threads = {main, t1}
    Main = main
    Locks = {a}
    Kinds = {"mutex", "rec_mutex", "rwlock"}
    StaticLocks = {}
    StaleIds = {junk}
    MaxCreations = 4
    MaxDepth = 2
    Analyzers = {"useless-lock", "redundant-rwlock", "redundant-recursive-mutex"}
INVARIANTS
    TypeOK
    DatabaseKnowsLive
    NeverTerminates
    UselessExact
    RwExact
    RecExact
PROPERTIES
    ThreadsStayKnown
CHECK_DEADLOCK FALSE
