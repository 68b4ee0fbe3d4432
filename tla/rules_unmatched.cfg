SPECIFICATION SearchSpec
CONSTANTS
    Char = {"*", "-", "a"}
    Names <- MCPlainNames
    CommandLines <- MCPlainCommandLines
    MaxFound = 1
INVARIANTS
    UnmatchedIsDisabled
CHECK_DEADLOCK FALSE
