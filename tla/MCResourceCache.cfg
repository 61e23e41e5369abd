SPECIFICATION CacheSpec
CONSTANTS
    Callers = {a, b}
    Keys = {k}
    MaxCells = 3
    MaxFetches = 3
    MaxEvictions = 1
INVARIANTS
    SharedUntilEvicted
    WarmCallsDoNotFetch
    AnswersAreUsable
PROPERTIES
    CallsReturn
CHECK_DEADLOCK FALSE
