SPECIFICATION Spec
CONSTANTS
    Requests = {r1}
    Retries = {0, 1, 2}
    MaxSwaps = 1
    Drops = TRUE
CHECK_DEADLOCK FALSE
INVARIANTS
    AnswersFromItsOwnTask
PROPERTIES
    KeepsTheRules
    StopEnds
    RequestsEnd
