SPECIFICATION Spec
CONSTANTS
    r1 = r1
    c1 = c1
    c2 = c2
    Requests = {r1}
    Callers = {c1, c2}
    Turns = TRUE
    Budgets = {0, 1, 2}
    MaxConfigs = 2
INVARIANTS
    AffectsLaterRequests
PROPERTIES
    KeepsTheContract
CHECK_DEADLOCK FALSE
