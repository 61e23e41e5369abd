SPECIFICATION Spec
CONSTANTS
    MaxAdapters = 3
    MaxBlocks = 3
CHECK_DEADLOCK FALSE
INVARIANTS
    InnermostFirst
PROPERTIES
    KeepsThePromise
