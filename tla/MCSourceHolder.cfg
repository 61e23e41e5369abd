SPECIFICATION Spec
CONSTANTS
    Readers = {r1, r2}
    Setters = {s1, s2}
    Ids = {p, q}
    Types = {T}
    NoType = NoType
    MaxRev = 2
SYMMETRY Symmetry
INVARIANTS
    CachesFollowSource
    StaleOnlyThroughLateKeys
PROPERTIES
    OneCopyUntilCleared
