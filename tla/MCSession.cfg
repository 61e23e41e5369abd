SPECIFICATION Spec
CONSTANTS
    p = p
    q = q
    Parsers = {p, q}
    NoParser = NoParser
    Builtin <- TwoAndOne
    Overrides <- Lists
    MaxConfigs = 3
    MaxLogins = 3
INVARIANTS
    SessionsStayApart
PROPERTIES
    ImportRestores
    SessionsAreKept
