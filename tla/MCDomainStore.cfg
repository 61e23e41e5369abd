SPECIFICATION Spec
CONSTANTS
    Editors = {e1, e2}
    Readers = {r1}
    Ids = {i1}
    Values = {v1, v2}
    Overrides = {o0, o1}
    NoOverrides = o0
    Addr = {a1, a2, a3, a4}
    NoValue = NoValue
    NoAddr = NoAddr
    NoEditor = NoEditor
    RetryFailed = FALSE
SYMMETRY Symmetry
INVARIANTS
    LookupIsolation
PROPERTIES
    NoLostUpdate
    PublishOutdatesOthers
    ImplementsRegistry
