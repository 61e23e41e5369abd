SPECIFICATION Spec
CONSTANTS
    Hosts = {h1}
    Manager = m
    Names = {n1}
    Written <- ValidRevisions
    Half = 4
    Configured <- AllButResources
    RebuildsThrow = FALSE
INVARIANTS
    FailureChangesNothing
