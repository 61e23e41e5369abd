SPECIFICATION Spec
CONSTANTS
    Hosts = {h1}
    Manager = m
    Names = {n1}
    Written <- NegativeToo
    Half = 4
    Configured <- AllButResources
    RebuildsThrow = TRUE
INVARIANTS
    WholeBetweenCalls
    MirrorsFollowRouting
PROPERTIES
    RegistrationsSurvive
