CONSTANTS
    Plugin = {p, q}
    Broken = {missing}
    NoPlugin = NoPlugin
    MaxDepth = 4
    MaxCalls = 4
SPECIFICATION Spec
CHECK_DEADLOCK FALSE
SYMMETRY Symmetric
INVARIANTS
    PhasesNest
    AnnouncedOnce
    RegisterNotLeftBehind
