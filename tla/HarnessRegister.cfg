CONSTANTS
    Plugin = {p, q}
    Broken = {missing}
    NoPlugin = NoPlugin
    MaxDepth = 3
    MaxCalls = 3
SPECIFICATION Spec
CHECK_DEADLOCK FALSE
SYMMETRY Symmetric
INVARIANTS
    OwnRegister
