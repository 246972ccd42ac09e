CONSTANTS
    A = A
    B = B
    Key = {A, B}
    Limits = {1, 2}
    Files <- HookFiles
    Effects <- HookEffects
    MaxTests = 4
    MaxDefers = 0
SPECIFICATION Spec
CHECK_DEADLOCK FALSE
INVARIANTS
    AfterAllLast
