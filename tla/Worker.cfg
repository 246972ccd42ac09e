CONSTANTS
    MaxFiles = 3
    MaxTests = 4
SPECIFICATION Spec
CHECK_DEADLOCK FALSE
INVARIANTS
    ExitCodeHonest
    EveryFileRuns
    CoverageFinal
