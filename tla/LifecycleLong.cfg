CONSTANTS
    A = A
    B = B
    Key = {A, B}
    Limits = {1, 2}
    Files <- LongFiles
    Effects <- LongEffects
    MaxTests = 3
    MaxDefers = 4
SPECIFICATION FairSpec
CHECK_DEADLOCK FALSE
INVARIANTS
    DefersOnceLatestFirst
    SelectedTestsSettled
PROPERTIES
    Terminates
