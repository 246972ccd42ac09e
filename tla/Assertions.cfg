CONSTANTS
    Values <- SomeValues
    Results <- SomeResults
    Paths <- SomePaths
    Mocks <- SomeMocks
    CallArgs <- Args
    Spell <- Spelling
    MaxNots = 2
    Item = {"p", "q"}
    Timeouts = {0, 2, 3}
    Sleep = 2
    MaxDepth = 2
    MaxCalls = 2
    MaxTime = 6
    MaxSamples = 3
    Parts = 2
SPECIFICATION MCSpec
CHECK_DEADLOCK FALSE
INVARIANTS
    EqualIsDeep
    MatchersAgree
    AssertionsAgree
    OwnOperands
    PollHonest
    CaptureFile
