CONSTANTS
    x = x
    y = y
    e = e
    i = i
    k = k
    Worker = {w1, w2}
    Owner = {w1, w2}
    Call = {c1, c2}
    Arg = {x, y}
    Trailing = {e}
    Inner = {i}
    Control = {k}
    Kept <- KeptOf
    MaxMocks = 2
    MaxBinaries = 2
    Args <- Lists
    NL = NL
    Garbage = Garbage
    Path <- SomePaths
    LeafOf <- Leaves
    Unwritable = {"dir/"}
    Name <- Names
    KeyOf <- Keys
    Text = {"p", "q"}
    MaxCalls = 3
    MaxRestarts = 1
SPECIFICATION MCSpec
CHECK_DEADLOCK FALSE
SYMMETRY Symmetric
INVARIANTS
    ReadHonest
    OrderlyCallsRead
    OverlapNoticed
    MockFileReads
    MockFilesCleaned
    SnapshotVerdict
