CONSTANTS
    Name = {n1}
    Type = {t1, t2}
    NoName = NoName
    NoType = NoType
    MaxDescribes = 2
    MaxTests = 1
    MaxHooks = 0
    MaxRows = 0
SPECIFICATION Spec
CHECK_DEADLOCK FALSE
SYMMETRY Symmetric
INVARIANTS
    TypeOfInnermost
