CONSTANTS
    Name = {n1, n2}
    Type = {t1, t2}
    NoName = NoName
    NoType = NoType
    MaxDescribes = 3
    MaxTests = 2
    MaxHooks = 1
    MaxRows = 2
SPECIFICATION MCSpec
CHECK_DEADLOCK FALSE
SYMMETRY Symmetric
INVARIANTS
    LexicalStack
    CaughtErrorsOnlyAdd
    TypeFromEnclosing
    FocusIsLexical
