CONSTANTS
    r1 = r1
    r2 = r2
    r3 = r3
    a = a
    b = b
    Request = {r1, r2}
    Target = {a, b}
    Response = {x, y}
    TargetOf <- Targets
    NotFound = NotFound
    Unanswered = Unanswered
    Free = Free
    MaxRoutes = 2
    MaxPolls = 1
SPECIFICATION FairSpec
CHECK_DEADLOCK FALSE
INVARIANTS
    TypeOK
    QuietAfterStop
PROPERTIES
    ServiceSpec
    SentIsSettled
    StopReturns
