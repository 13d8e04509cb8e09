CONSTANTS
    Requests = {r1, r2, r3}
    Users = {u1}
    Keys = {k1}
    Prints = {p1, p2}
    NoKey = NoKey
    NoRecord = NoRecord
    NoIdent = NoIdent
    AiSlots = 1
    AiWaiting = 1
    AiFollowers = 1
    DailyLimit = 2
SPECIFICATION Spec
SYMMETRY Symmetric
INVARIANTS
    PermitsConserved
    PendingWhileOwned
    AnswersAgree
    PaidOncePerOperation
PROPERTIES
    FinalIsKept
    ImplementsSingleFlight
CHECK_DEADLOCK FALSE
