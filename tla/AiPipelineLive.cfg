CONSTANTS
    Requests = {r1, r2, r3}
    Users = {u1}
    Keys = {k1}
    Prints = {p1}
    NoKey = NoKey
    NoRecord = NoRecord
    NoIdent = NoIdent
    AiSlots = 1
    AiWaiting = 1
    AiFollowers = 2
    DailyLimit = 2
SPECIFICATION PatientSpec
PROPERTY EveryoneIsAnswered
CHECK_DEADLOCK FALSE
