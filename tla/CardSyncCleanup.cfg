CONSTANTS
    c1 = c1
    c2 = c2
    c3 = c3
    c4 = c4
    c5 = c5
    a = a
    b = b
    l = l
    x = x
    y = y
    NoAction = NoAction
    Calls = {c1, c2, c3, c4}
    Actions = {a, b}
    Cards = {l}
    Contents = {x, y}
    Requests <- Edits
    MaxCleanups = 1
SPECIFICATION FairSpec
INVARIANTS
    AppliedOnce
PROPERTY EveryoneIsAnswered
CHECK_DEADLOCK FALSE
