CONSTANTS
    c1 = c1
    c2 = c2
    c3 = c3
    c4 = c4
    c5 = c5
    a = a
    b = b
    l = l
    x = x
    y = y
    NoAction = NoAction
    Calls = {c1, c2, c3, c4, c5}
    Actions = {a, b}
    Cards = {l}
    Contents = {x, y}
    Requests <- Sent
    MaxCleanups = 0
SPECIFICATION Spec
INVARIANTS
    RetriesAgree
    AnswersAreReal
PROPERTY ImplementsCardStore
SYMMETRY Symmetric
CHECK_DEADLOCK FALSE
