CONSTANTS
    k1 = k1
    k2 = k2
    Calls = {c1, c2, c3, c4}
    Actions = {a1, a2}
    Cards = {k1, k2}
    Selections <- OneOrBoth
    Openings <- Every
    NoRequest = NoRequest
    MaxVersion = 2
SPECIFICATION BoundedSpec
SYMMETRY Symmetric
INVARIANTS
    AnswersAreWhole
    StatusTellsPending
    ComesBackOnce
    CirclesNeedQuestions
    OnlyLocksStop
PROPERTY GradedWhenCurrent
CHECK_DEADLOCK FALSE
