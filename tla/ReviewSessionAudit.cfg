CONSTANTS
    k1 = k1
    k2 = k2
    Calls = {c1, c2, c3, c4}
    Actions = {a1, a2}
    Cards = {k1, k2}
    Selections <- OneOrBoth
    Openings <- Continue
    NoRequest = NoRequest
    MaxVersion = 1
SPECIFICATION Spec
SYMMETRY Symmetric
INVARIANT CompletedIsCounted
CHECK_DEADLOCK FALSE
