SPECIFICATION Spec
CONSTANTS
    Calls = {c1, c2}
    Sessions = {s1}
    NoSession = NoSession
    MaxRequests = 1
    Modes = {"off"}
    MaxTroubles = 1
INVARIANT
    TaintSticks
SYMMETRY Symmetry
CHECK_DEADLOCK FALSE
