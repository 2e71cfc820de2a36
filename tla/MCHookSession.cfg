SPECIFICATION Spec
CONSTANTS
    Calls = {c1, c2}
    Sessions = {s1}
    NoSession = NoSession
    MaxRequests = 2
    Modes = {"off", "ask"}
    MaxTroubles = 1
INVARIANTS
    TaintIsKept
    RelaxStops
    AnswerRecorded
    AskMeansYes
SYMMETRY Symmetry
CHECK_DEADLOCK FALSE
