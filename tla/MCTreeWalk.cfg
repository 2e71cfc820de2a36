SPECIFICATION Spec
CONSTANTS
    Dirs = {r, a, b}
    Root = r
    Depths = {NoLimit, 1, 2}
    NoLimit = NoLimit
    Nears = {NoLimit, 0, 1, 2}
    TreeWalkLimit = 5
    MaxEntries = 3
INVARIANTS
    NothingIsNothing
    HitIsReal
    LimitIsReal
SYMMETRY Symmetry
CHECK_DEADLOCK FALSE
