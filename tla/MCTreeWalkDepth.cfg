SPECIFICATION Spec
CONSTANTS
    Dirs = {r, a, b, c, d}
    Root = r
    Depths = {3}
    NoLimit = NoLimit
    Nears = {NoLimit}
    TreeWalkLimit = 20
    MaxEntries = 2
INVARIANT
    NothingWithinDepth
SYMMETRY Symmetry
CHECK_DEADLOCK FALSE
