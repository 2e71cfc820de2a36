SPECIFICATION FairSpec
CONSTANTS
    Writers = {w1, w2}
    MaxRecords = 2
    None = None
INVARIANTS
    LoggedIsWritten
    LinesWhole
    WrittenOnce
PROPERTY
    LogReturns
CHECK_DEADLOCK FALSE
