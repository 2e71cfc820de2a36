SPECIFICATION FairSpec
CONSTANTS
    Messages = {m1, m2}
    MaxServer = 2
    None = None
PROPERTY
    AlwaysAnswered
CHECK_DEADLOCK FALSE
