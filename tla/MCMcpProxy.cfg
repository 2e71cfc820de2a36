SPECIFICATION FairSpec
CONSTANTS
    Messages = {m1, m2}
    MaxServer = 2
    None = None
INVARIANTS
    
    NoLostWakeup
PROPERTIES
    OnlyAllowedReachServer
    AnsweredOrJammed
CHECK_DEADLOCK FALSE
