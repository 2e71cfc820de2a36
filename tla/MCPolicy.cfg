SPECIFICATION Spec
CONSTANT
    MaxWords = 2
INVARIANTS
    OnlyCleanPasses
    TaintedGetsNoWayOut
    LiftIsClean
    TableIsRight
