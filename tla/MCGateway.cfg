SPECIFICATION Spec
CONSTANTS
    Gateways = {g1, g2}
    Ids = {a1, a2}
    None = None
INVARIANTS
    TypeOK
    IntentBeforeEffect
    RefusedNeverRuns
    RunsAllowedOrApproved
    AnsweredIsOnRecord
PROPERTIES
    PoisonedStaysPoisoned
    ImplementsTrail
SYMMETRY Symmetry
