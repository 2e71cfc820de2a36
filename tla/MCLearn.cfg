SPECIFICATION Spec
CHECK_DEADLOCK FALSE
CONSTANTS
    cat = cat
    python = python
    script = script
    reports = reports
    web = web
    tool = tool
    other = other
    Grammar = {cat}
    Programs = {python}
    Scripts = {script}
    Args = {"a file", "two"}
    Dirs = {reports}
    Origins = {web}
    Tools = {tool}
    Other = other
    Sessions = {session, proxy}
    Hooks = {session}
    NoSession = NoSession
    Files = {f1, f2}
    Acts <- MCActs
    Policies <- MCPolicies
    MaxRequests = 2
    MaxSteps = 4
    MaxOpen = 2
INVARIANTS
    NoIsNeverYes
    TaintTeachesNothing
    ProposalBounded
    CheckIsSilent
    NarrowingKeepsUse
    ProposalSettles
SYMMETRY Symmetry
