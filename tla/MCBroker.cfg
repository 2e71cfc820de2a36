SPECIFICATION BrokerSpec
CONSTANTS
    u = u  calendar = calendar  mail = mail  read = read  write = write
    list = list  send = send  delete = delete
    Subjects = {u}
    Audiences = {calendar, mail}
    Scopes = {read, write}
    Operations = {list, send, delete}
    Rules <- MCRules
    ApiOps <- MCApiOps
    Offers <- MCOffers
    Agents = {a1, a2}
    Jtis = {j1, j2}
    TTL = 2
    MaxTime = 2
    NoGrant = NoGrant
INVARIANTS
    CallsWereConsented
    CallsWithinPolicy
PROPERTY
    RevocationHolds
SYMMETRY Symmetry
