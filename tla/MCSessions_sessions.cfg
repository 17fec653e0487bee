CONSTANTS
    Users = {alice}
    Orgs = {diewan, other}
    Keys = {k1, k2}
    Clients = {c1}
    Lifetimes = {0, 2}
    Window = 1
    MaxU64 = 3
    MaxIssued = 1
    MaxRestarts = 1
    MaxSetBacks = 1
    Wanted = {"ProposeAction", "ApproveAction"}
    None = None
SPECIFICATION Spec
INVARIANTS
    AnsweredIsAudited
PROPERTIES
    AuthenticatedIsGenuine
    GrantIsOfTheDirectory
    ProductionGrantIsRecent
    PanicsOnlyAtTheEndOfTime
\* The clock ends, and no client need ask again.
CHECK_DEADLOCK FALSE
