CONSTANTS
    Mandates = {m1}
    Requests = {r1}
    Dispatchers = {d1, d2}
    Operators = {o1}
    Deployments = {g1}
    NoDeployment = noDeployment
    NoJob = noJob
    ReserveVersions = {1, 3}
    OperatorVersions = {3}
    MayFail = FALSE
SPECIFICATION FairSpec
PROPERTY SpentStaysSpent
CHECK_DEADLOCK FALSE
