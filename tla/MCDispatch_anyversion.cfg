CONSTANTS
    Mandates = {m1}
    Requests = {r1}
    Dispatchers = {d1, d2}
    Operators = {o1, o2}
    Deployments = {g1}
    NoDeployment = noDeployment
    NoJob = noJob
    ReserveVersions = {1, 2, 3}
    OperatorVersions = {3, 4}
    MayFail = TRUE
SYMMETRY Symmetry
SPECIFICATION Spec
INVARIANTS
    AtMostOneProviderCall
    JournaledBeforeDispatch
    SpentMeansSent
\* Every caller may have returned for good, and requests may be rejected.
CHECK_DEADLOCK FALSE
