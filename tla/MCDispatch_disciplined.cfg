CONSTANTS
    Mandates = {m1}
    Requests = {r1}
    Dispatchers = {d1, d2}
    Operators = {o1, o2}
    Deployments = {g1}
    NoDeployment = noDeployment
    NoJob = noJob
    ReserveVersions = {1}
    OperatorVersions = {3}
    MayFail = TRUE
SPECIFICATION FairSpec
INVARIANTS
    TypeOK
    OneConcurrentWinner
    QuarantineIsReconcilable
    UnknownReceiptIsFinal
    NoSimulatedSuccess
    DispatchedWasApproved
    SettledIsJournaled
PROPERTIES
    Lifecycle
    ReservedSettles
\* Every caller may have returned for good, and requests may be rejected.
CHECK_DEADLOCK FALSE
