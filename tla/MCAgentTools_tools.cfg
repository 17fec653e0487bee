CONSTANTS
    MaxRequiredContexts = 2
    MaxContextCommitments = 1
    a1 = a1
    a2 = a2
    m1 = m1
    m2 = m2
    n1 = n1
    Callers = {a1, a2}
    RepositoryIds = {1, 2}
    Names = {n1}
    AppKeys = {"k1"}
    Context <- MCContext
    MaxU64 = 9
    MaxAttempts = 2
    None = None
    Tenants = {"t1", "t2"}
    TenantOf <- MCTenantOf
    Configs <- MCConfigs
    Targets <- MCTargets
    Mandates = {m1, m2}
    Earlier <- MCEarlier
    MaxCalls = 2
    MaxRequests = 1
    MaxChanges = 1
SPECIFICATION Spec
INVARIANTS
    DeployedWasApproved
    RefusedDidNothing
    CreatedIsThere
    GateIsAdministered
\* The bound on calls ends a run.
CHECK_DEADLOCK FALSE
