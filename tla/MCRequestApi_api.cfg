CONSTANTS
    Requests = {r1, r2}
    Callers = {c1, c2}
    Intents = {i1, i2}
    NoIntent = noIntent
    NoDecision = noDecision
    NoJob = noJob
    DecideVersions = {1}
    RevokeVersions = {2}
    MayFail = TRUE
    Keys = {k1, k2, k3}
    MaxPosts = 2
    NoBody = noBody
    NoKey = noKey
SPECIFICATION ApiSpec
SYMMETRY Symmetry
INVARIANTS
    DecisionMatchesStatus
    DecidedIsOnRecord
    ToldIsOnRecord
    ClientErrorDidNothing
    EffectOncePerKey
PROPERTY Lifecycle
\* Every client may have made its last post.
CHECK_DEADLOCK FALSE
