CONSTANTS
    Deliveries = {w1, w2, w3}
    Deployments = {g1}
    States = {"success", "failure", "pending"}
    MaxTime = 2
    Handlers = {h1, h2}
    NoEvent = noEvent
    NoReceipt = noReceipt
    NoDelivery = noDelivery
    MayFail = TRUE
    MayRestart = TRUE
SPECIFICATION Spec
SYMMETRY Symmetry
INVARIANTS
    ProcessedOnce
    ReceiptIsEvidenced
    FlaggedWhenStale
    LossIsOnRecord
\* GitHub may have made its last delivery.
CHECK_DEADLOCK FALSE
