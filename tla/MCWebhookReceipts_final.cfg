CONSTANTS
    Deliveries = {w1, w2, w3}
    Deployments = {g1}
    States = {"success", "failure", "error"}
    MaxTime = 1
    Handlers = {h1, h2}
    NoEvent = noEvent
    NoReceipt = noReceipt
    NoDelivery = noDelivery
    MayFail = FALSE
    MayRestart = FALSE
SPECIFICATION FairSpec
PROPERTIES
    ReceiptIsFinal
    LinkedEndIsReceipted
\* GitHub may have made its last delivery.
CHECK_DEADLOCK FALSE
