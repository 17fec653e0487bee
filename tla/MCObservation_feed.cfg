CONSTANTS
    Receipts = {1, 2, 3}
    Gapped = {2}
    Copies = {1, 2}
    Times <- MCTimes
    Limits = {0, 1, 2, 3}
    MaxLimit = 2
    AllowLists <- MCAllowLists
    MaxFaulty = 1
    None = None
    Tenants = {"t1", "t2"}
    FeedTenant = "t1"
    Queriers = {"q1"}
    Invalid = Invalid
SPECIFICATION Spec
INVARIANTS
    HandedOutIsStable
    CompleteIsBacked
PROPERTIES
    EveryExportIsPulled
