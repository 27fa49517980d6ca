SPECIFICATION MCSpec
CONSTANTS
    Workers = {w1, w2}
    CCBillIds = {c1, c2}
    NMIIds = {n1}
    NoId = NoId
    MaxDunningFailures = 3
    Cycle = 2
    OneOffDays = 2
    ExtensionDays = 1
    MaxRows = 2
    MaxNow = 3
    MaxCalls = 5
SYMMETRY Symmetry
CHECK_DEADLOCK FALSE
INVARIANTS
    SerialEndHasNoWindow
    PendingHasNoWindow
    PastDueIsScheduled
PROPERTIES
    AccessOpensOnlyBySale
    AccessEndsOnlyByCancelling
