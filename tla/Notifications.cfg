SPECIFICATION MCSpec
CONSTANTS
    Workers = {w1, w2}
    NoWorker = NoWorker
    Ops = {"create", "renew", "cancel", "fail", "purchase", "ccbillCancel", "ccbillExpire",
           "upgrade", "reactivate", "refund", "chargeback", "saleFailed", "userCancel"}
    MaxDunningFailures = 2
    MaxEvents = 3
    MaxFaults = 1
SYMMETRY WorkerSymmetry
CHECK_DEADLOCK FALSE
INVARIANTS
    CommittedNoticeIsTrue
    SerialNewestIsRight
PROPERTIES
    SeenIsKept
