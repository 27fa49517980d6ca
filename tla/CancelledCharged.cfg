SPECIFICATION Spec
CONSTANTS
    Subs = {s1}
    Workers = {w1, w2}
    MaxDunningFailures = 2
    Interval = 1
    MaxQueued = 1
    MaxCharges = 1
    MaxFaults = 0
CHECK_DEADLOCK FALSE
PROPERTIES
    CancelledIsNeverCharged
