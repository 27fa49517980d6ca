SPECIFICATION Spec
CONSTANTS
    Writers = {w1, w2}
    Writer = w1
    Sizes = {1, 2, 3}
    MaxBytes = 7
    LowMark = 6
    MaxNames = 5
    MaxCrashes = 1
    MaxFailures = 2
    Requests = {r1, r2}
    Limit = 1
    Minute = 2
    MaxLag = 1
    MaxTime = 4
    MaxServed = 5
    MaxFaults = 1
    MaxRestarts = 1
    OneRequest = r1
    Clients = {c1, c2}
    Ttls = {1}
    MaxClock = 2
    MaxSets = 2
    MaxOutages = 1
    Width = 8
    Configured = {0, 1, 2, 3, 5, 40, 60, 64, 100, 127}
    MaxAttempts = {1, 5, 12}
    DefaultInitial = 3
    DefaultMax = 50
    Files = {f1, f2, f3}
    Concurrent = 2
    Delay = TRUE
CHECK_DEADLOCK FALSE
INVARIANTS
    SmallIsStored
    WindowLimit
    HitIsFresh
    DoublesUpToMax
PROPERTIES
    ImplementsTally
