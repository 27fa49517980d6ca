SPECIFICATION MCSpec
CONSTANTS
    Subs = {s1}
    Workers = {w1, w2}
    MaxDunningFailures = 3
    Interval = 1
    MaxQueued = 1
    MaxCharges = 2
    MaxFaults = 1
    Users = {u1, u2}
    Reachable = {u1}
CHECK_DEADLOCK FALSE
INVARIANTS
    CreditsAreCharged

    
    
