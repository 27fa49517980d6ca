SPECIFICATION MCSpec
CONSTANTS
    DirectIntents = {d1}
    PayIntents = {p1}
    Transfers = {t1, t2}
    Requests = {r1, r2}
    Quotes = {1}
    Trouble = {"revert"}
    Files = {f1, f2, f3}
    Concurrent = 2
    Clients = {c1}
    Ttls = {0, 1}
    MaxTime = 1
    MaxSets = 1
    MaxOutages = 1
CHECK_DEADLOCK FALSE
PROPERTIES
    
    ReplayReturns
