SPECIFICATION Spec
CONSTANTS
    Adds = {a}
    Sales = {s}
    ApiSales = {}
    Renewals = {}
    Workers = {w1, w2}
    MaxDeliveries = 2
    MaxFaults = 0
CHECK_DEADLOCK FALSE
INVARIANTS
    CreditedOnce
