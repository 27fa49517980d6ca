SPECIFICATION MCSpec
CONSTANTS
    Adds = {a}
    Sales = {s}
    ApiSales = {p}
    Renewals = {r}
    Workers = {w1, w2}
    MaxDeliveries = 2
    MaxFaults = 1
CHECK_DEADLOCK FALSE
INVARIANTS
    SerialCreditedOnce
    PaidIsCredited
PROPERTIES
    SaleIsRecorded
