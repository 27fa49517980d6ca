SPECIFICATION MCSpec
CONSTANTS
    Users = {u1, u2}
    Prices = {p1}
    Providers = {mobius, other}
    Tokens = {t1, t2}
    Requests = {r1, r2}
    MaxVaults = 2
    MaxCharges = 2
    MaxFaults = 2
    SerialUsers = {u1}
    ConcurrentProviders = {mobius}
    ConcurrentTokens = {t1}
    ConcurrentVaults = 1
    Callers = {c1, c2}
    Transactions = {x1, x2, x3}
    Amounts = {1, 2, 3}
SYMMETRY Symmetry
CHECK_DEADLOCK FALSE
INVARIANTS
    OneChargePerKey
    RowIsCharged
    InactiveIsDead
    SerialActiveHasVault
    SerialChargeHasRow
    RefundsFit
