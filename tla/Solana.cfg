SPECIFICATION MCSpec
CONSTANTS
    DirectIntents = {d1}
    PayIntents = {p1}
    Transfers = {t1, t2}
    Requests = {r1, r2}
    Quotes = {1}
    Trouble = {"disconnect", "rpc", "mixup", "revert", "expire", "subscribe", "unlink",
               "notice"}
    SerialQuotes = {1, 2}
    SerialTrouble = {"rpc", "subscribe", "unlink", "expire"}
    Users = {u1, u2}
    Addresses = {a1}
    MaxChallenges = 2
    Amounts = {1, 2}
    MaxInstructions = 2
SYMMETRY Symmetry
CHECK_DEADLOCK FALSE
INVARIANTS
    CreditedWasPaid
    SerialIsCredited
    VerifiedWasSigned
    AcceptedWasPaid
    BuiltIsAccepted
