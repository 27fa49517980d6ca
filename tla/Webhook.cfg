SPECIFICATION FairSpec
CONSTANTS
    Events = {e1, e2}
    Workers = {w1, w2}
    NoEvent = NoEvent
    MaxAttempts = 2
    BatchSize = 1
    JobMaxAttempts = 2
    MaxFaults = 2
INVARIANTS
    OneWorkerPerEvent
    HandledAtMostOnce
    ProcessedIffHandled
    RetryBudget
PROPERTIES
    TerminalIsFinal
    ImplementsDelivery
    EveryEventSettles
    NothingWaitsForever
