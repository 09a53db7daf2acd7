SPECIFICATION Spec
CONSTANTS
    w1 = w1  w2 = w2
    Workers = {w1, w2}
    LastEvent = 2
    MaxAttempts = 2
    BatchSize = 2
    OrderedCommits = TRUE
    MaxStops = 1
    MaxRequeues = 1
INVARIANTS
    TypeOK
    CursorLeavesNothingBehind
    DeliveredIsNotified
    FailedCanBeRetried
PROPERTIES
    OutcomeStands
SYMMETRY Symmetric
