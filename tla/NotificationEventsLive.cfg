SPECIFICATION FairSpec
CONSTANTS
    w1 = w1  w2 = w2
    Workers = {w1, w2}
    LastEvent = 1
    MaxAttempts = 2
    BatchSize = 1
    OrderedCommits = TRUE
    MaxStops = 1
    MaxRequeues = 1
PROPERTIES
    EveryEventComesToAnOutcome
    KeepsOutcomes
