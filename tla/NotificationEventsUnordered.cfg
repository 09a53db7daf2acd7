SPECIFICATION FairSpec
CONSTANTS
    w1 = w1  w2 = w2
    Workers = {w1}
    LastEvent = 2
    MaxAttempts = 1
    BatchSize = 2
    OrderedCommits = FALSE
    MaxStops = 0
    MaxRequeues = 0
PROPERTIES
    EveryEventComesToAnOutcome
