SPECIFICATION Spec
CONSTANTS
    m1 = m1
    m2 = m2
    w1 = w1
    w2 = w2
    w3 = w3
    Masters <- OneMaster
    Workers <- TwoWorkers
    Position <- Order
    BatchSize = 2
    DrainNodes = TRUE
    AlwaysCordon = FALSE
    UncordonAfterDrainFailure = TRUE
    FailIfDrainFails = TRUE
    ConfigDiffers = TRUE
    MaxRuns = 2
    MaxFaults = 1
    MaxFlaps = 1
INVARIANT AtMostOneBatchCordoned
INVARIANT DrainedWhileUpgraded
CHECK_DEADLOCK FALSE
INVARIANT AdminCordonsKept
INVARIANT Converged
