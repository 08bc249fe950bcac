SPECIFICATION Spec
CONSTANTS
    m1 = m1
    m2 = m2
    w1 = w1
    w2 = w2
    w3 = w3
    Masters <- OneMaster
    Workers <- OneWorker
    Position <- Order
    BatchSize = 1
    DrainNodes = TRUE
    AlwaysCordon = FALSE
    UncordonAfterDrainFailure = TRUE
    FailIfDrainFails = TRUE
    ConfigDiffers = FALSE
    MaxRuns = 2
    MaxFaults = 1
    MaxFlaps = 0
INVARIANT UpgradedKubeletsRun
CHECK_DEADLOCK FALSE
