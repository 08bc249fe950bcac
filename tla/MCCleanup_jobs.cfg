SPECIFICATION FairSpec
CONSTANTS
    j1 = j1
    j2 = j2
    Jobs <- TwoJobs
    Limit = 0
    UtcOffset = 0
    Settings <- Projects
INVARIANTS TypeOK YoungJobsWork
PROPERTY OrphansGo
