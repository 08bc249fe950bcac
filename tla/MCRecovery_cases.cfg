SPECIFICATION FairSpec
CONSTANTS
    s1 = s1
    s2 = s2
    s3 = s3
    s4 = s4
    b1 = b1
    b2 = b2
    b3 = b3
    b4 = b4
    n1 = n1
    n2 = n2
    n3 = n3
    n4 = n4
    Machines <- AllMachines
    First = s1
    Scenarios <- Breakdowns
    MaxRuns = 5
    MaxFaults = 3
    MaxGlitches = 0
CHECK_DEADLOCK FALSE
INVARIANTS TypeOK DataKept
PROPERTIES QuorumRespected HandsOver Repaired
