SPECIFICATION Spec
CONSTANTS
    e1 = e1
    e2 = e2
    e3 = e3
    e4 = e4
    e5 = e5
    Hosts <- Three
    InitialMembers <- One
    Matches <- Apart
    EventsCluster = FALSE
    MaxRuns = 1
    MaxFaults = 0
    MaxCrashes = 1
    MaxGlitches = 0
CHECK_DEADLOCK FALSE
SYMMETRY Alike
INVARIANT ScalingJoins
