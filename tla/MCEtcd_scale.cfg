SPECIFICATION FairSpec
CONSTANTS
    e1 = e1
    e2 = e2
    e3 = e3
    e4 = e4
    e5 = e5
    Hosts <- Five
    InitialMembers <- Three
    Matches <- Overlapping
    EventsCluster = FALSE
    MaxRuns = 6
    MaxFaults = 3
    MaxCrashes = 0
    MaxGlitches = 0
CHECK_DEADLOCK FALSE
INVARIANTS QuorumKept ScaleUpSucceeds
PROPERTIES GrowsByMembership AllMembersRun
