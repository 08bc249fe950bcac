SPECIFICATION FairSpec
CONSTANTS
    e1 = e1
    e2 = e2
    e3 = e3
    e4 = e4
    e5 = e5
    Hosts <- Three
    InitialMembers <- NoMembers
    Matches <- Overlapping
    EventsCluster = FALSE
    MaxRuns = 7
    MaxFaults = 3
    MaxCrashes = 2
    MaxGlitches = 1
CHECK_DEADLOCK FALSE
INVARIANTS TypeOK OneCluster Assembled
PROPERTIES AllMembersRun MembershipSpec
