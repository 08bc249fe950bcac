SPECIFICATION Spec
CONSTANTS
    IPs <- Machines
    NoIP = 0
    MaxId = 5
    HostNames <- Names
    Requests <- Edits
    Documents <- Loads
    KubeControlHosts = 1
    ScaleThreshold = 4
    MassiveScaleThreshold = 5
CHECK_DEADLOCK FALSE
INVARIANTS TypeOK WellFormed EtcdSize
PROPERTIES RolesKept KeepsHosts
