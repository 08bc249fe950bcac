SPECIFICATION FairSpec
CONSTANTS
    ns = ns
    deploy = deploy
    role = role
    binding = binding
    Objects <- Apps
    NamespaceOf <- Namespaces
    Replaced <- Deployments
    Play <- AppsPlay
    MaxOutages = 1
    MaxOthers = 1
    MaxFaults = 1
INVARIANTS TypeOK AppliedThere AbsentGone Deployed
PROPERTY Converges
