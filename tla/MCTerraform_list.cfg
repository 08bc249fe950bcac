SPECIFICATION Spec
CONSTANTS
    Files <- TwoFiles
    Contents <- TwoClusters
    Depth <- Nesting
    Numerals <- Digits
    SplitGroups <- Split
    Sanitized <- Clean
    Unbracketed <- Strip
    MaxWrites = 2
INVARIANTS TypeOK SteadyListed NothingInvented
PROPERTY FailsForCause
