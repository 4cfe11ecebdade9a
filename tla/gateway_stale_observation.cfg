SPECIFICATION FairSpec
CONSTANTS
    Nodes = {n1, n2}
    Policies <- OneOrAll
    MaxRollouts = 3
    MaxFaults = 2
INVARIANT ObservationIsCurrent
CHECK_DEADLOCK FALSE
