SPECIFICATION Spec
CONSTANTS
    Nodes = {n1, n2}
    Policies <- OneOrAll
    MaxRollouts = 3
    MaxFaults = 3
PROPERTY EveryMemberIsInformed
CHECK_DEADLOCK FALSE
