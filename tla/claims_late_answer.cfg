SPECIFICATION FairSpec
CONSTANTS
    first = first
    second = second
    Deployments = {first}
    Devices <- MCDevices
    Amount <- MCAmount
    Capacity = 3
    MaxFaults = 1
PROPERTY EveryRetirementCompletes
CHECK_DEADLOCK FALSE
