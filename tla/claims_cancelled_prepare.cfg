SPECIFICATION Spec
CONSTANTS
    first = first
    second = second
    Deployments = {first}
    Devices <- MCDevices
    Amount <- MCAmount
    Capacity = 3
    MaxFaults = 1
INVARIANT EveryPreparedClaimIsHeld
CHECK_DEADLOCK FALSE
