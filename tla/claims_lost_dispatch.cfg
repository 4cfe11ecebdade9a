SPECIFICATION Spec
CONSTANTS
    first = first
    second = second
    Deployments = {first, second}
    Devices <- MCDevices
    Amount <- MCAmount
    Capacity = 3
    MaxFaults = 1
INVARIANT NoUnitsShareSlots
CHECK_DEADLOCK FALSE
SYMMETRY Alike
