SPECIFICATION FairSpec
CONSTANTS
    first = first
    second = second
    Deployments = {first}
    Devices <- MCDevices
    Amount <- MCAmount
    Capacity = 3
    MaxFaults = 3
INVARIANT AgentClaimsAreHeld
PROPERTY RetirementCompletes
CHECK_DEADLOCK FALSE
