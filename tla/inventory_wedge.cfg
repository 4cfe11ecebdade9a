SPECIFICATION FairSpec
CONSTANTS
    None = None
    Contents = {small, large}
    Loops = {commands, heartbeats}
    MaxClock = 1
    MaxChanges = 2
    MaxFaults = 1
PROPERTY EveryCapacityIsLearned
