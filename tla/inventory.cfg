SPECIFICATION FairSpec
CONSTANTS
    None = None
    Contents = {small, large}
    Loops = {commands, heartbeats}
    MaxClock = 1
    MaxChanges = 3
    MaxFaults = 2
INVARIANTS ConfirmedIsStored RefusedBatchWasOvertaken
PROPERTIES HistoryIsImmutable FleetLearnsCapacity
