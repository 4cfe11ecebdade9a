SPECIFICATION FairSpec
CONSTANTS
    Nodes = {n1, n2}
    Policies <- OneOrAll
    MaxRollouts = 3
    MaxFaults = 2
INVARIANTS
    InstalledIsPhysical
    FailedSnapshotIsGone
PROPERTIES
    RollbackIsInformed
    RollbackEnds
CHECK_DEADLOCK FALSE
