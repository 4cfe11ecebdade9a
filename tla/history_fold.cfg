SPECIFICATION Spec
CONSTANTS
    None = None
    Sweepers = {w1}
    Compactors = {c1}
    MaxSequence = 4
    SweepLimit = 3
    CompactLimit = 3
    PageLimit = 2
CHECK_DEADLOCK FALSE
PROPERTY EveryPollIsComplete
