SPECIFICATION Spec
CONSTANTS
    None = None
    Sweepers = {w1}
    Compactors = {c1, c2}
    MaxSequence = 2
    SweepLimit = 2
    CompactLimit = 2
    PageLimit = 1
CHECK_DEADLOCK FALSE
INVARIANT RangesCoalesce
