SPECIFICATION Spec
CONSTANTS
  Drafts <- HastyDrafts
  LeaseDuration = 1
  ClockOffset = 0
  MaxBatch = 1
  MaxLag = 0
  MaxTime = 2
  MaxFaults = 1
  FaultHorizon = 3
  Events = {}
INVARIANTS
  ExpiredWasNotRun
