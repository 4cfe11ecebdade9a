SPECIFICATION FairSpec
CONSTANTS
  Drafts <- HastyDrafts
  LeaseDuration = 2
  ClockOffset = 0
  MaxBatch = 1
  MaxLag = 0
  MaxTime = 4
  MaxFaults = 0
  FaultHorizon = 0
  Events = {}
PROPERTIES
  EveryAdmittedCommandSettles
