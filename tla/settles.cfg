SPECIFICATION FairSpec
CONSTANTS
  Drafts <- RestoreDrafts
  LeaseDuration = 1
  ClockOffset = 0
  MaxBatch = 1
  MaxLag = 0
  MaxTime = 3
  MaxFaults = 1
  FaultHorizon = 1
  Events = {}
INVARIANTS
  OnlyClaimedIsRefused
PROPERTIES
  EveryCommandSettles
