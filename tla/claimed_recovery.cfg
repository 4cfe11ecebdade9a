SPECIFICATION Spec
CONSTANTS
  Drafts <- RecoveryDrafts
  LeaseDuration = 2
  ClockOffset = 0
  MaxBatch = 2
  MaxLag = 0
  MaxTime = 1
  MaxFaults = 0
  FaultHorizon = 2
  Events = {}
INVARIANTS
  NoPoisonedCommand
