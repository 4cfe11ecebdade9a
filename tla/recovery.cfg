SPECIFICATION Spec
CONSTANTS
  Drafts <- RecoveryDrafts
  LeaseDuration = 1
  ClockOffset = 0
  MaxBatch = 2
  MaxLag = 0
  MaxTime = 1
  MaxFaults = 1
  FaultHorizon = 2
  Events = {"heartbeat", "revocation"}
INVARIANTS
  OnlyClaimedIsRefused
  ObservedBeforeSettled
PROPERTIES
  RevokedStaysStopped
