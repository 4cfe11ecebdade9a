SPECIFICATION FairSpec
CONSTANTS
  Consumers = {c1, c2}
  MaximumProviderAttempts = 2
  ReservationLease = 1
  OutcomeWindow = 1
  RetryAfter = 1
  Revocable = TRUE
  Operated = TRUE
  MaxFaults = 1
  MaxStalls = 2
  None = None
INVARIANTS
  OneCallPerAttempt
  RetriesFollowEvidence
  RecordsAreTruthful
PROPERTIES
  RevocationAndEvidenceHold
  DeliveryIsSettled
CHECK_DEADLOCK FALSE
