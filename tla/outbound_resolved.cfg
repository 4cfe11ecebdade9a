SPECIFICATION FairSpec
CONSTANTS
  Consumers = {c1, c2}
  MaximumProviderAttempts = 1
  ReservationLease = 1
  OutcomeWindow = 1
  RetryAfter = 1
  Revocable = TRUE
  Operated = TRUE
  MaxFaults = 1
  MaxStalls = 1
  None = None
PROPERTY ResolvedIsSettled
CHECK_DEADLOCK FALSE
