SPECIFICATION Spec
CONSTANTS
  Consumers = {c1, c2}
  MaximumProviderAttempts = 2
  ReservationLease = 1
  OutcomeWindow = 1
  RetryAfter = 1
  Revocable = TRUE
  Operated = TRUE
  MaxFaults = 1
  MaxStalls = 2
  None = None
INVARIANT NoCallBeyondReceipt
CHECK_DEADLOCK FALSE
