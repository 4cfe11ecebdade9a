SPECIFICATION FairSpec
CONSTANTS
  Events = {e1, e2}
  Relays = {r1, r2}
  Projectors = {p1}
  BatchSize = 2
  LeaseDuration = 2
  PublishTimeout = 1
  InitialBackoff = 1
  MaximumBackoff = 2
  MaxRestarts = 1
  MaxFaults = 1
  MaxStalls = 1
  Null = Null
INVARIANTS
  PublishedIsHandedOff
  TimelyRelayHoldsLease
PROPERTIES
  LeaseIsExclusive
  EveryFactIsPublished
