SPECIFICATION Spec
CONSTANTS
  Drafts <- RetireDrafts
  LeaseDuration = 2
  ClockOffset = 1
  MaxBatch = 2
  MaxLag = 1
  MaxTime = 3
  MaxFaults = 1
  FaultHorizon = 4
  Events = {}
INVARIANTS
  ChannelTypeOK
  SettlementAgreement
  OneUnsettledCommand
  RemovalIsFinal
  ChannelInv
PROPERTIES
  DecidedIsNotRepeated
  DeliversSerially
