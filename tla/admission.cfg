SPECIFICATION FairSpec
CONSTANTS
  c1 = c1
  c2 = c2
  c3 = c3
  Caller = {c1, c2, c3}
  Priority <- Mixed
  MaxInFlight = 2
  Reserved = 1
  Threshold = 2
  CircuitOpen = 1
  Delays = {1, 2}
  AgingInterval = 1
  RecoveryInterval = 2
  MaxLate = 1
  MaxGeneration = 1
INVARIANTS
  SlotsAreLeased
  ForegroundKeepsItsSlots
  NoLostWakeup
PROPERTIES
  SilenceIsKept
  LateSuccessIsIgnored
  RecoveryIsPaced
  ForegroundIsServed
