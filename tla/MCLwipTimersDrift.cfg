SPECIFICATION Spec
CONSTANTS
  arp = arp
  fine = fine
  igmp = igmp
  Tcp = Tcp
  Periodic <- MCPeriodic
  Interval <- MCInterval
  ClockMod = 16
  MaxLag = 8
  MaxElapsed = 16
  Advance = {1, 3}
  LateHistory = TRUE
  AllocFails = FALSE
INVARIANT AllExpiredCalled
