\* The input of uartdma and the clock of RTCms are bounded, so both may stop.
SPECIFICATION FairSpec
INVARIANTS HalvesInTurn CountersExact  TimeoutsKept
PROPERTIES PeriodicExact 
CHECK_DEADLOCK FALSE
