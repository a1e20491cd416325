\* Both settings; the constants are those of "lease".
CONSTANTS
  s1 = s1
  s2 = s2
  Server = {s1, s2}
  Any = Any
  NotGiven = NotGiven
  Options <- MCOptions
  SERVER_ID = TRUE
  ERR_MEM = 0
  Calls = {"start", "stop", "release", "renew"}
  DHCP_COARSE_TIMER_SECS = 2
  TIMER_MAX = 7
  SECS_MAX = 31
  TRIES_MAX = 7
  SELECT_TRIES = 2
  REBIND_TRIES = 2
  REBOOT_TRIES = 1
  AGE_MAX = 8
SPECIFICATION MCSpec
INVARIANTS LeaseHeld RebindInTime
PROPERTIES GivesUp
