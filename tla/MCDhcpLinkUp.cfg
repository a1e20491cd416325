\* The link changes while a lease is held.
CONSTANTS
  s1 = s1
  s2 = s2
  Server = {s1, s2}
  Any = Any
  NotGiven = NotGiven
  Options <- MCOptions
  SERVER_ID = TRUE
  ERR_MEM = 0
  Calls = {"start", "link_up"}
  DHCP_COARSE_TIMER_SECS = 2
  TIMER_MAX = 3
  SECS_MAX = 15
  TRIES_MAX = 3
  SELECT_TRIES = 1
  REBIND_TRIES = 1
  REBOOT_TRIES = 1
  AGE_MAX = 4
SPECIFICATION Spec
INVARIANT AddressGranted
