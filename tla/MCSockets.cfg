CONSTANTS
  Threads = {1, 2}
  Blocks = {1, 2}
  Pcbs = {1, 2}
  NUM_SOCKETS = 2
  TCPIP_MBOX_SIZE = 1
  RECVMBOX_SIZE = 1
  ACCEPTMBOX_SIZE = 2
  TCP_SND_BUF = 3
  TCP_SNDLOWAT = 1
  MaxRx = 2
  Role <- Roles
  Shuts = {"RDWR"}
  Flags = {FALSE}
  WriteLens = {4}
  ReadLens = {3}
  MaxAccepts = 1
  MaxFaults = 1
  Selectors = {t1, t2}
  Callers = {e1, e2}
  FDS = 1
  NoCb = NoCb
  Wants <- MCWants
  Events <- MCEvents
  MaxRcv = 1
  MaxCtr = 2
SPECIFICATION MCSpec
INVARIANTS CallsAnswered  WindowAccurate NoLostWakeup RefsCounted PacketsWhole
PROPERTIES CallsReturn
CHECK_DEADLOCK FALSE
