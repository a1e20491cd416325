SPECIFICATION FairSpec
CONSTANTS
  FSM_DEFMAXCONFREQS = 4
  FSM_DEFMAXTERMREQS = 2
  FSM_DEFMAXNAKLOOPS = 2
  PPP_DEFMRU = 296
  PPP_MINMRU = 128
  PPP_MRU = 1500
  CtlChars = {0, 1}
  lcp_loopbackfail = 3
  MAX_SLOTS = 4
  CHAP_DEFTRANSMITS = 2
  UPAP_MAXTRANSMITS = 2
  lcp_echo_fails = 2
  Losses = 1
  Earlies = 1
  Echoes = 1
INVARIANTS InterfaceSound Agreement
PROPERTY LinkProgress
CHECK_DEADLOCK FALSE
