SPECIFICATION FairSpec
CONSTANTS
  ARP_TABLE_SIZE = 2
  ARP_MAXAGE = 2
  ARP_MAXPENDING = 2
  Host = {h1, h2, h3}
  Gateway = h3
  Mac = {m1, m2}
  Any = Any
  NULL = NULL
INVARIANTS UniqueIp RightHost NoLeak
PROPERTIES LeastDestructive PendingEnds
