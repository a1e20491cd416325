SPECIFICATION FairSpec
CONSTANTS
  AddrLen = 2
  Nodes = 60
  Roots = 40
  Writable = TRUE
  mib_private <- MCPrivate
  Radix = 64
  Compress = 16
  ObjIdLen = 32
  public <- MCPublic
  CommunityLen = 4
  Slots <- MCSlots
  NumVarbind = 5
  NumValue = 8
  Agent = 1
  SnmpPort = 161
  TrapPort = 162
  TrapDst <- MCTrapDst
  Requests <- MCRequests
  Managers <- MCManagers
  ExtValue <- MCExtValue
  Unplug = {2}
  LoopMax = 2
  IpForward = TRUE
  DhcpPort = 68
  MaxTtl = 255
  PcbIds = {1, 2}
  PortStart = 100
  Names <- MCNames
  Addrs <- MCAddrs
  Neighbours <- MCNeighbours
  BindIps <- MCBindIps
  Ports <- MCPorts
  Packets <- MCPackets
  Queries <- MCQueries
  MaxCalls <- MCMaxCalls
  MaxSetup <- MCMaxSetup
  LeanPool <- MCLeanPool
  IfAddrs <- MCIfAddrs
INVARIANTS PoolsConserved IndexMirrors RightPcb SourceOwned GetNextLeast AnswerFits ResponseEncoded 
PROPERTIES Served
CHECK_DEADLOCK FALSE
