SPECIFICATION FairSpec
CONSTANTS
  DEFAULT_PORT = 6969
  U32_MAX = 10000000
  USIZE_MAX = 20000000
  Files <- MCFiles
  Contested <- MCOthers
  Reach <- MCReach
  Ports <- MCPorts
INVARIANTS TypeOK AsWritten ServesAsConfigured
PROPERTY ComesUp
