SPECIFICATION FairSpec
CONSTANTS
  Buffers <- AllBuffers
  NSets = 3
  NWays = 3
  NULL = NULL
  Data = Data
INVARIANTS TypeOK ListsAgree ProbeExact
PROPERTIES ProbeReturns
