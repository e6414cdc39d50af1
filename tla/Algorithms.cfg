SPECIFICATION AlgorithmSpec
CONSTANTS
  TIME_MAX = 4
  L3_THRESHOLD = 2
  CacheTime = 1
  MemoryTime = 3
  OddTimes = {1, 3, 4}
  Walks <- MCWalks
  OverheadRuns = 3
  OverheadRetries = 2
  Stub <- MCStub
  Delay = {0, 1, 2}
  OpTimes = {0, 2}
  CycleMod = 16
  ProbeSets = 3
  TEST_COUNT = 6
  VLIST_DEF_SIZE = 1
  FalseHits = 3
  FalseMisses = 2
  Footprints <- MCFootprints
  Junk = Junk
  DcSets = 2
  DcWays = 3
  AES_MSG_SIZE = 2
  PlainBytes = {0, 1}
  N_D_TESTS = 2
  Patterns <- MCPatterns
  NIL = NIL
  Targets = 2
  RECORDLEN = 9
  SEARCHLEN = 5
  ALLOWEDMISSES = 1
  GAPLEN = 3
  SPLIT = 2
  mask <- MCMask
  MinBits = 1
  KeyBits <- MCKeyBits
INVARIANTS VerdictRight CostExact SearchIsExact TableExact OwnEvidence OneRun
CHECK_DEADLOCK FALSE
