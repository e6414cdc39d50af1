SPECIFICATION FairSpec
CONSTANTS
  Thread = {root, a, b}
  Root = root
  A = a
  B = b
  Process = {a, b}
  Endpoint = {synEp, aEp, bEp}
  syn_ep = synEp
  a_ep = aEp
  b_ep = bEp
  Image = {0, 1}
  Master = Master
  NoKernel = NoKernel
  UntypeCount = 2
  TimerCaps = 2
  AsidPoolSlot = 4
  SchedContextSlot = 6
  FirstFreeSlot = 8
  Runs = 3
  Warmups = 2
  Alives = 2
  Tries = 2
  TickWidth = 3
  NoThread = NoThread
INVARIANTS TypeOK CallsMatchReplies RecordComplete FinishedBeforeDestroy
  FramesKnown CapsExact
PROPERTIES SetupSpec DestroyedIsDead KeepsRunning Terminates
CHECK_DEADLOCK FALSE
