SPECIFICATION FairSpec
CONSTANTS
  Root = root
  Trojan = trojan
  Spy = spy
  t_ep = trojanEp
  s_ep = spyEp
  syn_ep = synEp
  DataPoints = 3
  Warmups = 1
  Period = 11
  SpyOffset = 5
  Latency = 1
  IntMax = 127
  CcntRange = 65536
  Api <- MCApi
  signal = signal
  poll = poll
  NoApi = NoApi
  Foot <- MCFoot
  NoLabel = NoLabel
INVARIANTS TypeOK PrimeProbeApart LinesAgree InStep NoDrift
PROPERTIES Terminates
CHECK_DEADLOCK FALSE
