SPECIFICATION FairSpec
CONSTANTS
  Thread = {root, high, low}
  Root = root
  High = high
  Low = low
  Endpoint = {highEp, lowEp, synEp}
  t_ep = highEp
  s_ep = lowEp
  syn_ep = synEp
  Idle = Idle
  NoLabel = NoLabel
  Slice = 4
  Signals = {5, 6, 7}
  DataPoints = 3
  Warmups = 1
INVARIANTS TypeOK OnlineTime
PROPERTIES StaysAligned Terminates
