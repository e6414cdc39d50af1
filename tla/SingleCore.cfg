SPECIFICATION SingleFairSpec
CONSTANTS
  Thread = {root, trojan, spy}
  Root = root
  Trojan = trojan
  Spy = spy
  Endpoint = {trojanEp, spyEp, synEp}
  t_ep = trojanEp
  s_ep = spyEp
  syn_ep = synEp
  Idle = Idle
  NoLabel = NoLabel
  Slice = 7
  DataPoints = 5
  Warmups = 2
  Family <- AllChannels
  Units = 3
  Unset = NoLabel
INVARIANTS TypeOK ReportComplete EveryLineAgrees
PROPERTIES FreshSecrets Terminates
